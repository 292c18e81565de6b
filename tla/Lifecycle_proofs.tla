-------------------------- MODULE Lifecycle_proofs --------------------------
(***************************************************************************)
(* Proofs about Lifecycle, for any goroutines, endpoints and bounds.  Each *)
(* part has an inductive invariant of its own; a step of the composition   *)
(* is a step of one part that leaves the others alone.                     *)
(***************************************************************************)
EXTENDS Lifecycle, Sequences, FiniteSetTheorems, TLAPS

(* What a step of the composition is to each part. *)
LEMMA StepOfParts ==
  [Next]_vars =>
    /\ [Watch!Next]_watchVars
    /\ [Process!Next]_processVars
    /\ [Endpoints!Next]_endpointVars
  BY DEF Next, vars

LEMMA InitOfParts == Init => Watch!Init /\ Process!Init /\ Endpoints!Init
  BY DEF Init

-----------------------------------------------------------------------------
(* The watchdog.  A channel is closed at most once because only the current
   one is ever closed, and the flag says that it is open; a loop is of the
   current Run or was told to stop. *)
LoopsAreKnown ==
  /\ closed \subseteq 1..stopCh
  /\ \A r \in Runners : Watch!Looping(r) =>
       /\ mine[r] \in 1..stopCh
       /\ (mine[r] = stopCh /\ running) \/ mine[r] \in closed
  /\ \A r, q \in Runners :
       Watch!Looping(r) /\ Watch!Looping(q) /\ r # q => mine[r] # mine[q]

WatchInv == Watch!TypeOK /\ Watch!NoDoubleClose /\ LoopsAreKnown

LEMMA WatchInit == Watch!Init => WatchInv
<1> SUFFICES ASSUME Watch!Init PROVE WatchInv
  OBVIOUS
<1>1. Watch!TypeOK
  <2>1. 0 \in 0..MaxRuns
    BY WatchdogAssumption
  <2>2. mine \in [Runners -> 0..MaxRuns] /\ waits \in [Runners -> 0..MaxRuns]
    BY <2>1 DEF Watch!Init
  <2>3. pc \in [Runners -> {"out", "checking", "waiting"}]
    BY DEF Watch!Init
  <2> QED
    BY <2>1, <2>2, <2>3 DEF Watch!Init, Watch!TypeOK
<1>2. Watch!NoDoubleClose /\ LoopsAreKnown
  BY DEF Watch!Init, Watch!NoDoubleClose, LoopsAreKnown, Watch!Looping
<1> QED
  BY <1>1, <1>2 DEF WatchInv

(* Run needs a lowered flag, and so all loops there are have been told to stop. *)
LEMMA RunKeepsWatch ==
  ASSUME WatchInv, NEW r \in Runners, Watch!Run(r)
  PROVE  WatchInv'
<1> USE WatchdogAssumption DEF Watch!Run, Watch!Looping
<1>1. /\ stopCh \in 0..MaxRuns /\ closed \subseteq 1..stopCh
      /\ mine \in [Runners -> 0..MaxRuns]
      /\ pc \in [Runners -> {"out", "checking", "waiting"}]
  BY DEF WatchInv, Watch!TypeOK, LoopsAreKnown
<1>2. Watch!TypeOK'
  BY <1>1 DEF WatchInv, Watch!TypeOK
<1>3. Watch!NoDoubleClose'
  BY <1>1 DEF Watch!NoDoubleClose
<1>4. closed' \subseteq 1..stopCh'
  BY <1>1
<1>5. \A q \in Runners : Watch!Looping(q)' /\ q # r =>
        Watch!Looping(q) /\ mine'[q] = mine[q] /\ mine[q] \in closed
  BY <1>1 DEF WatchInv, LoopsAreKnown
<1>6. mine'[r] = stopCh' /\ running' /\ stopCh' \notin closed /\ stopCh' \in 1..stopCh'
  BY <1>1
<1>7. LoopsAreKnown'
  BY <1>1, <1>4, <1>5, <1>6 DEF WatchInv, LoopsAreKnown
<1> QED
  BY <1>2, <1>3, <1>7 DEF WatchInv

(* Stop closes the current channel, which the flag says is open. *)
LEMMA StopKeepsWatch ==
  ASSUME WatchInv, Watch!Stop
  PROVE  WatchInv'
<1> USE WatchdogAssumption DEF Watch!Stop, Watch!Looping, WatchInv
<1>1. Watch!TypeOK' /\ Watch!NoDoubleClose'
  BY DEF Watch!TypeOK, Watch!NoDoubleClose
<1>2. LoopsAreKnown'
  BY DEF Watch!TypeOK, Watch!NoDoubleClose, LoopsAreKnown
<1> QED
  BY <1>1, <1>2

LEMMA WatchStep == WatchInv /\ [Watch!Next]_watchVars => WatchInv'
<1> SUFFICES ASSUME WatchInv, [Watch!Next]_watchVars PROVE WatchInv'
  OBVIOUS
<1>1. CASE UNCHANGED watchVars
  BY <1>1 DEF watchVars, WatchInv, Watch!TypeOK, Watch!NoDoubleClose, LoopsAreKnown,
     Watch!Looping
<1>2. CASE Watch!Stop
  BY <1>2, StopKeepsWatch
<1>3. ASSUME NEW r \in Runners, Watch!Run(r) PROVE WatchInv'
  BY <1>3, RunKeepsWatch
<1>4. ASSUME NEW r \in Runners,
             Watch!EnterSelect(r) \/ Watch!Tick(r) \/ Watch!SeeStop(r) \/ Watch!SeeCancel(r)
               \/ Watch!Cancel(r) \/ Watch!Renew(r)
      PROVE  WatchInv'
  <2> USE WatchdogAssumption DEF Watch!EnterSelect, Watch!Tick, Watch!SeeStop,
          Watch!SeeCancel, Watch!Cancel, Watch!Renew
  <2>1. Watch!TypeOK'
    BY <1>4 DEF WatchInv, Watch!TypeOK
  <2>2. /\ running' = running /\ stopCh' = stopCh /\ closed' = closed /\ mine' = mine
        /\ \A q \in Runners : Watch!Looping(q)' => Watch!Looping(q)
    BY <1>4 DEF WatchInv, Watch!TypeOK, Watch!Looping
  <2> QED
    BY <2>1, <2>2 DEF WatchInv, Watch!NoDoubleClose, LoopsAreKnown
<1> QED
  BY <1>1, <1>2, <1>3, <1>4 DEF Watch!Next, watchVars

LEMMA WatchAlways == Spec => []WatchInv
<1>1. Init => WatchInv
  BY InitOfParts, WatchInit
<1>2. WatchInv /\ [Next]_vars => WatchInv'
  BY StepOfParts, WatchStep
<1> QED
  BY <1>1, <1>2, PTL DEF Spec

LEMMA KnownLoopsAreSafe == WatchInv => StopsAreSafe
<1> SUFFICES ASSUME WatchInv PROVE StopsAreSafe
  OBVIOUS
<1>1. ASSUME NEW r \in Runners, NEW q \in Runners,
             Watch!Looping(r), Watch!Looping(q), r # q
      PROVE  mine[r] # mine[q] /\ (mine[r] < mine[q] => mine[r] \in closed)
  <2>1. /\ mine[r] \in 1..stopCh /\ mine[q] \in 1..stopCh /\ stopCh \in Nat
        /\ mine[r] = stopCh \/ mine[r] \in closed
        /\ mine[r] # mine[q]
    BY <1>1, WatchdogAssumption DEF WatchInv, LoopsAreKnown, Watch!TypeOK
  <2> QED
    BY <2>1
<1> QED
  BY <1>1 DEF WatchInv, StopsAreSafe, Watch!OlderLoopsWereStopped

(* Stop never closes a channel twice, and every loop but the latest was told
   to stop, however Run and Stop of any number of goroutines interleave. *)
THEOREM LoopsStopSafely == Spec => []StopsAreSafe
  BY WatchAlways, KnownLoopsAreSafe, PTL

-----------------------------------------------------------------------------
(* The process.  The tables of the statements that are done are there, and
   the phase says how many of them there are. *)
MigratedSoFar ==
  \A i \in 1..Len(Process!Creates) : i <= step => Process!Creates[i] \in tables

PhasesInOrder ==
  /\ phase \in {"mode", "rpc"} => step = 0
  /\ phase \in {"core", "running", "stopping"} =>
       step = Process!Statements /\ store = "open"
  /\ phase \notin {"running", "stopping"} => Process!AllDone

ProcessInv == Process!TypeOK /\ MigratedSoFar /\ PhasesInOrder

(* What the proofs need of the two lists of statements. *)
LEMMA Lists ==
  /\ Len(Process!Creates) = 6 /\ Len(Process!Adds) = 5 /\ Process!Statements = 11
  /\ Process!Altered = {"positions", "risk_events"}
  /\ \A i \in 1..5 : Process!Adds[i] \in Process!Columns
  /\ \A i \in 1..6 : Process!ColumnsOf(Process!Creates[i]) \subseteq Process!Columns
<1>1. Len(Process!Creates) = 6 /\ Len(Process!Adds) = 5
  BY DEF Process!Creates, Process!Adds
<1>2. Process!Altered = {"positions", "risk_events"}
  <2>1. \A i \in 1..5 : Process!Adds[i][1] \in {"positions", "risk_events"}
    BY DEF Process!Adds
  <2>2. Process!Adds[1][1] = "positions" /\ Process!Adds[3][1] = "risk_events"
    BY DEF Process!Adds
  <2> QED
    BY <1>1, <2>1, <2>2 DEF Process!Altered
<1>3. \A i \in 1..5 : Process!Adds[i] \in Process!Columns
  BY <1>1 DEF Process!Columns
<1>4. \A i \in 1..6 : Process!ColumnsOf(Process!Creates[i]) \subseteq Process!Columns
  BY DEF Process!ColumnsOf, Process!Columns
<1> QED
  BY <1>1, <1>2, <1>3, <1>4 DEF Process!Statements

LEMMA ProcessInit == Process!Init => ProcessInv
<1> SUFFICES ASSUME Process!Init PROVE ProcessInv
  OBVIOUS
<1>1. columns \subseteq Process!Columns
  BY DEF Process!Init, Process!Columns
<1>2. worker \in [Process!Workers ->
                   {"off", "select", "scanning", "waiting", "evaluating", "done"}]
  BY DEF Process!Init, Process!AllOff
<1>3. step \in 0..Process!Statements
  BY Lists DEF Process!Init
<1>4. tables \subseteq Process!Altered \cup {Process!Creates[i] : i \in 1..Len(Process!Creates)}
  <2>1. PICK old \in SUBSET Process!Grown : tables = old \cup ByHand
    BY DEF Process!Init
  <2>2. Process!Creates[2] = "_positions" /\ Process!Creates[4] = "_risk_events"
    BY DEF Process!Creates
  <2>3. Process!Grown \subseteq {Process!Creates[i] : i \in 1..Len(Process!Creates)}
    BY <2>2, Lists DEF Process!Grown
  <2> QED
    BY <2>1, <2>3, Lists, ProcessAssumption
<1>5. Process!TypeOK
  BY <1>4, <1>1, <1>2, <1>3 DEF Process!Init, Process!TypeOK
<1>6. MigratedSoFar /\ PhasesInOrder
  BY Lists DEF Process!Init, MigratedSoFar, PhasesInOrder, Process!AllOff, Process!AllDone
<1> QED
  BY <1>5, <1>6 DEF ProcessInv

LEMMA MigrationKeepsProcess ==
  ASSUME ProcessInv,
         Process!CreateTable \/ Process!AddColumn \/ Process!StatementFails
  PROVE  ProcessInv'
<1>1. /\ phase = "migrating" /\ step \in 0..11 /\ Process!AllDone
      /\ tables \subseteq tables' /\ columns \subseteq columns' /\ worker' = worker
  BY Lists DEF ProcessInv, Process!TypeOK, PhasesInOrder, Process!CreateTable,
     Process!AddColumn, Process!StatementFails, Process!GiveUp, Process!StatementDone,
     Process!database
<1>2. worker \in [Process!Workers ->
                   {"off", "select", "scanning", "waiting", "evaluating", "done"}]
  BY DEF ProcessInv, Process!TypeOK
<1>3. Process!AllDone'
  BY <1>1 DEF Process!AllDone
<1>4. CASE Process!CreateTable
  <2>1. step \in 0..5 /\ step' = step + 1
    BY <1>1, <1>4, Lists DEF Process!CreateTable, Process!StatementDone
  <2>2. /\ tables' = tables \cup {Process!Creates[step']}
        /\ columns' \in {columns, columns \cup Process!ColumnsOf(Process!Creates[step'])}
        /\ UNCHANGED <<phase, store, signalled, failure>>
    BY <1>4, <2>1 DEF Process!CreateTable, Process!StatementDone
  <2>3. step' \in 1..6
    BY <2>1
  <2>4. Process!TypeOK'
    <3>1. step' \in 0..Process!Statements
      BY <2>3, Lists
    <3>2. tables' \subseteq
            Process!Altered \cup {Process!Creates[i] : i \in 1..Len(Process!Creates)}
      BY <2>2, <2>3, Lists DEF ProcessInv, Process!TypeOK
    <3>3. columns' \subseteq Process!Columns
      BY <2>2, <2>3, Lists DEF ProcessInv, Process!TypeOK
    <3> QED
      BY <1>1, <1>2, <2>2, <3>1, <3>2, <3>3 DEF ProcessInv, Process!TypeOK
  <2>5. MigratedSoFar'
    BY <2>1, <2>2, Lists DEF ProcessInv, MigratedSoFar
  <2>6. PhasesInOrder'
    BY <1>1, <1>3, <2>2 DEF PhasesInOrder
  <2> QED
    BY <2>4, <2>5, <2>6 DEF ProcessInv
<1>5. CASE Process!AddColumn /\ Process!StatementDone
  <2>1. step \in 6..10 /\ step' = step + 1
    <3>1. step \in Len(Process!Creates)..(Process!Statements - 1)
      BY <1>5 DEF Process!AddColumn
    <3> QED
      BY <1>5, <3>1, Lists DEF Process!StatementDone
  <2>2. /\ columns' = columns \cup {Process!Adds[step' - 6]}
        /\ UNCHANGED <<tables, phase, store, signalled, failure>>
    <3>1. Process!Adding = Process!Adds[step' - 6]
      BY <2>1, Lists DEF Process!Adding
    <3> QED
      BY <1>1, <1>5, <2>1, <3>1 DEF Process!AddColumn, Process!StatementDone, Process!GiveUp,
         Process!database
  <2>3. step' - 6 \in 1..5 /\ step' \in 7..11
    BY <2>1
  <2>4. Process!TypeOK'
    <3>1. step' \in 0..Process!Statements
      BY <2>3, Lists
    <3>2. columns' \subseteq Process!Columns
      BY <2>2, <2>3, Lists DEF ProcessInv, Process!TypeOK
    <3> QED
      BY <1>1, <1>2, <2>2, <3>1, <3>2 DEF ProcessInv, Process!TypeOK
  <2>5. MigratedSoFar'
    BY <2>1, <2>2, Lists DEF ProcessInv, MigratedSoFar
  <2>6. PhasesInOrder'
    BY <1>1, <1>3, <2>2 DEF PhasesInOrder
  <2> QED
    BY <2>4, <2>5, <2>6 DEF ProcessInv
<1>6. ASSUME NEW reason \in {"no such table", "io"}, Process!GiveUp(reason)
      PROVE  ProcessInv'
  BY <1>1, <1>3, <1>6 DEF Process!GiveUp, ProcessInv, Process!TypeOK, MigratedSoFar,
     PhasesInOrder
<1> QED
  BY <1>4, <1>5, <1>6 DEF Process!AddColumn, Process!StatementFails

(* The steps of the main goroutine outside of the migration, but for giving up. *)
LEMMA PhasesKeepProcess ==
  ASSUME ProcessInv,
         Process!ValidateMode \/ Process!CreateProviders \/ Process!OpenStore
           \/ Process!StartWorkers \/ Process!SeeShutdown \/ Process!Exit
  PROVE  ProcessInv'
<1>1. UNCHANGED <<step, tables, columns, signalled>>
  BY DEF Process!ValidateMode, Process!CreateProviders, Process!OpenStore,
     Process!StartWorkers, Process!SeeShutdown, Process!Exit, Process!Proceed, Process!GiveUp
<1>2. MigratedSoFar'
  BY <1>1 DEF ProcessInv, MigratedSoFar
<1>3. Process!AllDone /\ worker' = worker => Process!AllDone'
  BY DEF Process!AllDone
<1>4. CASE Process!StartWorkers
  BY <1>1, <1>2, <1>4, Lists DEF Process!StartWorkers, ProcessInv, Process!TypeOK, PhasesInOrder
<1>5. CASE ~Process!StartWorkers
  <2>1. worker' = worker
    BY <1>5 DEF Process!ValidateMode, Process!CreateProviders, Process!OpenStore,
       Process!SeeShutdown, Process!Exit, Process!Proceed, Process!GiveUp
  <2>2. Process!TypeOK'
    BY <1>1, <1>5, <2>1 DEF Process!ValidateMode, Process!CreateProviders, Process!OpenStore,
       Process!SeeShutdown, Process!Exit, Process!Proceed, Process!GiveUp,
       ProcessInv, Process!TypeOK
  <2>3. PhasesInOrder'
    BY <1>1, <1>3, <1>5, <2>1 DEF Process!ValidateMode, Process!CreateProviders, Process!OpenStore,
       Process!SeeShutdown, Process!Exit, Process!Proceed, Process!GiveUp,
       ProcessInv, PhasesInOrder
  <2> QED
    BY <1>2, <2>2, <2>3 DEF ProcessInv
<1> QED
  BY <1>4, <1>5

(* A worker moves only once the workers are started, and none comes back from
   where it is done. *)
LEMMA WorkersKeepProcess ==
  ASSUME ProcessInv, NEW w \in Process!Workers,
         NEW from \in {"select", "scanning", "waiting", "evaluating"},
         NEW to \in {"select", "scanning", "waiting", "evaluating", "done"},
         Process!Moves(w, from, to)
  PROVE  ProcessInv'
<1>1. ~Process!AllDone
  BY DEF Process!Moves, Process!AllDone
<1>2. phase \in {"running", "stopping"}
  BY <1>1 DEF ProcessInv, PhasesInOrder
<1>3. Process!TypeOK'
  BY DEF Process!Moves, ProcessInv, Process!TypeOK
<1>4. MigratedSoFar' /\ PhasesInOrder'
  BY <1>2 DEF Process!Moves, ProcessInv, MigratedSoFar, PhasesInOrder
<1> QED
  BY <1>3, <1>4 DEF ProcessInv

LEMMA ProcessStep == ProcessInv /\ [Process!Next]_processVars => ProcessInv'
<1> SUFFICES ASSUME ProcessInv, [Process!Next]_processVars PROVE ProcessInv'
  OBVIOUS
<1>1. CASE UNCHANGED processVars
  BY <1>1 DEF processVars, ProcessInv, Process!TypeOK, MigratedSoFar, PhasesInOrder,
     Process!AllDone
<1>2. CASE Process!MainStep
  BY <1>2, MigrationKeepsProcess, PhasesKeepProcess DEF Process!MainStep
<1>3. CASE \/ Process!ScannerTick \/ Process!ScanAgain \/ Process!ScannerRunReturns
           \/ Process!StrategyTick \/ Process!WorkReturns
           \/ \E w \in Process!Workers : Process!WorkerStops(w)
  BY <1>3, WorkersKeepProcess DEF Process!ScannerTick, Process!ScanAgain,
     Process!ScannerRunReturns, Process!StrategyTick, Process!WorkReturns,
     Process!ScanReturns, Process!Evaluated, Process!WorkerStops, Process!Workers
<1>4. CASE Process!Signal
  BY <1>4 DEF Process!Signal, ProcessInv, Process!TypeOK, MigratedSoFar, PhasesInOrder,
     Process!AllDone
<1>5. CASE Process!Restart
  <2>1. Process!AllDone'
    BY <1>5 DEF Process!Restart, Process!AllOff, Process!AllDone
  <2>2. worker' \in [Process!Workers ->
                     {"off", "select", "scanning", "waiting", "evaluating", "done"}]
    BY <1>5 DEF Process!Restart, Process!AllOff
  <2>3. step' = 0 /\ 0 \in 0..Process!Statements
    BY <1>5, Lists DEF Process!Restart
  <2>4. Process!TypeOK'
    BY <1>5, <2>2, <2>3 DEF Process!Restart, ProcessInv, Process!TypeOK
  <2>5. MigratedSoFar'
    BY <2>3, Lists DEF MigratedSoFar
  <2>6. PhasesInOrder'
    BY <1>5, <2>1, <2>3 DEF Process!Restart, PhasesInOrder
  <2> QED
    BY <2>4, <2>5, <2>6 DEF ProcessInv
<1> QED
  BY <1>1, <1>2, <1>3, <1>4, <1>5 DEF Process!Next, processVars

LEMMA ProcessAlways == Spec => []ProcessInv
<1>1. Init => ProcessInv
  BY InitOfParts, ProcessInit
<1>2. ProcessInv /\ [Next]_vars => ProcessInv'
  BY StepOfParts, ProcessStep
<1> QED
  BY <1>1, <1>2, PTL DEF Spec

LEMMA OrderKeepsStoreUsable == ProcessInv => StoreIsUsable
<1> SUFFICES ASSUME ProcessInv PROVE StoreIsUsable
  OBVIOUS
<1>1. Process!StoreOutlivesWorkers
  BY DEF ProcessInv, PhasesInOrder, Process!StoreOutlivesWorkers
<1>2. Process!RunningHasTables
  BY Lists DEF ProcessInv, PhasesInOrder, MigratedSoFar, Process!RunningHasTables
<1> QED
  BY <1>1, <1>2 DEF StoreIsUsable

(* Whatever the process is stopped in, however often it is started again and
   whenever it is told to end, on whatever database: no worker is without an
   open store, and a store is open for work only with every table there. *)
THEOREM StoreSafe == Spec => []StoreIsUsable
  BY ProcessAlways, OrderKeepsStoreUsable, PTL

-----------------------------------------------------------------------------
(* The endpoints: the index stays within them, whoever moves it when. *)
LEMMA EndpointsInit == Endpoints!Init => Endpoints!TypeOK
<1> SUFFICES ASSUME Endpoints!Init PROVE Endpoints!TypeOK
  OBVIOUS
<1>1. 0 \in Endpoints!All /\ 0 \in 0..MaxCalls
  BY EndpointsAssumption DEF Endpoints!All
<1>2. call \in [Callers -> [at : {"idle", "asking", "dialling", "again"},
                           kind : Endpoints!MethodKinds, known : BOOLEAN,
                           endpoint : Endpoints!All, answer : {"none", "ok", "error"}]]
  BY <1>1 DEF Endpoints!Init, Endpoints!MethodKinds
<1> QED
  BY <1>1, <1>2 DEF Endpoints!Init, Endpoints!TypeOK

LEMMA EndpointsStep == Endpoints!TypeOK /\ [Endpoints!Next]_endpointVars => Endpoints!TypeOK'
<1> SUFFICES ASSUME Endpoints!TypeOK, [Endpoints!Next]_endpointVars PROVE Endpoints!TypeOK'
  OBVIOUS
<1> USE DEF Endpoints!At, Endpoints!Step, Endpoints!Returns
<1>1. CASE UNCHANGED endpointVars
  BY <1>1 DEF endpointVars, Endpoints!TypeOK
<1>2. ASSUME NEW c \in Callers, Endpoints!Call(c) PROVE Endpoints!TypeOK'
  <2>1. made' \in 0..MaxCalls
    BY <1>2, EndpointsAssumption DEF Endpoints!Call, Endpoints!TypeOK
  <2>2. PICK kind \in KindsOf[c], known \in BOOLEAN :
          call' = [call EXCEPT ![c] = [at |-> "asking", kind |-> kind, known |-> known,
                                       endpoint |-> client, answer |-> "none"]]
    BY <1>2 DEF Endpoints!Call
  <2>3. kind \in Endpoints!MethodKinds
    BY EndpointsAssumption DEF Endpoints!MethodKinds
  <2>4. call' \in [Callers -> [at : {"idle", "asking", "dialling", "again"},
                      kind : Endpoints!MethodKinds, known : BOOLEAN,
                      endpoint : Endpoints!All, answer : {"none", "ok", "error"}]]
    BY <2>2, <2>3 DEF Endpoints!TypeOK
  <2> QED
    BY <1>2, <2>1, <2>4 DEF Endpoints!Call, Endpoints!TypeOK
<1>3. ASSUME NEW c \in Callers, Endpoints!Fails(c) PROVE Endpoints!TypeOK'
  <2>1. current' \in Endpoints!All
    BY <1>3, EndpointsAssumption DEF Endpoints!Fails, Endpoints!TypeOK, Endpoints!All
  <2> DEFINE CallRecords == [at : {"idle", "asking", "dialling", "again"},
                             kind : Endpoints!MethodKinds, known : BOOLEAN,
                             endpoint : Endpoints!All, answer : {"none", "ok", "error"}]
             next == [call[c] EXCEPT !.at = "dialling", !.endpoint = current']
  <2>2. call \in [Callers -> CallRecords]
    BY DEF Endpoints!TypeOK
  <2>3. next \in CallRecords
    <3>1. PICK k \in CallRecords : k = call[c]
      BY <2>2
    <3>2. next = [k EXCEPT !.at = "dialling", !.endpoint = current']
      BY <3>1
    <3> QED
      BY <2>1, <3>2
  <2>4. call' = [call EXCEPT ![c] = next]
    BY <1>3, <2>2 DEF Endpoints!Fails
  <2>5. call' \in [Callers -> CallRecords]
    <3> HIDE DEF next, CallRecords
    <3> QED
      BY <2>2, <2>3, <2>4
  <2> QED
    BY <1>3, <2>1, <2>5 DEF Endpoints!Fails, Endpoints!TypeOK
<1>4. ASSUME NEW c \in Callers,
             \/ Endpoints!Refused(c) \/ Endpoints!Succeeds(c) \/ Endpoints!Dialled(c)
             \/ Endpoints!DialFails(c) \/ Endpoints!Again(c)
      PROVE  Endpoints!TypeOK'
  BY <1>4 DEF Endpoints!Refused, Endpoints!Succeeds, Endpoints!Dialled, Endpoints!DialFails,
     Endpoints!Again, Endpoints!TypeOK
<1>5. ASSUME NEW e \in Endpoints!All, Endpoints!Toggle(e) PROVE Endpoints!TypeOK'
  BY <1>5 DEF Endpoints!Toggle, Endpoints!TypeOK
<1> QED
  BY <1>1, <1>2, <1>3, <1>4, <1>5 DEF Endpoints!Next, Endpoints!CallStep, endpointVars

(* The values all three parts range over. *)
THEOREM TypeCorrect == Spec => []TypeOK
<1>1. Spec => []Endpoints!TypeOK
  <2>1. Init => Endpoints!TypeOK
    BY InitOfParts, EndpointsInit
  <2>2. Endpoints!TypeOK /\ [Next]_vars => Endpoints!TypeOK'
    BY StepOfParts, EndpointsStep
  <2> QED
    BY <2>1, <2>2, PTL DEF Spec
<1>2. WatchInv /\ ProcessInv /\ Endpoints!TypeOK => TypeOK
  BY DEF WatchInv, ProcessInv, TypeOK
<1> QED
  BY <1>1, <1>2, WatchAlways, ProcessAlways, PTL
=============================================================================
