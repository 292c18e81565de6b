----------------------------- MODULE Lifecycle -----------------------------
(***************************************************************************)
(* What must go on and what must end: the life of the process, the loop of  *)
(* the watchdog, and the calls over the endpoints the program reads from.  *)
(* They share no state; part says which of them moves.                     *)
(***************************************************************************)
EXTENDS Integers, FiniteSets

CONSTANTS
  Runners, MaxRuns,                          \* watchdog
  ByHand,                                    \* process
  Callers, KindsOf, EndpointCount, MaxCalls  \* endpoints

ASSUME WatchdogAssumption == MaxRuns \in Nat
ASSUME ProcessAssumption == ByHand \subseteq {"positions", "risk_events"}
(* A provider without an endpoint is not made; every method is of one kind. *)
ASSUME EndpointsAssumption ==
  /\ EndpointCount \in Nat \ {0} /\ MaxCalls \in Nat
  /\ KindsOf \in [Callers -> SUBSET {"read", "inverted", "once"}]

VARIABLES
  part,
  running, stopCh, closed, pc, mine, waits, cancelled,                 \* watchdog
  phase, step, tables, columns, store, worker, signalled, failure,     \* process
  current, client, up, dialable, call, made                            \* endpoints

Watch == INSTANCE Watchdog
Process == INSTANCE App WITH cancelled <- signalled
Endpoints == INSTANCE RoundRobin WITH Endpoints <- EndpointCount

watchVars == <<running, stopCh, closed, pc, mine, waits, cancelled>>
processVars == <<phase, step, tables, columns, store, worker, signalled, failure>>
endpointVars == <<current, client, up, dialable, call, made>>
vars == <<part, watchVars, processVars, endpointVars>>

Init ==
  /\ part \in {"process", "watchdog", "endpoints"}
  /\ Watch!Init /\ Process!Init /\ Endpoints!Init
  /\ part # "process" => tables = ByHand
  /\ part # "endpoints" => up = {} /\ dialable = {0}

Next ==
  /\ \/ part = "watchdog" /\ Watch!Next /\ UNCHANGED <<processVars, endpointVars>>
     \/ part = "process" /\ Process!Next /\ UNCHANGED <<watchVars, endpointVars>>
     \/ part = "endpoints" /\ Endpoints!Next /\ UNCHANGED <<watchVars, processVars>>
  /\ UNCHANGED part

Spec == Init /\ [][Next]_vars

(* An action of one of them, as a step of all. *)
Loops(A) == part = "watchdog" /\ A /\ UNCHANGED <<part, processVars, endpointVars>>
Lives(A) == part = "process" /\ A /\ UNCHANGED <<part, watchVars, endpointVars>>
Calls(A) == part = "endpoints" /\ A /\ UNCHANGED <<part, watchVars, processVars>>

(* All are scheduled, calls return, and select, which chooses among the ready
   cases at random, does not pass over the same ready case for ever. *)
FairSpec ==
  /\ Spec
  /\ \A r \in Runners :
       /\ WF_vars(Loops(Watch!EnterSelect(r)))
       /\ SF_vars(Loops(Watch!SeeStop(r))) /\ SF_vars(Loops(Watch!SeeCancel(r)))
  /\ WF_vars(Lives(Process!MainStep))
  /\ WF_vars(Lives(Process!ScanReturns)) /\ WF_vars(Lives(Process!Evaluated))
  /\ SF_vars(Lives(Process!ScannerRunReturns))
  /\ \A w \in Process!Workers : SF_vars(Lives(Process!WorkerStops(w)))
  /\ \A c \in Callers : WF_vars(Calls(Endpoints!CallStep(c)))

(* The types of all. *)
TypeOK == Watch!TypeOK /\ Process!TypeOK /\ Endpoints!TypeOK

(* The safety properties of Watchdog, and those of App. *)
StopsAreSafe == Watch!NoDoubleClose /\ Watch!OlderLoopsWereStopped
StoreIsUsable == Process!StoreOutlivesWorkers /\ Process!RunningHasTables

(* What must end does end: the loop that is told to stop, and the process. *)
StopsAndSignalsEnd == Watch!StopReachesWaitingLoop /\ Process!SignalEndsProcess

(* That the statements of the migration find their tables. *)
MigrationFindsTables == Process!MigrationFindsTables

(* That of RoundRobin. *)
ReadFindsHealthyEndpoint == Endpoints!ReadFindsHealthyEndpoint
=============================================================================
