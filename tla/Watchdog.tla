------------------------------ MODULE Watchdog ------------------------------
(***************************************************************************)
(* The life cycle of the monitoring loop: core/watchdog/watchdog.go.  Run  *)
(* and Stop change running and stopCh under the mutex; the loop reads the  *)
(* field stopCh without it each time it enters its select, so it waits on  *)
(* the channel that is current then.  Runners are goroutines that call     *)
(* Run, each with a context of its own.                                    *)
(***************************************************************************)
EXTENDS Integers, FiniteSets

CONSTANTS
  Runners,
  MaxRuns    \* bound on the channels ever made

VARIABLES
  running,    \* defaultWatchdog.running
  stopCh,     \* the current channel: the number of the Run that made it, or 0
  closed,     \* channels that are closed
  pc,         \* per runner: out, checking, or waiting in the select
  mine,       \* history: per runner, the channel its own Run made
  waits,      \* per runner: the channel its select was entered with
  cancelled   \* runners whose context is cancelled

vars == <<running, stopCh, closed, pc, mine, waits, cancelled>>

Looping(r) == pc[r] # "out"

-----------------------------------------------------------------------------
(* Mutant: the flag is not looked at. *)
RunAgain(r) ==
  /\ ~Looping(r) /\ stopCh < MaxRuns
  /\ running' = TRUE
  /\ stopCh' = stopCh + 1
  /\ mine' = [mine EXCEPT ![r] = stopCh + 1]
  /\ pc' = [pc EXCEPT ![r] = "checking"]
  /\ UNCHANGED <<closed, waits, cancelled>>

(* Run: returns at once when the flag is set; else it starts a loop with the
   initial checks. *)
Run(r) ==
  /\ ~Looping(r) /\ ~running /\ stopCh < MaxRuns
  /\ running' = TRUE
  /\ stopCh' = stopCh + 1
  /\ mine' = [mine EXCEPT ![r] = stopCh + 1]
  /\ pc' = [pc EXCEPT ![r] = "checking"]
  /\ UNCHANGED <<closed, waits, cancelled>>

EnterSelect(r) ==
  /\ pc[r] = "checking"
  /\ pc' = [pc EXCEPT ![r] = "waiting"]
  /\ waits' = [waits EXCEPT ![r] = stopCh]
  /\ UNCHANGED <<running, stopCh, closed, mine, cancelled>>

(* The ticker; select may take it though another case is ready, too. *)
Tick(r) ==
  /\ pc[r] = "waiting"
  /\ pc' = [pc EXCEPT ![r] = "checking"]
  /\ UNCHANGED <<running, stopCh, closed, mine, waits, cancelled>>

SeeStop(r) ==
  /\ pc[r] = "waiting" /\ waits[r] \in closed
  /\ pc' = [pc EXCEPT ![r] = "out"]
  /\ UNCHANGED <<running, stopCh, closed, mine, waits, cancelled>>

(* The flag stays set when the loop ends with its context. *)
SeeCancel(r) ==
  /\ pc[r] = "waiting" /\ r \in cancelled
  /\ pc' = [pc EXCEPT ![r] = "out"]
  /\ UNCHANGED <<running, stopCh, closed, mine, waits, cancelled>>

(* Mutants: the flag is not looked at, it is not cleared, and the channel is
   not closed. *)
StopAlways ==
  /\ running' = FALSE
  /\ closed' = closed \cup {stopCh}
  /\ UNCHANGED <<stopCh, pc, mine, waits, cancelled>>

StopLeavingFlag ==
  /\ running
  /\ closed' = closed \cup {stopCh}
  /\ UNCHANGED <<running, stopCh, pc, mine, waits, cancelled>>

StopUnheard ==
  /\ running
  /\ running' = FALSE
  /\ UNCHANGED <<closed, stopCh, pc, mine, waits, cancelled>>

Stop ==
  /\ running
  /\ running' = FALSE
  /\ closed' = closed \cup {stopCh}
  /\ UNCHANGED <<stopCh, pc, mine, waits, cancelled>>

Cancel(r) ==
  /\ r \notin cancelled
  /\ cancelled' = cancelled \cup {r}
  /\ UNCHANGED <<running, stopCh, closed, pc, mine, waits>>

(* The caller gives a runner outside of Run a fresh context. *)
Renew(r) ==
  /\ ~Looping(r) /\ r \in cancelled
  /\ cancelled' = cancelled \ {r}
  /\ UNCHANGED <<running, stopCh, closed, pc, mine, waits>>

Init ==
  /\ running = FALSE /\ stopCh = 0
  /\ closed = {} /\ cancelled = {}
  /\ pc = [r \in Runners |-> "out"]
  /\ mine = [r \in Runners |-> 0]
  /\ waits = [r \in Runners |-> 0]

Next ==
  \/ \E r \in Runners :
       Run(r) \/ EnterSelect(r) \/ Tick(r) \/ SeeStop(r) \/ SeeCancel(r)
         \/ Cancel(r) \/ Renew(r)
  \/ Stop

Spec == Init /\ [][Next]_vars

(* The loop is scheduled, and select, which chooses among the ready cases at
   random, does not pass over the same ready case for ever. *)
FairSpec ==
  Spec /\ \A r \in Runners :
            WF_vars(EnterSelect(r)) /\ SF_vars(SeeStop(r)) /\ SF_vars(SeeCancel(r))

-----------------------------------------------------------------------------
(* Types of the flag, the channels and the loops. *)
TypeOK ==
  /\ running \in BOOLEAN
  /\ stopCh \in 0..MaxRuns
  /\ closed \subseteq 1..MaxRuns
  /\ pc \in [Runners -> {"out", "checking", "waiting"}]
  /\ mine \in [Runners -> 0..MaxRuns] /\ waits \in [Runners -> 0..MaxRuns]
  /\ cancelled \subseteq Runners

(* Stop never closes a channel twice, which would panic, though any number of
   goroutines call Run and Stop. *)
NoDoubleClose == running => stopCh \in 1..MaxRuns \ closed

(* No two loops were started by the same Run, and all but the latest were
   told to stop: the flag admits a Run only after a Stop. *)
OlderLoopsWereStopped ==
  \A r, q \in Runners : Looping(r) /\ Looping(q) /\ r # q =>
    mine[r] # mine[q] /\ (mine[r] < mine[q] => mine[r] \in closed)

(* The loops of a stopped watchdog end, unless it is started again first. *)
StopReachesWaitingLoop ==
  \A r \in Runners : ~running /\ Looping(r) ~> ~Looping(r) \/ running
=============================================================================
