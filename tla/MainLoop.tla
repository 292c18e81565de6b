------------------------------ MODULE MainLoop ------------------------------
(***************************************************************************)
(* The trading pipeline, core/loop/loop.go, over the kill switch: an       *)
(* evaluation of a pool asks the gate and the allocation limits, then      *)
(* simulates, approves and opens.  The gate is asked once, at the start;   *)
(* its level may change while the evaluation is under way.                 *)
(***************************************************************************)
EXTENDS KillSwitch, FiniteSets, Functions

CONSTANTS
  Evaluators,      \* goroutines that call EvaluatePool
  TierLimit,       \* AllocationConfig: limit of each tier; 0 when not set
  MaxEvaluations   \* bound on the evaluations of one process

ASSUME EvaluatorsAssumption == IsFiniteSet(Evaluators)

(* The tiers of domain/tier.go, and "" for a pool that has not been scored. *)
Tiers == {"A", "B", "C", ""}

MaxPerPoolUSD(t) ==
  CASE t = "A" -> 1000 [] t = "B" -> 200 [] t = "C" -> 50 [] OTHER -> 0

LimitOf(t) == IF t \in DOMAIN TierLimit THEN TierLimit[t] ELSE 0

CheckAllocation(t, amount) == LimitOf(t) # 0 /\ amount <= LimitOf(t)

(* The counters of loop.Metrics. *)
Reasons == {"risk_block", "alloc_block", "simulate_fail", "approve_fail", "tx_failed"}

VARIABLES
  at,       \* per evaluator: the stage it has reached, or idle
  started,  \* EvaluatePool calls of this process
  counter,  \* loop.Metrics
  opened,   \* evaluations that returned true
  late      \* history: of these, since the gate is blocked

loopVars == <<at, started, counter, opened, late>>
allVars == <<vars, loopVars>>

UnderWay == {e \in Evaluators : at[e] # "idle"}

-----------------------------------------------------------------------------
Begin(e, stage) ==
  /\ at[e] = "idle" /\ started < MaxEvaluations
  /\ started' = started + 1
  /\ at' = [at EXCEPT ![e] = stage]

End(e, reason) ==
  /\ counter' = [counter EXCEPT ![reason] = @ + 1]
  /\ UNCHANGED <<opened, late>>

Blocked(e) ==
  /\ IsBlocked
  /\ Begin(e, "idle") /\ End(e, "risk_block")

(* Mutant: the verdict of the gate is not looked at. *)
AdmittedUnasked(e, t) ==
  /\ CheckAllocation(t, MaxPerPoolUSD(t))
  /\ Begin(e, "simulate")
  /\ UNCHANGED <<counter, opened, late>>

(* A pool is asked for the maximum of its tier, whatever it already holds. *)
Refused(e, t) ==
  /\ ~IsBlocked /\ ~CheckAllocation(t, MaxPerPoolUSD(t))
  /\ Begin(e, "idle") /\ End(e, "alloc_block")

Admitted(e, t) ==
  /\ ~IsBlocked /\ CheckAllocation(t, MaxPerPoolUSD(t))
  /\ Begin(e, "simulate")
  /\ UNCHANGED <<counter, opened, late>>

(* The stages are answered by the simulator, the approval tracker and the
   order manager, each of which may fail; an allowance that is already there
   skips the approval. *)
Passes(e, from, to) ==
  /\ at[e] = from
  /\ at' = [at EXCEPT ![e] = to]
  /\ UNCHANGED <<started, counter, opened, late>>

Fails(e, from, reason) ==
  /\ at[e] = from
  /\ at' = [at EXCEPT ![e] = "idle"]
  /\ UNCHANGED started
  /\ End(e, reason)

Simulate(e) ==
  \/ Passes(e, "simulate", "approve")
  \/ Passes(e, "simulate", "open")
  \/ Fails(e, "simulate", "simulate_fail")

EnsureApproval(e) ==
  Passes(e, "approve", "open") \/ Fails(e, "approve", "approve_fail")

Opens(e) ==
  /\ at[e] = "open"
  /\ at' = [at EXCEPT ![e] = "idle"]
  /\ opened' = opened + 1
  /\ late' = IF IsBlocked THEN late + 1 ELSE 0
  /\ UNCHANGED <<started, counter>>

(* Mutant: a failed order is not counted. *)
OpenUncounted(e) ==
  \/ Opens(e)
  \/ at[e] = "open" /\ at' = [at EXCEPT ![e] = "idle"]
       /\ UNCHANGED <<started, counter, opened, late>>

(* A failed order is counted; the feedback to the gate that follows it does
   nothing in the adapter main.go wires. *)
Open(e) == Opens(e) \/ Fails(e, "open", "tx_failed")

LoopStep ==
  /\ \E e \in Evaluators :
       \/ Blocked(e)
       \/ \E t \in Tiers : Refused(e, t) \/ Admitted(e, t)
       \/ Simulate(e) \/ EnsureApproval(e) \/ Open(e)
  /\ UNCHANGED vars

-----------------------------------------------------------------------------
LoopStart ==
  /\ at = [e \in Evaluators |-> "idle"]
  /\ started = 0 /\ opened = 0 /\ late = 0
  /\ counter = [r \in Reasons |-> 0]

LoopInit == Init /\ LoopStart

(* The gate changes while evaluations are under way. *)
GateChanges ==
  /\ GateCall \/ DatabaseFlips
  /\ late' = IF IsBlocked /\ IsBlocked' THEN late ELSE 0
  /\ UNCHANGED <<at, started, counter, opened>>

(* A new process: the evaluations under way and the counters are gone. *)
ProcessRestarts ==
  /\ Restart
  /\ at' = [e \in Evaluators |-> "idle"]
  /\ counter' = [r \in Reasons |-> 0]
  /\ started' = 0 /\ opened' = 0 /\ late' = 0

LoopNext == LoopStep \/ GateChanges \/ ProcessRestarts

LoopSpec == LoopInit /\ [][LoopNext]_allVars

-----------------------------------------------------------------------------
(* Types of the evaluations and of the counters. *)
LoopTypeOK ==
  /\ at \in [Evaluators -> {"idle", "simulate", "approve", "open"}]
  /\ started \in Nat /\ opened \in Nat /\ late \in Nat
  /\ counter \in [Reasons -> Nat]

(* All types. *)
AllTypesOK == TypeOK /\ LoopTypeOK

(* A gate that blocks stops the opening of positions: only evaluations that
   were past the gate when it did still open, so there are never more late
   positions than evaluators, however long the block lasts. *)
BlockStopsOpens == late <= Cardinality(Evaluators)

(* Every evaluation returns true or shows in exactly one counter: no failure
   is silent and none is counted twice. *)
EvaluationsAccountedFor ==
  started = opened + Cardinality(UnderWay) + SumFunctionOnSet(counter, Reasons)
=============================================================================
