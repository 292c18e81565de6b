-------------------------- MODULE MainLoop_proofs --------------------------
(***************************************************************************)
(* Proofs about the kill switch and the main loop over it, for any number  *)
(* of evaluators, any thresholds, any amounts and any limits.              *)
(***************************************************************************)
EXTENDS MainLoop, SumTheorems

-----------------------------------------------------------------------------
(* The kill switch.  That what GetKillState answers is right depends on every
   transition writing the level it assigns, in an encoding that LevelOf
   undoes. *)
IInv == TypeOK /\ TableFollowsMemory

(* Reading back a level that UpsertKillState wrote gives that level. *)
LEMMA RoundTrip == \A l \in Levels : LevelOf(l) = l
  BY DEF Levels, LevelOf

(* Every transition of the gate is SetLevel of some level. *)
LEMMA SetLevelKeepsIInv ==
  ASSUME IInv, NEW l \in Levels, SetLevel(l)
  PROVE  IInv'
<1>1. row' \in SwitchTypes /\ level' = l /\ dbUp' = dbUp /\ events' = events
  BY DEF IInv, TypeOK, SetLevel, Upsert, Levels, SwitchTypes
<1>2. synced' = (HasRepo => dbUp) /\ synced' \in BOOLEAN
  BY DEF SetLevel
<1>3. TypeOK'
  BY <1>1, <1>2 DEF IInv, TypeOK
<1>4. ASSUME HasRepo, synced'
      PROVE  LevelOf(row') = level'
  <2>1. row' = l
    BY <1>2, <1>4 DEF SetLevel, Upsert
  <2>2. QED
    BY <2>1, <1>1, RoundTrip
<1>5. TableFollowsMemory'
  BY <1>4 DEF TableFollowsMemory, LevelOf
<1>6. QED
  BY <1>3, <1>5 DEF IInv

(* What a step of the gate can be: a SetLevel, or a step that leaves the level and
   the row alone, or a restart. *)
LEMMA GateStep ==
  ASSUME Next
  PROVE  \/ \E l \in Levels : SetLevel(l)
         \/ \E id \in EventIds : RecordRiskEvent(id)
         \/ Restart
         \/ DatabaseFlips
<1>1. ASSUME NEW total \in Amounts, NEW loss \in Amounts, CheckVaR(total, loss)
      PROVE  \E l \in Levels : SetLevel(l)
  <2>1. \/ SetLevel("kill") \/ SetLevel("warn")
        \/ level \in {"warn", "freeze"} /\ SetLevel("ok")
    BY <1>1, Zenon DEF CheckVaR
  <2>2. QED
    BY <2>1 DEF Levels
<1>2. ASSUME NEW peak \in Amounts, NEW current \in Amounts,
             NEW isWeekly \in BOOLEAN, CheckDrawdown(peak, current, isWeekly)
      PROVE  \E l \in Levels : SetLevel(l)
  <2>1. SetLevel("freeze") \/ SetLevel("kill")
    BY <1>2, Zenon DEF CheckDrawdown
  <2>2. QED
    BY <2>1 DEF Levels
<1>3. ASSUME NEW exposure \in Amounts, NEW budget \in Amounts,
             CheckExposure(exposure, budget)
      PROVE  \E l \in Levels : SetLevel(l)
  BY <1>3 DEF CheckExposure, Levels
<1>4. CASE RaiseKill
  BY <1>4 DEF RaiseKill, Levels
<1>5. CASE LowerWarn
  BY <1>5 DEF LowerWarn, Levels
<1>6. QED
  BY <1>1, <1>2, <1>3, <1>4, <1>5 DEF Next, GateCall

LEMMA StepKeepsIInv == IInv /\ [Next]_vars => IInv'
<1> SUFFICES ASSUME IInv, [Next]_vars
             PROVE  IInv'
  OBVIOUS
<1>1. CASE UNCHANGED vars
  BY <1>1 DEF IInv, TypeOK, TableFollowsMemory, LevelOf, vars
<1>2. ASSUME NEW l \in Levels, SetLevel(l)
      PROVE  IInv'
  BY <1>2, SetLevelKeepsIInv
<1>3. ASSUME NEW id \in EventIds, RecordRiskEvent(id)
      PROVE  IInv'
  BY <1>3 DEF IInv, TypeOK, TableFollowsMemory, LevelOf, RecordRiskEvent
<1>4. CASE Restart
  <2>1. TypeOK'
    BY <1>4 DEF IInv, TypeOK, Restart, Levels
  <2>2. TableFollowsMemory'
    BY <1>4 DEF Restart, TableFollowsMemory, LevelOf
  <2>3. QED
    BY <2>1, <2>2 DEF IInv
<1>5. CASE DatabaseFlips
  BY <1>5 DEF IInv, TypeOK, TableFollowsMemory, LevelOf, DatabaseFlips
<1>6. QED
  BY <1>1, <1>2, <1>3, <1>4, <1>5, GateStep

LEMMA InitIInv == Init => IInv
  BY DEF Init, IInv, TypeOK, TableFollowsMemory, LevelOf, Levels, SwitchTypes

(* TypeOK is an invariant of the gate. *)
THEOREM TypeCorrect == Spec => []TypeOK
<1>1. IInv => TypeOK
  BY DEF IInv
<1>2. QED
  BY <1>1, InitIInv, StepKeepsIInv, PTL DEF Spec

(* The table agrees with the memory of the gate until a write is lost or the
   process restarts. *)
THEOREM TableFollows == Spec => []TableFollowsMemory
<1>1. IInv => TableFollowsMemory
  BY DEF IInv
<1>2. QED
  BY <1>1, InitIInv, StepKeepsIInv, PTL DEF Spec

(* A gate above ok blocks trading while its table is intact and readable. *)
THEOREM GateBlocks == Spec => []RaisedGateBlocks
<1>1. IInv => RaisedGateBlocks
  BY RepoAssumption
  DEF IInv, TypeOK, TableFollowsMemory, RaisedGateBlocks, IsBlocked, GetState,
      GetKillState
<1>2. QED
  BY <1>1, InitIInv, StepKeepsIInv, PTL DEF Spec

-----------------------------------------------------------------------------
(* The loop.  While the gate blocks, an evaluator past it can open once and
   none gets past it any more: the late opens and the evaluations under way
   together never exceed the number of evaluators.  That sum is what is
   inductive; the bound on the late opens alone is not. *)

LateOrUnderWay ==
  \/ late = 0
  \/ IsBlocked /\ late + Cardinality(UnderWay) <= Cardinality(Evaluators)

LoopIInv == LoopTypeOK /\ LateOrUnderWay

(* The evaluations under way are a finite set, no larger than Evaluators. *)
LEMMA UnderWayIsSmall ==
  /\ Cardinality(Evaluators) \in Nat
  /\ IsFiniteSet(UnderWay)
  /\ Cardinality(UnderWay) \in Nat
  /\ Cardinality(UnderWay) <= Cardinality(Evaluators)
<1>1. UnderWay \subseteq Evaluators
  BY DEF UnderWay
<1>2. QED
  BY <1>1, EvaluatorsAssumption, FS_Subset, FS_CardinalityType

(* The level of the gate decides whether it blocks; an evaluation leaves it
   alone. *)
LEMMA GateUntouched ==
  ASSUME UNCHANGED vars
  PROVE  IsBlocked' = IsBlocked
  BY DEF vars, IsBlocked, GetState, GetKillState, LevelOf

(* A stage that is passed or left for idle adds no evaluation. *)
LEMMA StageAddsNone ==
  ASSUME NEW e \in Evaluators, LoopTypeOK, at[e] # "idle", NEW stage,
         at' = [at EXCEPT ![e] = stage]
  PROVE  /\ UnderWay' = IF stage = "idle" THEN UnderWay \ {e} ELSE UnderWay
         /\ Cardinality(UnderWay') =
              IF stage = "idle" THEN Cardinality(UnderWay) - 1
              ELSE Cardinality(UnderWay)
<1>1. e \in UnderWay
  BY DEF UnderWay
<1>2. at' \in [Evaluators -> {"idle", "simulate", "approve", "open"} \cup {stage}]
        /\ \A d \in Evaluators : at'[d] = IF d = e THEN stage ELSE at[d]
  BY DEF LoopTypeOK
<1>3. UnderWay' = IF stage = "idle" THEN UnderWay \ {e} ELSE UnderWay
  BY <1>1, <1>2 DEF UnderWay
<1>4. QED
  BY <1>1, <1>3, UnderWayIsSmall, FS_RemoveElement

LEMMA LoopInitHolds == LoopInit => LoopIInv
  BY DEF LoopInit, LoopStart, LoopIInv, LoopTypeOK, LateOrUnderWay

(* An evaluation that begins, passes a stage or fails. *)
LEMMA NonOpeningStep ==
  ASSUME LoopIInv, UNCHANGED vars, NEW e \in Evaluators, NEW reason \in Reasons,
         \/ Blocked(e)
         \/ \E t \in Tiers : Refused(e, t) \/ Admitted(e, t)
         \/ \E from, to \in {"simulate", "approve", "open"} : Passes(e, from, to)
         \/ \E from \in {"simulate", "approve", "open"} : Fails(e, from, reason)
  PROVE  LoopIInv'
<1> USE DEF LoopIInv
<1>1. CASE Blocked(e)
  <2>1. at' = at /\ late' = late
    BY <1>1 DEF Blocked, Begin, End, LoopTypeOK
  <2>2. LoopTypeOK'
    BY <1>1, <2>1 DEF Blocked, Begin, End, LoopTypeOK, Reasons
  <2>3. QED
    BY <2>1, <2>2, GateUntouched DEF LateOrUnderWay, UnderWay
<1>2. ASSUME NEW t \in Tiers, Refused(e, t)
      PROVE  LoopIInv'
  <2>1. at' = at /\ late' = late
    BY <1>2 DEF Refused, Begin, End, LoopTypeOK
  <2>2. LoopTypeOK'
    BY <1>2, <2>1 DEF Refused, Begin, End, LoopTypeOK, Reasons
  <2>3. QED
    BY <2>1, <2>2, GateUntouched DEF LateOrUnderWay, UnderWay
<1>3. ASSUME NEW t \in Tiers, Admitted(e, t)
      PROVE  LoopIInv'
  <2>1. LoopTypeOK' /\ late' = late /\ ~IsBlocked
    BY <1>3 DEF Admitted, Begin, LoopTypeOK
  <2>2. QED
    BY <2>1 DEF LateOrUnderWay
<1>4. ASSUME NEW from \in {"simulate", "approve", "open"},
             NEW to \in {"simulate", "approve", "open"}, Passes(e, from, to)
      PROVE  LoopIInv'
  <2>1. LoopTypeOK' /\ late' = late
    BY <1>4 DEF Passes, LoopTypeOK
  <2>2. Cardinality(UnderWay') = Cardinality(UnderWay)
    BY <1>4, StageAddsNone DEF Passes
  <2>3. QED
    BY <2>1, <2>2, GateUntouched DEF LateOrUnderWay
<1>5. ASSUME NEW from \in {"simulate", "approve", "open"}, Fails(e, from, reason)
      PROVE  LoopIInv'
  <2>1. LoopTypeOK' /\ late' = late
    BY <1>5 DEF Fails, End, LoopTypeOK, Reasons
  <2>2. Cardinality(UnderWay') = Cardinality(UnderWay) - 1
    BY <1>5, StageAddsNone DEF Fails
  <2>3. QED
    BY <2>1, <2>2, GateUntouched, UnderWayIsSmall DEF LateOrUnderWay, LoopTypeOK
<1>6. QED
  BY <1>1, <1>2, <1>3, <1>4, <1>5

(* An open trades an evaluation under way for a late open. *)
LEMMA OpeningStep ==
  ASSUME LoopIInv, UNCHANGED vars, NEW e \in Evaluators, Opens(e)
  PROVE  LoopIInv'
<1>1. LoopTypeOK'
  BY DEF LoopIInv, LoopTypeOK, Opens
<1>2. Cardinality(UnderWay') = Cardinality(UnderWay) - 1
  BY StageAddsNone DEF LoopIInv, Opens
<1>3. late + Cardinality(UnderWay) <= Cardinality(Evaluators)
  BY UnderWayIsSmall DEF LoopIInv, LateOrUnderWay
<1>4. LateOrUnderWay'
  <2>1. CASE IsBlocked
    BY <2>1, <1>2, <1>3, GateUntouched, UnderWayIsSmall
    DEF LoopIInv, LoopTypeOK, LateOrUnderWay, Opens
  <2>2. CASE ~IsBlocked
    BY <2>2 DEF LateOrUnderWay, Opens
  <2>3. QED
    BY <2>1, <2>2
<1>5. QED
  BY <1>1, <1>4 DEF LoopIInv

LEMMA LoopStepKeepsIInv == LoopIInv /\ [LoopNext]_allVars => LoopIInv'
<1> SUFFICES ASSUME LoopIInv, [LoopNext]_allVars
             PROVE  LoopIInv'
  OBVIOUS
<1>1. CASE UNCHANGED allVars
  <2>1. UNCHANGED loopVars /\ UNCHANGED vars
    BY <1>1 DEF allVars
  <2>2. QED
    BY <2>1, GateUntouched
    DEF loopVars, LoopIInv, LoopTypeOK, LateOrUnderWay, UnderWay
<1>2. CASE LoopStep
  <2> PICK e \in Evaluators :
         \/ Blocked(e)
         \/ \E t \in Tiers : Refused(e, t) \/ Admitted(e, t)
         \/ Simulate(e) \/ EnsureApproval(e) \/ Open(e)
    BY <1>2 DEF LoopStep
  <2>1. UNCHANGED vars
    BY <1>2 DEF LoopStep
  <2>2. CASE Blocked(e) \/ \E t \in Tiers : Refused(e, t) \/ Admitted(e, t)
    BY <2>1, <2>2, NonOpeningStep DEF Reasons
  <2>3. CASE Simulate(e)
    BY <2>1, <2>3, NonOpeningStep DEF Simulate, Reasons
  <2>4. CASE EnsureApproval(e)
    BY <2>1, <2>4, NonOpeningStep DEF EnsureApproval, Reasons
  <2>5. CASE Open(e)
    BY <2>1, <2>5, NonOpeningStep, OpeningStep DEF Open, Reasons
  <2>6. QED
    BY <2>2, <2>3, <2>4, <2>5
<1>3. CASE GateChanges
  <2>1. UnderWay' = UnderWay /\ LoopTypeOK'
    BY <1>3 DEF GateChanges, UnderWay, LoopIInv, LoopTypeOK
  <2>2. (late' = late /\ IsBlocked /\ IsBlocked') \/ late' = 0
    BY <1>3 DEF GateChanges
  <2>3. QED
    BY <2>1, <2>2 DEF LoopIInv, LateOrUnderWay
<1>4. CASE ProcessRestarts
  BY <1>4 DEF ProcessRestarts, LoopIInv, LoopTypeOK, LateOrUnderWay
<1>5. QED
  BY <1>1, <1>2, <1>3, <1>4 DEF LoopNext

(* However often the gate changes its level, no more positions are opened
   during one block of the gate than there are evaluators. *)
THEOREM BlocksStopOpens == LoopSpec => []BlockStopsOpens
<1>1. LoopIInv => BlockStopsOpens
  BY UnderWayIsSmall DEF LoopIInv, LoopTypeOK, LateOrUnderWay, BlockStopsOpens
<1>2. QED
  BY <1>1, LoopInitHolds, LoopStepKeepsIInv, PTL DEF LoopSpec

(* The gate inside the loop is the gate of KillSwitch: a behaviour of the loop
   is one of the kill switch, so the theorems about the latter carry over. *)
THEOREM LoopKeepsGate == LoopSpec => Spec
<1>1. LoopInit => Init
  BY DEF LoopInit
<1>2. [LoopNext]_allVars => [Next]_vars
  <2> SUFFICES ASSUME [LoopNext]_allVars
               PROVE  [Next]_vars
    OBVIOUS
  <2>1. CASE UNCHANGED allVars
    BY <2>1 DEF allVars
  <2>2. CASE LoopStep
    BY <2>2 DEF LoopStep
  <2>3. CASE GateChanges
    BY <2>3 DEF GateChanges, Next
  <2>4. CASE ProcessRestarts
    BY <2>4 DEF ProcessRestarts, Next
  <2>5. QED
    BY <2>1, <2>2, <2>3, <2>4 DEF LoopNext
<1>3. QED
  BY <1>1, <1>2, PTL DEF LoopSpec, Spec

(* The type invariants of the gate and of the evaluations. *)
THEOREM AllTypesCorrect == LoopSpec => []AllTypesOK
<1>1. LoopIInv /\ TypeOK => AllTypesOK
  BY DEF LoopIInv, AllTypesOK
<1>2. LoopSpec => []TypeOK
  BY LoopKeepsGate, TypeCorrect, PTL
<1>3. QED
  BY <1>1, <1>2, LoopInitHolds, LoopStepKeepsIInv, PTL DEF LoopSpec

(* The blocking of a raised gate, inside the loop. *)
THEOREM LoopGateBlocks == LoopSpec => []RaisedGateBlocks
  BY LoopKeepsGate, GateBlocks, PTL

(* Inside the loop, too, the table follows the memory. *)
THEOREM LoopTableFollows == LoopSpec => []TableFollowsMemory
  BY LoopKeepsGate, TableFollows, PTL

-----------------------------------------------------------------------------
(* The counters.  Every step of an evaluation moves one unit between what is
   started, under way, opened and counted. *)
LEMMA ReasonsAreFinite == IsFiniteSet(Reasons)
<1>1. IsFiniteSet({"risk_block"})
  BY FS_Singleton
<1>2. IsFiniteSet({"risk_block"} \cup {"alloc_block"})
  BY <1>1, FS_AddElement
<1>3. IsFiniteSet({"risk_block"} \cup {"alloc_block"} \cup {"simulate_fail"})
  BY <1>2, FS_AddElement
<1>4. IsFiniteSet({"risk_block"} \cup {"alloc_block"} \cup {"simulate_fail"}
                    \cup {"approve_fail"})
  BY <1>3, FS_AddElement
<1>5. IsFiniteSet({"risk_block"} \cup {"alloc_block"} \cup {"simulate_fail"}
                    \cup {"approve_fail"} \cup {"tx_failed"})
  BY <1>4, FS_AddElement
<1>6. Reasons = {"risk_block"} \cup {"alloc_block"} \cup {"simulate_fail"}
                    \cup {"approve_fail"} \cup {"tx_failed"}
  BY DEF Reasons
<1>7. QED
  BY <1>5, <1>6

LEMMA CounterSum ==
  ASSUME LoopTypeOK PROVE SumFunctionOnSet(counter, Reasons) \in Int
<1>1. \A s \in Reasons : counter[s] \in Int
  BY DEF LoopTypeOK
<1>2. QED
  BY <1>1, ReasonsAreFinite, SumRemove

LEMMA CounterGrows ==
  ASSUME LoopTypeOK, NEW r \in Reasons, counter' = [counter EXCEPT ![r] = counter[r] + 1]
  PROVE  /\ SumFunctionOnSet(counter, Reasons) \in Int
         /\ SumFunctionOnSet(counter', Reasons) = SumFunctionOnSet(counter, Reasons) + 1
<1>1. IsFiniteSet(Reasons)
  BY ReasonsAreFinite
<1>2. PICK f : f = counter
  OBVIOUS
<1>3. PICK g : g = counter'
  OBVIOUS
<1>4. /\ \A s \in Reasons : f[s] \in Int
      /\ g[r] = f[r] + 1 /\ g[r] \in Int /\ \A s \in Reasons \ {r} : g[s] = f[s]
  BY <1>2, <1>3 DEF LoopTypeOK
<1>5. SumFunctionOnSet(f, Reasons) \in Int
  BY <1>1, <1>4, SumRemove
<1>6. SumFunctionOnSet(g, Reasons) = SumFunctionOnSet(f, Reasons) - f[r] + g[r]
  BY <1>1, <1>4, SumChange
<1>7. SumFunctionOnSet(g, Reasons) = SumFunctionOnSet(f, Reasons) + 1
  BY <1>4, <1>5, <1>6
<1>8. QED
  BY <1>2, <1>3, <1>5, <1>7

Accounted == LoopTypeOK /\ EvaluationsAccountedFor

(* An evaluation that ends where it began: it shows in the counter. *)
LEMMA AccountedAtOnce ==
  ASSUME Accounted, LoopTypeOK', NEW e \in Evaluators, NEW r \in Reasons,
         Begin(e, "idle"), End(e, r)
  PROVE  EvaluationsAccountedFor'
<1>1. UnderWay' = UnderWay
  BY DEF Accounted, LoopTypeOK, Begin, UnderWay
<1>2. /\ SumFunctionOnSet(counter', Reasons) = SumFunctionOnSet(counter, Reasons) + 1
      /\ SumFunctionOnSet(counter, Reasons) \in Int
  BY CounterGrows DEF Accounted, End
<1>3. /\ started' = started + 1 /\ opened' = opened /\ opened \in Nat
      /\ started = opened + Cardinality(UnderWay) + SumFunctionOnSet(counter, Reasons)
  BY DEF Accounted, LoopTypeOK, Begin, End, EvaluationsAccountedFor
<1>4. Cardinality(UnderWay) \in Int
  BY UnderWayIsSmall
<1>5. started' = opened' + Cardinality(UnderWay) + SumFunctionOnSet(counter', Reasons)
  BY <1>2, <1>3, <1>4
<1>6. QED
  BY <1>1, <1>5 DEF EvaluationsAccountedFor

LEMMA AccountedFailure ==
  ASSUME Accounted, NEW e \in Evaluators, NEW r \in Reasons,
         NEW from \in {"simulate", "approve", "open"}, Fails(e, from, r)
  PROVE  EvaluationsAccountedFor'
<1>1. Cardinality(UnderWay') = Cardinality(UnderWay) - 1
  BY StageAddsNone DEF Accounted, Fails
<1>2. /\ SumFunctionOnSet(counter', Reasons) = SumFunctionOnSet(counter, Reasons) + 1
      /\ SumFunctionOnSet(counter, Reasons) \in Int
  BY CounterGrows DEF Accounted, Fails, End
<1>3. /\ started' = started /\ opened' = opened /\ opened \in Nat
      /\ started = opened + Cardinality(UnderWay) + SumFunctionOnSet(counter, Reasons)
  BY DEF Accounted, LoopTypeOK, Fails, End, EvaluationsAccountedFor
<1>4. Cardinality(UnderWay) \in Int
  BY UnderWayIsSmall
<1>5. started' = opened' + Cardinality(UnderWay') + SumFunctionOnSet(counter', Reasons)
  BY <1>1, <1>2, <1>3, <1>4
<1>6. QED
  BY <1>5 DEF EvaluationsAccountedFor

(* A stage that is passed, and an evaluation that opens. *)
LEMMA AccountedStage ==
  ASSUME Accounted, NEW e \in Evaluators, NEW stage \in {"idle", "approve", "open"},
         at[e] # "idle", at' = [at EXCEPT ![e] = stage],
         opened' = IF stage = "idle" THEN opened + 1 ELSE opened,
         UNCHANGED <<started, counter>>
  PROVE  EvaluationsAccountedFor'
<1>1. Cardinality(UnderWay') = IF stage = "idle" THEN Cardinality(UnderWay) - 1
                               ELSE Cardinality(UnderWay)
  BY StageAddsNone DEF Accounted
<1>2. /\ opened \in Nat /\ Cardinality(UnderWay) \in Int
      /\ started = opened + Cardinality(UnderWay) + SumFunctionOnSet(counter, Reasons)
  BY UnderWayIsSmall DEF Accounted, LoopTypeOK, EvaluationsAccountedFor
<1>3. opened' + Cardinality(UnderWay') = opened + Cardinality(UnderWay)
  BY <1>1, <1>2
<1>4. QED
  BY <1>2, <1>3 DEF EvaluationsAccountedFor

LEMMA AccountedAdmission ==
  ASSUME Accounted, NEW e \in Evaluators, NEW t \in Tiers, Admitted(e, t)
  PROVE  EvaluationsAccountedFor'
<1>1. UnderWay' = UnderWay \cup {e} /\ e \notin UnderWay
  BY DEF Accounted, LoopTypeOK, Admitted, Begin, UnderWay
<1>2. Cardinality(UnderWay') = Cardinality(UnderWay) + 1
  BY <1>1, UnderWayIsSmall, FS_AddElement
<1>3. /\ started' = started + 1 /\ opened' = opened /\ opened \in Nat /\ counter' = counter
      /\ Cardinality(UnderWay) \in Int
      /\ started = opened + Cardinality(UnderWay) + SumFunctionOnSet(counter, Reasons)
  BY UnderWayIsSmall DEF Accounted, LoopTypeOK, Admitted, Begin, EvaluationsAccountedFor
<1>4. SumFunctionOnSet(counter, Reasons) \in Int
  BY CounterSum DEF Accounted
<1>5. started' = opened' + Cardinality(UnderWay') + SumFunctionOnSet(counter, Reasons)
  BY <1>2, <1>3, <1>4
<1>6. QED
  BY <1>3, <1>5 DEF EvaluationsAccountedFor

LEMMA AccountedStep ==
  ASSUME Accounted, LoopTypeOK', [LoopNext]_allVars
  PROVE  EvaluationsAccountedFor'
<1>1. CASE UNCHANGED allVars
  BY <1>1 DEF allVars, loopVars, Accounted, EvaluationsAccountedFor, UnderWay
<1>2. CASE LoopStep
  <2> PICK e \in Evaluators :
         \/ Blocked(e)
         \/ \E t \in Tiers : Refused(e, t) \/ Admitted(e, t)
         \/ Simulate(e) \/ EnsureApproval(e) \/ Open(e)
    BY <1>2 DEF LoopStep
  <2>1. CASE Blocked(e) \/ \E t \in Tiers : Refused(e, t)
    BY <2>1, AccountedAtOnce DEF Blocked, Refused, Reasons
  <2>2. CASE \E t \in Tiers : Admitted(e, t)
    BY <2>2, AccountedAdmission
  <2>3. ASSUME NEW from \in {"simulate", "approve"}, NEW to \in {"approve", "open"},
               Passes(e, from, to)
        PROVE  EvaluationsAccountedFor'
    BY <2>3, AccountedStage DEF Passes
  <2>4. ASSUME NEW from \in {"simulate", "approve", "open"}, NEW r \in Reasons,
               Fails(e, from, r)
        PROVE  EvaluationsAccountedFor'
    BY <2>4, AccountedFailure
  <2>5. CASE Opens(e)
    BY <2>5, AccountedStage DEF Opens
  <2>6. CASE Simulate(e)
    BY <2>6, <2>3, <2>4 DEF Simulate, Reasons
  <2>7. CASE EnsureApproval(e)
    BY <2>7, <2>3, <2>4 DEF EnsureApproval, Reasons
  <2>8. CASE Open(e)
    BY <2>8, <2>4, <2>5 DEF Open, Reasons
  <2>9. QED
    BY <2>1, <2>2, <2>6, <2>7, <2>8
<1>3. CASE GateChanges
  BY <1>3 DEF GateChanges, Accounted, EvaluationsAccountedFor, UnderWay
<1>4. CASE ProcessRestarts
  <2>1. UnderWay' = {}
    BY <1>4 DEF ProcessRestarts, UnderWay
  <2>2. Cardinality(UnderWay') = 0
    BY <2>1, FS_EmptySet
  <2>3. PICK c : c = counter'
    OBVIOUS
  <2>4. \A r \in Reasons : c[r] = 0
    BY <1>4, <2>3 DEF ProcessRestarts
  <2>5. SumFunctionOnSet(c, Reasons) = 0
    BY <2>4, ReasonsAreFinite, SumZero
  <2>6. QED
    BY <1>4, <2>2, <2>3, <2>5 DEF ProcessRestarts, EvaluationsAccountedFor
<1>5. QED
  BY <1>1, <1>2, <1>3, <1>4 DEF LoopNext

LEMMA AccountedAtFirst ==
  ASSUME LoopInit PROVE EvaluationsAccountedFor
<1>1. UnderWay = {}
  BY DEF LoopInit, LoopStart, UnderWay
<1>2. Cardinality(UnderWay) = 0
  BY <1>1, FS_EmptySet
<1>3. \A r \in Reasons : counter[r] = 0
  BY DEF LoopInit, LoopStart
<1>4. SumFunctionOnSet(counter, Reasons) = 0
  BY <1>3, ReasonsAreFinite, SumZero
<1>5. QED
  BY <1>2, <1>4 DEF LoopInit, LoopStart, EvaluationsAccountedFor

(* Every evaluation of the process is under way, opened or in exactly one
   counter, for any number of evaluators and any limits. *)
THEOREM EvaluationsCounted == LoopSpec => []EvaluationsAccountedFor
<1>1. LoopInit => EvaluationsAccountedFor
  BY AccountedAtFirst
<1>2. LoopIInv /\ LoopIInv' /\ EvaluationsAccountedFor /\ [LoopNext]_allVars
        => EvaluationsAccountedFor'
  BY AccountedStep DEF LoopIInv, Accounted
<1>3. QED
  BY <1>1, <1>2, LoopInitHolds, LoopStepKeepsIInv, PTL DEF LoopSpec

=============================================================================
