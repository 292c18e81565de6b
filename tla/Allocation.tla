----------------------------- MODULE Allocation -----------------------------
(***************************************************************************)
(* The allocation limits that look at the stored positions: core/risk      *)
(* alloc.go over the table of sqlite/position_repo.go.  A caller asks for  *)
(* the pool limit, then for the total exposure, then saves its position.   *)
(* Each question reads the table under the manager's mutex; nothing holds  *)
(* between the questions and the save.                                     *)
(***************************************************************************)
EXTENDS Integers, FiniteSets, Functions

CONSTANTS
  Callers,
  Ids,           \* position ids
  PoolOf,        \* the pool of a position: an id is never used for another
  Limit,         \* per pool: the limit of its tier, 0 for an unknown tier
  Amounts,       \* AmountUSD of the candidates
  Capital,       \* AllocationConfig.TotalCapitalUSD; main.go leaves it at 0
  ExposurePct    \* AllocationConfig.MaxExposure, in percent

VARIABLES
  table,       \* positions: id -> amount and status; all on one chain
  asking,      \* per caller: the candidate it is taking through the checks
  crossed,     \* history: pools two candidates were in the checks for at once
  disturbed    \* history: two candidates of any pools were, or a position was
               \* opened by a change of its status

vars == <<table, asking, crossed, disturbed>>

(* The statuses the limits tell apart: open, and before and after it. *)
Statuses == {"opening", "open", "closed"}

Nothing == [at |-> "idle", id |-> "none", amount |-> 0]

Stored == DOMAIN table
Pools == {PoolOf[i] : i \in Ids}

Total(ids) == SumFunctionOnSet([i \in Stored |-> table[i].amount], ids)

(* Only those that are open: what PoolWithinLimit counts.  As Snapshot, a
   mutant: the positions that are not open give their share back. *)
OpenInPool(p) == {i \in Stored : PoolOf[i] = p /\ table[i].status = "open"}

(* Snapshot returns the positions of a pool whatever their status.  It passes
   over rows that do not scan, which are never those that Save writes: only a
   row older than the added columns lacks its tier. *)
Snapshot(p) == {i \in Stored : PoolOf[i] = p}

FindOpen == {i \in Stored : table[i].status = "open"}

WithinLimit(i, n) ==
  Limit[PoolOf[i]] # 0 /\ Total(Snapshot(PoolOf[i])) + n <= Limit[PoolOf[i]]

(* Mutant: the candidate itself is not counted. *)
ExposureBeforeCandidate(n) ==
  Capital # 0 => Total(FindOpen) * 100 <= ExposurePct * Capital

(* With no capital configured any exposure is within bounds. *)
WithinExposure(n) ==
  Capital # 0 => (Total(FindOpen) + n) * 100 <= ExposurePct * Capital

-----------------------------------------------------------------------------
InChecks == {c \in Callers : asking[c] # Nothing}

(* A refusal, or a repository that answers with an error, ends the call. *)
CheckAllocationWithSnapshot(c, i, n) ==
  /\ asking[c] = Nothing
  /\ WithinLimit(i, n)
  /\ asking' = [asking EXCEPT ![c] = [at |-> "exposure", id |-> i, amount |-> n]]
  /\ crossed' = IF \E d \in InChecks : PoolOf[asking[d].id] = PoolOf[i]
                THEN crossed \cup {PoolOf[i]} ELSE crossed
  /\ disturbed' = (disturbed \/ InChecks # {})
  /\ UNCHANGED table

CheckTotalExposureWithSnapshot(c) ==
  /\ asking[c].at = "exposure"
  /\ \/ WithinExposure(asking[c].amount) /\ asking' = [asking EXCEPT ![c].at = "save"]
     \/ asking' = [asking EXCEPT ![c] = Nothing]
  /\ UNCHANGED <<table, crossed, disturbed>>

(* Save inserts, or overwrites amount and status of an existing id; on an
   error of the database nothing is saved. *)
Save(c, s) ==
  /\ asking[c].at = "save"
  /\ asking' = [asking EXCEPT ![c] = Nothing]
  /\ \/ table' = [j \in Stored \cup {asking[c].id} |->
                    IF j = asking[c].id THEN [amount |-> asking[c].amount, status |-> s]
                    ELSE table[j]]
     \/ UNCHANGED table
  /\ UNCHANGED <<crossed, disturbed>>

(* UpdateStatus validates nothing: any status follows any other. *)
UpdateStatus(i, s) ==
  /\ i \in Stored
  /\ table' = [table EXCEPT ![i].status = s]
  /\ disturbed' = (disturbed \/ (s = "open" /\ table[i].status # "open"))
  /\ UNCHANGED <<asking, crossed>>

Init ==
  /\ table = [i \in {} |-> 0]
  /\ asking = [c \in Callers |-> Nothing]
  /\ crossed = {} /\ disturbed = FALSE

Next ==
  \/ \E c \in Callers :
       \/ \E i \in Ids, n \in Amounts : CheckAllocationWithSnapshot(c, i, n)
       \/ CheckTotalExposureWithSnapshot(c)
       \/ \E s \in Statuses : Save(c, s)
  \/ \E i \in Ids, s \in Statuses : UpdateStatus(i, s)

Spec == Init /\ [][Next]_vars

-----------------------------------------------------------------------------
(* Types of the table and of the calls. *)
TypeOK ==
  /\ Stored \subseteq Ids
  /\ \A i \in Stored : table[i] \in [amount : Amounts, status : Statuses]
  /\ asking \in [Callers -> {Nothing} \cup [at : {"exposure", "save"}, id : Ids,
                                            amount : Amounts]]
  /\ crossed \subseteq Pools /\ disturbed \in BOOLEAN

(* The open positions of a pool stay within the limit of its tier, also when
   closed ones are opened again, as long as no two candidates of the pool are
   in the checks at once: closed positions keep their share of the limit. *)
PoolWithinLimit ==
  \A p \in Pools \ crossed : Total(OpenInPool(p)) <= Limit[p]

(* The open positions of a chain stay within the exposure the configuration
   allows, as long as candidates pass the checks one after the other and none
   becomes open later than it was saved. *)
ExposureWithinCap ==
  Capital # 0 /\ ~disturbed => Total(FindOpen) * 100 <= ExposurePct * Capital
=============================================================================
