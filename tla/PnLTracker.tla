----------------------------- MODULE PnLTracker -----------------------------
(***************************************************************************)
(* Realized profit and loss: core/pnl PnLTracker and LedgerService writing *)
(* their components into the append-only ledger (adapters/store/sqlite/    *)
(* ledger_repo.go).  A record is up to two INSERTs with no transaction     *)
(* around them.  Tracker methods hold one mutex, database calls included;  *)
(* the service holds none, so its records and those of the tracker may run *)
(* between the two INSERTs of another.  The ledger names an entry by the   *)
(* millisecond and the position, under a primary key.                      *)
(***************************************************************************)
EXTENDS Integers, FiniteSets, Functions

CONSTANTS
  Callers,       \* goroutines that record
  Positions,
  Fees,          \* amounts AddFees is given
  Losses,        \* impermanent loss at the prices of the moment, <= 0
  MaxClock,      \* bound on the clock, in milliseconds
  MaxFee         \* bound on the fees accrued by a position

VARIABLES
  tracked,     \* positions: id -> feeAccrued
  ledger,      \* table: <<millisecond, position>> -> kind and amount
  clock,       \* milliseconds
  record,      \* per caller: the record between its two INSERTs
  realized,    \* history: per position, the net PnL that was reported
  unreported   \* history: per position, the fees in the ledger whose record
               \* was not reported: it is under way, or it broke off

vars == <<tracked, ledger, clock, record, realized, unreported>>

NoRecord == [by |-> "none"]
Tracked == DOMAIN tracked
Entries == DOMAIN ledger
AmountOf == [id \in Entries |-> ledger[id].amount]

(* Mutant: the costs are summed with the rest. *)
AggregateEverything(p) ==
  SumFunctionOnSet(AmountOf, {id \in Entries : id[2] = p})

(* GetAggregatedPnL: of the sums by kind it takes fee and il. *)
Aggregate(p) ==
  SumFunctionOnSet(AmountOf,
                   {id \in Entries : id[2] = p /\ ledger[id].kind \in {"fee", "il"}})

-----------------------------------------------------------------------------
(* Append: INSERT; an id that is taken is an error and changes nothing. *)
Insert(l, ms, p, kind, amount) ==
  [id \in DOMAIN l \cup {<<ms, p>>} |->
     IF id = <<ms, p>> THEN [kind |-> kind, amount |-> amount] ELSE l[id]]

Taken(l, ms, p) == <<ms, p>> \in DOMAIN l

(* RecordRealizedPnL keeps the mutex of the tracker from its first INSERT to
   its end. *)
TrackerIsFree == \A c \in Callers : record[c].by # "tracker"

TrackPosition(p) ==
  /\ TrackerIsFree /\ p \notin Tracked
  /\ tracked' = [q \in Tracked \cup {p} |-> IF q = p THEN 0 ELSE tracked[q]]
  /\ UNCHANGED <<ledger, clock, record, realized, unreported>>

Without(p) == [q \in Tracked \ {p} |-> tracked[q]]

UntrackPosition(p) ==
  /\ TrackerIsFree /\ p \in Tracked
  /\ tracked' = Without(p)
  /\ UNCHANGED <<ledger, clock, record, realized, unreported>>

(* Mutant: fees are booked with the sign of a cost. *)
AddFeesNegated(p, f) ==
  /\ TrackerIsFree /\ p \in Tracked /\ tracked[p] + f <= MaxFee
  /\ tracked' = [tracked EXCEPT ![p] = @ - f]
  /\ UNCHANGED <<ledger, clock, record, realized, unreported>>

AddFees(p, f) ==
  /\ TrackerIsFree /\ p \in Tracked /\ tracked[p] + f <= MaxFee
  /\ tracked' = [tracked EXCEPT ![p] = @ + f]
  /\ UNCHANGED <<ledger, clock, record, realized, unreported>>

(* The fee entry, if the fee is not zero.  An append that fails ends the record
   and leaves nothing. *)
AppendFee(c, by, p, fee, loss) ==
  /\ record[c] = NoRecord
  /\ fee # 0 => ~Taken(ledger, clock, p)
  /\ ledger' = IF fee = 0 THEN ledger ELSE Insert(ledger, clock, p, "fee", fee)
  /\ record' = [record EXCEPT ![c] = [by |-> by, pos |-> p, fee |-> fee, loss |-> loss]]
  /\ unreported' = [unreported EXCEPT ![p] = @ + fee]
  /\ UNCHANGED <<tracked, clock, realized>>

RecordRealizedPnL(c, p, loss) ==
  /\ TrackerIsFree /\ p \in Tracked
  /\ AppendFee(c, "tracker", p, tracked[p], loss)

RecordPnL(c, p, fee, loss) == AppendFee(c, "service", p, fee, loss)

(* Mutant: a conflict is ignored, as ports/store_ledger.go words it. *)
AppendLossIgnoring(c) ==
  /\ record[c] # NoRecord
  /\ LET r == record[c] IN
       /\ ledger' = IF r.loss = 0 \/ Taken(ledger, clock, r.pos) THEN ledger
                    ELSE Insert(ledger, clock, r.pos, "il", r.loss)
       /\ tracked' = IF r.by = "tracker" THEN Without(r.pos) ELSE tracked
       /\ realized' = [realized EXCEPT ![r.pos] = @ + r.fee + r.loss]
       /\ unreported' = [unreported EXCEPT ![r.pos] = @ - r.fee]
  /\ record' = [record EXCEPT ![c] = NoRecord]
  /\ UNCHANGED clock

(* The loss entry, if the loss is not zero, and the report; a position the
   tracker has recorded is not tracked any longer. *)
AppendLoss(c) ==
  /\ record[c] # NoRecord
  /\ LET r == record[c] IN
       /\ r.loss # 0 => ~Taken(ledger, clock, r.pos)
       /\ ledger' = IF r.loss = 0 THEN ledger ELSE Insert(ledger, clock, r.pos, "il", r.loss)
       /\ tracked' = IF r.by = "tracker" THEN Without(r.pos) ELSE tracked
       /\ realized' = [realized EXCEPT ![r.pos] = @ + r.fee + r.loss]
       /\ unreported' = [unreported EXCEPT ![r.pos] = @ - r.fee]
  /\ record' = [record EXCEPT ![c] = NoRecord]
  /\ UNCHANGED clock

(* The second INSERT fails, on an id that is taken or in the database: what was
   appended before stays, and so does the tracking. *)
BreakOff(c) ==
  /\ record[c] # NoRecord /\ record[c].loss # 0
  /\ record' = [record EXCEPT ![c] = NoRecord]
  /\ UNCHANGED <<tracked, ledger, clock, realized, unreported>>

(* LedgerService.RecordSwapCost and RecordGasCost: one negative entry, of a
   kind that is not aggregated. *)
RecordCost(p, cost) ==
  /\ ~Taken(ledger, clock, p)
  /\ ledger' = Insert(ledger, clock, p, "cost", -cost)
  /\ UNCHANGED <<tracked, clock, record, realized, unreported>>

(* A kill of the process, anywhere: the table stays. *)
Restart ==
  /\ tracked' = [p \in {} |-> 0]
  /\ record' = [c \in Callers |-> NoRecord]
  /\ UNCHANGED <<ledger, clock, realized, unreported>>

Tick ==
  /\ clock < MaxClock
  /\ clock' = clock + 1
  /\ UNCHANGED <<tracked, ledger, record, realized, unreported>>

Init ==
  /\ tracked = [p \in {} |-> 0]
  /\ ledger = [id \in {} |-> 0]
  /\ clock = 0
  /\ record = [c \in Callers |-> NoRecord]
  /\ realized = [p \in Positions |-> 0]
  /\ unreported = [p \in Positions |-> 0]

Next ==
  \/ \E p \in Positions :
       \/ TrackPosition(p) \/ UntrackPosition(p)
       \/ \E f \in Fees : AddFees(p, f)
       \/ \E c \in Callers, loss \in Losses :
            RecordRealizedPnL(c, p, loss) \/ \E f \in Fees : RecordPnL(c, p, f, loss)
       \/ RecordCost(p, 1)
  \/ \E c \in Callers : AppendLoss(c) \/ BreakOff(c)
  \/ Restart \/ Tick

Spec == Init /\ [][Next]_vars

-----------------------------------------------------------------------------
(* Types of the positions, of the entries and of the records under way. *)
TypeOK ==
  /\ Tracked \subseteq Positions
  /\ \A p \in Tracked : tracked[p] \in 0..MaxFee
  /\ Entries \subseteq (0..MaxClock) \X Positions
  /\ \A id \in Entries : ledger[id] \in [kind : {"fee", "il", "cost"}, amount : Int]
  /\ clock \in 0..MaxClock
  /\ record \in [Callers -> {NoRecord} \cup [by : {"tracker", "service"}, pos : Positions,
                                            fee : Int, loss : Int]]
  /\ realized \in [Positions -> Int]
  /\ unreported \in [Positions -> Int]

(* Whatever runs between the two INSERTs of a record, however records collide,
   break off, are repeated or are killed: the ledger holds every PnL that was
   reported, in full and once, and beyond that only the fees of records that
   are under way or broke off. *)
LedgerHoldsReports == \A p \in Positions : Aggregate(p) = realized[p] + unreported[p]
=============================================================================
