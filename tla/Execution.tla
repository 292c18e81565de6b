------------------------------ MODULE Execution ------------------------------
(***************************************************************************)
(* What surrounds the execution of a position: the order manager, the      *)
(* approval tracker, the transaction table, the limits over the stored     *)
(* positions, the profit and loss ledger and the ways of sending.  They    *)
(* share no state, so a behaviour of all of them is a shuffle of one of    *)
(* each: part says which of them moves, and the others stay at their       *)
(* initial states.                                                         *)
(***************************************************************************)
EXTENDS Integers, FiniteSets

CONSTANTS
  Parts,                                        \* those that may move
  Callers,                                      \* goroutines, of every part
  Positions, Ranges, MaxOpens,                  \* orders; pnl has Positions, too
  Keys, Needs, PositionIds,                     \* approvals
  TxHashes, MaxRBF, MaxCount, TxRecords,        \* records
  Ids, PoolOf, Limit, Amounts, Capital, ExposurePct,   \* limits
  Fees, Losses, MaxClock, MaxFee,               \* pnl
  Txs, Confirmations, MaxHeight, MaxCalls       \* sending

ASSUME PartsAssumption ==
  Parts \subseteq {"orders", "approvals", "records", "limits", "pnl", "sending"}
ASSUME CallersAssumption == IsFiniteSet(Callers)
ASSUME OrdersAssumption == MaxOpens \in Nat
ASSUME ApprovalsAssumption == Needs \subseteq Nat /\ "none" \notin Keys
ASSUME RecordsAssumption ==
  /\ MaxRBF \in Nat /\ MaxCount \in Nat
  /\ TxRecords \subseteq
       {"", "built", "broadcast", "mined", "confirmed", "stuck", "rbf_bumped", "failed",
        "reverted", "reorged"} \X (0..MaxCount)
ASSUME LimitsAssumption ==
  /\ IsFiniteSet(Ids) /\ Amounts \subseteq Nat
  /\ Limit \in [{PoolOf[i] : i \in Ids} -> Nat]
  /\ Capital \in Nat /\ ExposurePct \in Nat
ASSUME PnLAssumption ==
  Fees \subseteq Nat /\ Losses \subseteq Int /\ MaxClock \in Nat /\ MaxFee \in Nat
ASSUME SendingAssumption ==
  Confirmations \in Nat /\ MaxHeight \in Nat /\ MaxCalls \in Nat

VARIABLES
  part,
  positions, call, opens, closes, said, overlapped,   \* orders
  approvals, allowance, releasing, crossed,           \* approvals
  rows, txCall, seen, allowed,                        \* records
  table, asking, together, disturbed,                 \* limits
  tracked, ledger, clock, record, realized, unreported,   \* pnl
  config, sendCall, stats, calls, panicked,           \* sending
  relay, mempool, direct, head, minedAt

Orders == INSTANCE OrderManager
Approvals == INSTANCE ApproveTracker
Records == INSTANCE TxRepo WITH
             Workers <- Callers, Records <- TxRecords, call <- txCall
Limits == INSTANCE Allocation WITH crossed <- together
PnL == INSTANCE PnLTracker
Sends == INSTANCE Sending WITH call <- sendCall

ordersVars == <<positions, call, opens, closes, said, overlapped>>
approvalsVars == <<approvals, allowance, releasing, crossed>>
recordsVars == <<rows, txCall, seen, allowed>>
limitsVars == <<table, asking, together, disturbed>>
pnlVars == <<tracked, ledger, clock, record, realized, unreported>>
sendingVars ==
  <<config, sendCall, stats, calls, panicked, relay, mempool, direct, head, minedAt>>
vars == <<part, ordersVars, approvalsVars, recordsVars, limitsVars, pnlVars, sendingVars>>

Init ==
  /\ part \in Parts
  /\ Orders!Init /\ Approvals!Init /\ Records!TxInit /\ Limits!Init /\ PnL!Init
  /\ Sends!Init
  /\ part # "sending" => config = [live |-> FALSE, kind |-> "jito", strictMode |-> FALSE,
                                  broadcaster |-> "none", confirmations |-> 0]

Next ==
  /\ \/ part = "orders" /\ Orders!Next
          /\ UNCHANGED <<approvalsVars, recordsVars, limitsVars, pnlVars, sendingVars>>
     \/ part = "approvals" /\ Approvals!Next
          /\ UNCHANGED <<ordersVars, recordsVars, limitsVars, pnlVars, sendingVars>>
     \/ part = "records" /\ Records!TxNext
          /\ UNCHANGED <<ordersVars, approvalsVars, limitsVars, pnlVars, sendingVars>>
     \/ part = "limits" /\ Limits!Next
          /\ UNCHANGED <<ordersVars, approvalsVars, recordsVars, pnlVars, sendingVars>>
     \/ part = "pnl" /\ PnL!Next
          /\ UNCHANGED <<ordersVars, approvalsVars, recordsVars, limitsVars, sendingVars>>
     \/ part = "sending" /\ Sends!Next
          /\ UNCHANGED <<ordersVars, approvalsVars, recordsVars, limitsVars, pnlVars>>
  /\ UNCHANGED part

Spec == Init /\ [][Next]_vars

(* The types of all parts. *)
TypeOK ==
  /\ Orders!TypeOK /\ Approvals!TypeOK /\ Records!TxTypeOK
  /\ Limits!TypeOK /\ PnL!TypeOK /\ Sends!TypeOK

(* The properties of OrderManager. *)
ClosesAreBounded == Orders!ClosesAreBounded
SuccessesAreStored == Orders!SuccessesAreStored

(* That of ApproveTracker. *)
AllowanceIsTracked == Approvals!AllowanceIsTracked

(* The properties of TxRepo: what a row has been and what its bumps allowed. *)
RowsHaveTheirPast == Records!NoStatusWithoutItsPast /\ Records!BumpsGrantedBounded

(* The properties of Allocation: the limit of a pool and that of all pools. *)
LimitsHold == Limits!PoolWithinLimit /\ Limits!ExposureWithinCap

(* That of PnLTracker. *)
LedgerHoldsReports == PnL!LedgerHoldsReports

(* The properties of Sending: who gets to see a transaction and what is counted
   of it; what was confirmed; and what an error says. *)
SendingIsAccountedFor == Sends!LiveStaysPrivate /\ Sends!CountersAgree /\ Sends!ConfirmedStays
BothFailedIsNotSent == Sends!BothFailedIsNotSent
=============================================================================
