-------------------------- MODULE Execution_proofs --------------------------
(***************************************************************************)
(* Proofs about Execution, for any callers and any data of its parts.      *)
(* Each part has an inductive invariant of its own; a step of the          *)
(* composition is a step of one part that leaves the others alone.         *)
(***************************************************************************)
EXTENDS Execution, SumTheorems

(* What a step of the composition is to each part. *)
LEMMA StepOfParts ==
  [Next]_vars =>
    /\ [Orders!Next]_ordersVars
    /\ [Approvals!Next]_approvalsVars
    /\ [Records!TxNext]_recordsVars
    /\ [Limits!Next]_limitsVars
    /\ [PnL!Next]_pnlVars
    /\ [Sends!Next]_sendingVars
  BY DEF Next, vars

LEMMA InitOfParts ==
  Init => /\ Orders!Init /\ Approvals!Init /\ Records!TxInit
          /\ Limits!Init /\ PnL!Init /\ Sends!Init
  BY DEF Init

-----------------------------------------------------------------------------
(* Orders. *)

LEMMA OrdersTypeInit == Orders!Init => Orders!TypeOK
  BY OrdersAssumption
     DEF Orders!Init, Orders!TypeOK, Orders!Stored, Orders!Calls, Orders!Idle, Orders!NoAnswer

LEMMA OrdersTypeStep == Orders!TypeOK /\ [Orders!Next]_ordersVars => Orders!TypeOK'
<1> SUFFICES ASSUME Orders!TypeOK, [Orders!Next]_ordersVars PROVE Orders!TypeOK'
  OBVIOUS
<1> USE DEF Orders!TypeOK, Orders!Stored, Orders!Calls
<1>1. ASSUME NEW w \in Callers, NEW op, NEW p \in Positions, NEW r \in Ranges,
             NEW at \in {"found", "checked"}, Orders!Start(w, op, p, r, at),
             \/ op = "open" /\ at = "checked"
             \/ op \in {"close", "rebalance", "collect"} /\ p \in Orders!Stored
      PROVE  Orders!TypeOK'
  <2>1. [op |-> op, pos |-> p, range |-> r, at |-> at, object |-> "stored"] \in Orders!Calls
    BY <1>1
  <2>2. QED
    BY <1>1, <2>1 DEF Orders!Start, Orders!NoAnswer
<1>2. ASSUME NEW w \in Callers, NEW p \in Positions, NEW r \in Ranges,
             Orders!Open(w, p, r) \/ Orders!Rebalance(w, p, r)
      PROVE  Orders!TypeOK'
  BY <1>1, <1>2 DEF Orders!Open, Orders!Rebalance
<1>3. ASSUME NEW w \in Callers, NEW p \in Positions,
             Orders!Close(w, p) \/ Orders!CollectFees(w, p)
      PROVE  Orders!TypeOK'
  <2>1. p \in Orders!Stored /\ positions[p].range \in Ranges
    BY <1>3 DEF Orders!Close, Orders!CollectFees
  <2>2. QED
    BY <1>1, <1>3, <2>1 DEF Orders!Close, Orders!CollectFees
<1>4. ASSUME NEW w \in Callers, Orders!CheckStatus(w)
      PROVE  Orders!TypeOK'
  <2>1. call[w] # Orders!Idle /\ call[w].at = "found" /\ call[w] \in Orders!Calls
    BY <1>4 DEF Orders!CheckStatus
  <2>2. call[w].pos \in Positions /\ [call[w] EXCEPT !.at = "checked"] \in Orders!Calls
    BY <2>1
  <2>3. CASE call' = [call EXCEPT ![w].at = "checked"] /\ UNCHANGED said
    BY <1>4, <2>2, <2>3 DEF Orders!CheckStatus
  <2>4. CASE Orders!Answer(w, call[w].pos, FALSE, "none")
    BY <1>4, <2>2, <2>4 DEF Orders!CheckStatus, Orders!Answer
  <2>5. QED
    BY <1>4, <2>3, <2>4 DEF Orders!CheckStatus
<1>5. ASSUME NEW w \in Callers, Orders!Fail(w)
      PROVE  Orders!TypeOK'
  BY <1>5 DEF Orders!Fail, Orders!Answer, Orders!Outcomes, Orders!Idle
<1>6. ASSUME NEW w \in Callers, Orders!FinishOpen(w)
      PROVE  Orders!TypeOK'
  <2>1. PICK p \in Positions, r \in Ranges : p = call[w].pos /\ r = call[w].range
    BY <1>6 DEF Orders!FinishOpen, Orders!Checked
  <2>2. /\ opens[p] < MaxOpens /\ opens' = [opens EXCEPT ![p] = opens[p] + 1]
        /\ closes' = [closes EXCEPT ![p] = 0] /\ UNCHANGED overlapped
        /\ positions' = [q \in Orders!Stored \cup {p} |->
                           IF q = p THEN [status |-> "open", range |-> r] ELSE positions[q]]
        /\ call' = [v \in Callers |-> IF v = w THEN Orders!Idle ELSE Orders!Outdated(v, p)]
        /\ said' = [said EXCEPT ![w] = [pos |-> p, success |-> TRUE, final |-> "open"]]
    BY <1>6, <2>1 DEF Orders!FinishOpen
  <2>3. ASSUME NEW v \in Callers
        PROVE  Orders!Outdated(v, p) \in Orders!Calls'
    <3>1. CASE call[v] # Orders!Idle /\ call[v].pos = p /\ call[v].at = "found"
      <4>1. p \in Orders!Stored /\ positions[p].status \in {"open", "closed"}
        BY <3>1
      <4>2. call[v] \in [op : {"close", "rebalance", "collect"}, pos : Orders!Stored, range : Ranges,
                         at : {"found", "checked"}, object : {"stored", "open", "closed"}]
        BY <3>1
      <4>3. Orders!Stored \subseteq Orders!Stored'
        BY <2>2
      <4>4. CASE call[v].object = "stored"
        <5>1. Orders!Outdated(v, p) = [call[v] EXCEPT !.object = positions[p].status]
          BY <3>1, <4>4 DEF Orders!Outdated
        <5>2. [call[v] EXCEPT !.object = positions[p].status]
                \in [op : {"close", "rebalance", "collect"}, pos : Orders!Stored, range : Ranges,
                    at : {"found", "checked"}, object : {"stored", "open", "closed"}]
          BY <4>1, <4>2
        <5>3. QED
          BY <4>3, <5>1, <5>2
      <4>5. CASE call[v].object # "stored"
        BY <4>2, <4>3, <4>5 DEF Orders!Outdated
      <4>6. QED
        BY <4>4, <4>5
    <3>2. CASE Orders!Outdated(v, p) = call[v]
      BY <2>2, <3>2
    <3>3. QED
      BY <3>1, <3>2 DEF Orders!Outdated
  <2>4. call' \in [Callers -> Orders!Calls']
    BY <2>2, <2>3
  <2>5. opens' \in [Positions -> 0..MaxOpens]
    BY <2>2, OrdersAssumption
  <2>6. QED
    BY <2>2, <2>4, <2>5
<1>7. ASSUME NEW w \in Callers, Orders!FinishClose(w)
      PROVE  Orders!TypeOK'
  <2>1. PICK p \in Orders!Stored : p = call[w].pos
    BY <1>7 DEF Orders!FinishClose, Orders!Checked, Orders!Idle
  <2>2. /\ positions' = [positions EXCEPT ![p].status = "closed"]
        /\ closes' = [closes EXCEPT ![p] = closes[p] + 1]
        /\ call' = [call EXCEPT ![w] = Orders!Idle] /\ UNCHANGED <<opens, overlapped>>
        /\ said' = [said EXCEPT ![w] = [pos |-> p, success |-> TRUE, final |-> "closed"]]
    BY <1>7, <2>1 DEF Orders!FinishClose, Orders!Answer
  <2>3. Orders!Stored' = Orders!Stored
    BY <2>2
  <2>4. call' \in [Callers -> Orders!Calls']
    BY <2>2, <2>3
  <2>5. \A q \in Orders!Stored : positions'[q] \in [status : {"open", "closed"}, range : Ranges]
    BY <2>2
  <2>6. closes' \in [Positions -> Nat]
    BY <2>1, <2>2
  <2>7. QED
    BY <2>1, <2>2, <2>3, <2>4, <2>5, <2>6
<1>8. ASSUME NEW w \in Callers, Orders!FinishRebalance(w)
      PROVE  Orders!TypeOK'
  BY <1>8 DEF Orders!FinishRebalance, Orders!Checked, Orders!Answer, Orders!Idle
<1>9. ASSUME NEW w \in Callers, Orders!FinishCollect(w)
      PROVE  Orders!TypeOK'
  BY <1>9 DEF Orders!FinishCollect, Orders!Checked, Orders!Answer, Orders!Idle
<1>10. CASE UNCHANGED ordersVars
  BY <1>10 DEF ordersVars
<1>11. QED
  BY <1>2, <1>3, <1>4, <1>5, <1>6, <1>7, <1>8, <1>9, <1>10 DEF Orders!Next

InCall(w) == call[w] # Orders!Idle

(* Two calls at one position have been noticed. *)
OverlapsAreKnown ==
  \A w, v \in Callers :
    w # v /\ InCall(w) /\ InCall(v) /\ call[w].pos = call[v].pos => call[w].pos \in overlapped

(* What Close and Rebalance checked is still so when they write, and what they
   looked up is still what the table stores. *)
ChecksStillHold ==
  \A w \in Callers :
    InCall(w) /\ call[w].pos \notin overlapped =>
      /\ call[w].object = "stored"
      /\ call[w].op \in {"close", "rebalance"} /\ call[w].at = "checked"
           => positions[call[w].pos].status = "open"

(* An open position has not been closed since it was opened. *)
ClosedOnce ==
  \A p \in Positions \ overlapped :
    /\ closes[p] <= 1
    /\ p \in Orders!Stored /\ positions[p].status = "open" => closes[p] = 0

(* The callers that may still close a position that is closed already. *)
MayClose(p) ==
  {w \in Callers : /\ InCall(w) /\ call[w].pos = p /\ call[w].op = "close"
                   /\ call[w].at = "checked" \/ call[w].object = "open"}

ClosesLeft ==
  \A p \in Positions :
    closes[p] # 0 =>
      /\ p \in Orders!Stored /\ positions[p].status = "closed"
      /\ closes[p] + Cardinality(MayClose(p)) <= Cardinality(Callers)

OrdersInv == Orders!TypeOK /\ OverlapsAreKnown /\ ChecksStillHold /\ ClosedOnce /\ ClosesLeft

(* What is known of a call. *)
LEMMA OrdersInCall ==
  ASSUME Orders!TypeOK, NEW w \in Callers, InCall(w)
  PROVE  /\ call[w].pos \in Positions
         /\ call[w].op # "open" => call[w].pos \in Orders!Stored
         /\ call[w].op \in {"open", "close", "rebalance", "collect"}
         /\ call[w].at \in {"found", "checked"}
         /\ call[w].object \in {"stored", "open", "closed"}
         /\ call[w].range \in Ranges
  BY DEF Orders!TypeOK, Orders!Stored, Orders!Calls, InCall

LEMMA SameCardinalityOfOrders == \A S : Orders!Cardinality(S) = Cardinality(S)
  BY DEF Orders!Cardinality, Cardinality

LEMMA MayCloseFinite ==
  \A p : /\ IsFiniteSet(MayClose(p)) /\ Cardinality(MayClose(p)) \in Nat
         /\ Cardinality(MayClose(p)) <= Cardinality(Callers) /\ Cardinality(Callers) \in Nat
<1>1. \A p : MayClose(p) \in SUBSET Callers
  BY DEF MayClose
<1>2. QED
  BY <1>1, CallersAssumption, FS_Subset, FS_CardinalityType

LEMMA OrdersInvInit == Orders!Init => OrdersInv
<1> SUFFICES ASSUME Orders!Init PROVE OrdersInv
  OBVIOUS
<1>1. \A p \in Positions : closes[p] = 0
  BY DEF Orders!Init
<1>2. \A w \in Callers : ~InCall(w)
  BY DEF Orders!Init, InCall
<1>3. QED
  BY <1>1, <1>2, OrdersTypeInit
     DEF OrdersInv, OverlapsAreKnown, ChecksStillHold, ClosedOnce, ClosesLeft

(* A step that changes no status, and lets nobody close who could not before. *)
LEMMA OrdersQuiet ==
  ASSUME OrdersInv, UNCHANGED closes, Orders!Stored' = Orders!Stored,
         \A p \in Orders!Stored : positions'[p].status = positions[p].status,
         overlapped \subseteq overlapped',
         \A p \in Positions : MayClose(p)' \subseteq MayClose(p)
  PROVE  ClosedOnce' /\ ClosesLeft'
<1>1. ClosedOnce'
  BY DEF OrdersInv, ClosedOnce
<1>2. ASSUME NEW p \in Positions, closes'[p] # 0
      PROVE  /\ p \in Orders!Stored' /\ positions'[p].status = "closed"
             /\ closes'[p] + Cardinality(MayClose(p)') <= Cardinality(Callers)
  <2>1. /\ p \in Orders!Stored /\ positions[p].status = "closed"
        /\ closes[p] + Cardinality(MayClose(p)) <= Cardinality(Callers)
    BY <1>2 DEF OrdersInv, ClosesLeft
  <2>2. /\ Cardinality(MayClose(p)') \in Nat /\ Cardinality(MayClose(p)) \in Nat
        /\ Cardinality(MayClose(p)') <= Cardinality(MayClose(p))
    <3>1. MayClose(p)' \in SUBSET MayClose(p)
      OBVIOUS
    <3>2. QED
      BY <3>1, MayCloseFinite, FS_Subset, FS_CardinalityType
  <2>3. closes[p] \in Nat /\ Cardinality(Callers) \in Nat
    BY MayCloseFinite DEF OrdersInv, Orders!TypeOK
  <2>4. QED
    BY <2>1, <2>2, <2>3
<1>3. QED
  BY <1>1, <1>2 DEF ClosesLeft

(* A call begins. *)
LEMMA OrdersStart ==
  ASSUME OrdersInv, NEW w \in Callers, NEW op, NEW p \in Positions, NEW r, NEW at,
         Orders!Start(w, op, p, r, at),
         op \in {"close", "rebalance"} => at = "found"
  PROVE  OverlapsAreKnown' /\ ChecksStillHold' /\ ClosedOnce' /\ ClosesLeft'
<1> DEFINE new == [op |-> op, pos |-> p, range |-> r, at |-> at, object |-> "stored"]
<1>1. /\ new.op = op /\ new.pos = p /\ new.at = at /\ new.object = "stored"
      /\ ~InCall(w) /\ UNCHANGED <<positions, opens, closes>>
      /\ call' = [call EXCEPT ![w] = new]
  BY DEF Orders!Start, InCall
<1> HIDE DEF new
<1>2. call'[w] = new /\ \A v \in Callers \ {w} : call'[v] = call[v]
  BY <1>1 DEF OrdersInv, Orders!TypeOK
<1>3. /\ overlapped \subseteq overlapped'
      /\ \A v \in Callers : InCall(v) /\ call[v].pos = p => p \in overlapped'
  BY DEF Orders!Start, InCall
<1>4. \A v \in Callers \ {w} : InCall(v)' <=> InCall(v)
  BY <1>2 DEF InCall, Orders!Idle
<1>5. OverlapsAreKnown'
  BY <1>1, <1>2, <1>3, <1>4 DEF OrdersInv, OverlapsAreKnown
<1>6. ChecksStillHold'
  BY <1>1, <1>2, <1>3, <1>4 DEF OrdersInv, ChecksStillHold
<1>7. \A q \in Positions : MayClose(q)' \subseteq MayClose(q)
  BY <1>1, <1>2, <1>4 DEF MayClose
<1>8. Orders!Stored' = Orders!Stored /\ \A q \in Orders!Stored : positions'[q].status = positions[q].status
  BY <1>1 DEF Orders!Stored
<1>9. QED
  BY <1>1, <1>3, <1>5, <1>6, <1>7, <1>8, OrdersQuiet

(* A status that is checked is that of the stored position, unless calls have
   overlapped. *)
LEMMA OrdersCheck ==
  ASSUME OrdersInv, NEW w \in Callers, Orders!CheckStatus(w),
         call' = [call EXCEPT ![w].at = "checked"]
  PROVE  OverlapsAreKnown' /\ ChecksStillHold' /\ ClosedOnce' /\ ClosesLeft'
<1>1. InCall(w) /\ call[w].at = "found" /\ UNCHANGED <<positions, opens, closes, overlapped>>
  BY DEF Orders!CheckStatus, InCall
<1>2. /\ call[w].pos \in Positions
      /\ call[w].op # "open" => positions[call[w].pos].status \in {"open", "closed"}
      /\ call[w].object \in {"stored", "open", "closed"}
      /\ call[w].op \in {"open", "close", "rebalance", "collect"}
  BY <1>1, OrdersInCall DEF OrdersInv, Orders!TypeOK, Orders!Stored
<1>3. call[w] \in Orders!Calls
  BY DEF OrdersInv, Orders!TypeOK
<1>4. /\ call'[w] = [call[w] EXCEPT !.at = "checked"]
      /\ \A v \in Callers \ {w} : call'[v] = call[v]
  BY DEF OrdersInv, Orders!TypeOK
<1>5. /\ call'[w].pos = call[w].pos /\ call'[w].op = call[w].op /\ call'[w].at = "checked"
      /\ call'[w].object = call[w].object
  BY <1>1, <1>3, <1>4 DEF Orders!Calls, InCall
<1>6. call[w].op \in {"close", "rebalance"} => Orders!StatusSeen(w) = "open"
  <2>1. CASE Orders!Answer(w, call[w].pos, FALSE, "none")
    <3>1. call'[w] = Orders!Idle
      BY <2>1 DEF Orders!Answer, OrdersInv, Orders!TypeOK
    <3>2. QED
      BY <1>1, <1>3, <1>4, <3>1 DEF Orders!Idle, Orders!Calls, InCall
  <2>2. CASE IF call[w].op = "close" THEN Orders!CanTransitionTo(Orders!StatusSeen(w), "exiting")
             ELSE Orders!StatusSeen(w) = "open"
    <3>1. call[w].op # "open" => Orders!StatusSeen(w) \in {"open", "closed"}
      BY <1>2 DEF Orders!StatusSeen
    <3>2. QED
      BY <2>2, <3>1 DEF Orders!CanTransitionTo, Orders!ValidTransitions
  <2>3. QED
    BY <2>1, <2>2 DEF Orders!CheckStatus
<1>7. \A v \in Callers : InCall(v)' <=> InCall(v)
  BY <1>1, <1>2, <1>4, <1>5 DEF InCall, Orders!Idle
<1>8. OverlapsAreKnown'
  BY <1>1, <1>4, <1>5, <1>7 DEF OrdersInv, OverlapsAreKnown
<1>9. ChecksStillHold'
  BY <1>1, <1>4, <1>5, <1>6, <1>7 DEF OrdersInv, ChecksStillHold, Orders!StatusSeen
<1>10. CASE \A q \in Positions : MayClose(q)' \subseteq MayClose(q)
  <2>1. Orders!Stored' = Orders!Stored /\ \A q \in Orders!Stored : positions'[q].status = positions[q].status
    BY <1>1 DEF Orders!Stored
  <2>2. QED
    BY <1>1, <1>8, <1>9, <1>10, <2>1, OrdersQuiet
<1>11. CASE ~\A q \in Positions : MayClose(q)' \subseteq MayClose(q)
  <2>1. /\ call[w].op = "close" /\ call[w].object = "stored"
        /\ \A q \in Positions \ {call[w].pos} : MayClose(q)' \subseteq MayClose(q)
    BY <1>1, <1>2, <1>4, <1>5, <1>6, <1>7, <1>11 DEF MayClose, Orders!StatusSeen
  <2>2. positions[call[w].pos].status = "open"
    BY <1>6, <2>1 DEF Orders!StatusSeen
  <2>3. closes[call[w].pos] = 0
    BY <1>2, <2>2 DEF OrdersInv, ClosesLeft
  <2>4. ClosedOnce'
    BY <1>1 DEF OrdersInv, ClosedOnce, Orders!Stored
  <2>5. ASSUME NEW q \in Positions, closes'[q] # 0
        PROVE  /\ q \in Orders!Stored' /\ positions'[q].status = "closed"
               /\ closes'[q] + Cardinality(MayClose(q)') <= Cardinality(Callers)
    <3>1. q # call[w].pos /\ closes[q] # 0
      BY <1>1, <2>3, <2>5
    <3>2. /\ q \in Orders!Stored /\ positions[q].status = "closed"
          /\ closes[q] + Cardinality(MayClose(q)) <= Cardinality(Callers)
      BY <3>1 DEF OrdersInv, ClosesLeft
    <3>3. /\ Cardinality(MayClose(q)') \in Nat /\ Cardinality(MayClose(q)) \in Nat
          /\ Cardinality(MayClose(q)') <= Cardinality(MayClose(q))
      <4>1. MayClose(q)' \in SUBSET MayClose(q)
        BY <2>1, <3>1
      <4>2. QED
        BY <4>1, MayCloseFinite, FS_Subset, FS_CardinalityType
    <3>4. closes[q] \in Nat /\ Cardinality(Callers) \in Nat
      BY MayCloseFinite DEF OrdersInv, Orders!TypeOK
    <3>5. QED
      BY <1>1, <3>2, <3>3, <3>4 DEF Orders!Stored
  <2>6. QED
    BY <1>8, <1>9, <2>4, <2>5 DEF ClosesLeft
<1>12. QED
  BY <1>10, <1>11

(* A call ends and leaves every status as it is. *)
LEMMA OrdersQuietEnd ==
  ASSUME OrdersInv, NEW w \in Callers,
         call' = [call EXCEPT ![w] = Orders!Idle], UNCHANGED <<opens, closes, overlapped>>,
         Orders!Stored' = Orders!Stored,
         \A p \in Orders!Stored : positions'[p].status = positions[p].status
  PROVE  OverlapsAreKnown' /\ ChecksStillHold' /\ ClosedOnce' /\ ClosesLeft'
<1>1. call'[w] = Orders!Idle /\ \A v \in Callers \ {w} : call'[v] = call[v]
  BY DEF OrdersInv, Orders!TypeOK
<1>2. ~InCall(w)' /\ \A v \in Callers \ {w} : InCall(v)' <=> InCall(v)
  BY <1>1 DEF InCall, Orders!Idle
<1>3. OverlapsAreKnown'
  BY <1>1, <1>2 DEF OrdersInv, OverlapsAreKnown
<1>4. ASSUME NEW v \in Callers, InCall(v)', call'[v].pos \notin overlapped'
      PROVE  /\ call'[v].object = "stored"
             /\ call'[v].op \in {"close", "rebalance"} /\ call'[v].at = "checked"
                  => positions'[call'[v].pos].status = "open"
  <2>1. v # w /\ call'[v] = call[v] /\ InCall(v)
    BY <1>1, <1>2, <1>4
  <2>2. call[v].op # "open" => call[v].pos \in Orders!Stored
    BY <2>1, OrdersInCall DEF OrdersInv
  <2>3. QED
    BY <1>4, <2>1, <2>2 DEF OrdersInv, ChecksStillHold
<1>5. ChecksStillHold'
  BY <1>4 DEF ChecksStillHold
<1>6. \A q \in Positions : MayClose(q)' \subseteq MayClose(q)
  BY <1>1, <1>2 DEF MayClose
<1>7. QED
  BY <1>3, <1>5, <1>6, OrdersQuiet

(* Open stores a new state: nothing of it has been closed, and those that have
   looked up the old one overlap. *)
LEMMA OrdersOpened ==
  ASSUME OrdersInv, NEW w \in Callers, Orders!FinishOpen(w)
  PROVE  OverlapsAreKnown' /\ ChecksStillHold' /\ ClosedOnce' /\ ClosesLeft'
<1>1. PICK p : p = call[w].pos
  OBVIOUS
<1>2. InCall(w) /\ p \in Positions
  BY <1>1, OrdersInCall DEF Orders!FinishOpen, Orders!Checked, OrdersInv, InCall
<1>3. /\ closes' = [closes EXCEPT ![p] = 0] /\ UNCHANGED overlapped
      /\ call' = [v \in Callers |-> IF v = w THEN Orders!Idle ELSE Orders!Outdated(v, p)]
      /\ Orders!Stored' = Orders!Stored \cup {p} /\ positions'[p].status = "open"
      /\ \A q \in Orders!Stored \ {p} : positions'[q] = positions[q]
  BY <1>1 DEF Orders!FinishOpen, Orders!Stored
<1>4. closes'[p] = 0 /\ \A q \in Positions \ {p} : closes'[q] = closes[q]
  BY <1>2, <1>3 DEF OrdersInv, Orders!TypeOK
<1>5. /\ ~InCall(w)'
      /\ \A v \in Callers \ {w} :
           /\ InCall(v)' <=> InCall(v)
           /\ InCall(v) => /\ call'[v].pos = call[v].pos /\ call'[v].op = call[v].op
                           /\ call'[v].at = call[v].at
           /\ call'[v] = call[v] \/ (InCall(v) /\ call[v].pos = p)
  <2>1. call'[w] = Orders!Idle
    BY <1>3
  <2>2. ASSUME NEW v \in Callers \ {w}
        PROVE  /\ InCall(v)' <=> InCall(v)
               /\ InCall(v) => /\ call'[v].pos = call[v].pos /\ call'[v].op = call[v].op
                               /\ call'[v].at = call[v].at
               /\ call'[v] = call[v] \/ (InCall(v) /\ call[v].pos = p)
    <3>1. call'[v] = Orders!Outdated(v, p)
      BY <1>3, <2>2
    <3>2. CASE call'[v] = call[v]
      BY <3>2 DEF InCall, Orders!Idle
    <3>3. CASE call'[v] # call[v]
      <4>1. /\ InCall(v) /\ call[v].pos = p
            /\ call'[v] = [call[v] EXCEPT !.object = positions[p].status]
        BY <3>1, <3>3 DEF Orders!Outdated, InCall
      <4>2. call[v] \in Orders!Calls
        BY DEF OrdersInv, Orders!TypeOK
      <4>3. /\ call'[v].pos = call[v].pos /\ call'[v].op = call[v].op
            /\ call'[v].at = call[v].at /\ call[v].op # "idle"
        BY <4>1, <4>2 DEF Orders!Calls, InCall
      <4>4. InCall(v)'
        BY <4>3 DEF InCall, Orders!Idle
      <4>5. QED
        BY <4>1, <4>3, <4>4
    <3>4. QED
      BY <3>2, <3>3
  <2>3. QED
    BY <2>1, <2>2 DEF InCall, Orders!Idle
<1>6. OverlapsAreKnown'
  BY <1>3, <1>5 DEF OrdersInv, OverlapsAreKnown
<1>7. ASSUME NEW v \in Callers, InCall(v)', call'[v].pos \notin overlapped'
      PROVE  /\ call'[v].object = "stored"
             /\ call'[v].op \in {"close", "rebalance"} /\ call'[v].at = "checked"
                  => positions'[call'[v].pos].status = "open"
  <2>1. v # w /\ InCall(v) /\ call'[v].pos = call[v].pos /\ call[v].pos \notin overlapped
    BY <1>3, <1>5, <1>7
  <2>2. call[v].pos # p
    BY <1>1, <1>2, <2>1 DEF OrdersInv, OverlapsAreKnown
  <2>3. call'[v] = call[v]
    BY <1>5, <2>1, <2>2
  <2>4. call[v].op # "open" => call[v].pos \in Orders!Stored \ {p}
    BY <2>1, <2>2, OrdersInCall DEF OrdersInv
  <2>5. QED
    BY <1>3, <2>1, <2>3, <2>4 DEF OrdersInv, ChecksStillHold
<1>8. ChecksStillHold'
  BY <1>7 DEF ChecksStillHold
<1>9. ClosedOnce'
  BY <1>3, <1>4 DEF OrdersInv, ClosedOnce
<1>10. ASSUME NEW q \in Positions, closes'[q] # 0
       PROVE  /\ q \in Orders!Stored' /\ positions'[q].status = "closed"
              /\ closes'[q] + Cardinality(MayClose(q)') <= Cardinality(Callers)
  <2>1. q # p /\ closes'[q] = closes[q]
    BY <1>4, <1>10
  <2>2. MayClose(q)' = MayClose(q)
    <3>1. w \notin MayClose(q) /\ w \notin MayClose(q)'
      BY <1>1, <1>5, <2>1 DEF MayClose
    <3>2. \A v \in Callers \ {w} : v \in MayClose(q)' <=> v \in MayClose(q)
      BY <1>5, <2>1 DEF MayClose
    <3>3. QED
      BY <3>1, <3>2 DEF MayClose
  <2>3. QED
    BY <1>3, <1>10, <2>1, <2>2 DEF OrdersInv, ClosesLeft
<1>11. QED
  BY <1>6, <1>8, <1>9, <1>10 DEF ClosesLeft

(* Close writes, and is one of those that could. *)
LEMMA OrdersClosed ==
  ASSUME OrdersInv, NEW w \in Callers, Orders!FinishClose(w)
  PROVE  OverlapsAreKnown' /\ ChecksStillHold' /\ ClosedOnce' /\ ClosesLeft'
<1>1. PICK p : p = call[w].pos
  OBVIOUS
<1>2. /\ InCall(w) /\ call[w].op = "close" /\ call[w].at = "checked"
      /\ p \in Positions /\ p \in Orders!Stored
  BY <1>1, OrdersInCall DEF Orders!FinishClose, Orders!Checked, OrdersInv, InCall
<1>3. /\ positions' = [positions EXCEPT ![p].status = "closed"]
      /\ closes' = [closes EXCEPT ![p] = closes[p] + 1]
      /\ call' = [call EXCEPT ![w] = Orders!Idle] /\ UNCHANGED overlapped
  BY <1>1 DEF Orders!FinishClose, Orders!Answer
<1>4. /\ Orders!Stored' = Orders!Stored /\ positions'[p].status = "closed"
      /\ \A q \in Orders!Stored \ {p} : positions'[q] = positions[q]
  BY <1>2, <1>3 DEF OrdersInv, Orders!TypeOK, Orders!Stored
<1>5. /\ closes'[p] = closes[p] + 1 /\ closes[p] \in Nat
      /\ \A q \in Positions \ {p} : closes'[q] = closes[q]
  BY <1>2, <1>3 DEF OrdersInv, Orders!TypeOK
<1>6. call'[w] = Orders!Idle /\ \A v \in Callers \ {w} : call'[v] = call[v]
  BY <1>3 DEF OrdersInv, Orders!TypeOK
<1>7. ~InCall(w)' /\ \A v \in Callers \ {w} : InCall(v)' <=> InCall(v)
  BY <1>6 DEF InCall, Orders!Idle
<1>8. OverlapsAreKnown'
  BY <1>3, <1>6, <1>7 DEF OrdersInv, OverlapsAreKnown
<1>9. ASSUME NEW v \in Callers, InCall(v)', call'[v].pos \notin overlapped'
      PROVE  /\ call'[v].object = "stored"
             /\ call'[v].op \in {"close", "rebalance"} /\ call'[v].at = "checked"
                  => positions'[call'[v].pos].status = "open"
  <2>1. v # w /\ InCall(v) /\ call'[v] = call[v] /\ call[v].pos \notin overlapped
    BY <1>3, <1>6, <1>7, <1>9
  <2>2. call[v].pos # p
    BY <1>1, <1>2, <2>1 DEF OrdersInv, OverlapsAreKnown
  <2>3. call[v].op # "open" => call[v].pos \in Orders!Stored \ {p}
    BY <2>1, <2>2, OrdersInCall DEF OrdersInv
  <2>4. QED
    BY <1>4, <2>1, <2>3 DEF OrdersInv, ChecksStillHold
<1>10. ChecksStillHold'
  BY <1>9 DEF ChecksStillHold
<1>11. ClosedOnce'
  <2>1. p \notin overlapped => closes[p] = 0
    BY <1>1, <1>2 DEF OrdersInv, ChecksStillHold, ClosedOnce
  <2>2. QED
    BY <1>3, <1>4, <1>5, <2>1 DEF OrdersInv, ClosedOnce
<1>12. ASSUME NEW q \in Positions, closes'[q] # 0
       PROVE  /\ q \in Orders!Stored' /\ positions'[q].status = "closed"
              /\ closes'[q] + Cardinality(MayClose(q)') <= Cardinality(Callers)
  <2>1. CASE q # p
    <3>1. MayClose(q)' = MayClose(q)
      BY <1>1, <1>6, <1>7, <2>1 DEF MayClose
    <3>2. QED
      BY <1>4, <1>5, <1>12, <2>1, <3>1 DEF OrdersInv, ClosesLeft
  <2>2. CASE q = p
    <3>1. w \in MayClose(p) /\ MayClose(p)' = MayClose(p) \ {w}
      BY <1>1, <1>2, <1>6, <1>7 DEF MayClose
    <3>2. PICK S : S = MayClose(p)
      OBVIOUS
    <3>3. /\ IsFiniteSet(S) /\ Cardinality(S) \in Nat /\ Cardinality(Callers) \in Nat
          /\ Cardinality(S) <= Cardinality(Callers)
      BY <3>2, MayCloseFinite
    <3>4. Cardinality(S \ {w}) = Cardinality(S) - 1
      BY <3>1, <3>2, <3>3, FS_RemoveElement
    <3>5. closes[p] # 0 => closes[p] + Cardinality(S) <= Cardinality(Callers)
      BY <1>2, <3>2 DEF OrdersInv, ClosesLeft
    <3>6. closes'[p] + Cardinality(S \ {w}) <= Cardinality(Callers)
      BY <1>5, <3>3, <3>4, <3>5
    <3>7. QED
      BY <1>2, <1>4, <2>2, <3>1, <3>2, <3>6
  <2>3. QED
    BY <2>1, <2>2
<1>13. QED
  BY <1>8, <1>10, <1>11, <1>12 DEF ClosesLeft

LEMMA OrdersInvStep == OrdersInv /\ [Orders!Next]_ordersVars => OrdersInv'
<1> SUFFICES ASSUME OrdersInv, [Orders!Next]_ordersVars PROVE OrdersInv'
  OBVIOUS
<1>1. Orders!TypeOK /\ Orders!TypeOK'
  BY OrdersTypeStep DEF OrdersInv
<1>2. SUFFICES OverlapsAreKnown' /\ ChecksStillHold' /\ ClosedOnce' /\ ClosesLeft'
  BY <1>1 DEF OrdersInv
<1>3. ASSUME NEW w \in Callers, NEW p \in Positions, NEW r \in Ranges,
             Orders!Open(w, p, r) \/ Orders!Rebalance(w, p, r)
      PROVE  OverlapsAreKnown' /\ ChecksStillHold' /\ ClosedOnce' /\ ClosesLeft'
  BY <1>3, OrdersStart DEF Orders!Open, Orders!Rebalance
<1>4. ASSUME NEW w \in Callers, NEW p \in Positions,
             Orders!Close(w, p) \/ Orders!CollectFees(w, p)
      PROVE  OverlapsAreKnown' /\ ChecksStillHold' /\ ClosedOnce' /\ ClosesLeft'
  BY <1>4, OrdersStart DEF Orders!Close, Orders!CollectFees
<1>5. ASSUME NEW w \in Callers, Orders!CheckStatus(w)
      PROVE  OverlapsAreKnown' /\ ChecksStillHold' /\ ClosedOnce' /\ ClosesLeft'
  <2>1. CASE call' = [call EXCEPT ![w].at = "checked"]
    BY <1>5, <2>1, OrdersCheck
  <2>2. CASE Orders!Answer(w, call[w].pos, FALSE, "none")
    <3>1. call' = [call EXCEPT ![w] = Orders!Idle] /\ UNCHANGED <<positions, opens, closes, overlapped>>
      BY <1>5, <2>2 DEF Orders!CheckStatus, Orders!Answer
    <3>2. QED
      BY <3>1, OrdersQuietEnd DEF Orders!Stored
  <2>3. QED
    BY <1>5, <2>1, <2>2 DEF Orders!CheckStatus
<1>6. ASSUME NEW w \in Callers, Orders!Fail(w) \/ Orders!FinishCollect(w)
      PROVE  OverlapsAreKnown' /\ ChecksStillHold' /\ ClosedOnce' /\ ClosesLeft'
  <2>1. call' = [call EXCEPT ![w] = Orders!Idle] /\ UNCHANGED <<positions, opens, closes, overlapped>>
    BY <1>6 DEF Orders!Fail, Orders!FinishCollect, Orders!Answer
  <2>2. QED
    BY <2>1, OrdersQuietEnd DEF Orders!Stored
<1>7. ASSUME NEW w \in Callers, Orders!FinishRebalance(w)
      PROVE  OverlapsAreKnown' /\ ChecksStillHold' /\ ClosedOnce' /\ ClosesLeft'
  <2>1. /\ call' = [call EXCEPT ![w] = Orders!Idle] /\ UNCHANGED <<opens, closes, overlapped>>
        /\ positions' = [positions EXCEPT ![call[w].pos].range = call[w].range]
    BY <1>7 DEF Orders!FinishRebalance, Orders!Answer
  <2>2. \A p \in Orders!Stored : positions'[p].status = positions[p].status
    BY <1>1, <2>1 DEF Orders!Stored, Orders!TypeOK
  <2>3. QED
    BY <2>1, <2>2, OrdersQuietEnd DEF Orders!Stored
<1>8. CASE UNCHANGED ordersVars
  <2>1. UNCHANGED <<positions, call, opens, closes, said, overlapped>>
    BY <1>8 DEF ordersVars
  <2>2. (\A w \in Callers : InCall(w)' <=> InCall(w)) /\ \A p \in Positions : MayClose(p)' = MayClose(p)
    BY <2>1 DEF InCall, MayClose, Orders!Idle
  <2>3. QED
    BY <2>1, <2>2
       DEF OrdersInv, OverlapsAreKnown, ChecksStillHold, ClosedOnce, ClosesLeft, Orders!Stored
<1>9. QED
  BY <1>3, <1>4, <1>5, <1>6, <1>7, <1>8, OrdersOpened, OrdersClosed DEF Orders!Next

(* A position is closed once for each time it is opened while its calls do not
   overlap, and no more often than there are callers when they do. *)
THEOREM ClosesBounded == Spec => []ClosesAreBounded
<1>1. Init => OrdersInv
  BY InitOfParts, OrdersInvInit
<1>2. OrdersInv /\ [Next]_vars => OrdersInv'
  BY StepOfParts, OrdersInvStep
<1>3. OrdersInv => ClosesAreBounded
  <2>1. SUFFICES ASSUME OrdersInv, NEW p \in Positions
                 PROVE  closes[p] <= IF p \in overlapped THEN Cardinality(Callers) ELSE 1
    BY SameCardinalityOfOrders DEF ClosesAreBounded, Orders!ClosesAreBounded
  <2>2. closes[p] \in Nat /\ Cardinality(Callers) \in Nat /\ Cardinality(MayClose(p)) \in Nat
    BY <2>1, MayCloseFinite DEF OrdersInv, Orders!TypeOK
  <2>3. closes[p] # 0 => closes[p] + Cardinality(MayClose(p)) <= Cardinality(Callers)
    BY <2>1 DEF OrdersInv, ClosesLeft
  <2>4. p \notin overlapped => closes[p] <= 1
    BY <2>1 DEF OrdersInv, ClosedOnce
  <2>5. QED
    BY <2>2, <2>3, <2>4
<1>4. QED
  BY <1>1, <1>2, <1>3, PTL DEF Spec

(* The answer that w gets last is stored, or w is a Rebalance that was
   overlapped. *)
AnswerIsStored(w) ==
  said'[w] # said[w] /\ said'[w].success /\ said'[w].final # "none" =>
    \/ positions'[said'[w].pos].status = said'[w].final
    \/ call[w].op = "rebalance" /\ said'[w].pos \in overlapped

(* An answer that is none of success, or tells no status, is not meant. *)
LEMMA OtherAnswers ==
  ASSUME Orders!TypeOK, NEW v \in Callers, NEW a,
         said' = [said EXCEPT ![v] = a], a.success = FALSE \/ a.final = "none"
  PROVE  \A w \in Callers : AnswerIsStored(w)
  BY DEF Orders!TypeOK, AnswerIsStored

LEMMA AnswersStep == OrdersInv /\ [Orders!Next]_ordersVars => \A w \in Callers : AnswerIsStored(w)
<1> SUFFICES ASSUME OrdersInv, [Orders!Next]_ordersVars
             PROVE  \A w \in Callers : AnswerIsStored(w)
  OBVIOUS
<1>1. Orders!TypeOK
  BY DEF OrdersInv
<1>2. ASSUME NEW v \in Callers, NEW op, NEW p, NEW r, NEW at, Orders!Start(v, op, p, r, at)
      PROVE  \A w \in Callers : AnswerIsStored(w)
  BY <1>1, <1>2, OtherAnswers DEF Orders!Start, Orders!NoAnswer
<1>3. ASSUME NEW v \in Callers, Orders!CheckStatus(v) \/ Orders!Fail(v) \/ Orders!FinishCollect(v)
      PROVE  \A w \in Callers : AnswerIsStored(w)
  <2>1. ASSUME NEW p, NEW success, NEW final, Orders!Answer(v, p, success, final),
               success = FALSE \/ final = "none"
        PROVE  \A w \in Callers : AnswerIsStored(w)
    BY <1>1, <2>1, OtherAnswers DEF Orders!Answer
  <2>2. CASE said' = said
    BY <2>2 DEF AnswerIsStored
  <2>3. QED
    BY <1>3, <2>1, <2>2 DEF Orders!CheckStatus, Orders!Fail, Orders!FinishCollect
<1>4. ASSUME NEW v \in Callers, Orders!FinishOpen(v)
      PROVE  \A w \in Callers : AnswerIsStored(w)
  BY <1>1, <1>4 DEF Orders!FinishOpen, Orders!Stored, Orders!TypeOK, AnswerIsStored
<1>5. ASSUME NEW v \in Callers, Orders!FinishClose(v)
      PROVE  \A w \in Callers : AnswerIsStored(w)
  <2>1. call[v].pos \in Orders!Stored
    BY <1>1, <1>5, OrdersInCall DEF Orders!FinishClose, Orders!Checked, InCall
  <2>2. QED
    BY <1>1, <1>5, <2>1
       DEF Orders!FinishClose, Orders!Answer, Orders!Stored, Orders!TypeOK, AnswerIsStored
<1>6. ASSUME NEW v \in Callers, Orders!FinishRebalance(v)
      PROVE  \A w \in Callers : AnswerIsStored(w)
  <2>1. InCall(v) /\ call[v].op = "rebalance" /\ call[v].at = "checked"
    BY <1>6 DEF Orders!FinishRebalance, Orders!Checked, InCall
  <2>2. call[v].pos \in Orders!Stored
    BY <1>1, <2>1, OrdersInCall
  <2>3. call[v].pos \notin overlapped => positions[call[v].pos].status = "open"
    BY <2>1 DEF OrdersInv, ChecksStillHold
  <2>4. positions'[call[v].pos].status = positions[call[v].pos].status
    BY <1>1, <1>6, <2>2 DEF Orders!FinishRebalance, Orders!Stored, Orders!TypeOK
  <2>5. /\ \A w \in Callers \ {v} : said'[w] = said[w]
        /\ said'[v] = [pos |-> call[v].pos, success |-> TRUE, final |-> "open"]
    BY <1>1, <1>6 DEF Orders!FinishRebalance, Orders!Answer, Orders!TypeOK
  <2>6. QED
    BY <2>1, <2>3, <2>4, <2>5 DEF AnswerIsStored
<1>7. CASE UNCHANGED ordersVars
  BY <1>7 DEF ordersVars, AnswerIsStored
<1>8. QED
  BY <1>2, <1>3, <1>4, <1>5, <1>6, <1>7
     DEF Orders!Next, Orders!Open, Orders!Rebalance, Orders!Close, Orders!CollectFees

(* What an answer of success calls the status is what the table then has, but
   for a Rebalance that another call overlaps. *)
THEOREM SuccessesStored == Spec => SuccessesAreStored
<1>1. Init => OrdersInv
  BY InitOfParts, OrdersInvInit
<1>2. OrdersInv /\ [Next]_vars => OrdersInv'
  BY StepOfParts, OrdersInvStep
<1>3. OrdersInv /\ [Next]_vars => [\A w \in Callers : AnswerIsStored(w)]_ordersVars
  BY StepOfParts, AnswersStep
<1>4. QED
  BY <1>1, <1>2, <1>3, PTL
     DEF Spec, SuccessesAreStored, Orders!SuccessesAreStored, AnswerIsStored, ordersVars, Orders!vars

-----------------------------------------------------------------------------
(* Approvals. *)

(* A key whose release is under way has been revoked, and stays so unless it
   is acquired meanwhile. *)
ReleasedIsRevoked ==
  \A c \in Callers :
    releasing[c] # Approvals!NoKey /\ releasing[c] \notin crossed => allowance[releasing[c]] = 0

ApprovalsInv == Approvals!TypeOK /\ AllowanceIsTracked /\ ReleasedIsRevoked

LEMMA ApprovalsTypeStep ==
  Approvals!TypeOK /\ [Approvals!Next]_approvalsVars => Approvals!TypeOK'
<1> SUFFICES ASSUME Approvals!TypeOK, [Approvals!Next]_approvalsVars PROVE Approvals!TypeOK'
  OBVIOUS
<1> USE DEF Approvals!TypeOK, Approvals!Tracked
<1>1. ASSUME NEW c \in Callers, NEW k \in Keys, NEW n \in Needs, NEW p \in PositionIds,
             Approvals!Acquire(c, k, n, p)
      PROVE  Approvals!TypeOK'
  <2>1. CASE Approvals!Reuse(k, n, p)
    BY <1>1, <2>1 DEF Approvals!Acquire, Approvals!Reuse
  <2>2. CASE Approvals!Approve(k, n, p)
    BY <1>1, <2>2 DEF Approvals!Acquire, Approvals!Approve, Approvals!Record, Approvals!Build
  <2>3. QED
    BY <1>1, <2>1, <2>2 DEF Approvals!Acquire
<1>2. ASSUME NEW c \in Callers, NEW k \in Keys, Approvals!Release(c, k)
      PROVE  Approvals!TypeOK'
  BY <1>2 DEF Approvals!Release, Approvals!Build
<1>3. ASSUME NEW c \in Callers, Approvals!Forget(c)
      PROVE  Approvals!TypeOK'
  BY <1>3 DEF Approvals!Forget
<1>4. CASE UNCHANGED approvalsVars
  BY <1>4 DEF approvalsVars
<1>5. QED
  BY <1>1, <1>2, <1>3, <1>4 DEF Approvals!Next

LEMMA ApprovalsInvInit == Approvals!Init => ApprovalsInv
<1> SUFFICES ASSUME Approvals!Init PROVE ApprovalsInv
  OBVIOUS
<1>1. Approvals!TypeOK
  BY DEF Approvals!Init, Approvals!TypeOK, Approvals!Tracked
<1>2. \A k \in Keys : allowance[k] = 0 /\ Approvals!Amount(k) = 0
  BY DEF Approvals!Init, Approvals!Amount, Approvals!Tracked
<1>3. QED
  BY <1>1, <1>2 DEF ApprovalsInv, ReleasedIsRevoked, AllowanceIsTracked,
                    Approvals!AllowanceIsTracked, Approvals!Init

LEMMA ApprovalsInvStep == ApprovalsInv /\ [Approvals!Next]_approvalsVars => ApprovalsInv'
<1> SUFFICES ASSUME ApprovalsInv, [Approvals!Next]_approvalsVars PROVE ApprovalsInv'
  OBVIOUS
<1>1. Approvals!TypeOK /\ Approvals!TypeOK'
  BY ApprovalsTypeStep DEF ApprovalsInv
<1>2. \A k \in Keys \ crossed : allowance[k] <= Approvals!Amount(k)
  BY DEF ApprovalsInv, AllowanceIsTracked, Approvals!AllowanceIsTracked
<1>3. SUFFICES /\ \A k \in Keys \ crossed' : allowance'[k] <= Approvals!Amount(k)'
               /\ ReleasedIsRevoked'
  BY <1>1 DEF ApprovalsInv, AllowanceIsTracked, Approvals!AllowanceIsTracked
<1>4. \A k \in Keys : Approvals!Amount(k) \in Nat
  BY <1>1, ApprovalsAssumption DEF Approvals!TypeOK, Approvals!Amount
<1>5. ASSUME NEW c \in Callers, NEW k \in Keys, NEW n \in Needs, NEW p \in PositionIds,
             Approvals!Acquire(c, k, n, p)
      PROVE  /\ \A j \in Keys \ crossed' : allowance'[j] <= Approvals!Amount(j)'
             /\ ReleasedIsRevoked'
  <2>1. /\ crossed \subseteq crossed' /\ UNCHANGED releasing
        /\ \A d \in Callers : releasing[d] = k => k \in crossed'
    BY <1>5 DEF Approvals!Acquire
  <2>2. \A j \in Keys \ {k} : allowance'[j] = allowance[j] /\ Approvals!Amount(j)' = Approvals!Amount(j)
    <3>1. CASE Approvals!Reuse(k, n, p)
      BY <1>1, <3>1 DEF Approvals!Reuse, Approvals!Amount, Approvals!Tracked, Approvals!TypeOK
    <3>2. CASE Approvals!Approve(k, n, p)
      BY <1>1, <3>2 DEF Approvals!Approve, Approvals!Record, Approvals!Build, Approvals!Amount,
                        Approvals!Tracked, Approvals!TypeOK
    <3>3. QED
      BY <1>5, <3>1, <3>2 DEF Approvals!Acquire
  <2>3. k \notin crossed' => allowance'[k] <= Approvals!Amount(k)'
    <3>1. CASE Approvals!Reuse(k, n, p)
      <4>1. allowance'[k] = allowance[k] /\ Approvals!Amount(k)' = Approvals!Amount(k)
        BY <1>1, <3>1 DEF Approvals!Reuse, Approvals!Amount, Approvals!Tracked, Approvals!TypeOK
      <4>2. QED
        BY <1>2, <2>1, <4>1
    <3>2. CASE Approvals!Record(k, n, p) /\ Approvals!Build(k, n)
      <4>1. allowance'[k] = n /\ Approvals!Amount(k)' = n
        BY <1>1, <3>2 DEF Approvals!Record, Approvals!Build, Approvals!Amount,
                          Approvals!Tracked, Approvals!TypeOK
      <4>2. QED
        BY <4>1, ApprovalsAssumption
    <3>3. CASE Approvals!Build(k, 0) /\ UNCHANGED approvals
      <4>1. allowance'[k] = 0 /\ Approvals!Amount(k)' = Approvals!Amount(k)
        BY <1>1, <3>3 DEF Approvals!Build, Approvals!Amount, Approvals!Tracked, Approvals!TypeOK
      <4>2. QED
        BY <1>4, <4>1
    <3>4. QED
      BY <1>5, <3>1, <3>2, <3>3 DEF Approvals!Acquire, Approvals!Approve
  <2>4. ReleasedIsRevoked'
    BY <1>1, <2>1, <2>2 DEF ApprovalsInv, ReleasedIsRevoked, Approvals!TypeOK
  <2>5. QED
    BY <1>2, <2>1, <2>2, <2>3, <2>4
<1>6. ASSUME NEW c \in Callers, NEW k \in Keys, Approvals!Release(c, k)
      PROVE  /\ \A j \in Keys \ crossed' : allowance'[j] <= Approvals!Amount(j)'
             /\ ReleasedIsRevoked'
  <2>1. /\ allowance'[k] = 0 /\ \A j \in Keys \ {k} : allowance'[j] = allowance[j]
        /\ releasing'[c] = k /\ \A d \in Callers \ {c} : releasing'[d] = releasing[d]
        /\ UNCHANGED crossed
    BY <1>1, <1>6 DEF Approvals!Release, Approvals!Build, Approvals!TypeOK
  <2>2. \A j \in Keys : Approvals!Amount(j)' = Approvals!Amount(j)
    BY <1>6 DEF Approvals!Release, Approvals!Amount, Approvals!Tracked
  <2>3. \A j \in Keys \ crossed' : allowance'[j] <= Approvals!Amount(j)'
    BY <1>2, <1>4, <2>1, <2>2
  <2>4. ReleasedIsRevoked'
    BY <1>1, <2>1 DEF ApprovalsInv, ReleasedIsRevoked, Approvals!TypeOK
  <2>5. QED
    BY <2>3, <2>4
<1>7. ASSUME NEW c \in Callers, Approvals!Forget(c)
      PROVE  /\ \A j \in Keys \ crossed' : allowance'[j] <= Approvals!Amount(j)'
             /\ ReleasedIsRevoked'
  <2>1. PICK k : k = releasing[c]
    OBVIOUS
  <2>2. /\ k # Approvals!NoKey /\ k \in Keys /\ UNCHANGED <<allowance, crossed>>
        /\ releasing'[c] = Approvals!NoKey
        /\ \A d \in Callers \ {c} : releasing'[d] = releasing[d]
    BY <1>1, <1>7, <2>1 DEF Approvals!Forget, Approvals!TypeOK
  <2>3. Approvals!Amount(k)' = 0 /\ \A j \in Keys \ {k} : Approvals!Amount(j)' = Approvals!Amount(j)
    BY <1>1, <1>7, <2>1 DEF Approvals!Forget, Approvals!Amount, Approvals!Tracked, Approvals!TypeOK
  <2>4. k \notin crossed => allowance[k] = 0
    BY <2>1, <2>2 DEF ApprovalsInv, ReleasedIsRevoked
  <2>5. ReleasedIsRevoked'
    BY <2>2 DEF ApprovalsInv, ReleasedIsRevoked
  <2>6. QED
    BY <1>2, <2>2, <2>3, <2>4, <2>5
<1>8. CASE UNCHANGED approvalsVars
  BY <1>2, <1>8 DEF approvalsVars, ApprovalsInv, ReleasedIsRevoked, Approvals!Amount, Approvals!Tracked
<1>9. QED
  BY <1>5, <1>6, <1>7, <1>8 DEF Approvals!Next

(* No spender may take more than the tracker knows of, nor anything of what it
   has forgotten, as long as no key is acquired within its release. *)
THEOREM AllowanceTracked == Spec => []AllowanceIsTracked
<1>1. Init => ApprovalsInv
  BY InitOfParts, ApprovalsInvInit
<1>2. ApprovalsInv /\ [Next]_vars => ApprovalsInv'
  BY StepOfParts, ApprovalsInvStep
<1>3. ApprovalsInv => AllowanceIsTracked
  BY DEF ApprovalsInv
<1>4. QED
  BY <1>1, <1>2, <1>3, PTL DEF Spec

-----------------------------------------------------------------------------
(* Records. *)

(* What a row must have been to be s, where S is what it has been. *)
PastOf(s, S) ==
  s \in Records!Upserted \/ \E r \in S : s \in Records!ValidTransitions[r]

(* The past of every status a row has had, not only of the one it has, and of
   the status a checked update is about to write. *)
PastIsComplete ==
  /\ \A h \in TxHashes : \A s \in seen[h] : PastOf(s, seen[h])
  /\ \A h \in Records!Stored : rows[h].status \in seen[h]
  /\ \A w \in Callers :
       txCall[w] # Records!Idle /\ txCall[w].op = "update"
         => PastOf(txCall[w].to, seen[txCall[w].hash])

(* The callers whose increment since the last overwrite is still unanswered. *)
Pending(h) ==
  {w \in Callers : txCall[w] # Records!Idle /\ txCall[w].op = "inc"
                     /\ txCall[w].hash = h /\ txCall[w].counts}

(* The counter holds all bumps that were allowed, and those that may be. *)
CounterHoldsBumps ==
  \A h \in Records!Stored : allowed[h] + Cardinality(Pending(h)) <= rows[h].attempts

RecordsInv ==
  /\ Records!TxTypeOK
  /\ PastIsComplete
  /\ CounterHoldsBumps
  /\ Records!BumpsGrantedBounded

LEMMA RecordsTypeInit == Records!TxInit => Records!TxTypeOK
  BY DEF Records!TxInit, Records!TxTypeOK, Records!Stored, Records!Calls

(* An overwrite of the row makes the increments under way for it void. *)
LEMMA UpsertCalls ==
  ASSUME Records!TxTypeOK, NEW h, NEW s, NEW k, Records!UpsertTx(h, s, k), NEW w \in Callers
  PROVE  \/ txCall'[w] = txCall[w] /\ ~(txCall[w].op = "inc" /\ txCall[w].hash = h)
         \/ /\ txCall[w] \in [op : {"inc"}, hash : TxHashes, counts : BOOLEAN]
            /\ txCall'[w] \in [op : {"inc"}, hash : TxHashes, counts : BOOLEAN]
            /\ txCall[w].hash = h /\ txCall'[w].hash = h /\ ~txCall'[w].counts
<1>1. txCall' = [v \in Callers |->
                   IF txCall[v].op = "inc" /\ txCall[v].hash = h
                   THEN [txCall[v] EXCEPT !.counts = FALSE] ELSE txCall[v]]
  BY DEF Records!UpsertTx
<1>2. CASE txCall[w].op = "inc" /\ txCall[w].hash = h
  <2>1. txCall[w] \in [op : {"inc"}, hash : TxHashes, counts : BOOLEAN]
    BY <1>2 DEF Records!TxTypeOK, Records!Calls, Records!Idle
  <2>2. txCall'[w] = [txCall[w] EXCEPT !.counts = FALSE]
    BY <1>1, <1>2
  <2>3. QED
    BY <1>2, <2>1, <2>2
<1>3. CASE ~(txCall[w].op = "inc" /\ txCall[w].hash = h)
  BY <1>1, <1>3
<1>4. QED
  BY <1>2, <1>3

LEMMA RecordsTypeStep ==
  Records!TxTypeOK /\ [Records!TxNext]_recordsVars => Records!TxTypeOK'
<1> SUFFICES ASSUME Records!TxTypeOK, [Records!TxNext]_recordsVars PROVE Records!TxTypeOK'
  OBVIOUS
<1> USE DEF Records!TxTypeOK, Records!Stored, Records!Calls
<1>1. ASSUME NEW h \in TxHashes, NEW r \in TxRecords, Records!UpsertTx(h, r[1], r[2])
      PROVE  Records!TxTypeOK'
  <2>1. /\ r[2] \in 0..MaxCount
        /\ (IF r[1] = "" THEN "built" ELSE r[1]) \in Records!Statuses
    BY RecordsAssumption DEF Records!Statuses, Records!ValidTransitions
  <2>2. ASSUME NEW w \in Callers
        PROVE  /\ txCall'[w] \in Records!Calls
               /\ txCall'[w] # Records!Idle =>
                    txCall[w] # Records!Idle /\ txCall'[w].hash = txCall[w].hash
    <3>1. CASE txCall'[w] = txCall[w]
      BY <3>1
    <3>2. CASE /\ txCall[w] \in [op : {"inc"}, hash : TxHashes, counts : BOOLEAN]
               /\ txCall'[w] \in [op : {"inc"}, hash : TxHashes, counts : BOOLEAN]
               /\ txCall[w].hash = h /\ txCall'[w].hash = h
      BY <3>2 DEF Records!Idle
    <3>3. QED
      BY <1>1, <3>1, <3>2, UpsertCalls
  <2>3. txCall' \in [Callers -> Records!Calls]
    <3>1. txCall' = [w \in Callers |-> txCall'[w]]
      <4> HIDE DEF Records!TxTypeOK, Records!Calls
      <4>1. QED
        BY <1>1 DEF Records!UpsertTx
    <3>2. QED
      BY <2>2, <3>1
  <2>4. PICK status, k : /\ status \in Records!Statuses /\ k \in 0..MaxCount
                         /\ rows' = Records!Write(h, [status |-> status, attempts |-> k])
                         /\ seen' = [seen EXCEPT ![h] = seen[h] \cup {status}]
                         /\ allowed' = [allowed EXCEPT ![h] = 0]
    BY <1>1, <2>1 DEF Records!UpsertTx
  <2>5. \A g \in DOMAIN rows' : rows'[g] \in [status : Records!Statuses, attempts : 0..MaxCount]
    BY <2>4 DEF Records!Write
  <2>6. DOMAIN rows' = Records!Stored \cup {h}
    BY <2>4 DEF Records!Write
  <2>7. QED
    BY <2>2, <2>3, <2>4, <2>5, <2>6
<1>2. ASSUME NEW w \in Callers, NEW h \in TxHashes, NEW s \in Records!Statuses,
             Records!UpdateTxStatusCheck(w, h, s)
      PROVE  Records!TxTypeOK'
  BY <1>2 DEF Records!UpdateTxStatusCheck
<1>3. ASSUME NEW w \in Callers, Records!UpdateTxStatusWrite(w)
      PROVE  Records!TxTypeOK'
  <2>1. /\ txCall[w].hash \in Records!Stored /\ txCall[w].to \in Records!Statuses
    BY <1>3 DEF Records!UpdateTxStatusWrite, Records!Idle
  <2>2. QED
    BY <1>3, <2>1 DEF Records!UpdateTxStatusWrite
<1>4. ASSUME NEW w \in Callers, NEW h \in TxHashes, Records!IncrementWrite(w, h)
      PROVE  Records!TxTypeOK'
  <2>1. rows[h].attempts + 1 \in 0..MaxCount
    <3>1. rows[h].attempts \in 0..MaxCount /\ rows[h].attempts < MaxCount
      BY <1>4 DEF Records!IncrementWrite
    <3>2. MaxCount \in Nat
      BY RecordsAssumption
    <3>3. QED
      BY <3>1, <3>2
  <2>2. txCall' \in [Callers -> Records!Calls]
    BY <1>4 DEF Records!IncrementWrite
  <2>3. \A g \in DOMAIN rows' : rows'[g] \in [status : Records!Statuses, attempts : 0..MaxCount]
    BY <1>4, <2>1 DEF Records!IncrementWrite
  <2>4. QED
    BY <1>4, <2>2, <2>3 DEF Records!IncrementWrite
<1>5. ASSUME NEW w \in Callers, Records!IncrementCheck(w)
      PROVE  Records!TxTypeOK'
  <2>1. txCall[w].hash \in TxHashes
    BY <1>5 DEF Records!IncrementCheck, Records!Idle
  <2>2. QED
    BY <1>5, <2>1 DEF Records!IncrementCheck
<1>6. CASE UNCHANGED recordsVars
  BY <1>6 DEF recordsVars
<1>7. QED
  BY <1>1, <1>2, <1>3, <1>4, <1>5, <1>6 DEF Records!TxNext

(* A longer past. *)
LEMMA PastGrows ==
  ASSUME NEW s, NEW S, NEW T, S \subseteq T, PastOf(s, S)
  PROVE  PastOf(s, T)
  BY DEF PastOf

LEMMA PastStep ==
  ASSUME Records!TxTypeOK, PastIsComplete, [Records!TxNext]_recordsVars
  PROVE  PastIsComplete'
<1>1. ASSUME NEW h \in TxHashes, NEW r \in TxRecords, Records!UpsertTx(h, r[1], r[2])
      PROVE  PastIsComplete'
  <2> DEFINE status == IF r[1] = "" THEN "built" ELSE r[1]
  <2>1. status \in Records!Upserted
    BY DEF Records!Upserted
  <2>2. /\ seen' = [seen EXCEPT ![h] = seen[h] \cup {status}]
        /\ Records!Stored' = Records!Stored \cup {h}
        /\ rows'[h].status = status
        /\ \A g \in Records!Stored \ {h} : rows'[g] = rows[g]
    BY <1>1 DEF Records!UpsertTx, Records!Write, Records!Stored
  <2>3. \A w \in Callers : txCall'[w].op = "update" => txCall'[w] = txCall[w]
    <3>1. ASSUME NEW w \in Callers, txCall'[w].op = "update"
          PROVE  txCall'[w] = txCall[w]
      <4> HIDE DEF status
      <4>1. QED
        BY <1>1, <3>1, UpsertCalls
    <3>2. QED
      BY <3>1
  <2> HIDE DEF status
  <2>4. /\ seen'[h] = seen[h] \cup {status} /\ \A g \in TxHashes \ {h} : seen'[g] = seen[g]
        /\ \A g \in TxHashes : seen[g] \subseteq seen'[g]
    BY <2>2 DEF Records!TxTypeOK
  <2>5. PastOf(status, seen'[h])
    BY <2>1 DEF PastOf
  <2>6. \A g \in TxHashes : \A s \in seen'[g] : PastOf(s, seen'[g])
    BY <2>4, <2>5, PastGrows DEF PastIsComplete
  <2>7. \A g \in Records!Stored' : rows'[g].status \in seen'[g]
    BY <2>2, <2>4 DEF PastIsComplete, Records!TxTypeOK
  <2>8. \A w \in Callers :
          txCall'[w] # Records!Idle /\ txCall'[w].op = "update"
            => PastOf(txCall'[w].to, seen'[txCall'[w].hash])
    <3>1. ASSUME NEW w \in Callers, txCall'[w] # Records!Idle, txCall'[w].op = "update"
          PROVE  PastOf(txCall'[w].to, seen'[txCall'[w].hash])
      <4>1. txCall'[w] = txCall[w] /\ txCall[w].hash \in TxHashes
        BY <2>3, <3>1 DEF Records!TxTypeOK
      <4>2. QED
        BY <2>4, <3>1, <4>1, PastGrows DEF PastIsComplete
    <3>2. QED
      BY <3>1
  <2>9. QED
    BY <2>6, <2>7, <2>8 DEF PastIsComplete, Records!Idle
<1>2. ASSUME NEW w \in Callers, NEW h \in TxHashes, NEW s \in Records!Statuses,
             Records!UpdateTxStatusCheck(w, h, s)
      PROVE  PastIsComplete'
  <2> DEFINE new == [op |-> "update", hash |-> h, to |-> s]
  <2>1. /\ h \in Records!Stored /\ s \in Records!ValidTransitions[rows[h].status]
        /\ txCall' = [txCall EXCEPT ![w] = new] /\ UNCHANGED <<rows, seen>>
        /\ new.hash = h /\ new.to = s
    BY <1>2 DEF Records!UpdateTxStatusCheck
  <2> HIDE DEF new
  <2>2. rows[h].status \in Records!Statuses
    BY <2>1 DEF Records!TxTypeOK
  <2>3. PastOf(s, seen[h])
    BY <2>1 DEF PastIsComplete, PastOf
  <2>4. txCall'[w] = new /\ \A v \in Callers \ {w} : txCall'[v] = txCall[v]
    BY <2>1 DEF Records!TxTypeOK
  <2>5. QED
    BY <2>1, <2>3, <2>4 DEF PastIsComplete, Records!Stored, Records!Idle
<1>3. ASSUME NEW w \in Callers, Records!UpdateTxStatusWrite(w)
      PROVE  PastIsComplete'
  <2>1. PICK h, to : h = txCall[w].hash /\ to = txCall[w].to
    OBVIOUS
  <2>2. /\ txCall[w] # Records!Idle /\ txCall[w].op = "update"
        /\ h \in Records!Stored /\ h \in TxHashes
        /\ rows' = [rows EXCEPT ![h].status = to]
        /\ seen' = [seen EXCEPT ![h] = seen[h] \cup {to}]
        /\ txCall' = [txCall EXCEPT ![w] = Records!Idle]
    BY <1>3, <2>1 DEF Records!UpdateTxStatusWrite, Records!TxTypeOK, Records!Idle
  <2>3. PastOf(to, seen[h])
    BY <2>1, <2>2 DEF PastIsComplete
  <2>4. /\ seen'[h] = seen[h] \cup {to} /\ \A g \in TxHashes \ {h} : seen'[g] = seen[g]
        /\ \A g \in TxHashes : seen[g] \subseteq seen'[g]
    BY <2>2 DEF Records!TxTypeOK
  <2>5. txCall'[w] = Records!Idle /\ \A v \in Callers \ {w} : txCall'[v] = txCall[v]
    BY <2>2 DEF Records!TxTypeOK
  <2>6. /\ Records!Stored' = Records!Stored /\ rows'[h].status = to
        /\ \A g \in Records!Stored \ {h} : rows'[g] = rows[g]
    BY <2>2 DEF Records!Stored, Records!TxTypeOK
  <2>7. \A g \in TxHashes : \A s \in seen'[g] : PastOf(s, seen'[g])
    BY <2>3, <2>4, PastGrows DEF PastIsComplete
  <2>8. \A v \in Callers :
          txCall'[v] # Records!Idle /\ txCall'[v].op = "update"
            => PastOf(txCall'[v].to, seen'[txCall'[v].hash])
    <3>1. ASSUME NEW v \in Callers, txCall'[v] # Records!Idle, txCall'[v].op = "update"
          PROVE  PastOf(txCall'[v].to, seen'[txCall'[v].hash])
      <4>1. txCall'[v] = txCall[v] /\ txCall[v].hash \in TxHashes
        BY <2>5, <3>1 DEF Records!TxTypeOK
      <4>2. QED
        BY <2>4, <3>1, <4>1, PastGrows DEF PastIsComplete
    <3>2. QED
      BY <3>1
  <2>9. \A g \in Records!Stored' : rows'[g].status \in seen'[g]
    BY <2>4, <2>6 DEF PastIsComplete, Records!TxTypeOK
  <2>10. QED
    BY <2>7, <2>8, <2>9 DEF PastIsComplete, Records!Idle
<1>4. ASSUME NEW w \in Callers, NEW h \in TxHashes, Records!IncrementWrite(w, h)
      PROVE  PastIsComplete'
  <2>1. /\ UNCHANGED seen /\ Records!Stored' = Records!Stored
        /\ \A g \in Records!Stored : rows'[g].status = rows[g].status
        /\ txCall'[w].op = "inc" /\ \A v \in Callers \ {w} : txCall'[v] = txCall[v]
    BY <1>4 DEF Records!IncrementWrite, Records!Stored, Records!TxTypeOK
  <2>2. QED
    BY <2>1 DEF PastIsComplete, Records!Idle
<1>5. ASSUME NEW w \in Callers, Records!IncrementCheck(w)
      PROVE  PastIsComplete'
  <2>1. /\ UNCHANGED <<seen, rows>> /\ txCall'[w] = Records!Idle
        /\ \A v \in Callers \ {w} : txCall'[v] = txCall[v]
    BY <1>5 DEF Records!IncrementCheck, Records!TxTypeOK
  <2>2. QED
    BY <2>1 DEF PastIsComplete, Records!Stored, Records!Idle
<1>6. CASE UNCHANGED recordsVars
  BY <1>6 DEF recordsVars, PastIsComplete, Records!Stored
<1>7. QED
  BY <1>1, <1>2, <1>3, <1>4, <1>5, <1>6 DEF Records!TxNext

LEMMA PendingIsFinite ==
  \A h : IsFiniteSet(Pending(h)) /\ Cardinality(Pending(h)) \in Nat
<1> TAKE h
<1>1. Pending(h) \in SUBSET Callers
  BY DEF Pending
<1>2. IsFiniteSet(Pending(h))
  BY <1>1, CallersAssumption, FS_Subset
<1>3. QED
  BY <1>2, FS_CardinalityType

(* A step that neither writes a counter nor starts or ends an increment. *)
LEMMA CounterQuiet ==
  ASSUME Records!TxTypeOK, CounterHoldsBumps, Records!BumpsGrantedBounded,
         UNCHANGED allowed, Records!Stored' = Records!Stored,
         \A h \in Records!Stored : rows'[h].attempts = rows[h].attempts,
         \A h \in Records!Stored : Pending(h)' = Pending(h)
  PROVE  CounterHoldsBumps' /\ Records!BumpsGrantedBounded'
<1>1. CounterHoldsBumps'
  BY DEF CounterHoldsBumps
<1>2. Records!BumpsGrantedBounded'
  BY DEF Records!BumpsGrantedBounded
<1>3. QED
  BY <1>1, <1>2

LEMMA CounterStep ==
  ASSUME Records!TxTypeOK, CounterHoldsBumps, Records!BumpsGrantedBounded,
         [Records!TxNext]_recordsVars
  PROVE  CounterHoldsBumps' /\ Records!BumpsGrantedBounded'
<1>1. MaxRBF \in Nat /\ MaxCount \in Nat
  BY RecordsAssumption
<1>2. \A h \in TxHashes : allowed[h] \in Nat /\ allowed[h] <= MaxRBF
  BY DEF Records!TxTypeOK, Records!BumpsGrantedBounded
<1>3. ASSUME NEW h \in Records!Stored
      PROVE  /\ h \in TxHashes /\ rows[h].attempts \in Nat
             /\ allowed[h] + Cardinality(Pending(h)) <= rows[h].attempts
  <2>1. h \in TxHashes /\ rows[h] \in [status : Records!Statuses, attempts : 0..MaxCount]
    BY DEF Records!TxTypeOK
  <2>2. rows[h].attempts \in Nat
    BY <1>1, <2>1
  <2>3. QED
    BY <2>1, <2>2 DEF CounterHoldsBumps
<1>4. ASSUME NEW h \in TxHashes, NEW r \in TxRecords, Records!UpsertTx(h, r[1], r[2])
      PROVE  CounterHoldsBumps' /\ Records!BumpsGrantedBounded'
  <2>1. PICK k : k = r[2] /\ k \in Nat
    <3>1. r[2] \in 0..MaxCount
      BY RecordsAssumption
    <3>2. r[2] \in Nat
      BY <1>1, <3>1
    <3>3. QED
      BY <3>2
  <2>2. /\ Records!Stored' = Records!Stored \cup {h} /\ rows'[h].attempts = k
        /\ \A g \in Records!Stored \ {h} : rows'[g] = rows[g]
        /\ allowed' = [allowed EXCEPT ![h] = 0]
    BY <1>4, <2>1 DEF Records!UpsertTx, Records!Write, Records!Stored
  <2>3. allowed'[h] = 0 /\ \A g \in TxHashes \ {h} : allowed'[g] = allowed[g]
    BY <2>2 DEF Records!TxTypeOK
  <2>4. Pending(h)' = {}
    <3>1. ASSUME NEW w \in Callers, w \in Pending(h)'
          PROVE  FALSE
      <4>1. txCall'[w].op = "inc" /\ txCall'[w].hash = h /\ txCall'[w].counts
        BY <3>1 DEF Pending
      <4>2. QED
        BY <1>4, <4>1, UpsertCalls
    <3>2. QED
      BY <3>1 DEF Pending
  <2>5. ASSUME NEW g \in TxHashes \ {h}
        PROVE  Pending(g)' = Pending(g)
    <3>1. \A w \in Callers : txCall'[w] = txCall[w] \/ (txCall[w].hash = h /\ txCall'[w].hash = h)
      BY <1>4, UpsertCalls
    <3>2. QED
      BY <3>1 DEF Pending, Records!Idle
  <2>6. CounterHoldsBumps'
    <3>1. ASSUME NEW g \in Records!Stored'
          PROVE  allowed'[g] + Cardinality(Pending(g)') <= rows'[g].attempts
      <4>1. CASE g = h
        <5>1. Cardinality(Pending(g)') = 0
          BY <2>4, <4>1, FS_EmptySet
        <5>2. QED
          BY <2>1, <2>2, <2>3, <4>1, <5>1
      <4>2. CASE g # h
        <5>1. g \in Records!Stored /\ g \in TxHashes
          BY <1>3, <2>2, <4>2
        <5>2. QED
          BY <1>3, <2>2, <2>3, <2>5, <4>2, <5>1
      <4>3. QED
        BY <4>1, <4>2
    <3>2. QED
      BY <3>1 DEF CounterHoldsBumps
  <2>7. Records!BumpsGrantedBounded'
    BY <1>1, <1>2, <2>3 DEF Records!BumpsGrantedBounded
  <2>8. QED
    BY <2>6, <2>7
<1>5. ASSUME NEW w \in Callers, NEW h \in TxHashes, NEW s \in Records!Statuses,
             Records!UpdateTxStatusCheck(w, h, s)
      PROVE  CounterHoldsBumps' /\ Records!BumpsGrantedBounded'
  <2>1. /\ txCall[w] = Records!Idle /\ txCall'[w].op = "update"
        /\ \A v \in Callers \ {w} : txCall'[v] = txCall[v]
        /\ UNCHANGED <<rows, allowed>>
    BY <1>5 DEF Records!UpdateTxStatusCheck, Records!TxTypeOK
  <2>2. \A g \in Records!Stored : Pending(g)' = Pending(g)
    BY <2>1 DEF Pending
  <2>3. QED
    BY <2>1, <2>2, CounterQuiet DEF Records!Stored
<1>6. ASSUME NEW w \in Callers, Records!UpdateTxStatusWrite(w)
      PROVE  CounterHoldsBumps' /\ Records!BumpsGrantedBounded'
  <2>1. /\ txCall[w].op = "update" /\ txCall'[w] = Records!Idle
        /\ \A v \in Callers \ {w} : txCall'[v] = txCall[v]
        /\ UNCHANGED allowed
    BY <1>6 DEF Records!UpdateTxStatusWrite, Records!TxTypeOK
  <2>2. PICK h : h = txCall[w].hash
    OBVIOUS
  <2>3. PICK to : to = txCall[w].to
    OBVIOUS
  <2>4. h \in Records!Stored /\ rows' = [rows EXCEPT ![h].status = to]
    <3>1. txCall[w] # Records!Idle
      BY <2>1 DEF Records!Idle
    <3>2. h \in Records!Stored
      BY <2>2, <3>1 DEF Records!TxTypeOK
    <3>3. rows' = [rows EXCEPT ![h].status = to]
      BY <1>6, <2>2, <2>3 DEF Records!UpdateTxStatusWrite
    <3>4. QED
      BY <3>2, <3>3
  <2>5. \A g \in Records!Stored : Pending(g)' = Pending(g)
    BY <2>1 DEF Pending
  <2>6. rows[h] \in [status : Records!Statuses, attempts : 0..MaxCount]
    BY <2>4 DEF Records!TxTypeOK
  <2>7. Records!Stored' = Records!Stored /\ \A g \in Records!Stored : rows'[g].attempts = rows[g].attempts
    BY <2>4, <2>6 DEF Records!Stored
  <2>8. QED
    BY <2>1, <2>5, <2>7, CounterQuiet
<1>7. ASSUME NEW w \in Callers, NEW h \in TxHashes, Records!IncrementWrite(w, h)
      PROVE  CounterHoldsBumps' /\ Records!BumpsGrantedBounded'
  <2> DEFINE new == [op |-> "inc", hash |-> h, counts |-> TRUE]
  <2>1. /\ txCall[w] = Records!Idle /\ h \in Records!Stored
        /\ txCall' = [txCall EXCEPT ![w] = new] /\ UNCHANGED allowed
        /\ rows' = [rows EXCEPT ![h].attempts = rows[h].attempts + 1]
        /\ new.op = "inc" /\ new.hash = h /\ new.counts /\ new # Records!Idle
    BY <1>7 DEF Records!IncrementWrite, Records!Idle
  <2> HIDE DEF new
  <2>2. txCall'[w] = new /\ \A v \in Callers \ {w} : txCall'[v] = txCall[v]
    BY <2>1 DEF Records!TxTypeOK
  <2>3. rows[h] \in [status : Records!Statuses, attempts : 0..MaxCount]
    BY <2>1 DEF Records!TxTypeOK
  <2>4. /\ Records!Stored' = Records!Stored /\ rows'[h].attempts = rows[h].attempts + 1
        /\ \A g \in Records!Stored \ {h} : rows'[g] = rows[g]
    BY <2>1, <2>3 DEF Records!Stored
  <2>5. Pending(h)' = Pending(h) \cup {w} /\ w \notin Pending(h)
    BY <2>1, <2>2 DEF Pending
  <2>6. \A g \in Records!Stored \ {h} : Pending(g)' = Pending(g)
    BY <2>1, <2>2 DEF Pending
  <2>7. Cardinality(Pending(h)') = Cardinality(Pending(h)) + 1
    BY <2>5, PendingIsFinite, FS_AddElement
  <2>8. allowed'[h] + Cardinality(Pending(h)') <= rows'[h].attempts
    <3>1. /\ allowed[h] \in Nat /\ Cardinality(Pending(h)) \in Nat /\ rows[h].attempts \in Nat
          /\ allowed[h] + Cardinality(Pending(h)) <= rows[h].attempts
      BY <1>2, <1>3, <2>1, PendingIsFinite
    <3>2. QED
      BY <2>1, <2>4, <2>7, <3>1
  <2>9. CounterHoldsBumps'
    <3>1. \A g \in Records!Stored \ {h} : allowed'[g] + Cardinality(Pending(g)') <= rows'[g].attempts
      BY <1>3, <2>1, <2>4, <2>6
    <3>2. QED
      BY <2>4, <2>8, <3>1 DEF CounterHoldsBumps
  <2>10. Records!BumpsGrantedBounded'
    BY <2>1 DEF Records!BumpsGrantedBounded
  <2>11. QED
    BY <2>9, <2>10
<1>8. ASSUME NEW w \in Callers, Records!IncrementCheck(w)
      PROVE  CounterHoldsBumps' /\ Records!BumpsGrantedBounded'
  <2>1. PICK h : h = txCall[w].hash
    OBVIOUS
  <2>2. /\ txCall[w].op = "inc" /\ txCall[w] # Records!Idle /\ h \in Records!Stored /\ h \in TxHashes
        /\ txCall'[w] = Records!Idle /\ \A v \in Callers \ {w} : txCall'[v] = txCall[v]
        /\ UNCHANGED rows
        /\ allowed' = IF rows[h].attempts <= MaxRBF /\ txCall[w].counts
                      THEN [allowed EXCEPT ![h] = allowed[h] + 1] ELSE allowed
    BY <1>8, <2>1 DEF Records!IncrementCheck, Records!TxTypeOK, Records!Idle
  <2>3. Pending(h)' = Pending(h) \ {w} /\ \A g \in Records!Stored \ {h} : Pending(g)' = Pending(g)
    BY <2>1, <2>2 DEF Pending
  <2>4. /\ Cardinality(Pending(h)) \in Nat /\ Cardinality(Pending(h)') \in Nat
        /\ Cardinality(Pending(h)') = IF w \in Pending(h) THEN Cardinality(Pending(h)) - 1
                                      ELSE Cardinality(Pending(h))
    <3>1. /\ IsFiniteSet(Pending(h)) /\ Cardinality(Pending(h)) \in Nat
          /\ IsFiniteSet(Pending(h) \ {w})
          /\ Cardinality(Pending(h) \ {w}) = IF w \in Pending(h) THEN Cardinality(Pending(h)) - 1
                                             ELSE Cardinality(Pending(h))
      BY PendingIsFinite, FS_RemoveElement
    <3>2. Cardinality(Pending(h) \ {w}) \in Nat
      BY <3>1, FS_CardinalityType
    <3>3. QED
      BY <2>3, <3>1, <3>2
  <2>5. /\ allowed[h] \in Nat /\ allowed[h] <= MaxRBF /\ rows[h].attempts \in Nat
        /\ allowed[h] + Cardinality(Pending(h)) <= rows[h].attempts
    BY <1>2, <1>3, <2>2
  <2>6. CASE rows[h].attempts <= MaxRBF /\ txCall[w].counts
    <3>1. allowed'[h] = allowed[h] + 1 /\ \A g \in TxHashes \ {h} : allowed'[g] = allowed[g]
      BY <2>2, <2>6 DEF Records!TxTypeOK
    <3>2. w \in Pending(h)
      BY <2>1, <2>2, <2>6 DEF Pending
    <3>3. allowed'[h] + Cardinality(Pending(h)') <= rows[h].attempts /\ allowed'[h] <= MaxRBF
      BY <1>1, <2>4, <2>5, <2>6, <3>1, <3>2
    <3>4. CounterHoldsBumps'
      <4>1. \A g \in Records!Stored \ {h} : allowed'[g] + Cardinality(Pending(g)') <= rows[g].attempts
        BY <1>3, <2>3, <3>1
      <4>2. QED
        BY <2>2, <3>3, <4>1 DEF CounterHoldsBumps, Records!Stored
    <3>5. Records!BumpsGrantedBounded'
      BY <1>2, <3>1, <3>3 DEF Records!BumpsGrantedBounded
    <3>6. QED
      BY <3>4, <3>5
  <2>7. CASE ~(rows[h].attempts <= MaxRBF /\ txCall[w].counts)
    <3>1. UNCHANGED allowed
      BY <2>2, <2>7
    <3>2. allowed'[h] + Cardinality(Pending(h)') <= rows[h].attempts
      BY <2>4, <2>5, <3>1
    <3>3. CounterHoldsBumps'
      <4>1. \A g \in Records!Stored \ {h} : allowed'[g] + Cardinality(Pending(g)') <= rows[g].attempts
        BY <1>3, <2>3, <3>1
      <4>2. QED
        BY <2>2, <3>2, <4>1 DEF CounterHoldsBumps, Records!Stored
    <3>4. Records!BumpsGrantedBounded'
      BY <3>1 DEF Records!BumpsGrantedBounded
    <3>5. QED
      BY <3>3, <3>4
  <2>8. QED
    BY <2>6, <2>7
<1>9. CASE UNCHANGED recordsVars
  BY <1>9, CounterQuiet DEF recordsVars, Records!Stored, Pending
<1>10. QED
  BY <1>4, <1>5, <1>6, <1>7, <1>8, <1>9 DEF Records!TxNext

LEMMA RecordsInvInit == Records!TxInit => RecordsInv
<1> SUFFICES ASSUME Records!TxInit PROVE RecordsInv
  OBVIOUS
<1>1. Records!Stored = {} /\ \A h \in TxHashes : seen[h] = {} /\ allowed[h] = 0
  BY DEF Records!TxInit, Records!Stored
<1>2. \A w \in Callers : txCall[w] = Records!Idle
  BY DEF Records!TxInit
<1>3. MaxRBF \in Nat
  BY RecordsAssumption
<1>4. PastIsComplete
  BY <1>1, <1>2 DEF PastIsComplete, Records!Idle
<1>5. CounterHoldsBumps /\ Records!BumpsGrantedBounded
  BY <1>1, <1>3 DEF CounterHoldsBumps, Records!BumpsGrantedBounded
<1>6. QED
  BY <1>4, <1>5, RecordsTypeInit DEF RecordsInv

(* However the statements of concurrent calls interleave, no row has a status
   without what must come before it, and no more than the allowed number of
   bumps of a row is granted. *)
THEOREM RowsKeepTheirPast == Spec => []RowsHaveTheirPast
<1>1. Init => RecordsInv
  BY InitOfParts, RecordsInvInit
<1>2. RecordsInv /\ [Next]_vars => RecordsInv'
  BY StepOfParts, RecordsTypeStep, PastStep, CounterStep DEF RecordsInv
<1>3. RecordsInv => RowsHaveTheirPast
  BY DEF RecordsInv, PastIsComplete, PastOf, RowsHaveTheirPast, Records!NoStatusWithoutItsPast,
         Records!TxTypeOK
<1>4. QED
  BY <1>1, <1>2, <1>3, PTL DEF Spec

-----------------------------------------------------------------------------
(* Limits.  Of a pool that never had two candidates in the checks at once, the
   positions together stay within its limit, with the candidate that may be on
   its way to the table; and likewise what is open, of all pools. *)
Candidates(p) == {c \in Limits!InChecks : PoolOf[asking[c].id] = p}

PoolIsKept(p) ==
  /\ Limits!Total(Limits!Snapshot(p)) <= Limit[p]
  /\ \A c \in Candidates(p) :
       Limits!Total(Limits!Snapshot(p)) + asking[c].amount <= Limit[p]
  /\ \A c, d \in Candidates(p) : c = d

ExposureIsKept ==
  /\ \A c, d \in Limits!InChecks : c = d
  /\ Limits!WithinExposure(0)
  /\ \A c \in Callers : asking[c].at = "save" => Limits!WithinExposure(asking[c].amount)

LimitsInv ==
  /\ Limits!TypeOK
  /\ \A p \in Limits!Pools \ together : PoolIsKept(p)
  /\ ~disturbed => ExposureIsKept

(* The amounts of the stored positions; a total of the model is their sum. *)
Worth == [i \in Limits!Stored |-> table[i].amount]

Candidate == [at : {"exposure", "save"}, id : Ids, amount : Amounts]

LEMMA Totals ==
  /\ \A p : /\ Limits!Total(Limits!Snapshot(p)) = SumFunctionOnSet(Worth, Limits!Snapshot(p))
            /\ Limits!Total(Limits!Snapshot(p))' = SumFunctionOnSet(Worth', Limits!Snapshot(p)')
            /\ Limits!Total(Limits!OpenInPool(p)) = SumFunctionOnSet(Worth, Limits!OpenInPool(p))
  /\ Limits!Total(Limits!FindOpen) = SumFunctionOnSet(Worth, Limits!FindOpen)
  /\ Limits!Total(Limits!FindOpen)' = SumFunctionOnSet(Worth', Limits!FindOpen')
  BY DEF Worth, Limits!Total, Limits!SumFunctionOnSet, Limits!FoldFunctionOnSet,
         Limits!MapThenFoldSet, SumFunctionOnSet, FoldFunctionOnSet, MapThenFoldSet

LEMMA WorthType ==
  ASSUME Limits!TypeOK, NEW S \in SUBSET Limits!Stored
  PROVE  /\ IsFiniteSet(S) /\ \A i \in S : Worth[i] \in Nat
         /\ SumFunctionOnSet(Worth, S) \in Nat
<1>1. S \in SUBSET Ids /\ IsFiniteSet(Ids)
  BY LimitsAssumption DEF Limits!TypeOK
<1>2. IsFiniteSet(S)
  BY <1>1, FS_Subset
<1>3. Amounts \subseteq Nat
  BY LimitsAssumption
<1>4. \A i \in S : Worth[i] \in Nat
  BY <1>3 DEF Limits!TypeOK, Worth
<1>5. QED
  BY <1>2, <1>4, SumNat

LEMMA WorthTypeAfter ==
  ASSUME Limits!TypeOK', NEW S, S \in SUBSET Limits!Stored'
  PROVE  SumFunctionOnSet(Worth', S) \in Nat
<1>1. S \in SUBSET Ids /\ IsFiniteSet(Ids)
  BY LimitsAssumption DEF Limits!TypeOK
<1>2. IsFiniteSet(S)
  BY <1>1, FS_Subset
<1>3. Amounts \subseteq Nat
  BY LimitsAssumption
<1>4. \A i \in S : Worth'[i] \in Nat
  BY <1>3 DEF Limits!TypeOK, Worth
<1>5. QED
  BY <1>2, <1>4, SumNat

LEMMA LimitsTypeStep ==
  Limits!TypeOK /\ [Limits!Next]_limitsVars => Limits!TypeOK'
<1> SUFFICES ASSUME Limits!TypeOK, [Limits!Next]_limitsVars PROVE Limits!TypeOK'
  OBVIOUS
<1>1. /\ Limits!Stored \subseteq Ids
      /\ \A i \in Limits!Stored : table[i] \in [amount : Amounts, status : Limits!Statuses]
      /\ asking \in [Callers -> {Limits!Nothing} \cup Candidate]
      /\ together \subseteq Limits!Pools /\ disturbed \in BOOLEAN
  BY DEF Limits!TypeOK, Candidate
<1>2. ASSUME NEW c \in Callers, NEW i \in Ids, NEW n \in Amounts,
             Limits!CheckAllocationWithSnapshot(c, i, n)
      PROVE  Limits!TypeOK'
  <2> DEFINE new == [at |-> "exposure", id |-> i, amount |-> n]
  <2>1. new \in Candidate /\ PoolOf[i] \in Limits!Pools
    BY DEF Candidate, Limits!Pools
  <2>2. /\ asking' = [asking EXCEPT ![c] = new]
        /\ together' \in {together, together \cup {PoolOf[i]}}
        /\ disturbed' \in BOOLEAN /\ UNCHANGED table
    BY <1>1, <1>2 DEF Limits!CheckAllocationWithSnapshot
  <2> HIDE DEF new
  <2>3. asking' \in [Callers -> {Limits!Nothing} \cup Candidate]
    BY <1>1, <2>1, <2>2
  <2>4. QED
    BY <1>1, <2>1, <2>2, <2>3 DEF Limits!TypeOK, Candidate, Limits!Stored
<1>3. ASSUME NEW c \in Callers, Limits!CheckTotalExposureWithSnapshot(c)
      PROVE  Limits!TypeOK'
  <2>1. asking[c] \in Candidate
    BY <1>1, <1>3 DEF Limits!CheckTotalExposureWithSnapshot, Limits!Nothing
  <2>2. [asking[c] EXCEPT !.at = "save"] \in Candidate
    BY <2>1 DEF Candidate
  <2>3. \/ asking' = [asking EXCEPT ![c] = [asking[c] EXCEPT !.at = "save"]]
        \/ asking' = [asking EXCEPT ![c] = Limits!Nothing]
    BY <1>3 DEF Limits!CheckTotalExposureWithSnapshot
  <2>4. asking' \in [Callers -> {Limits!Nothing} \cup Candidate]
    BY <1>1, <2>2, <2>3
  <2>5. UNCHANGED <<table, together, disturbed>>
    BY <1>3 DEF Limits!CheckTotalExposureWithSnapshot
  <2>6. QED
    BY <1>1, <2>4, <2>5 DEF Limits!TypeOK, Candidate, Limits!Stored
<1>4. ASSUME NEW c \in Callers, NEW s \in Limits!Statuses, Limits!Save(c, s)
      PROVE  Limits!TypeOK'
  <2>1. asking[c] \in Candidate
    BY <1>1, <1>4 DEF Limits!Save, Limits!Nothing
  <2>2. asking[c].id \in Ids /\ asking[c].amount \in Amounts
    BY <2>1 DEF Candidate
  <2>3. asking' \in [Callers -> {Limits!Nothing} \cup Candidate]
        /\ UNCHANGED <<together, disturbed>>
    BY <1>1, <1>4 DEF Limits!Save
  <2>4. /\ Limits!Stored' \subseteq Ids
        /\ \A i \in Limits!Stored' : table'[i] \in [amount : Amounts, status : Limits!Statuses]
    BY <1>1, <1>4, <2>2 DEF Limits!Save, Limits!Stored
  <2>5. QED
    BY <1>1, <2>3, <2>4 DEF Limits!TypeOK, Candidate
<1>5. ASSUME NEW i \in Ids, NEW s \in Limits!Statuses, Limits!UpdateStatus(i, s)
      PROVE  Limits!TypeOK'
  <2>1. /\ Limits!Stored' \subseteq Ids
        /\ \A j \in Limits!Stored' : table'[j] \in [amount : Amounts, status : Limits!Statuses]
    BY <1>1, <1>5 DEF Limits!UpdateStatus, Limits!Stored
  <2>2. UNCHANGED <<asking, together>> /\ disturbed' \in BOOLEAN
    BY <1>1, <1>5 DEF Limits!UpdateStatus
  <2>3. QED
    BY <1>1, <2>1, <2>2 DEF Limits!TypeOK, Candidate
<1>6. CASE UNCHANGED limitsVars
  BY <1>6 DEF limitsVars, Limits!TypeOK, Limits!Stored
<1>7. QED
  BY <1>2, <1>3, <1>4, <1>5, <1>6 DEF Limits!Next

LEMMA FindOpenTotal ==
  /\ Limits!TypeOK => Limits!Total(Limits!FindOpen) \in Nat
  /\ Limits!TypeOK' => Limits!Total(Limits!FindOpen)' \in Nat
<1>1. Limits!FindOpen \in SUBSET Limits!Stored /\ Limits!FindOpen' \in SUBSET Limits!Stored'
  BY DEF Limits!FindOpen
<1>2. QED
  BY <1>1, WorthType, WorthTypeAfter, Totals

(* What is open may grow by what was within the exposure and is not asked for
   any longer. *)
LEMMA ExposureGrows ==
  ASSUME Limits!TypeOK, Limits!TypeOK', NEW n \in Nat, Limits!WithinExposure(n), NEW m \in Nat,
         Limits!Total(Limits!FindOpen)' + m <= Limits!Total(Limits!FindOpen) + n
  PROVE  Limits!WithinExposure(m)'
<1>1. /\ Limits!Total(Limits!FindOpen) \in Nat
      /\ Limits!Total(Limits!FindOpen)' \in Nat
  BY FindOpenTotal
<1>2. PICK cap : cap = ExposurePct * Capital /\ cap \in Int
  BY LimitsAssumption
<1>3. Capital # 0 => (Limits!Total(Limits!FindOpen) + n) * 100 <= cap
  BY <1>2 DEF Limits!WithinExposure
<1>4. Capital # 0 => (Limits!Total(Limits!FindOpen)' + m) * 100 <= cap
  BY <1>1, <1>2, <1>3
<1>5. QED
  BY <1>2, <1>4 DEF Limits!WithinExposure

(* The totals after a position was saved. *)
LEMMA SaveTotals ==
  ASSUME Limits!TypeOK, Limits!TypeOK', NEW i \in Ids, NEW n \in Nat,
         NEW s \in Limits!Statuses,
         table' = [j \in Limits!Stored \cup {i} |->
                     IF j = i THEN [amount |-> n, status |-> s] ELSE table[j]]
  PROVE  /\ Limits!Total(Limits!FindOpen)' <= Limits!Total(Limits!FindOpen) + n
         /\ Limits!Total(Limits!Snapshot(PoolOf[i]))'
              <= Limits!Total(Limits!Snapshot(PoolOf[i])) + n
         /\ \A p : p # PoolOf[i] =>
              Limits!Total(Limits!Snapshot(p))' = Limits!Total(Limits!Snapshot(p))
<1>1. /\ Limits!Stored' = Limits!Stored \cup {i} /\ table'[i] = [amount |-> n, status |-> s]
      /\ \A j \in Limits!Stored \ {i} : table'[j] = table[j]
  BY DEF Limits!Stored
<1>2. Worth'[i] = n /\ \A j \in Limits!Stored \ {i} : Worth'[j] = Worth[j]
  BY <1>1 DEF Worth
<1>3. /\ Limits!FindOpen \in SUBSET Limits!Stored
      /\ \A p : Limits!Snapshot(p) \in SUBSET Limits!Stored
  BY DEF Limits!FindOpen, Limits!Snapshot
<1>4. Limits!Total(Limits!FindOpen)' <= Limits!Total(Limits!FindOpen) + n
  <2>1. /\ Limits!FindOpen' \in SUBSET (Limits!FindOpen \cup {i})
        /\ \A j \in Limits!FindOpen' \ {i} : Worth'[j] = Worth[j]
    BY <1>1, <1>2 DEF Limits!FindOpen
  <2>2. SumFunctionOnSet(Worth', Limits!FindOpen')
          <= SumFunctionOnSet(Worth, Limits!FindOpen) + Worth'[i]
    BY <1>2, <1>3, <2>1, WorthType, SumGrows
  <2>3. QED
    BY <1>2, <2>2, Totals
<1>5. Limits!Total(Limits!Snapshot(PoolOf[i]))'
        <= Limits!Total(Limits!Snapshot(PoolOf[i])) + n
  <2>1. PICK p : p = PoolOf[i]
    OBVIOUS
  <2>2. /\ Limits!Snapshot(p)' \in SUBSET (Limits!Snapshot(p) \cup {i})
        /\ \A j \in Limits!Snapshot(p)' \ {i} : Worth'[j] = Worth[j]
    BY <1>1, <1>2 DEF Limits!Snapshot
  <2>3. SumFunctionOnSet(Worth', Limits!Snapshot(p)')
          <= SumFunctionOnSet(Worth, Limits!Snapshot(p)) + Worth'[i]
    BY <1>2, <1>3, <2>2, WorthType, SumGrows
  <2>4. QED
    BY <1>2, <2>1, <2>3, Totals
<1>6. ASSUME NEW p, p # PoolOf[i]
      PROVE  Limits!Total(Limits!Snapshot(p))' = Limits!Total(Limits!Snapshot(p))
  <2>1. /\ Limits!Snapshot(p)' = Limits!Snapshot(p)
        /\ \A j \in Limits!Snapshot(p) : Worth'[j] = Worth[j]
    BY <1>1, <1>2, <1>6 DEF Limits!Snapshot
  <2>2. SumFunctionOnSet(Worth', Limits!Snapshot(p)) = SumFunctionOnSet(Worth, Limits!Snapshot(p))
    BY <1>3, <2>1, WorthType, SumAgree
  <2>3. QED
    BY <2>1, <2>2, Totals
<1>7. QED
  BY <1>4, <1>5, <1>6

(* What a pool keeps does not change when its total and its candidates do not,
   or when one of them gives up. *)
LEMMA PoolQuiet ==
  ASSUME NEW p, PoolIsKept(p), Candidates(p)' \subseteq Candidates(p),
         \A c \in Candidates(p)' : asking'[c].amount = asking[c].amount,
         Limits!Total(Limits!Snapshot(p))' = Limits!Total(Limits!Snapshot(p))
  PROVE  PoolIsKept(p)'
BY DEF PoolIsKept

LEMMA PoolStep ==
  ASSUME Limits!TypeOK, Limits!TypeOK', [Limits!Next]_limitsVars,
         \A p \in Limits!Pools \ together : PoolIsKept(p),
         NEW p \in Limits!Pools \ together'
  PROVE  PoolIsKept(p)'
<1>1. asking \in [Callers -> {Limits!Nothing} \cup Candidate]
  BY DEF Limits!TypeOK, Candidate
<1>2. ASSUME UNCHANGED table
      PROVE  Limits!Total(Limits!Snapshot(p))' = Limits!Total(Limits!Snapshot(p))
  <2>1. Worth' = Worth /\ Limits!Snapshot(p)' = Limits!Snapshot(p)
    BY <1>2 DEF Worth, Limits!Snapshot, Limits!Stored
  <2>2. QED
    BY <2>1, Totals
<1>3. ASSUME NEW c \in Callers, NEW i \in Ids, NEW n \in Amounts,
             Limits!CheckAllocationWithSnapshot(c, i, n)
      PROVE  PoolIsKept(p)'
  <2> DEFINE new == [at |-> "exposure", id |-> i, amount |-> n]
  <2>1. /\ asking[c] = Limits!Nothing /\ asking' = [asking EXCEPT ![c] = new]
        /\ Limits!WithinLimit(i, n) /\ UNCHANGED table
        /\ together' = IF \E d \in Limits!InChecks : PoolOf[asking[d].id] = PoolOf[i]
                       THEN together \cup {PoolOf[i]} ELSE together
    BY <1>3 DEF Limits!CheckAllocationWithSnapshot
  <2>2. new # Limits!Nothing /\ new.id = i /\ new.amount = n
    BY DEF Limits!Nothing
  <2> HIDE DEF new
  <2>3. asking'[c] = new /\ \A d \in Callers \ {c} : asking'[d] = asking[d]
    BY <1>1, <2>1
  <2>4. p \in Limits!Pools \ together /\ PoolIsKept(p)
    BY <2>1
  <2>5. CASE PoolOf[i] = p
    <3>1. Candidates(p) = {}
      BY <2>1, <2>5 DEF Candidates
    <3>2. Candidates(p)' = {c}
      BY <2>2, <2>3, <2>5, <3>1 DEF Candidates, Limits!InChecks
    <3>3. /\ Limits!Total(Limits!Snapshot(p)) + n <= Limit[p]
          /\ Limits!Total(Limits!Snapshot(p)) <= Limit[p]
      BY <2>1, <2>4, <2>5 DEF Limits!WithinLimit, PoolIsKept
    <3>4. QED
      BY <1>2, <2>1, <2>2, <2>3, <3>2, <3>3 DEF PoolIsKept
  <2>6. CASE PoolOf[i] # p
    <3>1. /\ Candidates(p)' \subseteq Candidates(p)
          /\ \A d \in Candidates(p)' : asking'[d] = asking[d]
      BY <2>2, <2>3, <2>6 DEF Candidates, Limits!InChecks
    <3>2. QED
      BY <1>2, <2>1, <2>4, <3>1, PoolQuiet
  <2>7. QED
    BY <2>5, <2>6
<1>4. ASSUME NEW c \in Callers, Limits!CheckTotalExposureWithSnapshot(c)
      PROVE  PoolIsKept(p)'
  <2>1. /\ asking[c] # Limits!Nothing /\ UNCHANGED <<table, together>>
        /\ \/ asking' = [asking EXCEPT ![c] = [asking[c] EXCEPT !.at = "save"]]
           \/ asking' = [asking EXCEPT ![c] = Limits!Nothing]
    BY <1>4 DEF Limits!CheckTotalExposureWithSnapshot, Limits!Nothing
  <2>2. asking[c] \in Candidate
    BY <1>1, <2>1
  <2>3. PICK saved : /\ saved = [asking[c] EXCEPT !.at = "save"]
                     /\ saved.id = asking[c].id /\ saved.amount = asking[c].amount
    BY <2>2 DEF Candidate
  <2>4. /\ asking'[c] \in {saved, Limits!Nothing}
        /\ \A d \in Callers \ {c} : asking'[d] = asking[d]
    BY <1>1, <2>1, <2>3
  <2>5. /\ Candidates(p)' \subseteq Candidates(p)
        /\ \A d \in Candidates(p)' : asking'[d].amount = asking[d].amount
    BY <2>1, <2>3, <2>4 DEF Candidates, Limits!InChecks
  <2>6. QED
    BY <1>2, <2>1, <2>5, PoolQuiet
<1>5. ASSUME NEW c \in Callers, NEW s \in Limits!Statuses, Limits!Save(c, s)
      PROVE  PoolIsKept(p)'
  <2>1. PICK i : i = asking[c].id
    OBVIOUS
  <2>2. PICK n : n = asking[c].amount
    OBVIOUS
  <2>3. asking[c] # Limits!Nothing /\ i \in Ids /\ n \in Nat
    <3>1. asking[c] # Limits!Nothing
      BY <1>5 DEF Limits!Save, Limits!Nothing
    <3>2. i \in Ids /\ n \in Amounts
      BY <1>1, <2>1, <2>2, <3>1 DEF Candidate
    <3>3. Amounts \subseteq Nat
      BY LimitsAssumption
    <3>4. QED
      BY <3>1, <3>2, <3>3
  <2>4. /\ asking' = [asking EXCEPT ![c] = Limits!Nothing] /\ UNCHANGED together
        /\ \/ UNCHANGED table
           \/ table' = [j \in Limits!Stored \cup {i} |->
                          IF j = i THEN [amount |-> n, status |-> s] ELSE table[j]]
    BY <1>5, <2>1, <2>2 DEF Limits!Save
  <2>5. /\ Candidates(p)' \subseteq Candidates(p) \ {c}
        /\ \A d \in Candidates(p)' : asking'[d] = asking[d]
    BY <1>1, <2>4 DEF Candidates, Limits!InChecks
  <2>6. CASE UNCHANGED table
    BY <1>2, <2>4, <2>5, <2>6, PoolQuiet
  <2>7. CASE table' = [j \in Limits!Stored \cup {i} |->
                         IF j = i THEN [amount |-> n, status |-> s] ELSE table[j]]
    <3>1. CASE PoolOf[i] # p
      BY <2>3, <2>4, <2>5, <2>7, <3>1, SaveTotals, PoolQuiet
    <3>2. CASE PoolOf[i] = p
      <4>1. c \in Candidates(p) /\ PoolIsKept(p)
        BY <2>1, <2>3, <2>4, <3>2 DEF Candidates, Limits!InChecks
      <4>2. Candidates(p)' = {}
        BY <2>5, <4>1 DEF PoolIsKept
      <4>3. Limits!Total(Limits!Snapshot(p))' <= Limits!Total(Limits!Snapshot(p)) + n
        BY <2>3, <2>7, <3>2, SaveTotals
      <4>4. Limits!Total(Limits!Snapshot(p)) + n <= Limit[p]
        BY <2>2, <4>1 DEF PoolIsKept
      <4>5. /\ Limits!Total(Limits!Snapshot(p)) \in Nat /\ Limits!Total(Limits!Snapshot(p))' \in Int
            /\ Limit[p] \in Nat
        <5>1. Limit[p] \in Nat
          BY LimitsAssumption DEF Limits!Pools
        <5>2. Limits!Snapshot(p) \in SUBSET Limits!Stored
          BY DEF Limits!Snapshot
        <5>3. SumFunctionOnSet(Worth, Limits!Snapshot(p)) \in Nat
          BY <5>2, WorthType
        <5>4. SumFunctionOnSet(Worth', Limits!Snapshot(p)') \in Nat
          <6>1. Limits!Snapshot(p)' \in SUBSET Limits!Stored'
            BY DEF Limits!Snapshot
          <6>2. QED
            BY <6>1, WorthTypeAfter
        <5>5. QED
          BY <5>1, <5>3, <5>4, Totals
      <4>6. Limits!Total(Limits!Snapshot(p))' <= Limit[p]
        BY <2>3, <4>3, <4>4, <4>5
      <4>7. QED
        BY <4>2, <4>6 DEF PoolIsKept
    <3>3. QED
      BY <3>1, <3>2
  <2>8. QED
    BY <2>4, <2>6, <2>7
<1>6. ASSUME NEW i \in Ids, NEW s \in Limits!Statuses, Limits!UpdateStatus(i, s)
      PROVE  PoolIsKept(p)'
  <2>1. /\ Worth' = Worth /\ Limits!Snapshot(p)' = Limits!Snapshot(p)
        /\ UNCHANGED <<asking, together>>
    <3>1. /\ i \in Limits!Stored /\ UNCHANGED <<asking, together>>
          /\ table' = [table EXCEPT ![i] = [table[i] EXCEPT !.status = s]]
      BY <1>6 DEF Limits!UpdateStatus
    <3>2. table[i] \in [amount : Amounts, status : Limits!Statuses]
      BY <3>1 DEF Limits!TypeOK
    <3>3. [table[i] EXCEPT !.status = s].amount = table[i].amount
      BY <3>2
    <3>4. /\ Limits!Stored' = Limits!Stored
          /\ \A j \in Limits!Stored : table'[j].amount = table[j].amount
      BY <3>1, <3>3 DEF Limits!Stored
    <3>5. Limits!Snapshot(p)' = Limits!Snapshot(p)
      BY <3>4 DEF Limits!Snapshot
    <3>6. Worth' = Worth
      BY <3>4 DEF Worth
    <3>7. QED
      BY <3>1, <3>5, <3>6
  <2>2. Candidates(p)' = Candidates(p)
    BY <2>1 DEF Candidates, Limits!InChecks
  <2>3. QED
    BY <2>1, <2>2, Totals, PoolQuiet
<1>7. CASE UNCHANGED limitsVars
  <2>1. Candidates(p)' = Candidates(p) /\ UNCHANGED <<asking, together, table>>
    BY <1>7 DEF limitsVars, Candidates, Limits!InChecks
  <2>2. QED
    BY <1>2, <2>1, PoolQuiet
<1>8. QED
  BY <1>3, <1>4, <1>5, <1>6, <1>7 DEF Limits!Next

LEMMA ExposureStep ==
  ASSUME Limits!TypeOK, Limits!TypeOK', [Limits!Next]_limitsVars,
         ~disturbed => ExposureIsKept, ~disturbed'
  PROVE  ExposureIsKept'
<1>1. asking \in [Callers -> {Limits!Nothing} \cup Candidate]
  BY DEF Limits!TypeOK, Candidate
<1>2. Limits!Nothing.at = "idle"
  BY DEF Limits!Nothing
<1>3. ASSUME UNCHANGED table
      PROVE  \A n : Limits!WithinExposure(n)' = Limits!WithinExposure(n)
  BY <1>3 DEF Limits!WithinExposure, Limits!FindOpen, Limits!Total, Limits!Stored
<1>4. ASSUME NEW c \in Callers, NEW i \in Ids, NEW n \in Amounts,
             Limits!CheckAllocationWithSnapshot(c, i, n)
      PROVE  ExposureIsKept'
  <2> DEFINE new == [at |-> "exposure", id |-> i, amount |-> n]
  <2>1. /\ asking' = [asking EXCEPT ![c] = new] /\ UNCHANGED table
        /\ Limits!InChecks = {} /\ ExposureIsKept
    BY <1>4 DEF Limits!CheckAllocationWithSnapshot
  <2>2. new.at = "exposure"
    OBVIOUS
  <2> HIDE DEF new
  <2>3. asking'[c] = new /\ \A d \in Callers \ {c} : asking'[d] = asking[d]
    BY <1>1, <2>1
  <2>4. \A d \in Callers : asking[d] = Limits!Nothing
    BY <2>1 DEF Limits!InChecks
  <2>5. \A d \in Limits!InChecks' : d = c
    BY <2>3, <2>4 DEF Limits!InChecks
  <2>6. \A d \in Callers : asking'[d].at # "save"
    BY <1>2, <2>2, <2>3, <2>4
  <2>7. QED
    BY <1>3, <2>1, <2>5, <2>6 DEF ExposureIsKept
<1>5. ASSUME NEW c \in Callers, Limits!CheckTotalExposureWithSnapshot(c)
      PROVE  ExposureIsKept'
  <2>1. /\ asking[c] # Limits!Nothing /\ UNCHANGED <<table, disturbed>> /\ ExposureIsKept
        /\ \/ /\ asking' = [asking EXCEPT ![c] = [asking[c] EXCEPT !.at = "save"]]
              /\ Limits!WithinExposure(asking[c].amount)
           \/ asking' = [asking EXCEPT ![c] = Limits!Nothing]
    BY <1>2, <1>5 DEF Limits!CheckTotalExposureWithSnapshot
  <2>2. asking[c] \in Candidate
    BY <1>1, <2>1
  <2>3. PICK saved : /\ saved = [asking[c] EXCEPT !.at = "save"]
                     /\ saved.amount = asking[c].amount
    BY <2>2 DEF Candidate
  <2>4. /\ \A d \in Callers \ {c} : asking'[d] = asking[d]
        /\ \/ asking'[c] = saved /\ Limits!WithinExposure(saved.amount)
           \/ asking'[c] = Limits!Nothing
    BY <1>1, <2>1, <2>3
  <2>5. Limits!InChecks' \subseteq Limits!InChecks
    BY <2>1, <2>4 DEF Limits!InChecks
  <2>6. \A d \in Callers : asking'[d].at = "save" => Limits!WithinExposure(asking'[d].amount)
    BY <1>2, <2>1, <2>4 DEF ExposureIsKept
  <2>7. QED
    BY <1>3, <2>1, <2>5, <2>6 DEF ExposureIsKept
<1>6. ASSUME NEW c \in Callers, NEW s \in Limits!Statuses, Limits!Save(c, s)
      PROVE  ExposureIsKept'
  <2>1. PICK i : i = asking[c].id
    OBVIOUS
  <2>2. PICK n : n = asking[c].amount
    OBVIOUS
  <2>3. /\ asking[c] # Limits!Nothing /\ asking[c].at = "save"
        /\ asking' = [asking EXCEPT ![c] = Limits!Nothing] /\ ExposureIsKept
        /\ \/ UNCHANGED table
           \/ table' = [j \in Limits!Stored \cup {i} |->
                          IF j = i THEN [amount |-> n, status |-> s] ELSE table[j]]
    BY <1>2, <1>6, <2>1, <2>2 DEF Limits!Save
  <2>4. i \in Ids /\ n \in Nat
    <3>1. i \in Ids /\ n \in Amounts
      BY <1>1, <2>1, <2>2, <2>3 DEF Candidate
    <3>2. Amounts \subseteq Nat
      BY LimitsAssumption
    <3>3. QED
      BY <3>1, <3>2
  <2>5. asking'[c] = Limits!Nothing /\ \A d \in Callers \ {c} : asking'[d] = asking[d]
    BY <1>1, <2>3
  <2>6. \A d \in Callers : asking'[d] = Limits!Nothing
    BY <2>3, <2>5 DEF ExposureIsKept, Limits!InChecks
  <2>7. Limits!WithinExposure(0)'
    <3>1. CASE UNCHANGED table
      BY <1>3, <2>3, <3>1 DEF ExposureIsKept
    <3>2. CASE table' = [j \in Limits!Stored \cup {i} |->
                           IF j = i THEN [amount |-> n, status |-> s] ELSE table[j]]
      <4>1. Limits!WithinExposure(n)
        BY <2>2, <2>3 DEF ExposureIsKept
      <4>2. Limits!Total(Limits!FindOpen)' + 0 <= Limits!Total(Limits!FindOpen) + n
        BY <2>4, <3>2, SaveTotals, FindOpenTotal
      <4>3. QED
        BY <2>4, <4>1, <4>2, ExposureGrows
    <3>3. QED
      BY <2>3, <3>1, <3>2
  <2>8. QED
    BY <1>2, <2>6, <2>7 DEF ExposureIsKept, Limits!InChecks
<1>7. ASSUME NEW i \in Ids, NEW s \in Limits!Statuses, Limits!UpdateStatus(i, s)
      PROVE  ExposureIsKept'
  <2>1. /\ i \in Limits!Stored /\ UNCHANGED asking /\ ExposureIsKept
        /\ table' = [table EXCEPT ![i] = [table[i] EXCEPT !.status = s]]
        /\ s = "open" => table[i].status = "open"
    BY <1>7 DEF Limits!UpdateStatus
  <2>2. table[i] \in [amount : Amounts, status : Limits!Statuses]
    BY <2>1 DEF Limits!TypeOK
  <2>3. /\ [table[i] EXCEPT !.status = s].amount = table[i].amount
        /\ [table[i] EXCEPT !.status = s].status = s
    BY <2>2
  <2>4. /\ Limits!Stored' = Limits!Stored
        /\ \A j \in Limits!Stored : table'[j].amount = table[j].amount
        /\ \A j \in Limits!Stored : table'[j].status = "open" => table[j].status = "open"
    BY <2>1, <2>3 DEF Limits!Stored
  <2>5. Worth' = Worth
    BY <2>4 DEF Worth
  <2>6. Limits!FindOpen' \in SUBSET Limits!FindOpen
    BY <2>4 DEF Limits!FindOpen
  <2>7. SumFunctionOnSet(Worth, Limits!FindOpen') <= SumFunctionOnSet(Worth, Limits!FindOpen)
    <3>1. Limits!FindOpen \in SUBSET Limits!Stored
      BY DEF Limits!FindOpen
    <3>2. QED
      BY <2>6, <3>1, WorthType, SumSubset
  <2>8. Limits!Total(Limits!FindOpen)' <= Limits!Total(Limits!FindOpen)
    BY <2>5, <2>7, Totals
  <2>9. \A n \in Nat : Limits!WithinExposure(n) => Limits!WithinExposure(n)'
    <3>1. \A n \in Nat :
            Limits!Total(Limits!FindOpen)' + n <= Limits!Total(Limits!FindOpen) + n
      BY <2>8, FindOpenTotal
    <3>2. QED
      BY <3>1, ExposureGrows
  <2>10. \A c \in Callers : asking[c].at = "save" => asking[c].amount \in Nat
    <3>1. Amounts \subseteq Nat
      BY LimitsAssumption
    <3>2. QED
      BY <1>1, <1>2, <3>1 DEF Candidate
  <2>11. QED
    BY <2>1, <2>9, <2>10 DEF ExposureIsKept, Limits!InChecks
<1>8. CASE UNCHANGED limitsVars
  BY <1>3, <1>8 DEF limitsVars, ExposureIsKept, Limits!InChecks
<1>9. QED
  BY <1>4, <1>5, <1>6, <1>7, <1>8 DEF Limits!Next

LEMMA LimitsInvInit == Limits!Init => LimitsInv
<1> SUFFICES ASSUME Limits!Init PROVE LimitsInv
  OBVIOUS
<1>1. /\ Limits!Stored = {} /\ \A c \in Callers : asking[c] = Limits!Nothing
      /\ asking = [c \in Callers |-> Limits!Nothing]
      /\ together = {} /\ disturbed = FALSE
  BY DEF Limits!Init, Limits!Stored
<1>2. Limits!TypeOK
  BY <1>1 DEF Limits!TypeOK
<1>3. Limits!InChecks = {} /\ \A c \in Callers : asking[c].at = "idle"
  BY <1>1 DEF Limits!InChecks, Limits!Nothing
<1>4. Limits!FindOpen = {} /\ \A p : Limits!Snapshot(p) = {}
  BY <1>1 DEF Limits!FindOpen, Limits!Snapshot
<1>5. Limits!Total(Limits!FindOpen) = 0 /\ \A p : Limits!Total(Limits!Snapshot(p)) = 0
  BY <1>4, Totals, SumEmpty
<1>6. \A p \in Limits!Pools : PoolIsKept(p)
  <2>1. \A p \in Limits!Pools : Limit[p] \in Nat
    BY LimitsAssumption DEF Limits!Pools
  <2>2. QED
    BY <1>3, <1>5, <2>1 DEF PoolIsKept, Candidates
<1>7. ExposureIsKept
  <2>1. ExposurePct * Capital \in Nat
    BY LimitsAssumption
  <2>2. Limits!WithinExposure(0)
    BY <1>5, <2>1 DEF Limits!WithinExposure
  <2>3. QED
    BY <1>3, <2>2 DEF ExposureIsKept
<1>8. QED
  BY <1>2, <1>6, <1>7 DEF LimitsInv

LEMMA LimitsInvStep == LimitsInv /\ [Limits!Next]_limitsVars => LimitsInv'
  BY LimitsTypeStep, PoolStep, ExposureStep DEF LimitsInv

(* The positions of a pool stay within the limit of its tier and those of all
   pools within the exposure, for any limits, amounts and number of callers,
   unless candidates were in the checks together or a position was opened by a
   change of its status. *)
THEOREM LimitsAreKept == Spec => []LimitsHold
<1>1. Init => LimitsInv
  BY InitOfParts, LimitsInvInit
<1>2. LimitsInv /\ [Next]_vars => LimitsInv'
  BY StepOfParts, LimitsInvStep
<1>3. LimitsInv => LimitsHold
  <2> SUFFICES ASSUME LimitsInv PROVE LimitsHold
    OBVIOUS
  <2>1. Limits!PoolWithinLimit
    <3>1. ASSUME NEW p \in Limits!Pools \ together
          PROVE  Limits!Total(Limits!OpenInPool(p)) <= Limit[p]
      <4>1. /\ Limits!Snapshot(p) \in SUBSET Limits!Stored
            /\ Limits!OpenInPool(p) \in SUBSET Limits!Snapshot(p)
            /\ Limits!OpenInPool(p) \in SUBSET Limits!Stored
        BY DEF Limits!Snapshot, Limits!OpenInPool
      <4>2. Limits!TypeOK /\ PoolIsKept(p)
        BY DEF LimitsInv
      <4>3. /\ Limits!Total(Limits!Snapshot(p)) \in Nat
            /\ Limits!Total(Limits!OpenInPool(p)) \in Nat
            /\ Limits!Total(Limits!OpenInPool(p)) <= Limits!Total(Limits!Snapshot(p))
        BY <4>1, <4>2, WorthType, SumSubset, Totals
      <4>4. Limit[p] \in Nat
        BY LimitsAssumption DEF Limits!Pools
      <4>5. QED
        BY <4>2, <4>3, <4>4 DEF PoolIsKept
    <3>2. QED
      BY <3>1 DEF Limits!PoolWithinLimit
  <2>2. Limits!ExposureWithinCap
    <3>1. Limits!Total(Limits!FindOpen) \in Nat
      BY FindOpenTotal DEF LimitsInv
    <3>2. QED
      BY <3>1 DEF LimitsInv, ExposureIsKept, Limits!WithinExposure, Limits!ExposureWithinCap
  <2>3. QED
    BY <2>1, <2>2 DEF LimitsHold
<1>4. QED
  BY <1>1, <1>2, <1>3, PTL DEF Spec

-----------------------------------------------------------------------------
(* Ledger. *)
LedgerInv == PnL!TypeOK /\ PnL!LedgerHoldsReports

Kinds == {"fee", "il", "cost"}

IsLedger(l) ==
  /\ DOMAIN l \subseteq (0..MaxClock) \X Positions
  /\ \A id \in DOMAIN l : l[id] \in [kind : Kinds, amount : Int]

(* The part of a ledger that counts for a position, and its sum. *)
Counted(l, p) == {id \in DOMAIN l : id[2] = p /\ l[id].kind \in {"fee", "il"}}
SumOf(l, p) == SumFunctionOnSet([id \in DOMAIN l |-> l[id].amount], Counted(l, p))

LEMMA Aggregates ==
  \A p : PnL!Aggregate(p) = SumOf(ledger, p) /\ PnL!Aggregate(p)' = SumOf(ledger', p)
  BY DEF SumOf, Counted, PnL!Aggregate, PnL!AmountOf, PnL!Entries, PnL!SumFunctionOnSet,
         PnL!FoldFunctionOnSet, PnL!MapThenFoldSet, SumFunctionOnSet, FoldFunctionOnSet,
         MapThenFoldSet

LEMMA CountedIsFinite ==
  ASSUME NEW l, IsLedger(l), NEW p
  PROVE  IsFiniteSet(Counted(l, p)) /\ SumOf(l, p) \in Int
<1>1. IsFiniteSet((0..MaxClock) \X {p})
  <2>1. 0 \in Int /\ MaxClock \in Int
    BY PnLAssumption
  <2>2. IsFiniteSet(0..MaxClock)
    BY <2>1, FS_Interval
  <2>3. IsFiniteSet({p})
    BY FS_Singleton
  <2>4. QED
    BY <2>2, <2>3, FS_Product
<1>2. Counted(l, p) \in SUBSET ((0..MaxClock) \X {p})
  BY DEF Counted, IsLedger
<1>3. IsFiniteSet(Counted(l, p))
  BY <1>1, <1>2, FS_Subset
<1>4. \A id \in Counted(l, p) : [j \in DOMAIN l |-> l[j].amount][id] \in Int
  BY DEF Counted, IsLedger
<1>5. QED
  BY <1>3, <1>4, SumRemove DEF SumOf

(* One more entry, under an id that is not taken. *)
LEMMA InsertSums ==
  ASSUME NEW l, IsLedger(l), NEW ms \in 0..MaxClock, NEW q \in Positions,
         ~PnL!Taken(l, ms, q), NEW kind \in Kinds, NEW amount \in Int
  PROVE  /\ IsLedger(PnL!Insert(l, ms, q, kind, amount))
         /\ \A p \in Positions :
              SumOf(PnL!Insert(l, ms, q, kind, amount), p)
                = SumOf(l, p) + IF p = q /\ kind \in {"fee", "il"} THEN amount ELSE 0
<1>1. PICK id : id = <<ms, q>>
  OBVIOUS
<1>2. PICK e : e = [kind |-> kind, amount |-> amount]
  OBVIOUS
<1>3. PICK k : k = PnL!Insert(l, ms, q, kind, amount)
  OBVIOUS
<1>4. /\ id \in (0..MaxClock) \X Positions /\ id[2] = q
      /\ e \in [kind : Kinds, amount : Int] /\ e.kind = kind /\ e.amount = amount
  BY <1>1, <1>2
<1>5. /\ id \notin DOMAIN l /\ DOMAIN k = DOMAIN l \cup {id} /\ k[id] = e
      /\ \A j \in DOMAIN l : k[j] = l[j]
  BY <1>1, <1>2, <1>3 DEF PnL!Insert, PnL!Taken
<1>6. IsLedger(k)
  BY <1>4, <1>5 DEF IsLedger
<1>7. ASSUME NEW p \in Positions
      PROVE  SumOf(k, p) = SumOf(l, p) + IF p = q /\ kind \in {"fee", "il"} THEN amount ELSE 0
  <2>1. PICK f : f = [j \in DOMAIN l |-> l[j].amount]
    OBVIOUS
  <2>2. PICK g : g = [j \in DOMAIN k |-> k[j].amount]
    OBVIOUS
  <2>3. \A j \in Counted(l, p) : f[j] = g[j]
    BY <1>5, <2>1, <2>2 DEF Counted
  <2>4. SumFunctionOnSet(f, Counted(l, p)) = SumFunctionOnSet(g, Counted(l, p))
    BY <2>3, CountedIsFinite, SumAgree
  <2>5. SumOf(l, p) = SumFunctionOnSet(g, Counted(l, p)) /\ SumOf(l, p) \in Int
    BY <2>1, <2>4, CountedIsFinite DEF SumOf
  <2>6. CASE p = q /\ kind \in {"fee", "il"}
    <3>1. Counted(k, p) = Counted(l, p) \cup {id} /\ id \notin Counted(l, p)
      BY <1>4, <1>5, <2>6 DEF Counted
    <3>2. g[id] = amount
      BY <1>4, <1>5, <2>2
    <3>3. \A j \in Counted(l, p) \cup {id} : g[j] \in Int
      BY <1>5, <1>6, <2>2 DEF Counted, IsLedger
    <3>4. SumFunctionOnSet(g, Counted(l, p) \cup {id}) = g[id] + SumFunctionOnSet(g, Counted(l, p))
      BY <3>1, <3>3, CountedIsFinite, SumAdd
    <3>5. SumOf(k, p) = amount + SumOf(l, p)
      BY <2>2, <2>5, <3>1, <3>2, <3>4 DEF SumOf
    <3>6. QED
      BY <2>5, <2>6, <3>5
  <2>7. CASE ~(p = q /\ kind \in {"fee", "il"})
    <3>1. Counted(k, p) = Counted(l, p)
      BY <1>4, <1>5, <2>7 DEF Counted
    <3>2. SumOf(k, p) = SumOf(l, p)
      BY <2>2, <2>5, <3>1 DEF SumOf
    <3>3. QED
      BY <2>5, <2>7, <3>2
  <2>8. QED
    BY <2>6, <2>7
<1>8. QED
  BY <1>3, <1>6, <1>7

RecordsUnderWay ==
  [by : {"tracker", "service"}, pos : Positions, fee : Int, loss : Int]

(* The invariant, with the sums of the table in place of the aggregates. *)
LEMMA LedgerParts ==
  ASSUME LedgerInv
  PROVE  /\ PnL!Tracked \subseteq Positions
         /\ \A p \in PnL!Tracked : tracked[p] \in 0..MaxFee
         /\ IsLedger(ledger) /\ clock \in 0..MaxClock
         /\ record \in [Callers -> {PnL!NoRecord} \cup RecordsUnderWay]
         /\ realized \in [Positions -> Int] /\ unreported \in [Positions -> Int]
         /\ \A p \in Positions : SumOf(ledger, p) = realized[p] + unreported[p]
  BY Aggregates
     DEF LedgerInv, PnL!LedgerHoldsReports, PnL!TypeOK, IsLedger, Kinds, PnL!Entries,
         RecordsUnderWay

LEMMA LedgerFromParts ==
  ASSUME PnL!Tracked' \subseteq Positions,
         \A p \in PnL!Tracked' : tracked'[p] \in 0..MaxFee,
         IsLedger(ledger'), clock' \in 0..MaxClock,
         record' \in [Callers -> {PnL!NoRecord} \cup RecordsUnderWay],
         realized' \in [Positions -> Int], unreported' \in [Positions -> Int],
         \A p \in Positions : SumOf(ledger', p) = realized'[p] + unreported'[p]
  PROVE  LedgerInv'
<1>1. PnL!TypeOK'
  BY DEF PnL!TypeOK, IsLedger, Kinds, PnL!Entries, RecordsUnderWay
<1>2. PnL!LedgerHoldsReports'
  BY Aggregates DEF PnL!LedgerHoldsReports
<1>3. QED
  BY <1>1, <1>2 DEF LedgerInv

(* A step that touches the tracked positions alone. *)
LEMMA TrackingStep ==
  ASSUME LedgerInv, UNCHANGED <<ledger, record, realized, unreported>>,
         clock' \in 0..MaxClock, PnL!Tracked' \subseteq Positions,
         \A p \in PnL!Tracked' : tracked'[p] \in 0..MaxFee
  PROVE  LedgerInv'
  BY LedgerParts, LedgerFromParts

(* The first INSERT: what it adds is not reported yet. *)
LEMMA AppendFeeStep ==
  ASSUME LedgerInv, NEW c \in Callers, NEW by \in {"tracker", "service"}, NEW p \in Positions,
         NEW fee \in Int, NEW loss \in Int, PnL!AppendFee(c, by, p, fee, loss)
  PROVE  LedgerInv'
<1> DEFINE new == [by |-> by, pos |-> p, fee |-> fee, loss |-> loss]
<1>1. /\ fee # 0 => ~PnL!Taken(ledger, clock, p)
      /\ ledger' = IF fee = 0 THEN ledger ELSE PnL!Insert(ledger, clock, p, "fee", fee)
      /\ record' = [record EXCEPT ![c] = new]
      /\ unreported' = [unreported EXCEPT ![p] = unreported[p] + fee]
      /\ UNCHANGED <<tracked, clock, realized>>
  BY DEF PnL!AppendFee
<1>2. new \in RecordsUnderWay
  BY DEF RecordsUnderWay
<1> HIDE DEF new
<1>3. /\ IsLedger(ledger')
      /\ \A q \in Positions : SumOf(ledger', q) = SumOf(ledger, q) + IF q = p THEN fee ELSE 0
  <2>1. CASE fee = 0
    BY <1>1, <2>1, LedgerParts
  <2>2. CASE fee # 0
    BY <1>1, <2>2, LedgerParts, InsertSums DEF Kinds
  <2>3. QED
    BY <2>1, <2>2
<1>4. record' \in [Callers -> {PnL!NoRecord} \cup RecordsUnderWay]
  BY <1>1, <1>2, LedgerParts
<1>5. unreported' \in [Positions -> Int]
  BY <1>1, LedgerParts
<1>6. ASSUME NEW q \in Positions
      PROVE  SumOf(ledger', q) = realized'[q] + unreported'[q]
  <2>1. unreported'[q] = unreported[q] + IF q = p THEN fee ELSE 0
    BY <1>1, LedgerParts
  <2>2. SumOf(ledger, q) = realized[q] + unreported[q] /\ realized[q] \in Int /\ unreported[q] \in Int
    BY LedgerParts
  <2>3. SumOf(ledger', q) = SumOf(ledger, q) + IF q = p THEN fee ELSE 0
    BY <1>3
  <2>4. QED
    BY <1>1, <2>1, <2>2, <2>3
<1>7. /\ PnL!Tracked' \subseteq Positions /\ clock' \in 0..MaxClock
      /\ \A q \in PnL!Tracked' : tracked'[q] \in 0..MaxFee
      /\ realized' \in [Positions -> Int]
  BY <1>1, LedgerParts DEF PnL!Tracked
<1>8. QED
  BY <1>3, <1>4, <1>5, <1>6, <1>7, LedgerFromParts

(* The second INSERT and the report: the fee is reported with the loss. *)
LEMMA AppendLossStep ==
  ASSUME LedgerInv, NEW c \in Callers, PnL!AppendLoss(c)
  PROVE  LedgerInv'
<1>1. PICK r : r = record[c]
  OBVIOUS
<1>2. r \in RecordsUnderWay
  BY <1>1, LedgerParts DEF PnL!AppendLoss
<1>3. PICK p \in Positions, fee \in Int, loss \in Int : p = r.pos /\ fee = r.fee /\ loss = r.loss
  BY <1>2 DEF RecordsUnderWay
<1>4. /\ loss # 0 => ~PnL!Taken(ledger, clock, p)
      /\ ledger' = IF loss = 0 THEN ledger ELSE PnL!Insert(ledger, clock, p, "il", loss)
      /\ tracked' \in {tracked, PnL!Without(p)}
      /\ realized' = [realized EXCEPT ![p] = realized[p] + fee + loss]
      /\ unreported' = [unreported EXCEPT ![p] = unreported[p] - fee]
      /\ record' = [record EXCEPT ![c] = PnL!NoRecord]
      /\ UNCHANGED clock
  BY <1>1, <1>3 DEF PnL!AppendLoss
<1>5. /\ IsLedger(ledger')
      /\ \A q \in Positions : SumOf(ledger', q) = SumOf(ledger, q) + IF q = p THEN loss ELSE 0
  <2>1. CASE loss = 0
    BY <1>4, <2>1, LedgerParts
  <2>2. CASE loss # 0
    BY <1>4, <2>2, LedgerParts, InsertSums DEF Kinds
  <2>3. QED
    BY <2>1, <2>2
<1>6. record' \in [Callers -> {PnL!NoRecord} \cup RecordsUnderWay]
  BY <1>4, LedgerParts
<1>7. unreported' \in [Positions -> Int] /\ realized' \in [Positions -> Int]
  BY <1>4, LedgerParts
<1>8. ASSUME NEW q \in Positions
      PROVE  SumOf(ledger', q) = realized'[q] + unreported'[q]
  <2>1. /\ unreported'[q] = unreported[q] - IF q = p THEN fee ELSE 0
        /\ realized'[q] = realized[q] + IF q = p THEN fee + loss ELSE 0
    BY <1>4, LedgerParts
  <2>2. SumOf(ledger, q) = realized[q] + unreported[q] /\ realized[q] \in Int /\ unreported[q] \in Int
    BY LedgerParts
  <2>3. SumOf(ledger', q) = SumOf(ledger, q) + IF q = p THEN loss ELSE 0
    BY <1>5
  <2>4. QED
    BY <2>1, <2>2, <2>3
<1>9. /\ PnL!Tracked' \subseteq Positions /\ clock' \in 0..MaxClock
      /\ \A q \in PnL!Tracked' : tracked'[q] \in 0..MaxFee
  BY <1>4, LedgerParts DEF PnL!Tracked, PnL!Without
<1>10. QED
  BY <1>5, <1>6, <1>7, <1>8, <1>9, LedgerFromParts

LEMMA LedgerStep == LedgerInv /\ [PnL!Next]_pnlVars => LedgerInv'
<1> SUFFICES ASSUME LedgerInv, [PnL!Next]_pnlVars PROVE LedgerInv'
  OBVIOUS
<1>1. MaxClock \in Nat /\ MaxFee \in Nat /\ Fees \subseteq Nat /\ Losses \subseteq Int
  BY PnLAssumption
<1>2. ASSUME NEW p \in Positions, PnL!TrackPosition(p) \/ PnL!UntrackPosition(p)
      PROVE  LedgerInv'
  <2>1. /\ PnL!Tracked' \subseteq Positions
        /\ \A q \in PnL!Tracked' : tracked'[q] \in 0..MaxFee
    BY <1>1, <1>2, LedgerParts
       DEF PnL!TrackPosition, PnL!UntrackPosition, PnL!Without, PnL!Tracked
  <2>2. UNCHANGED <<ledger, clock, record, realized, unreported>>
    BY <1>2 DEF PnL!TrackPosition, PnL!UntrackPosition
  <2>3. QED
    BY <2>1, <2>2, LedgerParts, TrackingStep
<1>3. ASSUME NEW p \in Positions, NEW f \in Fees, PnL!AddFees(p, f)
      PROVE  LedgerInv'
  <2>1. tracked[p] \in 0..MaxFee /\ f \in Nat
    BY <1>1, <1>3, LedgerParts DEF PnL!AddFees
  <2>2. tracked[p] + f \in 0..MaxFee
    BY <1>1, <1>3, <2>1 DEF PnL!AddFees
  <2>3. /\ PnL!Tracked' \subseteq Positions
        /\ \A q \in PnL!Tracked' : tracked'[q] \in 0..MaxFee
    BY <1>3, <2>2, LedgerParts DEF PnL!AddFees, PnL!Tracked
  <2>4. UNCHANGED <<ledger, clock, record, realized, unreported>>
    BY <1>3 DEF PnL!AddFees
  <2>5. QED
    BY <2>3, <2>4, LedgerParts, TrackingStep
<1>4. ASSUME NEW c \in Callers, NEW p \in Positions, NEW loss \in Losses,
             PnL!RecordRealizedPnL(c, p, loss)
      PROVE  LedgerInv'
  <2>1. tracked[p] \in Int
    BY <1>1, <1>4, LedgerParts DEF PnL!RecordRealizedPnL
  <2>2. loss \in Int
    BY <1>1
  <2>3. PnL!AppendFee(c, "tracker", p, tracked[p], loss)
    BY <1>4 DEF PnL!RecordRealizedPnL
  <2>4. QED
    BY <2>1, <2>2, <2>3, AppendFeeStep
<1>5. ASSUME NEW c \in Callers, NEW p \in Positions, NEW f \in Fees, NEW loss \in Losses,
             PnL!RecordPnL(c, p, f, loss)
      PROVE  LedgerInv'
  <2>1. f \in Int /\ loss \in Int
    BY <1>1
  <2>2. PnL!AppendFee(c, "service", p, f, loss)
    BY <1>5 DEF PnL!RecordPnL
  <2>3. QED
    BY <2>1, <2>2, AppendFeeStep
<1>6. ASSUME NEW c \in Callers, PnL!BreakOff(c)
      PROVE  LedgerInv'
  <2>1. /\ record' = [record EXCEPT ![c] = PnL!NoRecord]
        /\ UNCHANGED <<tracked, ledger, clock, realized, unreported>>
    BY <1>6 DEF PnL!BreakOff
  <2>2. record' \in [Callers -> {PnL!NoRecord} \cup RecordsUnderWay]
    BY <2>1, LedgerParts
  <2>3. PnL!Tracked' = PnL!Tracked
    BY <2>1 DEF PnL!Tracked
  <2>4. QED
    BY <2>1, <2>2, <2>3, LedgerParts, LedgerFromParts
<1>7. ASSUME NEW p \in Positions, PnL!RecordCost(p, 1)
      PROVE  LedgerInv'
  <2>1. /\ ledger' = PnL!Insert(ledger, clock, p, "cost", -1) /\ ~PnL!Taken(ledger, clock, p)
        /\ UNCHANGED <<tracked, clock, record, realized, unreported>>
    BY <1>7 DEF PnL!RecordCost
  <2>2. IsLedger(ledger') /\ \A q \in Positions : SumOf(ledger', q) = SumOf(ledger, q) + 0
    BY <2>1, LedgerParts, InsertSums DEF Kinds
  <2>3. \A q \in Positions : SumOf(ledger', q) = realized'[q] + unreported'[q]
    BY <2>1, <2>2, LedgerParts
  <2>4. PnL!Tracked' = PnL!Tracked
    BY <2>1 DEF PnL!Tracked
  <2>5. QED
    BY <2>1, <2>2, <2>3, <2>4, LedgerParts, LedgerFromParts
<1>8. CASE PnL!Restart
  <2>1. /\ record' = [c \in Callers |-> PnL!NoRecord] /\ PnL!Tracked' = {}
        /\ UNCHANGED <<ledger, clock, realized, unreported>>
    BY <1>8 DEF PnL!Restart, PnL!Tracked
  <2>2. record' \in [Callers -> {PnL!NoRecord} \cup RecordsUnderWay]
    BY <2>1
  <2>3. QED
    BY <2>1, <2>2, LedgerParts, LedgerFromParts
<1>9. CASE PnL!Tick
  <2>1. clock' \in 0..MaxClock /\ UNCHANGED <<tracked, ledger, record, realized, unreported>>
    BY <1>1, <1>9, LedgerParts DEF PnL!Tick
  <2>2. PnL!Tracked' = PnL!Tracked
    BY <2>1 DEF PnL!Tracked
  <2>3. QED
    BY <2>1, <2>2, LedgerParts, TrackingStep
<1>10. CASE UNCHANGED pnlVars
  <2>1. UNCHANGED <<tracked, ledger, clock, record, realized, unreported>>
    BY <1>10 DEF pnlVars
  <2>2. PnL!Tracked' = PnL!Tracked
    BY <2>1 DEF PnL!Tracked
  <2>3. QED
    BY <2>1, <2>2, LedgerParts, TrackingStep
<1>11. QED
  BY <1>2, <1>3, <1>4, <1>5, <1>6, <1>7, <1>8, <1>9, <1>10, AppendLossStep DEF PnL!Next

LEMMA LedgerInit == PnL!Init => LedgerInv
<1> SUFFICES ASSUME PnL!Init PROVE LedgerInv
  OBVIOUS
<1>1. /\ DOMAIN ledger = {} /\ DOMAIN tracked = {} /\ clock = 0
      /\ record = [c \in Callers |-> PnL!NoRecord]
      /\ realized = [p \in Positions |-> 0] /\ unreported = [p \in Positions |-> 0]
  BY DEF PnL!Init
<1>2. MaxClock \in Nat
  BY PnLAssumption
<1>3. PnL!TypeOK
  BY <1>1, <1>2 DEF PnL!TypeOK, PnL!Tracked, PnL!Entries
<1>4. \A p \in Positions : SumOf(ledger, p) = 0
  BY <1>1, SumEmpty DEF SumOf, Counted
<1>5. QED
  BY <1>1, <1>3, <1>4, Aggregates DEF LedgerInv, PnL!LedgerHoldsReports

(* For any amounts, any positions and any number of callers the ledger adds up
   to what was reported and to the fees of the records that were not. *)
THEOREM LedgerAddsUp == Spec => []LedgerHoldsReports
<1>1. Init => LedgerInv
  BY InitOfParts, LedgerInit
<1>2. LedgerInv /\ [Next]_vars => LedgerInv'
  BY StepOfParts, LedgerStep
<1>3. LedgerInv => LedgerHoldsReports
  BY DEF LedgerInv, LedgerHoldsReports
<1>4. QED
  BY <1>1, <1>2, <1>3, PTL DEF Spec

-----------------------------------------------------------------------------
(* Sending.  What is true of a call, of its way and of the answer it ended
   with. *)
Outside == {"sending", "sent", "confirming", "receipt"}

MinedAtBlock(c) ==
  /\ sendCall[c].block > 0
  /\ \A t \in sendCall[c].txs : minedAt[t] = sendCall[c].block

ConfirmedFor(c) ==
  /\ sendCall[c].at = "idle" /\ sendCall[c].answer = "ok" /\ ~sendCall[c].stale
  /\ Sends!Chain = "base" /\ config.confirmations > 0
  /\ sendCall[c].via = "send" \/ sendCall[c].block > 0

CallIsSound(c) ==
  /\ sendCall[c].via \in {"submit", "send"} => \E t \in Txs : sendCall[c].txs = {t}
  /\ sendCall[c].at = "posting" => sendCall[c].via \in {"submit", "bundle"}
  /\ sendCall[c].at \in Outside => sendCall[c].via = "send" \/ Sends!FallsBack(c)
  /\ sendCall[c].at \in {"posting", "sending", "sent"} => sendCall[c].block = 0
  /\ sendCall[c].at = "receipt" /\ ~sendCall[c].stale => MinedAtBlock(c)
  /\ ConfirmedFor(c) => MinedAtBlock(c) /\ head >= sendCall[c].block + config.confirmations

PublicWasGiven ==
  config.live /\ config.kind \in {"strict", "jito"} =>
    /\ mempool \subseteq direct
    /\ \A c \in Callers : sendCall[c].at \in Outside => sendCall[c].txs \subseteq direct

FellBack(c) == sendCall[c].via = "submit" /\ sendCall[c].at \in Outside

FallbacksFailedFirst ==
  config.kind = "strict" =>
    stats["fallback"] + Cardinality({c \in Callers : FellBack(c)}) <= stats["failed"]

SendingInv ==
  /\ Sends!TypeOK
  /\ \A c \in Callers : CallIsSound(c)
  /\ PublicWasGiven /\ Sends!CountersAgree /\ FallbacksFailedFirst

Places == {"idle", "posting"} \cup Outside

CallRecords ==
  [at : Places, via : {"none", "submit", "bundle", "send"}, txs : SUBSET Txs,
   took : BOOLEAN, block : 0..MaxHeight, stale : BOOLEAN, answer : {"none", "ok", "error"}]

(* What does not matter to the calls. *)
SendingRest ==
  /\ config \in Sends!Configs
  /\ stats \in [Sends!Counters -> Nat] /\ calls \in Nat /\ panicked \in BOOLEAN
  /\ relay \subseteq Txs /\ mempool \subseteq Txs /\ direct \subseteq Txs
  /\ head \in 0..MaxHeight /\ minedAt \in [Txs -> 0..MaxHeight]

LEMMA SendingTyped ==
  /\ Sends!TypeOK <=> SendingRest /\ sendCall \in [Callers -> CallRecords]
  /\ Sends!TypeOK' <=> SendingRest' /\ sendCall' \in [Callers -> CallRecords]
  BY DEF Sends!TypeOK, SendingRest, CallRecords, Places, Outside

Others(c) == \A d \in Callers \ {c} : sendCall'[d] = sendCall[d]

(* The fields of a call that no step but its start changes, and those that
   only some steps do. *)
SameRequest(c) ==
  /\ sendCall'[c].via = sendCall[c].via /\ sendCall'[c].txs = sendCall[c].txs
SameBlock(c) ==
  /\ sendCall'[c].block = sendCall[c].block /\ sendCall'[c].stale = sendCall[c].stale

LEMMA MovesTo ==
  ASSUME sendCall \in [Callers -> CallRecords], NEW c \in Callers, NEW place \in Places,
         Sends!Moves(c, place)
  PROVE  /\ sendCall' \in [Callers -> CallRecords] /\ Others(c)
         /\ SameRequest(c) /\ SameBlock(c)
         /\ sendCall'[c].at = place /\ sendCall'[c].answer = sendCall[c].answer
<1>1. PICK old : old = sendCall[c] /\ old \in CallRecords
  OBVIOUS
<1>2. PICK new : new = [old EXCEPT !.at = place]
  OBVIOUS
<1>3. /\ new \in CallRecords /\ new.at = place /\ new.via = old.via /\ new.txs = old.txs
      /\ new.block = old.block /\ new.stale = old.stale /\ new.answer = old.answer
  BY <1>1, <1>2 DEF CallRecords
<1>4. sendCall' = [sendCall EXCEPT ![c] = new]
  BY <1>1, <1>2 DEF Sends!Moves
<1>5. sendCall'[c] = new /\ Others(c) /\ sendCall' \in [Callers -> CallRecords]
  BY <1>3, <1>4 DEF Others
<1>6. QED
  BY <1>1, <1>3, <1>5 DEF SameRequest, SameBlock

LEMMA AnswersWith ==
  ASSUME sendCall \in [Callers -> CallRecords], NEW c \in Callers,
         NEW answer \in {"ok", "error"}, Sends!Answers(c, answer)
  PROVE  /\ sendCall' \in [Callers -> CallRecords] /\ Others(c)
         /\ SameRequest(c) /\ SameBlock(c)
         /\ sendCall'[c].at = "idle" /\ sendCall'[c].answer = answer
<1>1. PICK old : old = sendCall[c] /\ old \in CallRecords
  OBVIOUS
<1>2. PICK new : new = [[old EXCEPT !.at = "idle"] EXCEPT !.answer = answer]
  OBVIOUS
<1>3. /\ new \in CallRecords /\ new.at = "idle" /\ new.via = old.via /\ new.txs = old.txs
      /\ new.block = old.block /\ new.stale = old.stale /\ new.answer = answer
  BY <1>1, <1>2 DEF CallRecords, Places
<1>4. sendCall' = [sendCall EXCEPT ![c] = new]
  BY <1>1, <1>2 DEF Sends!Answers
<1>5. sendCall'[c] = new /\ Others(c) /\ sendCall' \in [Callers -> CallRecords]
  BY <1>3, <1>4 DEF Others
<1>6. QED
  BY <1>1, <1>3, <1>5 DEF SameRequest, SameBlock

LEMMA StartsWith ==
  ASSUME sendCall \in [Callers -> CallRecords], NEW c \in Callers, NEW place \in Places,
         NEW via \in {"submit", "bundle", "send"}, NEW txs \in SUBSET Txs,
         Sends!Starts(c, via, txs, place)
  PROVE  /\ sendCall' \in [Callers -> CallRecords] /\ Others(c)
         /\ sendCall[c].at = "idle"
         /\ sendCall'[c].at = place /\ sendCall'[c].answer = "none"
         /\ sendCall'[c].via = via /\ sendCall'[c].txs = txs
         /\ sendCall'[c].block = 0 /\ ~sendCall'[c].stale
<1>1. 0 \in 0..MaxHeight
  BY SendingAssumption
<1>2. PICK idle : idle = Sends!Idle
  OBVIOUS
<1>3. /\ idle \in CallRecords /\ idle.block = 0 /\ ~idle.stale /\ idle.answer = "none"
  BY <1>1, <1>2 DEF Sends!Idle, CallRecords, Places
<1>4. PICK new : new = [[[idle EXCEPT !.at = place] EXCEPT !.via = via] EXCEPT !.txs = txs]
  OBVIOUS
<1>5. /\ new \in CallRecords /\ new.at = place /\ new.via = via /\ new.txs = txs
      /\ new.block = 0 /\ ~new.stale /\ new.answer = "none"
  BY <1>3, <1>4 DEF CallRecords
<1>6. sendCall' = [sendCall EXCEPT ![c] = new] /\ sendCall[c].at = "idle"
  BY <1>2, <1>4 DEF Sends!Starts, Sends!At
<1>7. sendCall'[c] = new /\ Others(c) /\ sendCall' \in [Callers -> CallRecords]
  BY <1>5, <1>6 DEF Others
<1>8. QED
  BY <1>5, <1>6, <1>7

-----------------------------------------------------------------------------
(* Counting.  How a step of a caller changes the number of callers with a
   property, and when its counters make up for it. *)
One(P) == IF P THEN 1 ELSE 0

LEMMA SameCardinality == \A S : Cardinality(S) = Sends!Cardinality(S)
  BY DEF Cardinality, Sends!Cardinality

LEMMA CardinalityChange ==
  ASSUME NEW S \in SUBSET Callers, NEW T \in SUBSET Callers, NEW c \in Callers,
         S \ {c} = T \ {c}
  PROVE  /\ Cardinality(S) \in Nat /\ Cardinality(T) \in Nat
         /\ Cardinality(T) + One(c \in S) = Cardinality(S) + One(c \in T)
<1>1. IsFiniteSet(S) /\ IsFiniteSet(T) /\ Cardinality(S) \in Nat /\ Cardinality(T) \in Nat
  BY CallersAssumption, FS_Subset, FS_CardinalityType
<1>2. PICK n : n = Cardinality(S \ {c}) /\ n \in Nat
  BY <1>1, FS_Subset, FS_CardinalityType
<1>3. ASSUME NEW R, IsFiniteSet(R), Cardinality(R) \in Nat, n = Cardinality(R \ {c})
      PROVE  Cardinality(R) = n + One(c \in R)
  <2>1. n = IF c \in R THEN Cardinality(R) - 1 ELSE Cardinality(R)
    BY <1>3, FS_RemoveElement
  <2>2. CASE c \in R
    BY <1>2, <1>3, <2>1, <2>2 DEF One
  <2>3. CASE c \notin R
    BY <1>2, <1>3, <2>1, <2>3 DEF One
  <2>4. QED
    BY <2>2, <2>3
<1>4. Cardinality(S) = n + One(c \in S) /\ Cardinality(T) = n + One(c \in T)
  BY <1>1, <1>2, <1>3
<1>5. QED
  BY <1>1, <1>2, <1>4 DEF One

Counts(counters) ==
  \A n \in Sends!Counters : stats'[n] = stats[n] + One(n \in counters)

Balanced(c, counters) ==
  /\ One("submitted" \in counters) + One(Sends!Uncounted(c))
       = One(Sends!Uncounted(c)') + One("success" \in counters) + One("failed" \in counters)
           + IF config.kind = "strict" THEN 0 ELSE One("fallback" \in counters)
  /\ config.kind = "strict" =>
       One("fallback" \in counters) + One(FellBack(c)')
         <= One("failed" \in counters) + One(FellBack(c))

LEMMA CountersStep ==
  ASSUME SendingRest, SendingRest', Sends!CountersAgree, FallbacksFailedFirst,
         NEW c \in Callers, Others(c), UNCHANGED config,
         NEW counters, Counts(counters), Balanced(c, counters)
  PROVE  Sends!CountersAgree' /\ FallbacksFailedFirst'
<1>1. PICK U : U = {d \in Callers : Sends!Uncounted(d)}
  OBVIOUS
<1>2. PICK V : V = {d \in Callers : Sends!Uncounted(d)'}
  OBVIOUS
<1>3. PICK F : F = {d \in Callers : FellBack(d)}
  OBVIOUS
<1>4. PICK G : G = {d \in Callers : FellBack(d)'}
  OBVIOUS
<1>5. \A d \in Callers \ {c} : /\ Sends!Uncounted(d)' = Sends!Uncounted(d)
                               /\ FellBack(d)' = FellBack(d)
  BY DEF Others, Sends!Uncounted, Sends!At, FellBack
<1>6. /\ Cardinality(U) \in Nat /\ Cardinality(V) \in Nat
      /\ Cardinality(V) + One(c \in U) = Cardinality(U) + One(c \in V)
  BY <1>1, <1>2, <1>5, CardinalityChange
<1>7. /\ Cardinality(F) \in Nat /\ Cardinality(G) \in Nat
      /\ Cardinality(G) + One(c \in F) = Cardinality(F) + One(c \in G)
  BY <1>3, <1>4, <1>5, CardinalityChange
<1>8. /\ One(c \in U) = One(Sends!Uncounted(c)) /\ One(c \in V) = One(Sends!Uncounted(c)')
      /\ One(c \in F) = One(FellBack(c)) /\ One(c \in G) = One(FellBack(c)')
  <2>1. /\ c \in U <=> Sends!Uncounted(c)
        /\ c \in V <=> Sends!Uncounted(c)'
        /\ c \in F <=> FellBack(c)
        /\ c \in G <=> FellBack(c)'
    BY <1>1, <1>2, <1>3, <1>4
  <2>2. QED
    BY <2>1 DEF One
<1>9. PICK submitted, success, failed, fallback \in Nat :
        /\ submitted = One("submitted" \in counters) /\ success = One("success" \in counters)
        /\ failed = One("failed" \in counters) /\ fallback = One("fallback" \in counters)
  BY DEF One
<1>10. PICK u, v, f, g \in Nat : /\ u = One(c \in U) /\ v = One(c \in V)
                                /\ f = One(c \in F) /\ g = One(c \in G)
  BY DEF One
<1>11. /\ stats["submitted"] \in Nat /\ stats["success"] \in Nat
       /\ stats["failed"] \in Nat /\ stats["fallback"] \in Nat
  BY DEF SendingRest, Sends!Counters
<1>12. /\ stats'["submitted"] = stats["submitted"] + submitted
       /\ stats'["success"] = stats["success"] + success
       /\ stats'["failed"] = stats["failed"] + failed
       /\ stats'["fallback"] = stats["fallback"] + fallback
  BY <1>9 DEF Counts, Sends!Counters
<1>13. Cardinality(V) + u = Cardinality(U) + v /\ Cardinality(G) + f = Cardinality(F) + g
  BY <1>6, <1>7, <1>10
<1>14. /\ config.kind # "strict" => submitted + u = v + success + failed + fallback
       /\ config.kind = "strict" => submitted + u = v + success + failed
       /\ config.kind = "strict" => fallback + g <= failed + f
  BY <1>8, <1>9, <1>10 DEF Balanced
<1>15. /\ config.kind # "strict" => stats["submitted"] = Cardinality(U) + stats["success"]
                                                        + stats["failed"] + stats["fallback"]
       /\ config.kind = "strict" => stats["submitted"] = Cardinality(U) + stats["success"]
                                                        + stats["failed"]
       /\ config.kind = "strict" => stats["fallback"] + Cardinality(F) <= stats["failed"]
  BY <1>1, <1>3, <1>6, <1>11, SameCardinality DEF Sends!CountersAgree, FallbacksFailedFirst
<1>16. PICK nu, nv, nf, ng \in Nat : /\ nu = Cardinality(U) /\ nv = Cardinality(V)
                                     /\ nf = Cardinality(F) /\ ng = Cardinality(G)
  BY <1>6, <1>7
<1>17. /\ config.kind # "strict" => stats'["submitted"] = nv + stats'["success"]
                                                         + stats'["failed"] + stats'["fallback"]
       /\ config.kind = "strict" => stats'["submitted"] = nv + stats'["success"]
                                                         + stats'["failed"]
  <2>1. CASE config.kind = "strict"
    <3>1. stats["submitted"] = nu + stats["success"] + stats["failed"]
      BY <1>15, <1>16, <2>1
    <3>2. submitted + u = v + success + failed /\ nv + u = nu + v
      BY <1>13, <1>14, <1>16, <2>1
    <3>3. nu + submitted = nv + success + failed
      <4>1. /\ submitted \in Nat /\ success \in Nat /\ failed \in Nat
            /\ u \in Nat /\ v \in Nat /\ nu \in Nat /\ nv \in Nat
        OBVIOUS
      <4>2. QED
        BY <3>2, <4>1
    <3>4. QED
      BY <1>9, <1>11, <1>12, <1>16, <2>1, <3>1, <3>3
  <2>2. CASE config.kind # "strict"
    <3>1. stats["submitted"] = nu + stats["success"] + stats["failed"] + stats["fallback"]
      BY <1>15, <1>16, <2>2
    <3>2. submitted + u = v + success + failed + fallback /\ nv + u = nu + v
      BY <1>13, <1>14, <1>16, <2>2
    <3>3. nu + submitted = nv + success + failed + fallback
      <4>1. /\ submitted \in Nat /\ success \in Nat /\ failed \in Nat /\ fallback \in Nat
            /\ u \in Nat /\ v \in Nat /\ nu \in Nat /\ nv \in Nat
        OBVIOUS
      <4>2. QED
        BY <3>2, <4>1
    <3>4. QED
      BY <1>9, <1>11, <1>12, <1>16, <2>2, <3>1, <3>3
  <2>3. QED
    BY <2>1, <2>2
<1>18. config.kind = "strict" => /\ stats'["fallback"] + ng <= stats'["failed"]
                                 /\ stats'["fallback"] <= stats'["failed"]
  BY <1>11, <1>12, <1>13, <1>14, <1>15, <1>16
<1>19. Sends!CountersAgree'
  <2>1. Cardinality(V) = Sends!Cardinality({d \in Callers : Sends!Uncounted(d)'})
    BY <1>2, SameCardinality
  <2>2. stats'["success"] \in Nat /\ stats'["failed"] \in Nat
    BY <1>9, <1>11, <1>12
  <2>3. QED
    BY <1>16, <1>17, <1>18, <2>1, <2>2 DEF Sends!CountersAgree
<1>20. FallbacksFailedFirst'
  BY <1>4, <1>16, <1>18 DEF FallbacksFailedFirst
<1>21. QED
  BY <1>19, <1>20

LEMMA CountsThese ==
  ASSUME SendingRest, NEW counters, Sends!Count(counters)
  PROVE  Counts(counters) /\ stats' \in [Sends!Counters -> Nat]
  BY DEF SendingRest, Sends!Count, Counts, One, Sends!Counters

LEMMA CountsNone ==
  ASSUME SendingRest, UNCHANGED stats
  PROVE  Counts({}) /\ stats' \in [Sends!Counters -> Nat]
  BY DEF SendingRest, Counts, One, Sends!Counters

-----------------------------------------------------------------------------
(* The steps of sending.  SendingParts puts the invariant together again after
   a step of one caller. *)
LEMMA SendingParts ==
  ASSUME SendingInv, NEW c \in Callers,
         SendingRest', sendCall' \in [Callers -> CallRecords], Others(c),
         UNCHANGED <<config, head, minedAt>>, CallIsSound(c)',
         NEW counters, Counts(counters), Balanced(c, counters), PublicWasGiven'
  PROVE  SendingInv'
<1>1. Sends!TypeOK'
  BY SendingTyped
<1>2. SendingRest /\ UNCHANGED config
  BY SendingTyped DEF SendingInv
<1>3. Sends!CountersAgree' /\ FallbacksFailedFirst'
  BY <1>2, CountersStep DEF SendingInv
<1>4. ASSUME NEW d \in Callers
      PROVE  CallIsSound(d)'
  <2>1. CASE d = c
    BY <2>1
  <2>2. CASE d # c
    <3>1. sendCall'[d] = sendCall[d] /\ CallIsSound(d)
      BY <2>2 DEF Others, SendingInv
    <3>2. QED
      BY <3>1 DEF CallIsSound, ConfirmedFor, MinedAtBlock, Sends!FallsBack, Sends!StrictMode,
                  Sends!Chain
  <2>3. QED
    BY <2>1, <2>2
<1>5. QED
  BY <1>1, <1>3, <1>4 DEF SendingInv

LEMMA PublicQuiet ==
  ASSUME PublicWasGiven, NEW c \in Callers, Others(c), UNCHANGED <<config, mempool, direct>>,
         sendCall'[c].at \in Outside =>
           sendCall[c].at \in Outside /\ sendCall'[c].txs = sendCall[c].txs
  PROVE  PublicWasGiven'
BY DEF PublicWasGiven, Others

LEMMA SubmitStep ==
  ASSUME SendingInv, NEW c \in Callers, NEW t \in Txs, Sends!Submit(c, t)
  PROVE  SendingInv'
<1>1. SendingRest /\ sendCall \in [Callers -> CallRecords]
  BY SendingTyped DEF SendingInv
<1>2. /\ Sends!Starts(c, "submit", {t}, "posting") /\ Sends!Count({"submitted"})
      /\ UNCHANGED <<config, calls, panicked, relay, mempool, direct, head, minedAt>>
  BY DEF Sends!Submit, Sends!chainVars
<1>3. /\ sendCall' \in [Callers -> CallRecords] /\ Others(c)
      /\ sendCall[c].at = "idle" /\ sendCall'[c].at = "posting" /\ sendCall'[c].answer = "none"
      /\ sendCall'[c].via = "submit" /\ sendCall'[c].txs = {t} /\ sendCall'[c].block = 0
  BY <1>1, <1>2, StartsWith DEF Places
<1>4. Counts({"submitted"}) /\ SendingRest'
  BY <1>1, <1>2, CountsThese DEF SendingRest
<1>5. CallIsSound(c)'
  BY <1>3 DEF CallIsSound, ConfirmedFor, Outside
<1>6. Balanced(c, {"submitted"})
  BY <1>2, <1>3 DEF Balanced, One, FellBack, Outside, Sends!Uncounted, Sends!At
<1>7. PublicWasGiven'
  BY <1>2, <1>3, PublicQuiet DEF SendingInv, Outside
<1>8. QED
  BY <1>2, <1>3, <1>4, <1>5, <1>6, <1>7, SendingParts

LEMMA SendStarts ==
  ASSUME SendingInv, NEW c \in Callers, NEW t \in Txs, Sends!Send(c, t)
  PROVE  SendingInv'
<1>1. SendingRest /\ sendCall \in [Callers -> CallRecords]
  BY SendingTyped DEF SendingInv
<1>2. /\ Sends!Starts(c, "send", {t}, "sending") /\ calls' = calls + 1
      /\ panicked' \in BOOLEAN /\ direct' = direct \cup {t}
      /\ UNCHANGED <<config, stats, relay, mempool, head, minedAt>>
  BY DEF Sends!Send
<1>3. /\ sendCall' \in [Callers -> CallRecords] /\ Others(c)
      /\ sendCall[c].at = "idle" /\ sendCall'[c].at = "sending" /\ sendCall'[c].answer = "none"
      /\ sendCall'[c].via = "send" /\ sendCall'[c].txs = {t} /\ sendCall'[c].block = 0
  BY <1>1, <1>2, StartsWith DEF Places, Outside
<1>4. Counts({}) /\ SendingRest'
  BY <1>1, <1>2, CountsNone DEF SendingRest
<1>5. CallIsSound(c)'
  BY <1>3 DEF CallIsSound, ConfirmedFor, Outside
<1>6. Balanced(c, {})
  BY <1>2, <1>3 DEF Balanced, One, FellBack, Outside, Sends!Uncounted, Sends!At
<1>7. PublicWasGiven'
  BY <1>2, <1>3 DEF SendingInv, PublicWasGiven, Others
<1>8. QED
  BY <1>2, <1>3, <1>4, <1>5, <1>6, <1>7, SendingParts

LEMMA BundleStep ==
  ASSUME SendingInv, NEW c \in Callers, NEW txs \in SUBSET Txs, Sends!SubmitBundle(c, txs)
  PROVE  SendingInv'
<1>1. SendingRest /\ sendCall \in [Callers -> CallRecords]
  BY SendingTyped DEF SendingInv
<1>2. UNCHANGED <<config, calls, panicked, relay, mempool, direct, head, minedAt>>
  BY DEF Sends!SubmitBundle, Sends!chainVars
<1>3. PICK place \in {"idle", "posting"} :
        /\ Sends!Starts(c, "bundle", txs, place)
        /\ place = "idle" => Sends!Count({"submitted", "failed"})
        /\ place = "posting" => Sends!Count({"submitted"})
  BY DEF Sends!SubmitBundle
<1>4. /\ sendCall' \in [Callers -> CallRecords] /\ Others(c)
      /\ sendCall[c].at = "idle" /\ sendCall'[c].at = place /\ sendCall'[c].answer = "none"
      /\ sendCall'[c].via = "bundle" /\ sendCall'[c].block = 0
  BY <1>1, <1>3, StartsWith DEF Places
<1>5. CallIsSound(c)'
  BY <1>4 DEF CallIsSound, ConfirmedFor, Outside
<1>6. PublicWasGiven'
  BY <1>2, <1>4, PublicQuiet DEF SendingInv, Outside
<1>7. CASE place = "idle"
  <2>1. Counts({"submitted", "failed"}) /\ SendingRest'
    BY <1>1, <1>2, <1>3, <1>7, CountsThese DEF SendingRest
  <2>2. Balanced(c, {"submitted", "failed"})
    BY <1>2, <1>4, <1>7 DEF Balanced, One, FellBack, Outside, Sends!Uncounted, Sends!At
  <2>3. QED
    BY <1>2, <1>4, <1>5, <1>6, <2>1, <2>2, SendingParts
<1>8. CASE place = "posting"
  <2>1. Counts({"submitted"}) /\ SendingRest'
    BY <1>1, <1>2, <1>3, <1>8, CountsThese DEF SendingRest
  <2>2. Balanced(c, {"submitted"})
    BY <1>2, <1>4, <1>8 DEF Balanced, One, FellBack, Outside, Sends!Uncounted, Sends!At
  <2>3. QED
    BY <1>2, <1>4, <1>5, <1>6, <2>1, <2>2, SendingParts
<1>9. QED
  BY <1>7, <1>8

LEMMA RelayTakesStep ==
  ASSUME SendingInv, NEW c \in Callers, Sends!RelayTakes(c)
  PROVE  SendingInv'
<1>1. SendingRest /\ sendCall \in [Callers -> CallRecords] /\ CallIsSound(c)
  BY SendingTyped DEF SendingInv
<1>2. /\ sendCall' = [sendCall EXCEPT ![c] = [sendCall[c] EXCEPT !.took = TRUE]]
      /\ sendCall[c].at = "posting" /\ relay' = relay \cup sendCall[c].txs
      /\ UNCHANGED <<config, stats, calls, panicked, mempool, direct, head, minedAt>>
  BY DEF Sends!RelayTakes, Sends!At
<1>3. PICK old : old = sendCall[c] /\ old \in CallRecords
  BY <1>1
<1>4. PICK new : new = [old EXCEPT !.took = TRUE]
  OBVIOUS
<1>5. /\ new \in CallRecords /\ new.at = old.at /\ new.via = old.via /\ new.txs = old.txs
      /\ new.block = old.block /\ new.stale = old.stale /\ new.answer = old.answer
      /\ old.txs \subseteq Txs
  BY <1>3, <1>4 DEF CallRecords
<1>6. /\ sendCall' \in [Callers -> CallRecords] /\ Others(c)
      /\ SameRequest(c) /\ SameBlock(c) /\ sendCall'[c].at = "posting"
      /\ sendCall'[c].answer = sendCall[c].answer
  BY <1>1, <1>2, <1>3, <1>4, <1>5 DEF Others, SameRequest, SameBlock
<1>7. Counts({}) /\ SendingRest'
  BY <1>1, <1>2, <1>3, <1>5, CountsNone DEF SendingRest
<1>8. CallIsSound(c)'
  BY <1>1, <1>2, <1>6 DEF CallIsSound, ConfirmedFor, Outside, SameRequest, SameBlock
<1>9. Balanced(c, {})
  BY <1>2, <1>6 DEF Balanced, One, FellBack, Outside, Sends!Uncounted, Sends!At, SameRequest
<1>10. PublicWasGiven'
  BY <1>2, <1>6, PublicQuiet DEF SendingInv, Outside
<1>11. QED
  BY <1>2, <1>6, <1>7, <1>8, <1>9, <1>10, SendingParts

LEMMA RelayAnswersStep ==
  ASSUME SendingInv, NEW c \in Callers, Sends!RelayAnswers(c)
  PROVE  SendingInv'
<1>1. SendingRest /\ sendCall \in [Callers -> CallRecords] /\ CallIsSound(c)
  BY SendingTyped DEF SendingInv
<1>2. /\ Sends!Answers(c, "ok") /\ Sends!Count({"success"}) /\ sendCall[c].at = "posting"
      /\ UNCHANGED <<config, calls, panicked, relay, mempool, direct, head, minedAt>>
  BY DEF Sends!RelayAnswers, Sends!At, Sends!chainVars
<1>3. /\ sendCall' \in [Callers -> CallRecords] /\ Others(c)
      /\ SameRequest(c) /\ SameBlock(c) /\ sendCall'[c].at = "idle"
  BY <1>1, <1>2, AnswersWith
<1>4. Counts({"success"}) /\ SendingRest'
  BY <1>1, <1>2, CountsThese DEF SendingRest
<1>5. sendCall[c].via \in {"submit", "bundle"} /\ sendCall[c].block = 0
  BY <1>1, <1>2 DEF CallIsSound
<1>6. CallIsSound(c)'
  BY <1>1, <1>3, <1>5 DEF CallIsSound, ConfirmedFor, Outside, SameRequest, SameBlock
<1>7. Balanced(c, {"success"})
  BY <1>2, <1>3, <1>5
     DEF Balanced, One, FellBack, Outside, Sends!Uncounted, Sends!At, SameRequest
<1>8. PublicWasGiven'
  BY <1>2, <1>3, PublicQuiet DEF SendingInv, Outside
<1>9. QED
  BY <1>2, <1>3, <1>4, <1>6, <1>7, <1>8, SendingParts

LEMMA RelayFailsStep ==
  ASSUME SendingInv, NEW c \in Callers, Sends!RelayFails(c)
  PROVE  SendingInv'
<1>1. SendingRest /\ sendCall \in [Callers -> CallRecords] /\ CallIsSound(c)
  BY SendingTyped DEF SendingInv
<1>2. /\ sendCall[c].at = "posting"
      /\ UNCHANGED <<config, relay, mempool, direct, head, minedAt>>
  BY DEF Sends!RelayFails, Sends!At, Sends!chainVars
<1>3. sendCall[c].via \in {"submit", "bundle"} /\ sendCall[c].block = 0
  BY <1>1, <1>2 DEF CallIsSound
<1>4. PICK counters : /\ counters = IF Sends!CountedAtOnce(c) THEN {"failed"} ELSE {}
                      /\ Sends!Count(counters)
  BY DEF Sends!RelayFails
<1>5. calls' \in Nat /\ panicked' \in BOOLEAN
  <2>1. calls \in Nat /\ panicked \in BOOLEAN
    BY <1>1 DEF SendingRest
  <2>2. \/ calls' = calls + 1 /\ panicked' = (config.broadcaster = "disabled")
        \/ calls' = calls /\ panicked' = panicked
    BY DEF Sends!RelayFails
  <2>3. calls' \in Nat
    BY <2>1, <2>2
  <2>4. panicked' \in BOOLEAN
    BY <2>1, <2>2
  <2>5. QED
    BY <2>3, <2>4
<1>6. Counts(counters) /\ SendingRest'
  BY <1>1, <1>2, <1>4, <1>5, CountsThese DEF SendingRest
<1>7. CASE Sends!FallsBack(c)
  <2>1. Sends!Moves(c, "sending")
    BY <1>7 DEF Sends!RelayFails
  <2>2. /\ sendCall' \in [Callers -> CallRecords] /\ Others(c)
        /\ SameRequest(c) /\ SameBlock(c) /\ sendCall'[c].at = "sending"
    BY <1>1, <2>1, MovesTo DEF Places, Outside
  <2>3. sendCall[c].via = "submit"
    BY <1>7 DEF Sends!FallsBack
  <2>4. Sends!FallsBack(c)'
    BY <1>2, <1>7, <2>2 DEF Sends!FallsBack, Sends!StrictMode, SameRequest
  <2>5. CallIsSound(c)'
    BY <1>1, <1>3, <2>2, <2>4 DEF CallIsSound, ConfirmedFor, Outside, SameRequest, SameBlock
  <2>6. counters = IF config.kind = "strict" THEN {"failed"} ELSE {}
    BY <1>4, <1>7 DEF Sends!CountedAtOnce
  <2>7. Balanced(c, counters)
    BY <1>2, <2>2, <2>3, <2>6
       DEF Balanced, One, FellBack, Outside, Sends!Uncounted, Sends!At, SameRequest
  <2>8. PublicWasGiven'
    <3>1. ~(config.live /\ config.kind \in {"strict", "jito"})
      BY <1>7 DEF Sends!FallsBack, Sends!StrictMode
    <3>2. QED
      BY <1>2, <3>1 DEF PublicWasGiven
  <2>9. QED
    BY <1>2, <1>6, <2>2, <2>5, <2>7, <2>8, SendingParts
<1>8. CASE ~Sends!FallsBack(c)
  <2>1. Sends!Answers(c, "error")
    BY <1>8 DEF Sends!RelayFails
  <2>2. /\ sendCall' \in [Callers -> CallRecords] /\ Others(c)
        /\ SameRequest(c) /\ SameBlock(c) /\ sendCall'[c].at = "idle"
        /\ sendCall'[c].answer = "error"
    BY <1>1, <2>1, AnswersWith
  <2>3. CallIsSound(c)'
    BY <1>1, <2>2 DEF CallIsSound, ConfirmedFor, Outside, SameRequest
  <2>4. counters = {"failed"}
    BY <1>4, <1>8 DEF Sends!CountedAtOnce
  <2>5. Balanced(c, counters)
    BY <1>2, <1>3, <2>2, <2>4
       DEF Balanced, One, FellBack, Outside, Sends!Uncounted, Sends!At, SameRequest
  <2>6. PublicWasGiven'
    BY <1>2, <2>2, PublicQuiet DEF SendingInv, Outside
  <2>7. QED
    BY <1>2, <1>6, <2>2, <2>3, <2>5, <2>6, SendingParts
<1>9. QED
  BY <1>7, <1>8

(* The broadcaster returns: when it waits for confirmations and succeeds, it
   has just seen a head that is deep enough. *)
LEMMA ReturnStep ==
  ASSUME SendingInv, NEW c \in Callers, sendCall[c].at \in Outside,
         NEW answer \in {"ok", "error"}, Sends!Returns(c, answer),
         answer = "ok" => \/ config.confirmations = 0
                          \/ Sends!Chain # "base"
                          \/ sendCall[c].at = "receipt" /\ Sends!DeepEnough(c)
  PROVE  SendingInv'
<1>1. SendingRest /\ sendCall \in [Callers -> CallRecords] /\ CallIsSound(c)
  BY SendingTyped DEF SendingInv
<1>2. /\ Sends!Answers(c, answer)
      /\ UNCHANGED <<config, calls, panicked, relay, mempool, direct, head, minedAt>>
  BY DEF Sends!Returns, Sends!chainVars
<1>3. /\ sendCall' \in [Callers -> CallRecords] /\ Others(c)
      /\ SameRequest(c) /\ SameBlock(c) /\ sendCall'[c].at = "idle"
      /\ sendCall'[c].answer = answer
  BY <1>1, <1>2, AnswersWith
<1>4. PICK counters : /\ counters = IF sendCall[c].via = "send" THEN {}
                                    ELSE IF answer = "ok" THEN {"fallback"}
                                    ELSE IF Sends!CountedAtOnce(c) THEN {} ELSE {"failed"}
                      /\ Sends!Count(counters)
  BY DEF Sends!Returns
<1>5. Counts(counters) /\ SendingRest'
  BY <1>1, <1>2, <1>4, CountsThese DEF SendingRest
<1>6. sendCall[c].via = "send" \/ (sendCall[c].via = "submit" /\ Sends!FallsBack(c))
  BY <1>1 DEF CallIsSound, Sends!FallsBack
<1>7. ConfirmedFor(c)' => MinedAtBlock(c)' /\ head' >= sendCall'[c].block + config'.confirmations
  <2> SUFFICES ASSUME ConfirmedFor(c)'
               PROVE  MinedAtBlock(c)' /\ head' >= sendCall'[c].block + config'.confirmations
    OBVIOUS
  <2>1. /\ answer = "ok" /\ ~sendCall[c].stale /\ Sends!Chain = "base"
        /\ config.confirmations > 0
    BY <1>2, <1>3 DEF ConfirmedFor, SameBlock, Sends!Chain
  <2>2. sendCall[c].at = "receipt" /\ head >= sendCall[c].block + config.confirmations
    BY <2>1 DEF Sends!DeepEnough
  <2>3. MinedAtBlock(c)
    BY <1>1, <2>1, <2>2 DEF CallIsSound
  <2>4. QED
    BY <1>2, <1>3, <2>2, <2>3 DEF MinedAtBlock, SameRequest, SameBlock
<1>8. CallIsSound(c)'
  BY <1>1, <1>3, <1>7 DEF CallIsSound, Outside, SameRequest
<1>9. Balanced(c, counters)
  <2>1. CASE sendCall[c].via = "send"
    BY <1>2, <1>3, <1>4, <2>1
       DEF Balanced, One, FellBack, Outside, Sends!Uncounted, Sends!At, SameRequest
  <2>2. CASE sendCall[c].via = "submit" /\ Sends!FallsBack(c)
    <3>1. counters = IF answer = "ok" THEN {"fallback"}
                     ELSE IF config.kind = "strict" THEN {} ELSE {"failed"}
      BY <1>4, <2>2 DEF Sends!CountedAtOnce
    <3>2. CASE config.kind = "strict"
      BY <1>2, <1>3, <2>2, <3>1, <3>2
         DEF Balanced, One, FellBack, Outside, Sends!Uncounted, Sends!At, SameRequest
    <3>3. CASE config.kind # "strict"
      BY <1>2, <1>3, <2>2, <3>1, <3>3
         DEF Balanced, One, FellBack, Outside, Sends!Uncounted, Sends!At, SameRequest
    <3>4. QED
      BY <3>2, <3>3
  <2>3. QED
    BY <1>6, <2>1, <2>2
<1>10. PublicWasGiven'
  BY <1>2, <1>3, PublicQuiet DEF SendingInv, Outside
<1>11. QED
  BY <1>2, <1>3, <1>5, <1>8, <1>9, <1>10, SendingParts

(* A step between two places of the broadcaster that counts nothing. *)
LEMMA OutsideStep ==
  ASSUME SendingInv, NEW c \in Callers,
         sendCall' \in [Callers -> CallRecords], Others(c), SameRequest(c),
         sendCall[c].at \in Outside, sendCall'[c].at \in Outside,
         sendCall'[c].at \in {"sending", "sent"} => sendCall'[c].block = 0,
         sendCall'[c].at = "receipt" /\ ~sendCall'[c].stale => MinedAtBlock(c)',
         UNCHANGED <<config, stats, calls, panicked, relay, direct, head, minedAt>>,
         mempool' \in {mempool, mempool \cup sendCall[c].txs}
  PROVE  SendingInv'
<1>1. SendingRest /\ sendCall \in [Callers -> CallRecords] /\ CallIsSound(c)
  BY SendingTyped DEF SendingInv
<1>2. sendCall[c].txs \subseteq Txs
  BY <1>1 DEF CallRecords
<1>3. Counts({}) /\ SendingRest'
  BY <1>1, <1>2, CountsNone DEF SendingRest
<1>4. sendCall[c].at # "idle" /\ sendCall'[c].at # "idle"
      /\ sendCall[c].at # "posting" /\ sendCall'[c].at # "posting"
  BY DEF Outside
<1>5. Sends!FallsBack(c)' = Sends!FallsBack(c)
  BY DEF Sends!FallsBack, Sends!StrictMode, SameRequest
<1>6. CallIsSound(c)'
  BY <1>1, <1>4, <1>5 DEF CallIsSound, ConfirmedFor, SameRequest
<1>7. Balanced(c, {})
  BY <1>4 DEF Balanced, One, FellBack, Sends!Uncounted, Sends!At, SameRequest
<1>8. PublicWasGiven'
  BY DEF SendingInv, PublicWasGiven, Others, SameRequest
<1>9. QED
  BY <1>3, <1>6, <1>7, <1>8, SendingParts

LEMMA NodeTakesStep ==
  ASSUME SendingInv, NEW c \in Callers, Sends!NodeTakes(c)
  PROVE  SendingInv'
<1>1. sendCall \in [Callers -> CallRecords] /\ CallIsSound(c)
  BY SendingTyped DEF SendingInv
<1>2. /\ sendCall' = [sendCall EXCEPT ![c] = [[sendCall[c] EXCEPT !.at = "sent"] EXCEPT !.took = TRUE]]
      /\ sendCall[c].at = "sending" /\ mempool' = mempool \cup sendCall[c].txs
      /\ UNCHANGED <<config, stats, calls, panicked, relay, direct, head, minedAt>>
  BY DEF Sends!NodeTakes, Sends!At
<1>3. PICK old : old = sendCall[c] /\ old \in CallRecords
  BY <1>1
<1>4. PICK new : new = [[old EXCEPT !.at = "sent"] EXCEPT !.took = TRUE]
  OBVIOUS
<1>5. /\ new \in CallRecords /\ new.at = "sent" /\ new.via = old.via /\ new.txs = old.txs
      /\ new.block = old.block
  BY <1>3, <1>4 DEF CallRecords, Places, Outside
<1>6. /\ sendCall' \in [Callers -> CallRecords] /\ Others(c)
      /\ SameRequest(c) /\ sendCall'[c].at = "sent" /\ sendCall'[c].block = sendCall[c].block
  BY <1>1, <1>2, <1>3, <1>4, <1>5 DEF Others, SameRequest
<1>7. sendCall[c].block = 0
  BY <1>1, <1>2 DEF CallIsSound
<1>8. QED
  BY <1>2, <1>6, <1>7, OutsideStep DEF Outside

LEMMA ReceiptStep ==
  ASSUME SendingInv, NEW c \in Callers, Sends!ReceiptFound(c)
  PROVE  SendingInv'
<1>1. SendingRest /\ sendCall \in [Callers -> CallRecords] /\ CallIsSound(c)
  BY SendingTyped DEF SendingInv
<1>2. PICK t \in sendCall[c].txs :
        /\ minedAt[t] > 0
        /\ sendCall' = [sendCall EXCEPT ![c] = [[[sendCall[c] EXCEPT !.at = "receipt"]
                                                   EXCEPT !.block = minedAt[t]]
                                                  EXCEPT !.stale = FALSE]]
  BY DEF Sends!ReceiptFound
<1>3. /\ sendCall[c].at = "confirming"
      /\ UNCHANGED <<config, stats, calls, panicked, relay, mempool, direct, head, minedAt>>
  BY DEF Sends!ReceiptFound, Sends!At, Sends!chainVars
<1>4. PICK old : old = sendCall[c] /\ old \in CallRecords
  BY <1>1
<1>5. PICK new : new = [[[old EXCEPT !.at = "receipt"] EXCEPT !.block = minedAt[t]]
                          EXCEPT !.stale = FALSE]
  OBVIOUS
<1>6. minedAt[t] \in 0..MaxHeight
  BY <1>1, <1>2, <1>4 DEF SendingRest, CallRecords
<1>7. /\ new \in CallRecords /\ new.at = "receipt" /\ new.via = old.via /\ new.txs = old.txs
      /\ new.block = minedAt[t]
  BY <1>4, <1>5, <1>6 DEF CallRecords, Places, Outside
<1>8. /\ sendCall' \in [Callers -> CallRecords] /\ Others(c)
      /\ SameRequest(c) /\ sendCall'[c].at = "receipt" /\ sendCall'[c].block = minedAt[t]
      /\ sendCall'[c].txs = sendCall[c].txs
  BY <1>1, <1>2, <1>4, <1>5, <1>7 DEF Others, SameRequest
<1>9. \A s \in sendCall[c].txs : s = t
  <2>1. sendCall[c].via \in {"submit", "send"}
    BY <1>1, <1>3 DEF CallIsSound, Sends!FallsBack, Outside
  <2>2. QED
    BY <1>1, <1>2, <2>1 DEF CallIsSound
<1>10. MinedAtBlock(c)'
  BY <1>2, <1>3, <1>8, <1>9 DEF MinedAtBlock
<1>11. QED
  BY <1>3, <1>8, <1>10, OutsideStep DEF Outside

LEMMA ToConfirming ==
  ASSUME SendingInv, NEW c \in Callers, sendCall[c].at \in Outside,
         Sends!Moves(c, "confirming"),
         UNCHANGED <<config, stats, calls, panicked, relay, mempool, direct, head, minedAt>>
  PROVE  SendingInv'
<1>1. sendCall \in [Callers -> CallRecords]
  BY SendingTyped DEF SendingInv
<1>2. /\ sendCall' \in [Callers -> CallRecords] /\ Others(c)
      /\ SameRequest(c) /\ sendCall'[c].at = "confirming"
  BY <1>1, MovesTo DEF Places, Outside
<1>3. QED
  BY <1>2, OutsideStep DEF Outside

LEMMA BroadcasterStep ==
  ASSUME SendingInv, NEW c \in Callers, Sends!SendStep(c) \/ Sends!ConfirmStep(c)
  PROVE  SendingInv'
<1>1. CASE Sends!NodeTakes(c)
  BY <1>1, NodeTakesStep
<1>2. CASE Sends!SendFails(c)
  BY <1>2, ReturnStep DEF Sends!SendFails, Sends!At, Outside
<1>3. CASE Sends!AlreadyProcessed(c)
  BY <1>3, ReturnStep DEF Sends!AlreadyProcessed, Sends!At, Outside
<1>4. CASE Sends!SendSucceeds(c)
  <2>1. sendCall[c].at = "sent"
    BY <1>4 DEF Sends!SendSucceeds, Sends!At
  <2>2. CASE config.confirmations = 0
    BY <1>4, <2>1, <2>2, ReturnStep DEF Sends!SendSucceeds, Outside
  <2>3. CASE config.confirmations # 0
    BY <1>4, <2>1, <2>3, ToConfirming DEF Sends!SendSucceeds, Sends!chainVars, Outside
  <2>4. QED
    BY <2>2, <2>3
<1>5. CASE Sends!ReceiptFound(c)
  BY <1>5, ReceiptStep
<1>6. CASE Sends!HeightRead(c)
  <2>1. sendCall[c].at = "receipt"
    BY <1>6 DEF Sends!HeightRead, Sends!At
  <2>2. CASE Sends!DeepEnough(c)
    BY <1>6, <2>1, <2>2, ReturnStep DEF Sends!HeightRead, Outside
  <2>3. CASE ~Sends!DeepEnough(c)
    BY <1>6, <2>1, <2>3, ToConfirming DEF Sends!HeightRead, Sends!chainVars, Outside
  <2>4. QED
    BY <2>2, <2>3
<1>7. CASE Sends!HeightFails(c)
  BY <1>7, ToConfirming DEF Sends!HeightFails, Sends!At, Sends!chainVars, Outside
<1>8. CASE Sends!StatusConfirmed(c)
  BY <1>8, ReturnStep DEF Sends!StatusConfirmed, Sends!At, Outside
<1>9. CASE Sends!GivesUp(c)
  BY <1>9, ReturnStep DEF Sends!GivesUp, Sends!At, Outside
<1>10. QED
  BY <1>1, <1>2, <1>3, <1>4, <1>5, <1>6, <1>7, <1>8, <1>9 DEF Sends!SendStep, Sends!ConfirmStep

(* The chain goes on, or back by fewer blocks than are waited for. *)
LEMMA ChainParts ==
  ASSUME SendingInv, SendingRest', sendCall' \in [Callers -> CallRecords],
         \A c \in Callers : /\ SameRequest(c) /\ sendCall'[c].at = sendCall[c].at
                            /\ CallIsSound(c)',
         UNCHANGED <<config, stats, mempool, direct>>
  PROVE  SendingInv'
<1>1. Sends!TypeOK'
  BY SendingTyped
<1>2. \A c \in Callers : Sends!Uncounted(c)' = Sends!Uncounted(c) /\ FellBack(c)' = FellBack(c)
  BY DEF Sends!Uncounted, Sends!At, FellBack, SameRequest
<1>3. /\ {c \in Callers : Sends!Uncounted(c)'} = {c \in Callers : Sends!Uncounted(c)}
      /\ {c \in Callers : FellBack(c)'} = {c \in Callers : FellBack(c)}
  BY <1>2
<1>4. Sends!CountersAgree' /\ FallbacksFailedFirst'
  BY <1>3 DEF SendingInv, Sends!CountersAgree, FallbacksFailedFirst
<1>5. PublicWasGiven'
  BY DEF SendingInv, PublicWasGiven, SameRequest
<1>6. QED
  BY <1>1, <1>4, <1>5 DEF SendingInv

LEMMA BlockStep == SendingInv /\ Sends!NewBlock => SendingInv'
<1> SUFFICES ASSUME SendingInv, Sends!NewBlock PROVE SendingInv'
  OBVIOUS
<1>1. SendingRest /\ sendCall \in [Callers -> CallRecords]
  BY SendingTyped DEF SendingInv
<1>2. /\ head < MaxHeight /\ head' = head + 1
      /\ UNCHANGED <<config, sendCall, stats, calls, panicked, relay, mempool, direct>>
      /\ \/ UNCHANGED minedAt
         \/ \E t \in relay \cup mempool :
              minedAt[t] = 0 /\ minedAt' = [minedAt EXCEPT ![t] = head + 1]
  BY DEF Sends!NewBlock
<1>3. head \in Nat /\ head + 1 \in 0..MaxHeight
  BY <1>1, <1>2, SendingAssumption DEF SendingRest
<1>4. /\ minedAt' \in [Txs -> 0..MaxHeight]
      /\ \A t \in Txs : minedAt[t] # 0 => minedAt'[t] = minedAt[t]
  BY <1>1, <1>2, <1>3 DEF SendingRest
<1>5. SendingRest'
  BY <1>1, <1>2, <1>3, <1>4 DEF SendingRest
<1>6. ASSUME NEW c \in Callers
      PROVE  CallIsSound(c)'
  <2>1. CallIsSound(c) /\ sendCall[c].txs \subseteq Txs /\ sendCall[c].block \in Int
    BY <1>1, SendingAssumption DEF SendingInv, CallRecords
  <2>2. MinedAtBlock(c) => MinedAtBlock(c)'
    BY <1>2, <1>4, <2>1 DEF MinedAtBlock
  <2>3. ConfirmedFor(c)' = ConfirmedFor(c) /\ Sends!FallsBack(c)' = Sends!FallsBack(c)
    BY <1>2 DEF ConfirmedFor, Sends!Chain, Sends!FallsBack, Sends!StrictMode
  <2>4. ConfirmedFor(c)
          => MinedAtBlock(c)' /\ head' >= sendCall[c].block + config.confirmations
    <3>1. config.confirmations \in Int
      BY <1>1, SendingAssumption DEF SendingRest, Sends!Configs
    <3>2. QED
      BY <1>2, <1>3, <2>1, <2>2, <3>1 DEF CallIsSound
  <2>5. QED
    BY <1>2, <2>1, <2>2, <2>3, <2>4 DEF CallIsSound
<1>7. QED
  BY <1>1, <1>2, <1>5, <1>6, ChainParts DEF SameRequest

LEMMA ReorganiseStep ==
  ASSUME SendingInv, NEW t \in Txs, Sends!Reorganise(t)
  PROVE  SendingInv'
<1>1. SendingRest /\ sendCall \in [Callers -> CallRecords]
  BY SendingTyped DEF SendingInv
<1>2. /\ minedAt[t] > 0 /\ head < minedAt[t] + Confirmations
      /\ minedAt' = [minedAt EXCEPT ![t] = 0]
      /\ sendCall' = [c \in Callers |->
                        IF sendCall[c].at = "receipt" /\ t \in sendCall[c].txs
                        THEN [sendCall[c] EXCEPT !.stale = TRUE] ELSE sendCall[c]]
      /\ UNCHANGED <<config, stats, calls, panicked, relay, mempool, direct, head>>
  BY DEF Sends!Reorganise, Sends!At
<1>3. /\ minedAt' \in [Txs -> 0..MaxHeight]
      /\ \A s \in Txs \ {t} : minedAt'[s] = minedAt[s]
  <2>1. 0 \in 0..MaxHeight
    BY SendingAssumption
  <2>2. QED
    BY <1>1, <1>2, <2>1 DEF SendingRest
<1>4. SendingRest'
  BY <1>1, <1>2, <1>3 DEF SendingRest
<1>5. ASSUME NEW c \in Callers
      PROVE  /\ sendCall'[c] \in CallRecords
             /\ SameRequest(c) /\ sendCall'[c].at = sendCall[c].at
             /\ sendCall'[c].block = sendCall[c].block /\ sendCall'[c].answer = sendCall[c].answer
             /\ sendCall[c].at # "receipt" => sendCall'[c] = sendCall[c]
             /\ sendCall[c].at = "receipt" /\ ~sendCall'[c].stale =>
                  t \notin sendCall[c].txs /\ ~sendCall[c].stale
  <2>1. PICK old : old = sendCall[c] /\ old \in CallRecords
    BY <1>1
  <2>2. PICK new : new = [old EXCEPT !.stale = TRUE]
    OBVIOUS
  <2>3. /\ new \in CallRecords /\ new.at = old.at /\ new.via = old.via /\ new.txs = old.txs
        /\ new.block = old.block /\ new.answer = old.answer /\ new.stale = TRUE
    BY <2>1, <2>2 DEF CallRecords
  <2>4. sendCall'[c] = IF old.at = "receipt" /\ t \in old.txs THEN new ELSE old
    BY <1>2, <2>1, <2>2
  <2>5. QED
    BY <2>1, <2>3, <2>4 DEF SameRequest
<1>6. ASSUME NEW c \in Callers
      PROVE  CallIsSound(c)'
  <2>1. CallIsSound(c) /\ sendCall[c].txs \subseteq Txs
    BY <1>1 DEF SendingInv, CallRecords
  <2>2. Sends!FallsBack(c)' = Sends!FallsBack(c)
    BY <1>2, <1>5 DEF Sends!FallsBack, Sends!StrictMode, SameRequest
  <2>3. MinedAtBlock(c) /\ t \notin sendCall[c].txs => MinedAtBlock(c)'
    BY <1>3, <1>5, <2>1 DEF MinedAtBlock, SameRequest
  <2>4. sendCall'[c].at = "receipt" /\ ~sendCall'[c].stale => MinedAtBlock(c)'
    BY <1>5, <2>1, <2>3 DEF CallIsSound
  <2>5. ConfirmedFor(c)'
          => MinedAtBlock(c)' /\ head' >= sendCall'[c].block + config'.confirmations
    <3> SUFFICES ASSUME ConfirmedFor(c)'
                 PROVE  MinedAtBlock(c)' /\ head' >= sendCall'[c].block + config'.confirmations
      OBVIOUS
    <3>1. sendCall'[c] = sendCall[c]
      BY <1>5 DEF ConfirmedFor
    <3>2. ConfirmedFor(c)
      BY <1>2, <3>1 DEF ConfirmedFor, Sends!Chain
    <3>3. MinedAtBlock(c) /\ head >= sendCall[c].block + config.confirmations
      BY <2>1, <3>2 DEF CallIsSound
    <3>4. config.confirmations = Confirmations
      BY <1>1, <3>2 DEF ConfirmedFor, SendingRest, Sends!Configs
    <3>5. t \notin sendCall[c].txs
      <4>1. ASSUME t \in sendCall[c].txs
            PROVE  FALSE
        <5>1. minedAt[t] = sendCall[c].block
          BY <3>3, <4>1 DEF MinedAtBlock
        <5>2. head \in Int /\ minedAt[t] \in Int /\ Confirmations \in Int
          BY <1>1, SendingAssumption DEF SendingRest
        <5>3. QED
          BY <1>2, <3>3, <3>4, <5>1, <5>2
      <4>2. QED
        BY <4>1
    <3>6. QED
      BY <1>2, <2>3, <3>1, <3>3, <3>5
  <2>6. QED
    BY <1>5, <2>1, <2>2, <2>4, <2>5 DEF CallIsSound, SameRequest
<1>7. sendCall' \in [Callers -> CallRecords]
  BY <1>2, <1>5
<1>8. QED
  BY <1>2, <1>4, <1>5, <1>6, <1>7, ChainParts

LEMMA SendingInvInit == Sends!Init => SendingInv
<1> SUFFICES ASSUME Sends!Init PROVE SendingInv
  OBVIOUS
<1>1. MaxHeight \in Nat
  BY SendingAssumption
<1>2. Sends!Idle \in CallRecords
  BY <1>1 DEF Sends!Idle, CallRecords, Places
<1>3. SendingRest
  <2>1. /\ head \in 0..MaxHeight /\ minedAt \in [Txs -> 0..MaxHeight]
        /\ stats \in [Sends!Counters -> Nat] /\ calls \in Nat
    BY <1>1 DEF Sends!Init
  <2>2. /\ config \in Sends!Configs /\ panicked \in BOOLEAN
        /\ relay \subseteq Txs /\ mempool \subseteq Txs /\ direct \subseteq Txs
    BY DEF Sends!Init
  <2>3. QED
    BY <2>1, <2>2 DEF SendingRest
<1>4. Sends!TypeOK
  BY <1>2, <1>3, SendingTyped DEF Sends!Init
<1>5. \A c \in Callers : /\ sendCall[c].at = "idle" /\ sendCall[c].via = "none"
                         /\ sendCall[c].answer = "none"
  BY DEF Sends!Init, Sends!Idle
<1>6. \A c \in Callers : CallIsSound(c) /\ ~Sends!Uncounted(c) /\ ~FellBack(c)
  BY <1>5 DEF CallIsSound, ConfirmedFor, Outside, Sends!Uncounted, FellBack
<1>7. PublicWasGiven
  BY <1>5 DEF Sends!Init, PublicWasGiven, Outside
<1>8. Sends!CountersAgree /\ FallbacksFailedFirst
  <2>1. {c \in Callers : Sends!Uncounted(c)} = {} /\ {c \in Callers : FellBack(c)} = {}
    BY <1>6
  <2>2. Cardinality({}) = 0 /\ Sends!Cardinality({}) = 0
    BY FS_EmptySet, SameCardinality
  <2>3. \A n \in Sends!Counters : stats[n] = 0
    BY DEF Sends!Init
  <2>4. QED
    BY <2>1, <2>2, <2>3 DEF Sends!CountersAgree, FallbacksFailedFirst, Sends!Counters
<1>9. QED
  BY <1>4, <1>6, <1>7, <1>8 DEF SendingInv

LEMMA SendingInvStep == SendingInv /\ [Sends!Next]_sendingVars => SendingInv'
<1> SUFFICES ASSUME SendingInv, [Sends!Next]_sendingVars PROVE SendingInv'
  OBVIOUS
<1>1. ASSUME NEW c \in Callers, Sends!RelayStep(c)
      PROVE  SendingInv'
  BY <1>1, RelayTakesStep, RelayAnswersStep, RelayFailsStep DEF Sends!RelayStep
<1>2. CASE UNCHANGED sendingVars
  <2>1. SendingRest' /\ sendCall' \in [Callers -> CallRecords]
    BY <1>2, SendingTyped DEF SendingInv, SendingRest, sendingVars
  <2>2. \A c \in Callers : CallIsSound(c)'
    BY <1>2 DEF SendingInv, sendingVars, CallIsSound, ConfirmedFor, MinedAtBlock,
                Sends!FallsBack, Sends!StrictMode, Sends!Chain
  <2>3. QED
    BY <1>2, <2>1, <2>2, ChainParts DEF SameRequest, sendingVars
<1>3. QED
  BY <1>1, <1>2, SubmitStep, SendStarts, BundleStep, BroadcasterStep, BlockStep, ReorganiseStep
     DEF Sends!Next

(* Who gets to see a transaction, what is counted of it and what was confirmed,
   for any number of callers and any number of confirmations. *)
THEOREM SendingAccounted == Spec => []SendingIsAccountedFor
<1>1. Init => SendingInv
  BY InitOfParts, SendingInvInit
<1>2. SendingInv /\ [Next]_vars => SendingInv'
  BY StepOfParts, SendingInvStep
<1>3. SendingInv => SendingIsAccountedFor
  <2> SUFFICES ASSUME SendingInv PROVE SendingIsAccountedFor
    OBVIOUS
  <2>1. Sends!LiveStaysPrivate
    BY DEF SendingInv, PublicWasGiven, Sends!LiveStaysPrivate
  <2>2. Sends!ConfirmedStays
    BY DEF SendingInv, CallIsSound, ConfirmedFor, MinedAtBlock, Sends!ConfirmedStays, Sends!At
  <2>3. QED
    BY <2>1, <2>2 DEF SendingInv, SendingIsAccountedFor
<1>4. QED
  BY <1>1, <1>2, <1>3, PTL DEF Spec

-----------------------------------------------------------------------------
(* The types of all parts. *)
THEOREM TypeCorrect == Spec => []TypeOK
<1>1. Init => TypeOK
  BY InitOfParts, OrdersTypeInit, ApprovalsInvInit, RecordsTypeInit, LimitsInvInit, LedgerInit,
     SendingInvInit
     DEF TypeOK, ApprovalsInv, LimitsInv, LedgerInv, SendingInv
<1>2. Init => LedgerInv /\ SendingInv
  BY InitOfParts, LedgerInit, SendingInvInit
<1>3. TypeOK /\ LedgerInv /\ SendingInv /\ [Next]_vars => (TypeOK /\ LedgerInv /\ SendingInv)'
  BY StepOfParts, OrdersTypeStep, ApprovalsTypeStep, RecordsTypeStep, LimitsTypeStep, LedgerStep,
     SendingInvStep
     DEF TypeOK, LedgerInv, SendingInv
<1>4. QED
  BY <1>1, <1>2, <1>3, PTL DEF Spec
=============================================================================
