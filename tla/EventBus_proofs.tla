--------------------------- MODULE EventBus_proofs ---------------------------
(***************************************************************************)
(* Proofs about EventBus, for any publishers, subscriptions, topics and    *)
(* buffer sizes.  A handler gets the events of one publisher in order      *)
(* because at any moment what a subscription has been given comes before   *)
(* what is buffered for it, and both before the event of a Publish that    *)
(* has yet to reach it; that is the invariant the refinement rests on.     *)
(***************************************************************************)
EXTENDS EventBus, SumTheorems, SequenceTheorems

(* A Publish under way sends to open subscriptions only. *)
SendsToOpen ==
  /\ \A p \in Publishers : pub[p].at # "send" => pub[p].todo = {}
  /\ \A p \in Publishers : pub[p].todo \subseteq subs
  /\ \A s \in subs : isOpen[s]

(* The Publish of p may still send to s. *)
Coming(p, s) == pub[p].at = "lock" \/ s \in pub[p].todo

(* A Publish under way has the number of the last call of its publisher, and
   no number is higher than that. *)
Numbered ==
  /\ \A p \in Publishers : pub[p].at # "idle" =>
       pub[p].event.by = p /\ pub[p].event.n = calls[p]
  /\ \A s \in Subscribers :
       /\ \A i \in 1..Len(chan[s]) : chan[s][i].n <= calls[chan[s][i].by]
       /\ \A i \in 1..Len(handled[s]) : handled[s][i].n <= calls[handled[s][i].by]

(* An event that is still to come is newer than those of its publisher that
   the subscription has accepted. *)
ComingIsNewer ==
  \A p \in Publishers, s \in Subscribers : Coming(p, s) =>
    /\ \A i \in 1..Len(chan[s]) : chan[s][i].by = p => chan[s][i].n < calls[p]
    /\ \A i \in 1..Len(handled[s]) : handled[s][i].by = p => handled[s][i].n < calls[p]

(* What is buffered is in order, and newer than what was handled. *)
BufferIsNewer ==
  \A s \in Subscribers : \A j \in 1..Len(chan[s]) :
    /\ \A i \in 1..(j - 1) : chan[s][i].by = chan[s][j].by => chan[s][i].n < chan[s][j].n
    /\ \A i \in 1..Len(handled[s]) :
         handled[s][i].by = chan[s][j].by => handled[s][i].n < chan[s][j].n

Ordered == Numbered /\ ComingIsNewer /\ BufferIsNewer

IInv == TypeOK /\ SendsToOpen /\ DeliveredIsAccountedFor /\ Ordered

-----------------------------------------------------------------------------
(* The types. *)

(* While the calls of all publishers are below the bound, so are those of one. *)
LEMMA CallsBounded ==
  ASSUME NEW p \in Publishers, calls \in [Publishers -> Nat],
         SumFunctionOnSet(calls, Publishers) < MaxPublishes
  PROVE  calls[p] < MaxPublishes
<1>1. SumFunctionOnSet(calls, Publishers)
        = calls[p] + SumFunctionOnSet(calls, Publishers \ {p})
  BY FiniteAssumption, SumRemove
<1>2. SumFunctionOnSet(calls, Publishers \ {p}) \in Nat
  BY FiniteAssumption, FS_RemoveElement, SumNat
<1>3. MaxPublishes \in Nat
  BY BufferAssumption
<1>4. QED
  BY <1>1, <1>2, <1>3

LEMMA CapacityIsNat == \A s \in Subscribers : Capacity(s) \in Nat
  BY BufferAssumption DEF Capacity

LEMMA TypeInit == Init => TypeOK
<1> SUFFICES ASSUME Init PROVE TypeOK
  OBVIOUS
<1>1. \A s \in Subscribers : chan[s] = <<>> /\ Len(chan[s]) = 0 /\ handled[s] = <<>>
  BY DEF Init
<1>2. chan \in [Subscribers -> Seq(Events)] /\ handled \in [Subscribers -> Seq(Events)]
  BY DEF Init
<1>3. \A s \in Subscribers : Len(chan[s]) <= Capacity(s)
  BY <1>1, CapacityIsNat
<1>4. calls \in [Publishers -> 0..MaxPublishes]
  BY BufferAssumption DEF Init
<1>5. QED
  BY <1>2, <1>3, <1>4 DEF Init, TypeOK

LEMMA TypeStep == TypeOK /\ [Next]_vars => TypeOK'
<1> SUFFICES ASSUME TypeOK, [Next]_vars PROVE TypeOK'
  OBVIOUS
<1>1. ASSUME NEW p \in Publishers, NEW id \in Ids, NEW t \in Topics, Publish(p, id, t)
      PROVE  TypeOK'
  <2>1. calls[p] < MaxPublishes
    BY <1>1, CallsBounded DEF TypeOK, Publish
  <2>2. calls' \in [Publishers -> 0..MaxPublishes]
    BY <1>1, <2>1, BufferAssumption DEF TypeOK, Publish
  <2> DEFINE e == [by |-> p, n |-> calls[p] + 1, id |-> id, topic |-> t]
  <2>3. e \in Events
    BY <2>1, BufferAssumption DEF TypeOK, Events
  <2>4. pub' \in [Publishers -> {Idle} \cup [at : {"lock", "send"}, event : Events,
                                            todo : SUBSET Subscribers]]
    <3> HIDE DEF e
    <3>1. pub' = pub \/ pub' = [pub EXCEPT ![p] = [at |-> "lock", todo |-> {}, event |-> e]]
      BY <1>1 DEF Publish, e
    <3>2. QED
      BY <2>3, <3>1 DEF TypeOK
  <2>5. UNCHANGED <<subs, chan, isOpen, unsub, handling, handled, processed, delivered, dropped>>
    BY <1>1 DEF Publish
  <2>6. QED
    BY <2>2, <2>4, <2>5 DEF TypeOK, Capacity
<1>2. ASSUME NEW p \in Publishers, PublishLock(p)
      PROVE  TypeOK'
  <2>1. Matching(pub[p].event.topic) \subseteq Subscribers
    BY DEF Matching, TypeOK
  <2>2. pub[p].event \in Events
    BY <1>2 DEF PublishLock, TypeOK, Idle
  <2>3. pub' = [pub EXCEPT ![p] = [pub[p] EXCEPT !.at = "send",
                                               !.todo = Matching(pub[p].event.topic)]]
    BY <1>2 DEF PublishLock, TypeOK
  <2>4. pub'[p] \in [at : {"lock", "send"}, event : Events, todo : SUBSET Subscribers]
    <3>1. pub[p] \in [at : {"lock", "send"}, event : Events, todo : SUBSET Subscribers]
      BY <1>2 DEF PublishLock, TypeOK, Idle
    <3>2. pub'[p] = [pub[p] EXCEPT !.at = "send", !.todo = Matching(pub[p].event.topic)]
      BY <2>3 DEF TypeOK
    <3>3. QED
      BY <2>1, <3>1, <3>2
  <2>5. pub' \in [Publishers -> {Idle} \cup [at : {"lock", "send"}, event : Events,
                                            todo : SUBSET Subscribers]]
    <3> DEFINE k == pub'[p]
               Calls == [at : {"lock", "send"}, event : Events, todo : SUBSET Subscribers]
    <3>1. k \in Calls /\ pub \in [Publishers -> {Idle} \cup Calls]
      BY <2>4 DEF TypeOK
    <3>2. pub' = [pub EXCEPT ![p] = k]
      BY <2>3 DEF TypeOK
    <3> HIDE DEF k, Calls
    <3>3. pub' \in [Publishers -> {Idle} \cup Calls]
      BY <3>1, <3>2
    <3>4. QED
      BY <3>3 DEF Calls
  <2>6. UNCHANGED <<subs, chan, isOpen, unsub, calls, handling, handled, processed,
                    delivered, dropped>>
    BY <1>2 DEF PublishLock
  <2>7. QED
    BY <2>5, <2>6 DEF TypeOK, Capacity
<1>3. ASSUME NEW p \in Publishers, NEW s \in Subscribers, PublishSend(p, s)
      PROVE  TypeOK'
  <2>1. pub[p] \in [at : {"lock", "send"}, event : Events, todo : SUBSET Subscribers]
    BY <1>3 DEF PublishSend, TypeOK, Idle
  <2>2. pub' \in [Publishers -> {Idle} \cup [at : {"lock", "send"}, event : Events,
                                            todo : SUBSET Subscribers]]
    BY <1>3, <2>1 DEF PublishSend, TypeOK
  <2>3. /\ chan' \in [Subscribers -> Seq(Events)]
        /\ \A q \in Subscribers : Len(chan'[q]) <= Capacity(q)
        /\ delivered' \in Nat /\ dropped' \in Nat
    <3>1. CASE Len(chan[s]) < Capacity(s)
      <4>1. chan' = [chan EXCEPT ![s] = Append(chan[s], pub[p].event)]
        BY <1>3, <3>1, CapacityIsNat DEF PublishSend, TypeOK
      <4>2. /\ Append(chan[s], pub[p].event) \in Seq(Events)
            /\ Len(Append(chan[s], pub[p].event)) = Len(chan[s]) + 1
        BY <2>1 DEF TypeOK
      <4>3. QED
        BY <1>3, <3>1, <4>1, <4>2, CapacityIsNat DEF PublishSend, TypeOK
    <3>2. CASE ~(Len(chan[s]) < Capacity(s))
      BY <1>3, <3>2, CapacityIsNat DEF PublishSend, TypeOK
    <3>3. QED
      BY <3>1, <3>2
  <2>4. QED
    BY <1>3, <2>2, <2>3 DEF PublishSend, TypeOK, Capacity
<1>4. ASSUME NEW p \in Publishers, PublishReturn(p)
      PROVE  TypeOK'
  BY <1>4 DEF PublishReturn, TypeOK, Capacity
<1>5. ASSUME NEW s \in Subscribers, Subscribe(s)
      PROVE  TypeOK'
  BY <1>5 DEF Subscribe, TypeOK, Capacity
<1>6. ASSUME NEW s \in Subscribers, Unsubscribe(s)
      PROVE  TypeOK'
  BY <1>6 DEF Unsubscribe, TypeOK, Capacity
<1>7. ASSUME NEW s \in Subscribers, Deliver(s)
      PROVE  TypeOK'
  <2>1. chan[s] \in Seq(Events) /\ handled[s] \in Seq(Events) /\ chan[s] # <<>>
    BY <1>7 DEF Deliver, TypeOK
  <2>2. /\ Head(chan[s]) \in Events /\ Tail(chan[s]) \in Seq(Events)
        /\ Len(Tail(chan[s])) = Len(chan[s]) - 1
    BY <2>1, HeadTailProperties
  <2>3. Append(handled[s], Head(chan[s])) \in Seq(Events)
    BY <2>1, <2>2
  <2>4. Len(Tail(chan[s])) <= Capacity(s)
    BY <2>1, <2>2, CapacityIsNat DEF TypeOK
  <2>5. QED
    BY <1>7, <2>2, <2>3, <2>4 DEF Deliver, TypeOK, Capacity
<1>8. ASSUME NEW s \in Subscribers, HandlerReturns(s)
      PROVE  TypeOK'
  <2>1. handling[s].id \in Ids
    BY <1>8 DEF HandlerReturns, TypeOK, Events
  <2>2. QED
    BY <1>8, <2>1 DEF HandlerReturns, TypeOK, Capacity
<1>9. CASE UNCHANGED vars
  BY <1>9 DEF vars, TypeOK, Capacity
<1>10. QED
  BY <1>1, <1>2, <1>3, <1>4, <1>5, <1>6, <1>7, <1>8, <1>9 DEF Next, PublisherStep, Pump

(* The types of the bus, and the limits of its buffers. *)
THEOREM TypeCorrect == Spec => []TypeOK
  BY TypeInit, TypeStep, PTL DEF Spec

-----------------------------------------------------------------------------
(* What the steps that move an event do to the sequences. *)

Sending == [at : {"lock", "send"}, event : Events, todo : SUBSET Subscribers]

(* A publisher is idle or in a Publish of an event of the bus. *)
LEMMA PublishUnderWay ==
  ASSUME TypeOK, NEW p \in Publishers
  PROVE  pub[p] = Idle \/ pub[p] \in Sending
  BY DEF TypeOK, Sending

LEMMA SendStep ==
  ASSUME TypeOK, NEW p \in Publishers, NEW s \in Subscribers, PublishSend(p, s)
  PROVE  /\ pub[p] \in Sending /\ s \in pub[p].todo
         /\ pub' = [pub EXCEPT ![p] = [pub[p] EXCEPT !.todo = pub[p].todo \ {s}]]
         /\ \/ UNCHANGED <<chan, delivered>>
            \/ /\ chan' = [chan EXCEPT ![s] = Append(chan[s], pub[p].event)]
               /\ delivered' = delivered + 1
         /\ UNCHANGED <<subs, isOpen, unsub, calls, handling, handled>>
<1>1. pub[p] \in Sending
  BY PublishUnderWay DEF PublishSend, Idle
<1>2. QED
  BY <1>1 DEF PublishSend, TypeOK

(* Appending an event. *)
LEMMA Appended ==
  ASSUME NEW c \in Seq(Events), NEW e \in Events
  PROVE  /\ Append(c, e) \in Seq(Events) /\ Len(Append(c, e)) = Len(c) + 1
         /\ \A i \in 1..(Len(c) + 1) :
              Append(c, e)[i] = IF i = Len(c) + 1 THEN e ELSE c[i]
  OBVIOUS

LEMMA DeliverStep ==
  ASSUME TypeOK, NEW s \in Subscribers, Deliver(s)
  PROVE  /\ chan[s] \in Seq(Events) /\ handled[s] \in Seq(Events)
         /\ Len(chan[s]) \in Nat \ {0} /\ chan[s][1] \in Events
         /\ Tail(chan[s]) \in Seq(Events) /\ Len(Tail(chan[s])) = Len(chan[s]) - 1
         /\ \A i \in 1..(Len(chan[s]) - 1) : Tail(chan[s])[i] = chan[s][i + 1]
         /\ chan' = [chan EXCEPT ![s] = Tail(chan[s])]
         /\ handled' = [handled EXCEPT ![s] = Append(handled[s], chan[s][1])]
         /\ UNCHANGED <<subs, isOpen, unsub, pub, calls, delivered, dropped>>
<1>1. chan[s] \in Seq(Events) /\ handled[s] \in Seq(Events) /\ chan[s] # <<>>
  BY DEF Deliver, TypeOK
<1>2. /\ Len(chan[s]) \in Nat \ {0} /\ Tail(chan[s]) \in Seq(Events)
      /\ Len(Tail(chan[s])) = Len(chan[s]) - 1
      /\ \A i \in 1..(Len(chan[s]) - 1) : Tail(chan[s])[i] = chan[s][i + 1]
      /\ Head(chan[s]) = chan[s][1]
  BY <1>1, HeadTailProperties, EmptySeq
<1>3. chan[s][1] \in Events
  BY <1>1, <1>2, ElementOfSeq
<1>4. QED
  BY <1>1, <1>2, <1>3 DEF Deliver, TypeOK

-----------------------------------------------------------------------------
(* Unsubscribe is safe. *)

LEMMA OpenStep == TypeOK /\ SendsToOpen /\ [Next]_vars => SendsToOpen'
<1> SUFFICES ASSUME TypeOK, SendsToOpen, [Next]_vars PROVE SendsToOpen'
  OBVIOUS
<1>1. ASSUME NEW p \in Publishers, NEW id \in Ids, NEW t \in Topics, Publish(p, id, t)
      PROVE  SendsToOpen'
  <2>1. pub' = pub \/ \E r : r.todo = {} /\ pub' = [pub EXCEPT ![p] = r]
    <3> DEFINE r == [at |-> "lock", todo |-> {},
                     event |-> [by |-> p, n |-> calls[p] + 1, id |-> id, topic |-> t]]
    <3>1. r.todo = {} /\ (pub' = pub \/ pub' = [pub EXCEPT ![p] = r])
      BY <1>1 DEF Publish
    <3> HIDE DEF r
    <3>2. QED
      BY <3>1
  <2>2. QED
    BY <1>1, <2>1 DEF Publish, SendsToOpen, TypeOK
<1>2. ASSUME NEW p \in Publishers, PublishLock(p)
      PROVE  SendsToOpen'
  <2>1. Matching(pub[p].event.topic) \subseteq subs
    BY DEF Matching
  <2>2. pub[p] \in Sending
    BY <1>2, PublishUnderWay DEF PublishLock, Idle
  <2>3. pub' = [pub EXCEPT ![p] = [pub[p] EXCEPT !.at = "send",
                                               !.todo = Matching(pub[p].event.topic)]]
    BY <1>2 DEF PublishLock, TypeOK
  <2>4. QED
    BY <1>2, <2>1, <2>2, <2>3 DEF PublishLock, SendsToOpen, TypeOK, Sending
<1>3. ASSUME NEW p \in Publishers, NEW s \in Subscribers, PublishSend(p, s)
      PROVE  SendsToOpen'
  <2>1. pub[p].at = "send" /\ pub[p] \in Sending /\ UNCHANGED <<subs, isOpen>>
    BY <1>3, SendStep DEF PublishSend
  <2> DEFINE r == [pub[p] EXCEPT !.todo = pub[p].todo \ {s}]
  <2>2. r.at = "send" /\ r.todo \subseteq pub[p].todo
    BY <2>1 DEF Sending
  <2>3. pub' = [pub EXCEPT ![p] = r]
    BY <1>3, SendStep
  <2> HIDE DEF r
  <2>4. QED
    BY <2>1, <2>2, <2>3 DEF SendsToOpen, TypeOK
<1>4. ASSUME NEW p \in Publishers, PublishReturn(p)
      PROVE  SendsToOpen'
  BY <1>4 DEF PublishReturn, SendsToOpen, TypeOK, Idle
<1>5. ASSUME NEW s \in Subscribers, Subscribe(s)
      PROVE  SendsToOpen'
  BY <1>5 DEF Subscribe, SendsToOpen, TypeOK
<1>6. ASSUME NEW s \in Subscribers, Unsubscribe(s)
      PROVE  SendsToOpen'
  <2>1. \A p \in Publishers : pub[p].todo = {}
    BY <1>6 DEF Unsubscribe, SendsToOpen, ReadLocked
  <2>2. QED
    BY <1>6, <2>1 DEF Unsubscribe, SendsToOpen, TypeOK
<1>7. ASSUME NEW s \in Subscribers, Deliver(s)
      PROVE  SendsToOpen'
  BY <1>7 DEF Deliver, SendsToOpen
<1>8. ASSUME NEW s \in Subscribers, HandlerReturns(s)
      PROVE  SendsToOpen'
  BY <1>8 DEF HandlerReturns, SendsToOpen
<1>9. CASE UNCHANGED vars
  BY <1>9 DEF vars, SendsToOpen
<1>10. QED
  BY <1>1, <1>2, <1>3, <1>4, <1>5, <1>6, <1>7, <1>8, <1>9 DEF Next, PublisherStep, Pump

(* The events a subscription has accepted. *)
Accepted == [s \in Subscribers |-> Len(chan[s]) + Len(handled[s])]

LEMMA AcceptedType == TypeOK => Accepted \in [Subscribers -> Nat]
  BY DEF TypeOK, Accepted

LEMMA AccountedStep ==
  TypeOK /\ DeliveredIsAccountedFor /\ [Next]_vars => DeliveredIsAccountedFor'
<1> SUFFICES ASSUME TypeOK, DeliveredIsAccountedFor, [Next]_vars
             PROVE  DeliveredIsAccountedFor'
  OBVIOUS
<1>1. delivered = SumFunctionOnSet(Accepted, Subscribers)
  BY DEF DeliveredIsAccountedFor, Accepted
<1>2. SUFFICES delivered' = SumFunctionOnSet(Accepted', Subscribers)
  BY DEF DeliveredIsAccountedFor, Accepted
<1>3. Accepted \in [Subscribers -> Nat] /\ Accepted' \in [Subscribers -> Nat]
  <2>1. TypeOK'
    BY TypeStep
  <2>2. Accepted' \in [Subscribers -> Nat]
    BY <2>1 DEF TypeOK, Accepted
  <2>3. QED
    BY <2>2, AcceptedType
<1>4. /\ \A q \in Subscribers : Accepted[q] = Len(chan[q]) + Len(handled[q])
      /\ \A q \in Subscribers : Accepted'[q] = Len(chan'[q]) + Len(handled'[q])
  BY DEF Accepted
<1>5. ASSUME UNCHANGED delivered, Accepted' = Accepted
      PROVE  delivered' = SumFunctionOnSet(Accepted', Subscribers)
  BY <1>1, <1>5
<1>6. ASSUME UNCHANGED <<chan, handled, delivered>>
      PROVE  delivered' = SumFunctionOnSet(Accepted', Subscribers)
  BY <1>5, <1>6 DEF Accepted
<1>7. ASSUME NEW p \in Publishers, NEW s \in Subscribers, PublishSend(p, s)
      PROVE  delivered' = SumFunctionOnSet(Accepted', Subscribers)
  <2>1. CASE UNCHANGED <<chan, delivered>>
    BY <1>6, <1>7, <2>1, SendStep
  <2>2. CASE /\ chan' = [chan EXCEPT ![s] = Append(chan[s], pub[p].event)]
             /\ delivered' = delivered + 1
    <3>1. chan[s] \in Seq(Events) /\ pub[p].event \in Events
      BY <1>7, SendStep DEF TypeOK, Sending
    <3>2. Len(chan'[s]) = Len(chan[s]) + 1
      BY <2>2, <3>1 DEF TypeOK
    <3>3. \A q \in Subscribers \ {s} : Accepted'[q] = Accepted[q]
      BY <1>7, <1>4, <2>2, SendStep DEF TypeOK
    <3>4. Accepted'[s] = Accepted[s] + 1
      <4>1. handled' = handled /\ Len(chan[s]) \in Nat /\ Len(handled[s]) \in Nat
        BY <1>7, <3>1, SendStep DEF TypeOK
      <4>2. /\ Accepted[s] = Len(chan[s]) + Len(handled[s])
            /\ Accepted'[s] = Len(chan'[s]) + Len(handled'[s])
        BY <1>4
      <4>3. \A a, b \in Nat : (a + 1) + b = (a + b) + 1
        OBVIOUS
      <4>4. QED
        BY <3>2, <4>1, <4>2, <4>3, Zenon
    <3>5. SumFunctionOnSet(Accepted', Subscribers)
            = SumFunctionOnSet(Accepted, Subscribers) - Accepted[s] + Accepted'[s]
      BY <1>3, <3>3, FiniteAssumption, SumChange
    <3>6. QED
      BY <1>1, <1>3, <2>2, <3>4, <3>5 DEF TypeOK
  <2>3. QED
    BY <1>7, <2>1, <2>2, SendStep
<1>8. ASSUME NEW s \in Subscribers, Deliver(s)
      PROVE  delivered' = SumFunctionOnSet(Accepted', Subscribers)
  <2>1. /\ chan' = [chan EXCEPT ![s] = Tail(chan[s])]
        /\ handled' = [handled EXCEPT ![s] = Append(handled[s], chan[s][1])]
        /\ handled[s] \in Seq(Events) /\ chan[s][1] \in Events
        /\ Len(Tail(chan[s])) = Len(chan[s]) - 1 /\ Len(chan[s]) \in Nat \ {0}
    BY <1>8, DeliverStep
  <2>2. Len(chan'[s]) = Len(chan[s]) - 1 /\ Len(handled'[s]) = Len(handled[s]) + 1
    BY <2>1, Appended DEF TypeOK
  <2>3. Accepted'[s] = Accepted[s] /\ \A q \in Subscribers \ {s} : Accepted'[q] = Accepted[q]
    <3>1. Len(handled[s]) \in Nat
      BY <2>1
    <3>2. Accepted'[s] = Accepted[s]
      <4>1. /\ Accepted[s] = Len(chan[s]) + Len(handled[s])
            /\ Accepted'[s] = Len(chan'[s]) + Len(handled'[s])
        BY <1>4
      <4>2. Len(chan[s]) \in Nat /\ Len(chan'[s]) = Len(chan[s]) - 1
        BY <2>1, <2>2
      <4>3. \A a, b \in Nat : (a - 1) + (b + 1) = a + b
        OBVIOUS
      <4>4. QED
        BY <2>2, <3>1, <4>1, <4>2, <4>3, Zenon
    <3>3. QED
      BY <1>4, <2>1, <3>2 DEF TypeOK
  <2>4. Accepted' = Accepted
    BY <1>3, <2>3
  <2>5. QED
    BY <1>5, <1>8, <2>4, DeliverStep
<1>9. ASSUME NEW p \in Publishers, PublishLock(p) \/ PublishReturn(p)
      PROVE  delivered' = SumFunctionOnSet(Accepted', Subscribers)
  BY <1>6, <1>9 DEF PublishLock, PublishReturn
<1>10. ASSUME NEW p \in Publishers, NEW id \in Ids, NEW t \in Topics, Publish(p, id, t)
       PROVE  delivered' = SumFunctionOnSet(Accepted', Subscribers)
  BY <1>6, <1>10 DEF Publish
<1>11. ASSUME NEW s \in Subscribers, Subscribe(s) \/ Unsubscribe(s) \/ HandlerReturns(s)
       PROVE  delivered' = SumFunctionOnSet(Accepted', Subscribers)
  BY <1>6, <1>11 DEF Subscribe, Unsubscribe, HandlerReturns
<1>12. CASE UNCHANGED vars
  BY <1>6, <1>12 DEF vars
<1>13. QED
  BY <1>7, <1>8, <1>9, <1>10, <1>11, <1>12 DEF Next, PublisherStep, Pump

LEMMA SafeInit == Init => SendsToOpen /\ DeliveredIsAccountedFor
<1> SUFFICES ASSUME Init PROVE SendsToOpen /\ DeliveredIsAccountedFor
  OBVIOUS
<1>1. SendsToOpen
  BY DEF Init, SendsToOpen, Idle
<1>2. Accepted \in [Subscribers -> Nat] /\ \A s \in Subscribers : Accepted[s] = 0
  BY DEF Init, Accepted
<1>3. SumFunctionOnSet(Accepted, Subscribers) = 0
  BY <1>2, FiniteAssumption, SumZero
<1>4. QED
  BY <1>1, <1>3 DEF Init, DeliveredIsAccountedFor, Accepted

(* However Unsubscribe falls into a Publish, the Publish neither sends on a
   closed channel nor loses an event it has counted as delivered. *)
THEOREM UnsubscribeSafe == Spec => []UnsubscribeIsSafe
<1> DEFINE Inv == TypeOK /\ SendsToOpen /\ DeliveredIsAccountedFor
<1>1. Init => Inv
  BY TypeInit, SafeInit
<1>2. Inv /\ [Next]_vars => Inv'
  BY TypeStep, OpenStep, AccountedStep
<1>3. Inv => UnsubscribeIsSafe
  BY DEF SendsToOpen, UnsubscribeIsSafe, NoSendOnClosedChannel
<1>4. QED
  BY <1>1, <1>2, <1>3, PTL DEF Spec

-----------------------------------------------------------------------------
(* The order of the events of one publisher. *)

(* Steps that touch neither the calls nor what a subscription has. *)
LEMMA OrderedQuiet ==
  ASSUME Ordered, UNCHANGED <<chan, handled, calls>>,
         \A p \in Publishers : pub'[p].at # "idle" => pub[p].at # "idle" /\ pub'[p].event = pub[p].event,
         \A p \in Publishers, s \in Subscribers : Coming(p, s)' => Coming(p, s)
  PROVE  Ordered'
<1>1. Numbered'
  BY DEF Ordered, Numbered
<1>2. ComingIsNewer'
  <2>1. SUFFICES ASSUME NEW p \in Publishers, NEW s \in Subscribers, Coming(p, s)'
                 PROVE  /\ \A i \in 1..Len(chan'[s]) : chan'[s][i].by = p => chan'[s][i].n < calls'[p]
                        /\ \A i \in 1..Len(handled'[s]) :
                             handled'[s][i].by = p => handled'[s][i].n < calls'[p]
    BY DEF ComingIsNewer
  <2>2. Coming(p, s)
    BY <2>1
  <2>3. QED
    BY <2>2 DEF Ordered, ComingIsNewer
<1>3. BufferIsNewer'
  BY DEF Ordered, BufferIsNewer
<1>4. QED
  BY <1>1, <1>2, <1>3 DEF Ordered

LEMMA OrderedPublish ==
  ASSUME TypeOK, Ordered, NEW p \in Publishers, NEW id \in Ids, NEW t \in Topics,
         Publish(p, id, t)
  PROVE  Ordered'
<1> DEFINE e == [by |-> p, n |-> calls[p] + 1, id |-> id, topic |-> t]
           r == [at |-> "lock", todo |-> {}, event |-> e]
<1>1. /\ pub[p].at = "idle" /\ r.at = "lock" /\ r.event.by = p /\ r.event.n = calls[p] + 1
      /\ r.todo = {}
  BY DEF Publish, Idle
<1>2. pub' = pub \/ pub' = [pub EXCEPT ![p] = r]
  BY DEF Publish
<1> HIDE DEF r
<1>3. /\ calls' = [calls EXCEPT ![p] = calls[p] + 1] /\ UNCHANGED <<chan, handled>>
      /\ \A q \in Publishers : calls[q] \in Nat
  BY DEF Publish, TypeOK
<1>4. calls'[p] = calls[p] + 1 /\ \A q \in Publishers \ {p} : calls'[q] = calls[q]
  BY <1>3 DEF TypeOK
<1>5. \A q \in Publishers : calls[q] <= calls'[q] /\ calls'[q] \in Nat
  BY <1>3, <1>4
<1>6. \A q \in Publishers \ {p} : pub'[q] = pub[q]
  BY <1>2 DEF TypeOK
<1>7. pub'[p] = pub[p] \/ pub'[p] = r
  BY <1>2 DEF TypeOK
<1>8. ASSUME NEW s \in Subscribers
      PROVE  /\ \A i \in 1..Len(chan[s]) : chan[s][i] \in Events
             /\ \A i \in 1..Len(handled[s]) : handled[s][i] \in Events
  BY ElementOfSeq DEF TypeOK
<1>9. \A e1 \in Events : e1.n \in Nat /\ e1.by \in Publishers
  BY DEF Events
<1>10. Numbered'
  <2>1. \A q \in Publishers : pub'[q].at # "idle" =>
          pub'[q].event.by = q /\ pub'[q].event.n = calls'[q]
    BY <1>1, <1>4, <1>6, <1>7 DEF Ordered, Numbered
  <2>2. ASSUME NEW s \in Subscribers, NEW i \in 1..Len(chan[s])
        PROVE  chan[s][i].n <= calls'[chan[s][i].by]
    <3>1. chan[s][i].n \in Nat /\ chan[s][i].by \in Publishers
      BY <1>8, <1>9
    <3>2. QED
      BY <1>3, <1>5, <3>1 DEF Ordered, Numbered
  <2>3. ASSUME NEW s \in Subscribers, NEW i \in 1..Len(handled[s])
        PROVE  handled[s][i].n <= calls'[handled[s][i].by]
    <3>1. handled[s][i].n \in Nat /\ handled[s][i].by \in Publishers
      BY <1>8, <1>9
    <3>2. QED
      BY <1>3, <1>5, <3>1 DEF Ordered, Numbered
  <2>4. QED
    BY <1>3, <2>1, <2>2, <2>3 DEF Numbered
<1>11. ComingIsNewer'
  <2>1. ASSUME NEW q \in Publishers, NEW s \in Subscribers, Coming(q, s)'
        PROVE  /\ \A i \in 1..Len(chan[s]) : chan[s][i].by = q => chan[s][i].n < calls'[q]
               /\ \A i \in 1..Len(handled[s]) : handled[s][i].by = q => handled[s][i].n < calls'[q]
    <3>1. CASE q = p
      <4>1. \A i \in 1..Len(chan[s]) : chan[s][i].by = q => chan[s][i].n < calls'[q]
        <5>1. SUFFICES ASSUME NEW i \in 1..Len(chan[s]), chan[s][i].by = q
                       PROVE  chan[s][i].n < calls'[q]
          OBVIOUS
        <5>2. chan[s][i].n \in Nat /\ chan[s][i].n <= calls[p]
          BY <1>8, <1>9, <3>1, <5>1 DEF Ordered, Numbered
        <5>3. QED
          BY <1>3, <1>4, <3>1, <5>2
      <4>2. \A i \in 1..Len(handled[s]) : handled[s][i].by = q => handled[s][i].n < calls'[q]
        <5>1. SUFFICES ASSUME NEW i \in 1..Len(handled[s]), handled[s][i].by = q
                       PROVE  handled[s][i].n < calls'[q]
          OBVIOUS
        <5>2. handled[s][i].n \in Nat /\ handled[s][i].n <= calls[p]
          BY <1>8, <1>9, <3>1, <5>1 DEF Ordered, Numbered
        <5>3. QED
          BY <1>3, <1>4, <3>1, <5>2
      <4>3. QED
        BY <4>1, <4>2
    <3>2. CASE q # p
      <4>1. Coming(q, s)
        BY <1>6, <2>1, <3>2 DEF Coming
      <4>2. QED
        BY <1>4, <3>2, <4>1 DEF Ordered, ComingIsNewer
    <3>3. QED
      BY <3>1, <3>2
  <2>2. QED
    BY <1>3, <2>1 DEF ComingIsNewer
<1>12. BufferIsNewer'
  BY <1>3 DEF Ordered, BufferIsNewer
<1>13. QED
  BY <1>10, <1>11, <1>12 DEF Ordered

LEMMA OrderedSend ==
  ASSUME TypeOK, Ordered, NEW p \in Publishers, NEW s \in Subscribers, PublishSend(p, s)
  PROVE  Ordered'
<1> DEFINE e == pub[p].event
           r == [pub[p] EXCEPT !.todo = pub[p].todo \ {s}]
<1>1. /\ pub[p].at = "send" /\ e \in Events /\ s \in pub[p].todo
      /\ UNCHANGED <<calls, handled>>
  BY SendStep DEF PublishSend, Sending
<1>2. pub' = [pub EXCEPT ![p] = r] /\ r.at = "send" /\ r.todo = pub[p].todo \ {s} /\ r.event = e
  BY SendStep DEF PublishSend, Sending
<1> HIDE DEF r
<1>3. pub'[p] = r /\ \A q \in Publishers \ {p} : pub'[q] = pub[q]
  BY <1>2 DEF TypeOK
<1>4. CASE UNCHANGED chan
  <2>1. \A q \in Publishers : pub'[q].at # "idle" =>
          pub[q].at # "idle" /\ pub'[q].event = pub[q].event
    BY <1>1, <1>2, <1>3
  <2>2. \A q \in Publishers, x \in Subscribers : Coming(q, x)' => Coming(q, x)
    BY <1>1, <1>2, <1>3 DEF Coming
  <2>3. QED
    BY <1>1, <1>4, <2>1, <2>2, OrderedQuiet
<1>5. CASE chan' = [chan EXCEPT ![s] = Append(chan[s], e)]
  <2>1. chan[s] \in Seq(Events)
    BY DEF TypeOK
  <2>2. /\ Len(chan'[s]) = Len(chan[s]) + 1 /\ Len(chan[s]) \in Nat
        /\ \A i \in 1..(Len(chan[s]) + 1) :
             chan'[s][i] = IF i = Len(chan[s]) + 1 THEN e ELSE chan[s][i]
    <3>1. chan'[s] = Append(chan[s], e)
      BY <1>5 DEF TypeOK
    <3> HIDE DEF e
    <3>2. QED
      BY <1>1, <2>1, <3>1, Appended
  <2>3. \A q \in Subscribers \ {s} : chan'[q] = chan[q]
    BY <1>5 DEF TypeOK
  <2>4. e.by = p /\ e.n = calls[p] /\ calls[p] \in Nat
    BY <1>1 DEF Ordered, Numbered, TypeOK
  <2>5. Coming(p, s)
    BY <1>1 DEF Coming
  <2> HIDE DEF e
  <2>6. \A i \in 1..Len(chan'[s]) :
          chan'[s][i] = e \/ (i \in 1..Len(chan[s]) /\ chan'[s][i] = chan[s][i])
    BY <2>2
  <2>7. Numbered'
    <3>1. \A q \in Publishers : pub'[q].at # "idle" =>
            pub'[q].event.by = q /\ pub'[q].event.n = calls'[q]
      BY <1>1, <1>2, <1>3, <2>4 DEF Ordered, Numbered
    <3>2. \A q \in Subscribers : \A i \in 1..Len(chan'[q]) : chan'[q][i].n <= calls[chan'[q][i].by]
      <4>1. \A i \in 1..Len(chan'[s]) : chan'[s][i].n <= calls[chan'[s][i].by]
        <5>1. \A i \in 1..Len(chan[s]) : chan[s][i].n <= calls[chan[s][i].by]
          BY DEF Ordered, Numbered
        <5>2. e.n <= calls[e.by]
          BY <2>4
        <5>3. QED
          BY <2>6, <5>1, <5>2, Zenon
      <4>2. QED
        BY <2>3, <4>1 DEF Ordered, Numbered
    <3>3. QED
      BY <1>1, <3>1, <3>2 DEF Ordered, Numbered
  <2>8. ComingIsNewer'
    <3>1. ASSUME NEW q \in Publishers, NEW x \in Subscribers, Coming(q, x)'
          PROVE  /\ \A i \in 1..Len(chan'[x]) : chan'[x][i].by = q => chan'[x][i].n < calls[q]
                 /\ \A i \in 1..Len(handled[x]) : handled[x][i].by = q => handled[x][i].n < calls[q]
      <4>1. Coming(q, x) /\ (x = s => q # p)
        BY <1>1, <1>2, <1>3, <3>1 DEF Coming
      <4>2. /\ \A i \in 1..Len(chan[x]) : chan[x][i].by = q => chan[x][i].n < calls[q]
            /\ \A i \in 1..Len(handled[x]) : handled[x][i].by = q => handled[x][i].n < calls[q]
        BY <4>1 DEF Ordered, ComingIsNewer
      <4>3. CASE x # s
        BY <2>3, <4>2, <4>3
      <4>4. CASE x = s
        BY <2>4, <2>6, <4>1, <4>2, <4>4, Zenon
      <4>5. QED
        BY <4>3, <4>4
    <3>2. QED
      BY <1>1, <3>1 DEF ComingIsNewer
  <2>9. BufferIsNewer'
    <3>1. ASSUME NEW x \in Subscribers, NEW j \in 1..Len(chan'[x])
          PROVE  /\ \A i \in 1..(j - 1) :
                      chan'[x][i].by = chan'[x][j].by => chan'[x][i].n < chan'[x][j].n
                 /\ \A i \in 1..Len(handled[x]) :
                      handled[x][i].by = chan'[x][j].by => handled[x][i].n < chan'[x][j].n
      <4>1. CASE x # s
        BY <2>3, <3>1, <4>1 DEF Ordered, BufferIsNewer
      <4>2. CASE x = s /\ j = Len(chan[s]) + 1
        <5>1. chan'[x][j] = e /\ \A i \in 1..(j - 1) : i \in 1..Len(chan[s]) /\ chan'[x][i] = chan[s][i]
          BY <2>2, <4>2
        <5>2. /\ \A i \in 1..Len(chan[s]) : chan[s][i].by = p => chan[s][i].n < calls[p]
              /\ \A i \in 1..Len(handled[s]) : handled[s][i].by = p => handled[s][i].n < calls[p]
          BY <2>5 DEF Ordered, ComingIsNewer
        <5>3. QED
          BY <2>4, <4>2, <5>1, <5>2
      <4>3. CASE x = s /\ j # Len(chan[s]) + 1
        <5>1. /\ j \in 1..Len(chan[s]) /\ chan'[x][j] = chan[s][j]
              /\ \A i \in 1..(j - 1) : i \in 1..Len(chan[s]) /\ chan'[x][i] = chan[s][i]
          BY <2>2, <3>1, <4>3
        <5>2. QED
          BY <4>3, <5>1 DEF Ordered, BufferIsNewer
      <4>4. QED
        BY <4>1, <4>2, <4>3
    <3>2. QED
      BY <1>1, <3>1 DEF BufferIsNewer
  <2>10. QED
    BY <2>7, <2>8, <2>9 DEF Ordered
<1>6. QED
  BY <1>4, <1>5, SendStep

LEMMA OrderedDeliver ==
  ASSUME TypeOK, Ordered, NEW s \in Subscribers, Deliver(s)
  PROVE  Ordered'
<1> DEFINE c == chan[s]
           h == handled[s]
<1>1. /\ c \in Seq(Events) /\ h \in Seq(Events) /\ Len(c) \in Nat \ {0} /\ Len(h) \in Nat
      /\ c[1] \in Events /\ UNCHANGED <<pub, calls>>
  BY DeliverStep, LenProperties
<1>2. Len(chan'[s]) = Len(c) - 1 /\ \A i \in 1..(Len(c) - 1) : chan'[s][i] = c[i + 1]
  <2>1. chan'[s] = Tail(c)
    BY DeliverStep DEF TypeOK
  <2>2. Len(Tail(c)) = Len(c) - 1 /\ \A i \in 1..(Len(c) - 1) : Tail(c)[i] = c[i + 1]
    BY DeliverStep
  <2> HIDE DEF c
  <2>3. QED
    BY <2>1, <2>2
<1>3. /\ Len(handled'[s]) = Len(h) + 1
      /\ \A i \in 1..(Len(h) + 1) : handled'[s][i] = IF i = Len(h) + 1 THEN c[1] ELSE h[i]
  <2>1. handled'[s] = Append(h, c[1])
    BY DeliverStep DEF TypeOK
  <2> HIDE DEF c, h
  <2>2. QED
    BY <1>1, <2>1, Appended
<1>4. /\ \A i \in 1..Len(chan'[s]) : i + 1 \in 1..Len(c) /\ chan'[s][i] = c[i + 1]
      /\ \A i \in 1..Len(handled'[s]) :
           handled'[s][i] = c[1] \/ (i \in 1..Len(h) /\ handled'[s][i] = h[i])
      /\ 1 \in 1..Len(c)
  <2> HIDE DEF c, h
  <2>1. \A i \in 1..Len(chan'[s]) : i + 1 \in 1..Len(c) /\ chan'[s][i] = c[i + 1]
    BY <1>1, <1>2
  <2>2. ASSUME NEW i \in 1..Len(handled'[s])
        PROVE  handled'[s][i] = c[1] \/ (i \in 1..Len(h) /\ handled'[s][i] = h[i])
    <3>1. i = Len(h) + 1 \/ i \in 1..Len(h)
      BY <1>1, <1>3
    <3>2. handled'[s][i] = IF i = Len(h) + 1 THEN c[1] ELSE h[i]
      BY <1>3
    <3>3. QED
      BY <3>1, <3>2
  <2>3. 1 \in 1..Len(c)
    BY <1>1
  <2>4. QED
    BY <2>1, <2>2, <2>3
<1>5. \A q \in Subscribers \ {s} : chan'[q] = chan[q] /\ handled'[q] = handled[q]
  BY DeliverStep DEF TypeOK
<1>6. \A p \in Publishers, q \in Subscribers : Coming(p, q)' = Coming(p, q)
  BY <1>1 DEF Coming
<1>7. Numbered'
  <2>1. /\ \A i \in 1..Len(chan'[s]) : chan'[s][i].n <= calls[chan'[s][i].by]
        /\ \A i \in 1..Len(handled'[s]) : handled'[s][i].n <= calls[handled'[s][i].by]
    <3>1. /\ \A i \in 1..Len(c) : c[i].n <= calls[c[i].by]
          /\ \A i \in 1..Len(h) : h[i].n <= calls[h[i].by]
      BY DEF Ordered, Numbered
    <3> HIDE DEF c, h
    <3>2. QED
      BY <1>4, <3>1, Zenon
  <2>2. ASSUME NEW q \in Subscribers \ {s}
        PROVE  /\ \A i \in 1..Len(chan'[q]) : chan'[q][i].n <= calls[chan'[q][i].by]
               /\ \A i \in 1..Len(handled'[q]) : handled'[q][i].n <= calls[handled'[q][i].by]
    BY <1>5 DEF Ordered, Numbered
  <2>3. \A p \in Publishers : pub'[p].at # "idle" =>
          pub'[p].event.by = p /\ pub'[p].event.n = calls'[p]
    BY <1>1 DEF Ordered, Numbered
  <2> HIDE DEF c, h
  <2>4. QED
    BY <1>1, <2>1, <2>2, <2>3 DEF Numbered
<1>8. ComingIsNewer'
  <2>1. ASSUME NEW p \in Publishers, NEW q \in Subscribers, Coming(p, q)'
        PROVE  /\ \A i \in 1..Len(chan'[q]) : chan'[q][i].by = p => chan'[q][i].n < calls[p]
               /\ \A i \in 1..Len(handled'[q]) : handled'[q][i].by = p => handled'[q][i].n < calls[p]
    <3>1. /\ \A i \in 1..Len(chan[q]) : chan[q][i].by = p => chan[q][i].n < calls[p]
          /\ \A i \in 1..Len(handled[q]) : handled[q][i].by = p => handled[q][i].n < calls[p]
      BY <1>6, <2>1 DEF Ordered, ComingIsNewer
    <3>2. CASE q # s
      BY <1>5, <3>1, <3>2
    <3>3. CASE q = s
      <4>1. /\ \A i \in 1..Len(c) : c[i].by = p => c[i].n < calls[p]
            /\ \A i \in 1..Len(h) : h[i].by = p => h[i].n < calls[p]
        BY <3>1, <3>3
      <4> HIDE DEF c, h
      <4>2. QED
        BY <1>4, <3>3, <4>1, Zenon
    <3>4. QED
      BY <3>2, <3>3
  <2>2. QED
    BY <1>1, <2>1 DEF ComingIsNewer
<1>9. BufferIsNewer'
  <2>1. ASSUME NEW j \in 1..Len(chan'[s])
        PROVE  /\ \A i \in 1..(j - 1) :
                    chan'[s][i].by = chan'[s][j].by => chan'[s][i].n < chan'[s][j].n
               /\ \A i \in 1..Len(handled'[s]) :
                    handled'[s][i].by = chan'[s][j].by => handled'[s][i].n < chan'[s][j].n
    <3>1. \A k \in 1..Len(c) :
            /\ \A i \in 1..(k - 1) : c[i].by = c[k].by => c[i].n < c[k].n
            /\ \A i \in 1..Len(h) : h[i].by = c[k].by => h[i].n < c[k].n
      BY DEF Ordered, BufferIsNewer
    <3> HIDE DEF c, h
    <3>2. chan'[s][j] = c[j + 1] /\ j + 1 \in 2..Len(c) /\ j \in Nat
      BY <1>1, <1>2, <2>1
    <3>3. \A i \in 1..(j - 1) : chan'[s][i] = c[i + 1] /\ i + 1 \in 1..((j + 1) - 1)
      BY <1>1, <1>2, <2>1
    <3>4. /\ \A i \in 1..((j + 1) - 1) : c[i].by = c[j + 1].by => c[i].n < c[j + 1].n
          /\ \A i \in 1..Len(h) : h[i].by = c[j + 1].by => h[i].n < c[j + 1].n
      BY <3>1, <3>2
    <3>5. 1 \in 1..((j + 1) - 1)
      BY <3>2
    <3>6. \A i \in 1..(j - 1) : chan'[s][i].by = chan'[s][j].by => chan'[s][i].n < chan'[s][j].n
      BY <3>2, <3>3, <3>4
    <3>7. \A i \in 1..Len(handled'[s]) :
            handled'[s][i].by = chan'[s][j].by => handled'[s][i].n < chan'[s][j].n
      BY <1>4, <3>2, <3>4, <3>5
    <3>8. QED
      BY <3>6, <3>7
  <2>2. ASSUME NEW q \in Subscribers \ {s}, NEW j \in 1..Len(chan'[q])
        PROVE  /\ \A i \in 1..(j - 1) : chan'[q][i].by = chan'[q][j].by
                                           => chan'[q][i].n < chan'[q][j].n
               /\ \A i \in 1..Len(handled'[q]) : handled'[q][i].by = chan'[q][j].by
                                                   => handled'[q][i].n < chan'[q][j].n
    BY <1>5 DEF Ordered, BufferIsNewer
  <2> HIDE DEF c, h
  <2>3. QED
    BY <2>1, <2>2 DEF BufferIsNewer
<1>10. QED
  BY <1>7, <1>8, <1>9 DEF Ordered

LEMMA OrderedStep == TypeOK /\ Ordered /\ [Next]_vars => Ordered'
<1> SUFFICES ASSUME TypeOK, Ordered, [Next]_vars PROVE Ordered'
  OBVIOUS
<1>1. ASSUME NEW p \in Publishers, PublishLock(p)
      PROVE  Ordered'
  <2> DEFINE r == [pub[p] EXCEPT !.at = "send", !.todo = Matching(pub[p].event.topic)]
  <2>1. pub[p] \in Sending /\ pub[p].at = "lock"
    BY <1>1, PublishUnderWay DEF PublishLock, Idle
  <2>2. pub' = [pub EXCEPT ![p] = r] /\ UNCHANGED <<chan, handled, calls>>
    BY <1>1 DEF PublishLock, TypeOK
  <2>3. r.event = pub[p].event
    BY <2>1 DEF Sending
  <2> HIDE DEF r
  <2>4. pub'[p] = r /\ \A q \in Publishers \ {p} : pub'[q] = pub[q]
    BY <2>2 DEF TypeOK
  <2>5. \A q \in Publishers : pub'[q].at # "idle" =>
          pub[q].at # "idle" /\ pub'[q].event = pub[q].event
    BY <2>1, <2>3, <2>4
  <2>6. \A q \in Publishers, s \in Subscribers : Coming(q, s)' => Coming(q, s)
    BY <2>1, <2>4 DEF Coming
  <2>7. QED
    BY <2>2, <2>5, <2>6, OrderedQuiet
<1>2. ASSUME NEW p \in Publishers, PublishReturn(p)
      PROVE  Ordered'
  <2>1. /\ pub'[p] = Idle /\ \A q \in Publishers \ {p} : pub'[q] = pub[q]
        /\ UNCHANGED <<chan, handled, calls>>
    BY <1>2 DEF PublishReturn, TypeOK
  <2>2. \A q \in Publishers : pub'[q].at # "idle" =>
          pub[q].at # "idle" /\ pub'[q].event = pub[q].event
    BY <2>1 DEF Idle
  <2>3. \A q \in Publishers, s \in Subscribers : Coming(q, s)' => Coming(q, s)
    BY <2>1 DEF Coming, Idle
  <2>4. QED
    BY <2>1, <2>2, <2>3, OrderedQuiet
<1>3. ASSUME UNCHANGED <<chan, handled, calls, pub>>
      PROVE  Ordered'
  BY <1>3, OrderedQuiet DEF Coming
<1>4. ASSUME NEW s \in Subscribers, Subscribe(s) \/ Unsubscribe(s) \/ HandlerReturns(s)
      PROVE  Ordered'
  BY <1>3, <1>4 DEF Subscribe, Unsubscribe, HandlerReturns
<1>5. CASE UNCHANGED vars
  BY <1>3, <1>5 DEF vars
<1>6. QED
  BY <1>1, <1>2, <1>4, <1>5, OrderedPublish, OrderedSend, OrderedDeliver
     DEF Next, PublisherStep, Pump

-----------------------------------------------------------------------------
(* The bus implements the contract. *)

(* A set of positions that is not empty has a last one. *)
LEMMA LastPosition ==
  ASSUME NEW m \in Nat, NEW S \in SUBSET (1..m), S # {}
  PROVE  \E i \in S : \A j \in S : j <= i
<1> DEFINE From(i) == {j \in S : i <= j}
           F == {From(i) : i \in S}
<1>1. IsFiniteSet(S)
  <2>1. IsFiniteSet(1..m)
    BY FS_Interval
  <2>2. QED
    BY <2>1, FS_Subset
<1>2. F \subseteq SUBSET S /\ F # {}
  OBVIOUS
<1>3. PICK T \in F : \A U \in SUBSET T : U # T => U \notin F
  <2> HIDE DEF F
  <2>1. QED
    BY <1>1, <1>2, MinimalSubset
<1>4. PICK i \in S : T = From(i)
  BY <1>3
<1>5. ASSUME NEW j \in S, ~(j <= i)
      PROVE  FALSE
  <2>1. i \in Int /\ j \in Int /\ S \subseteq Int
    OBVIOUS
  <2>2. From(j) \subseteq From(i)
    <3>1. ASSUME NEW k \in S, j <= k
          PROVE  i <= k
      <4>1. k \in Int
        BY <2>1
      <4>2. QED
        BY <1>5, <2>1, <3>1, <4>1
    <3>2. QED
      BY <3>1
  <2>3. i \in From(i) /\ i \notin From(j)
    BY <1>5, <2>1
  <2>4. From(j) \in F
    OBVIOUS
  <2> HIDE DEF From, F
  <2>5. QED
    BY <1>3, <1>4, <2>2, <2>3, <2>4
<1>6. QED
  BY <1>5

(* What a subscription was given is a sequence of the contract's events, one
   for each event handled. *)
ContractEvents == [by : Publishers, n : 1..MaxPublishes]

LEMMA GivenIs ==
  ASSUME NEW h \in Seq(Events)
  PROVE  LET g == [i \in 1..Len(h) |-> [by |-> h[i].by, n |-> h[i].n]]
         IN  g \in Seq(ContractEvents) /\ Len(g) = Len(h)
<1>1. ASSUME NEW i \in 1..Len(h)
      PROVE  [by |-> h[i].by, n |-> h[i].n] \in ContractEvents
  <2>1. h[i] \in Events
    BY ElementOfSeq
  <2>2. QED
    BY <2>1 DEF Events, ContractEvents
<1>2. QED
  BY <1>1

LEMMA GivenAppend ==
  ASSUME NEW h \in Seq(Events), NEW e \in Events, NEW k, k = Append(h, e)
  PROVE  [i \in 1..Len(k) |-> [by |-> k[i].by, n |-> k[i].n]]
           = Append([i \in 1..Len(h) |-> [by |-> h[i].by, n |-> h[i].n]],
                    [by |-> e.by, n |-> e.n])
<1> DEFINE g == [i \in 1..Len(h) |-> [by |-> h[i].by, n |-> h[i].n]]
           r == [i \in 1..Len(k) |-> [by |-> k[i].by, n |-> k[i].n]]
           x == [by |-> e.by, n |-> e.n]
<1>1. k \in Seq(Events) /\ Len(k) = Len(h) + 1 /\ Len(h) \in Nat
      /\ \A i \in 1..(Len(h) + 1) : k[i] = IF i = Len(h) + 1 THEN e ELSE h[i]
  BY Appended
<1>2. /\ g \in Seq(ContractEvents) /\ Len(g) = Len(h)
      /\ r \in Seq(ContractEvents) /\ Len(r) = Len(k)
  BY <1>1, GivenIs
<1>3. x \in ContractEvents
  BY DEF Events, ContractEvents
<1>4. /\ \A i \in 1..Len(k) : r[i] = [by |-> k[i].by, n |-> k[i].n]
      /\ \A i \in 1..Len(h) : g[i] = [by |-> h[i].by, n |-> h[i].n]
  OBVIOUS
<1>5. r = Append(g, x)
  <2>1. /\ Append(g, x) \in Seq(ContractEvents) /\ Len(Append(g, x)) = Len(g) + 1
        /\ \A i \in 1..(Len(g) + 1) :
             Append(g, x)[i] = IF i = Len(g) + 1 THEN x ELSE g[i]
    <3> HIDE DEF g, x
    <3>1. QED
      BY <1>2, <1>3
  <2>2. \A i \in 1..Len(r) : r[i] = Append(g, x)[i]
    <3>1. ASSUME NEW i \in 1..(Len(h) + 1)
          PROVE  r[i] = Append(g, x)[i]
      <4>1. CASE i = Len(h) + 1
        <5>1. r[i] = x
          <6> HIDE DEF r
          <6>1. QED
            BY <1>1, <1>4, <4>1
        <5>2. QED
          BY <1>2, <2>1, <4>1, <5>1
      <4>2. CASE i # Len(h) + 1
        <5>1. i \in 1..Len(h)
          BY <1>1, <4>2
        <5>2. r[i] = g[i]
          <6> HIDE DEF r, g
          <6>1. QED
            BY <1>1, <1>4, <4>2, <5>1
        <5>3. Append(g, x)[i] = g[i]
          BY <1>1, <1>2, <2>1, <5>1
        <5>4. QED
          BY <5>2, <5>3
      <4>3. QED
        BY <4>1, <4>2
    <3>2. QED
      BY <1>1, <1>2, <3>1
  <2> HIDE DEF r, g, x
  <2>3. QED
    BY <1>1, <1>2, <2>1, <2>2, SeqEqual
<1>6. QED
  BY <1>5

(* The last event of p that s was given is older than the next in its buffer. *)
LEMMA NextIsNewer ==
  ASSUME TypeOK, Ordered, NEW s \in Subscribers, Len(chan[s]) # 0, NEW e, e = chan[s][1]
  PROVE  e \in Events /\ e.n \in (Contract!Latest(s, e.by) + 1)..calls[e.by]
<1> DEFINE own == {i \in 1..Len(Given(s)) : Given(s)[i].by = e.by}
<1>1. chan[s] \in Seq(Events) /\ handled[s] \in Seq(Events) /\ Len(handled[s]) \in Nat
  BY LenProperties DEF TypeOK
<1>2. 1 \in 1..Len(chan[s]) /\ e \in Events
  BY <1>1, LenProperties, ElementOfSeq
<1>3. e.n \in Nat /\ 1 <= e.n /\ e.n <= calls[e.by] /\ calls[e.by] \in Nat
  BY <1>2 DEF Ordered, Numbered, TypeOK, Events
<1>4. \A i \in 1..Len(handled[s]) : handled[s][i].by = e.by => handled[s][i].n < e.n
  BY <1>2 DEF Ordered, BufferIsNewer
<1>5. /\ Len(Given(s)) = Len(handled[s])
      /\ \A i \in 1..Len(handled[s]) :
           Given(s)[i].by = handled[s][i].by /\ Given(s)[i].n = handled[s][i].n
  BY <1>1, GivenIs DEF Given
<1>6. Contract!Latest(s, e.by) = IF own = {} THEN 0 ELSE
         Given(s)[CHOOSE i \in own : \A j \in own : j <= i].n
  BY DEF Contract!Latest
<1>7. Contract!Latest(s, e.by) \in Nat /\ Contract!Latest(s, e.by) < e.n
  <2>1. CASE own = {}
    BY <1>3, <1>6, <2>1
  <2>2. CASE own # {}
    <3>1. own \in SUBSET (1..Len(handled[s]))
      BY <1>5
    <3> DEFINE last == CHOOSE i \in own : \A j \in own : j <= i
    <3>2. last \in own
      <4> HIDE DEF own
      <4>1. \E i \in own : \A j \in own : j <= i
        BY <1>1, <2>2, <3>1, LastPosition
      <4>2. QED
        BY <4>1
    <3> HIDE DEF last
    <3>3. last \in 1..Len(handled[s]) /\ handled[s][last].by = e.by
      BY <1>5, <3>2
    <3>4. handled[s][last].n \in Nat
      <4>1. handled[s][last] \in Events
        BY <1>1, <3>3, ElementOfSeq
      <4>2. QED
        BY <4>1 DEF Events
    <3>5. Contract!Latest(s, e.by) = handled[s][last].n
      BY <1>5, <1>6, <2>2, <3>3 DEF last
    <3>6. QED
      BY <1>4, <3>3, <3>4, <3>5
  <2>3. QED
    BY <2>1, <2>2
<1>8. QED
  BY <1>2, <1>3, <1>7

LEMMA ContractInit == Init => Contract!Init
<1> SUFFICES ASSUME Init PROVE Contract!Init
  OBVIOUS
<1>1. \A s \in Subscribers : handled[s] = <<>>
  BY DEF Init
<1>2. \A s \in Subscribers : Given(s) = <<>>
  BY <1>1 DEF Given
<1>3. QED
  BY <1>2 DEF Contract!Init, Init

LEMMA ContractStep ==
  TypeOK /\ Ordered /\ [Next]_vars => [Contract!Next]_Contract!vars
<1> SUFFICES ASSUME TypeOK, Ordered, [Next]_vars
             PROVE  [Contract!Next]_Contract!vars
  OBVIOUS
<1>1. ASSUME UNCHANGED <<calls, handled>>
      PROVE  UNCHANGED Contract!vars
  BY <1>1 DEF Contract!vars, Given
<1>2. ASSUME NEW p \in Publishers, NEW id \in Ids, NEW t \in Topics, Publish(p, id, t)
      PROVE  Contract!Publish(p)
  BY <1>2 DEF Publish, Contract!Publish, Given
<1>3. ASSUME NEW s \in Subscribers, Deliver(s)
      PROVE  Contract!Next
  <2> DEFINE e == chan[s][1]
  <2>1. /\ handled[s] \in Seq(Events) /\ e \in Events /\ Len(chan[s]) # 0 /\ UNCHANGED calls
        /\ handled' = [handled EXCEPT ![s] = Append(handled[s], e)]
    BY <1>3, DeliverStep
  <2>2. e.n \in (Contract!Latest(s, e.by) + 1)..calls[e.by]
    BY <2>1, NextIsNewer
  <2>3. e.by \in Publishers /\ e.n \in 1..calls[e.by]
    BY <2>1 DEF Events, Ordered, Numbered
  <2> HIDE DEF e
  <2>4. handled'[s] = Append(handled[s], e) /\ \A q \in Subscribers \ {s} : handled'[q] = handled[q]
    BY <2>1 DEF TypeOK
  <2>5. Given(s)' = Append(Given(s), [by |-> e.by, n |-> e.n])
    <3> DEFINE h == handled[s]
    <3>1. h \in Seq(Events) /\ e \in Events /\ handled'[s] = Append(h, e)
      BY <2>1, <2>4
    <3> HIDE DEF h
    <3>2. [i \in 1..Len(Append(h, e)) |-> [by |-> Append(h, e)[i].by, n |-> Append(h, e)[i].n]]
            = Append([i \in 1..Len(h) |-> [by |-> h[i].by, n |-> h[i].n]], [by |-> e.by, n |-> e.n])
      BY <3>1, GivenAppend
    <3>3. QED
      BY <3>1, <3>2 DEF Given, h
  <2>6. ASSUME NEW q \in Subscribers \ {s} PROVE Given(q)' = Given(q)
    <3>1. handled'[q] = handled[q]
      BY <2>4
    <3>2. QED
      BY <3>1 DEF Given
  <2>7. Contract!Receive(s, e.by, e.n)
    BY <2>1, <2>2, <2>5, <2>6 DEF Contract!Receive
  <2>8. QED
    BY <2>3, <2>7 DEF Contract!Next
<1>4. ASSUME NEW p \in Publishers, NEW s \in Subscribers, PublishSend(p, s)
      PROVE  UNCHANGED Contract!vars
  BY <1>1, <1>4, SendStep
<1>5. ASSUME NEW p \in Publishers, PublishLock(p) \/ PublishReturn(p)
      PROVE  UNCHANGED Contract!vars
  BY <1>1, <1>5 DEF PublishLock, PublishReturn
<1>6. ASSUME NEW s \in Subscribers, Subscribe(s) \/ Unsubscribe(s) \/ HandlerReturns(s)
      PROVE  UNCHANGED Contract!vars
  BY <1>1, <1>6 DEF Subscribe, Unsubscribe, HandlerReturns
<1>7. CASE UNCHANGED vars
  BY <1>1, <1>7 DEF vars
<1>8. QED
  BY <1>2, <1>3, <1>4, <1>5, <1>6, <1>7 DEF Next, PublisherStep, Pump, Contract!Next

LEMMA OrderedInit == Init => Ordered
<1> SUFFICES ASSUME Init PROVE Ordered
  OBVIOUS
<1>1. \A s \in Subscribers : Len(chan[s]) = 0 /\ Len(handled[s]) = 0
  BY DEF Init
<1>2. QED
  BY <1>1 DEF Init, Ordered, Numbered, ComingIsNewer, BufferIsNewer, Coming, Idle

(* The bus keeps the promise of its port: whatever is dropped, a handler is
   given no event twice, none before it was published, and those of one
   publisher in the order of its Publish calls. *)
THEOREM BusKeepsContract == Spec => KeepsContract
<1>1. Init => TypeOK /\ Ordered
  BY TypeInit, OrderedInit
<1>2. TypeOK /\ Ordered /\ [Next]_vars => (TypeOK /\ Ordered)'
  BY TypeStep, OrderedStep
<1>3. QED
  BY <1>1, <1>2, ContractInit, ContractStep, PTL DEF Spec, KeepsContract, Contract!Spec
=============================================================================
