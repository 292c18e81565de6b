------------------------------ MODULE EventBus ------------------------------
(***************************************************************************)
(* The in-process bus, adapters/bus/inproc/bus.go.  Publish sends to the   *)
(* channel of every matching subscription under the read lock and never    *)
(* blocks; one goroutine per subscription pumps its channel to the         *)
(* handler; Unsubscribe closes the channel under the write lock.           *)
(***************************************************************************)
EXTENDS Integers, Sequences, FiniteSets, Functions

CONSTANTS
  Publishers, Subscribers,
  Ids,              \* event ids; the same event may be published again
  Topics, Filter,   \* topics and each subscription's pattern, as sequences of
                    \* tokens, "." and "*" being tokens of their own
  BufferSize, WildcardBuffer,
  DedupEnabled,
  MaxPublishes      \* bound on the calls of all publishers

ASSUME BufferAssumption ==
  BufferSize \in Nat /\ WildcardBuffer \in Nat /\ MaxPublishes \in Nat
ASSUME DedupAssumption == DedupEnabled \in BOOLEAN
ASSUME FiniteAssumption == IsFiniteSet(Publishers) /\ IsFiniteSet(Subscribers)

VARIABLES
  subs,       \* subscriptions in Bus.subs
  chan,       \* per subscription: the buffered events
  isOpen,     \* per subscription: has its channel been made and not closed
  unsub,      \* subscriptions whose Unsubscribe has returned
  pub,        \* per publisher: the Publish call it is in
  calls,      \* per publisher: its Publish calls so far
  handling,   \* per subscription: the event its handler is at work on
  handled,    \* per subscription: the events given to its handler
  processed,  \* EventDedup: the ids marked
  delivered, dropped   \* the counters of BusMetrics

vars == <<subs, chan, isOpen, unsub, pub, calls, handling, handled, processed,
          delivered, dropped>>

NoEvent == [by |-> "none", n |-> 0]
Idle == [at |-> "idle", event |-> NoEvent, todo |-> {}]

-----------------------------------------------------------------------------
HasPrefix(t, p) == Len(p) <= Len(t) /\ SubSeq(t, 1, Len(p)) = p
HasSuffix(t, p) ==
  Len(p) <= Len(t) /\ SubSeq(t, Len(t) - Len(p) + 1, Len(t)) = p

(* "a.*" is compared by the prefix "a", without its dot. *)
TopicMatches(f, t) ==
  \/ f = <<"*">>
  \/ f = t
  \/ HasSuffix(f, <<".", "*">>) /\ HasPrefix(t, SubSeq(f, 1, Len(f) - 2))
  \/ ~HasSuffix(f, <<".", "*">>) /\ HasPrefix(f, <<"*", ".">>)
       /\ HasSuffix(t, SubSeq(f, 3, Len(f)))

Capacity(s) == IF Filter[s] = <<"*">> THEN WildcardBuffer ELSE BufferSize

Matching(t) == {s \in subs : TopicMatches(Filter[s], t)}

ReadLocked == \E p \in Publishers : pub[p].at = "send"

-----------------------------------------------------------------------------
(* Publish before the lock: count the call and ask the dedup, which knows the
   event or fails; either ends the call. *)
Publish(p, id, t) ==
  /\ pub[p] = Idle /\ SumFunctionOnSet(calls, Publishers) < MaxPublishes
  /\ calls' = [calls EXCEPT ![p] = @ + 1]
  /\ \/ DedupEnabled /\ UNCHANGED pub
     \/ /\ DedupEnabled => id \notin processed
        /\ pub' = [pub EXCEPT ![p] =
             [at |-> "lock", todo |-> {},
              event |-> [by |-> p, n |-> calls[p] + 1, id |-> id, topic |-> t]]]
  /\ UNCHANGED <<subs, chan, isOpen, unsub, handling, handled, processed,
                 delivered, dropped>>

PublishLock(p) ==
  /\ pub[p].at = "lock"
  /\ pub' = [pub EXCEPT ![p].at = "send", ![p].todo = Matching(pub[p].event.topic)]
  /\ UNCHANGED <<subs, chan, isOpen, unsub, calls, handling, handled, processed,
                 delivered, dropped>>

(* Mutant: the buffer has no limit. *)
PublishSendUnbounded(p, s) ==
  /\ pub[p].at = "send" /\ s \in pub[p].todo
  /\ pub' = [pub EXCEPT ![p].todo = @ \ {s}]
  /\ chan' = [chan EXCEPT ![s] = Append(@, pub[p].event)]
  /\ delivered' = delivered + 1
  /\ UNCHANGED <<subs, isOpen, unsub, calls, handling, handled, processed, dropped>>

(* Mutants: a dropped event is counted as delivered, and the send waits for
   room. *)
PublishSendCounted(p, s) ==
  /\ pub[p].at = "send" /\ s \in pub[p].todo
  /\ pub' = [pub EXCEPT ![p].todo = @ \ {s}]
  /\ \/ Len(chan[s]) < Capacity(s) /\ chan' = [chan EXCEPT ![s] = Append(@, pub[p].event)]
     \/ Len(chan[s]) >= Capacity(s) /\ UNCHANGED chan
  /\ delivered' = delivered + 1
  /\ UNCHANGED <<subs, isOpen, unsub, calls, handling, handled, processed, dropped>>

PublishSendBlocking(p, s) ==
  /\ pub[p].at = "send" /\ s \in pub[p].todo
  /\ Len(chan[s]) < Capacity(s)
  /\ pub' = [pub EXCEPT ![p].todo = @ \ {s}]
  /\ chan' = [chan EXCEPT ![s] = Append(@, pub[p].event)]
  /\ delivered' = delivered + 1
  /\ UNCHANGED <<subs, isOpen, unsub, calls, handling, handled, processed, dropped>>

(* A send that would block drops the event. *)
PublishSend(p, s) ==
  /\ pub[p].at = "send" /\ s \in pub[p].todo
  /\ pub' = [pub EXCEPT ![p].todo = @ \ {s}]
  /\ \/ /\ Len(chan[s]) < Capacity(s)
        /\ chan' = [chan EXCEPT ![s] = Append(@, pub[p].event)]
        /\ delivered' = delivered + 1
        /\ UNCHANGED dropped
     \/ /\ Len(chan[s]) >= Capacity(s)
        /\ dropped' = dropped + 1
        /\ UNCHANGED <<chan, delivered>>
  /\ UNCHANGED <<subs, isOpen, unsub, calls, handling, handled, processed>>

PublishReturn(p) ==
  /\ pub[p].at = "send" /\ pub[p].todo = {}
  /\ pub' = [pub EXCEPT ![p] = Idle]
  /\ UNCHANGED <<subs, chan, isOpen, unsub, calls, handling, handled, processed,
                 delivered, dropped>>

Subscribe(s) ==
  /\ ~ReadLocked
  /\ s \notin subs \cup unsub
  /\ subs' = subs \cup {s}
  /\ isOpen' = [isOpen EXCEPT ![s] = TRUE]
  /\ UNCHANGED <<chan, unsub, pub, calls, handling, handled, processed,
                 delivered, dropped>>

(* Mutant: the channel is closed without the write lock. *)
UnsubscribeUnlocked(s) ==
  /\ s \in subs
  /\ subs' = subs \ {s}
  /\ isOpen' = [isOpen EXCEPT ![s] = FALSE]
  /\ unsub' = unsub \cup {s}
  /\ UNCHANGED <<chan, pub, calls, handling, handled, processed, delivered, dropped>>

(* Closing leaves the buffer to the pump; a second call finds nothing. *)
Unsubscribe(s) ==
  /\ ~ReadLocked
  /\ s \in subs
  /\ subs' = subs \ {s}
  /\ isOpen' = [isOpen EXCEPT ![s] = FALSE]
  /\ unsub' = unsub \cup {s}
  /\ UNCHANGED <<chan, pub, calls, handling, handled, processed, delivered, dropped>>

(* Mutant: the event stays in the buffer. *)
DeliverAgain(s) ==
  /\ handling[s] = NoEvent /\ chan[s] # <<>>
  /\ handling' = [handling EXCEPT ![s] = Head(chan[s])]
  /\ handled' = [handled EXCEPT ![s] = Append(@, Head(chan[s]))]
  /\ UNCHANGED <<chan, subs, isOpen, unsub, pub, calls, processed, delivered, dropped>>

(* deliver: range over the channel, open or closed, calls the handler. *)
Deliver(s) ==
  /\ handling[s] = NoEvent /\ chan[s] # <<>>
  /\ handling' = [handling EXCEPT ![s] = Head(chan[s])]
  /\ handled' = [handled EXCEPT ![s] = Append(@, Head(chan[s]))]
  /\ chan' = [chan EXCEPT ![s] = Tail(@)]
  /\ UNCHANGED <<subs, isOpen, unsub, pub, calls, processed, delivered, dropped>>

(* The handler returns, with an error or not, and may have marked the event. *)
HandlerReturns(s) ==
  /\ handling[s] # NoEvent
  /\ handling' = [handling EXCEPT ![s] = NoEvent]
  /\ processed' \in {processed, processed \cup {handling[s].id}}
  /\ UNCHANGED <<subs, chan, isOpen, unsub, pub, calls, handled, delivered, dropped>>

-----------------------------------------------------------------------------
Init ==
  /\ subs = {} /\ unsub = {} /\ processed = {}
  /\ chan = [s \in Subscribers |-> <<>>]
  /\ isOpen = [s \in Subscribers |-> FALSE]
  /\ pub = [p \in Publishers |-> Idle]
  /\ calls = [p \in Publishers |-> 0]
  /\ handling = [s \in Subscribers |-> NoEvent]
  /\ handled = [s \in Subscribers |-> <<>>]
  /\ delivered = 0 /\ dropped = 0

PublisherStep(p) ==
  \/ PublishLock(p)
  \/ \E s \in Subscribers : PublishSend(p, s)
  \/ PublishReturn(p)

Pump(s) == Deliver(s) \/ HandlerReturns(s)

Next ==
  \/ \E p \in Publishers, id \in Ids, t \in Topics : Publish(p, id, t)
  \/ \E p \in Publishers : PublisherStep(p)
  \/ \E s \in Subscribers : Subscribe(s) \/ Unsubscribe(s) \/ Pump(s)

Spec == Init /\ [][Next]_vars

(* A publisher within Publish is scheduled; nothing is assumed of handlers,
   which may hang in an event for ever, nor of the pumps behind them. *)
FairSpec == Spec /\ \A p \in Publishers : WF_vars(PublisherStep(p))

-----------------------------------------------------------------------------
Events == [by : Publishers, n : 1..MaxPublishes, id : Ids, topic : Topics]

(* Types of the bus; a buffer never holds more than its capacity. *)
TypeOK ==
  /\ subs \subseteq Subscribers /\ unsub \subseteq Subscribers
  /\ processed \subseteq Ids
  /\ isOpen \in [Subscribers -> BOOLEAN]
  /\ calls \in [Publishers -> 0..MaxPublishes]
  /\ pub \in [Publishers -> {Idle} \cup [at : {"lock", "send"}, event : Events,
                                         todo : SUBSET Subscribers]]
  /\ chan \in [Subscribers -> Seq(Events)] /\ handled \in [Subscribers -> Seq(Events)]
  /\ handling \in [Subscribers -> Events \cup {NoEvent}]
  /\ \A s \in Subscribers : Len(chan[s]) <= Capacity(s)
  /\ delivered \in Nat /\ dropped \in Nat

(* A Publish under way never sends on a closed channel, which would panic:
   Unsubscribe waits for the read lock. *)
NoSendOnClosedChannel ==
  \A p \in Publishers : \A s \in pub[p].todo : isOpen[s]

(* The events counted as delivered are those in a buffer or with a handler:
   the full buffer's are not among them, and what an Unsubscribe finds in the
   buffer is, for the pump goes on with it. *)
DeliveredIsAccountedFor ==
  delivered = SumFunctionOnSet([s \in Subscribers |-> Len(chan[s]) + Len(handled[s])],
                               Subscribers)

(* However Unsubscribe falls into a Publish: neither a panic nor a loss. *)
UnsubscribeIsSafe == NoSendOnClosedChannel /\ DeliveredIsAccountedFor

(* The bus keeps the promise of the port: lossy, at most once, in order of
   each publisher. *)
Given(s) == [i \in 1..Len(handled[s]) |->
               [by |-> handled[s][i].by, n |-> handled[s][i].n]]
Contract == INSTANCE BusContract WITH
              sent <- calls, got <- [s \in Subscribers |-> Given(s)]
KeepsContract == Contract!Spec

(* ports/bus.go of Publish: "It returns immediately after enqueueing": a Publish
   comes to its end though handlers hang and buffers are full. *)
PublishNeverWaits == \A p \in Publishers : pub[p] # Idle ~> pub[p] = Idle
=============================================================================
