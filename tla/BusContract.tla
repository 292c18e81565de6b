----------------------------- MODULE BusContract -----------------------------
(***************************************************************************)
(* What ports/bus.go promises of an in-process bus ("at-most-once          *)
(* delivery"; every subscription receives its own copy): a handler may     *)
(* miss events, but gets none twice, none before it was published, and     *)
(* those of one publisher in the order of its Publish calls.  The promise  *)
(* of Unsubscribe, that the handler is not invoked again, is not part of   *)
(* it, since the bus does not keep it: its pump goes on with the buffer.   *)
(***************************************************************************)
EXTENDS Integers, Sequences

CONSTANTS Publishers, Subscribers

VARIABLES
  sent,   \* per publisher: how many events it has published
  got     \* per subscriber: the events its handler has been given, in order,
          \* each an event of publisher by, the n-th of that publisher

vars == <<sent, got>>

Latest(s, p) ==
  LET own == {i \in 1..Len(got[s]) : got[s][i].by = p} IN
  IF own = {} THEN 0 ELSE got[s][CHOOSE i \in own : \A j \in own : j <= i].n

Publish(p) ==
  /\ sent' = [sent EXCEPT ![p] = @ + 1]
  /\ UNCHANGED got

Receive(s, p, n) ==
  /\ n \in (Latest(s, p) + 1)..sent[p]
  /\ got' = [got EXCEPT ![s] = Append(@, [by |-> p, n |-> n])]
  /\ UNCHANGED sent

Init ==
  /\ sent = [p \in Publishers |-> 0]
  /\ got = [s \in Subscribers |-> <<>>]

Next ==
  \/ \E p \in Publishers : Publish(p)
  \/ \E s \in Subscribers, p \in Publishers :
       \E n \in 1..sent[p] : Receive(s, p, n)

Spec == Init /\ [][Next]_vars
=============================================================================
