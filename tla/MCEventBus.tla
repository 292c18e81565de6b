----------------------------- MODULE MCEventBus -----------------------------
(* Two publishers and two subscriptions, one with a suffix wildcard and a
   buffer of one event, one with the full wildcard and a larger one. *)
EXTENDS EventBus

MCTopics == {<<"tick", ".", "scored">>}
MCSubscribers == {"s1", "s2"}
MCPublishers == {"p1", "p2"}
MCFilter == [s \in {"s1", "s2"} |->
               IF s = "s1" THEN <<"tick", ".", "*">> ELSE <<"*">>]
=============================================================================
