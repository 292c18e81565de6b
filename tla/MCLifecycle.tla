---------------------------- MODULE MCLifecycle ----------------------------
(* The watchdog has two goroutines and three runs, so that a loop can outlive
   its Stop and meet the channels of two later runs; the endpoints have a lone
   reader and a caller of the other methods. *)
EXTENDS Lifecycle

MCRunners == {"r1", "r2"}
MCCallers == {"reader", "sender"}
MCKindsOf == [reader |-> {"read"}, sender |-> {"inverted", "once"}]
=============================================================================
