----------------------------- MODULE MCAdapters -----------------------------
(* Small values for every part of Adapters. *)
EXTENDS Adapters

CONSTANTS p, q   \* pools of the backtest; model values, other than any number

MCTestedPools == {p, q}

(* Seconds are shrunk: a block of fixture swaps every three, a pool state every
   six.  Windows that are empty, reversed, inside of one another, over up to
   three pool states and of blocks with one, two and three swaps, which are at
   ticks inside and outside of the ranges. *)
MCWindows == {<<0, 15>>, <<12, 15>>, <<1, 11>>, <<5, 12>>,
              <<9, 9>>, <<9, 3>>}
MCTickAt == [t \in 0..15 |-> (t \div 3) % 3]

(* Two signers, one of whom approves while the other signs everything else, and
   slippages from nothing to the whole. *)
MCBuildsOf == [c1 |-> {"approve"},
               c2 |-> {"mint", "decrease", "increase", "rebalance", "collect"}]
MCSlippages == {0, 9999, 10000}

(* Pools worth nothing, little and much, at both ends of the ticks. *)
MCProfiles == {[tvl |-> 10, vol |-> 50, tick |-> 0],
               [tvl |-> 50000, vol |-> 5000, tick |-> 887272],
               [tvl |-> 50000, vol |-> 500000, tick |-> -887272]}

(* Two goroutines that share the port of Anvil, and two blocks, so that an
   answer tells its fork; the other simulators share nothing. *)
MCSimulatorsOf == [c |-> {"anvil", "sol_rpc", "other"}, d |-> {"anvil"}]

(* A node to fork from is configured.  Without one a call with a hash is refused,
   which ends it as a command that does not start, and nothing else differs. *)
MCForks == part = "simulators" => forkURL

(* Pools around the floor, and numbers that do not parse. *)
MCKinds == {[liquidity |-> 5, volume |-> 1], [liquidity |-> 20, volume |-> -1],
            [liquidity |-> -1, volume |-> 0]}
MCTimes == 1..2
=============================================================================
