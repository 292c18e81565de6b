------------------------------- MODULE MCReorg -------------------------------
(* One signed transaction and possibly one record without a hash; two
   handlers, which are interchangeable, and a goroutine that follows the
   chain.  What comes after the counter was set back, where nothing is claimed
   of nonces, is left to the theorem. *)
EXTENDS Reorg, TLC

CONSTANTS r1, r2, u1

MCHashes == {"h1"}
MCTxHashes == {"h1", ""}
MCBaseNonces == {0}
MCRecords == {<<"", 0>>}
MCHandlers == {r1, r2}
MCWorkers == MCHandlers \cup {u1}
NotSetBack == ~setBack
MCSymmetry == Permutations(MCHandlers)
=============================================================================
