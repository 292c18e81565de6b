----------------------------- MODULE MCExecution -----------------------------
(* Two callers of each part, and two positions; callers are interchangeable,
   and so are positions. *)
EXTENDS Execution, TLC

CONSTANTS w1, w2, p1, p2

MCCallers == {w1, w2}
MCPositions == {p1, p2}
MCSymmetry == Permutations(MCCallers) \cup Permutations(MCPositions)

(* Two tick ranges; an id is opened twice. *)
MCRanges == {"a", "b"}

(* Two keys, and amounts such that an approval may or may not suffice. *)
MCKeys == {"k1", "k2"}
MCNeeds == {1, 2}
MCPositionIds == {"", "a", "b"}

(* One row; a new record has no status, and a finished one may be stored, too. *)
MCTxHashes == {"h1"}
MCTxRecords == {<<"", 0>>, <<"confirmed", 1>>}

(* A pool that fits one large position and a small one, a pool that fits a
   small one, and a capital of which 30 percent fit less than both pools. *)
MCIds == {"a1", "a2", "c1"}
MCPoolOf == [a1 |-> "A", a2 |-> "A", c1 |-> "C"]
MCLimit == [A |-> 200, C |-> 50]
MCAmounts == {50, 150}

(* Positions that may be opened and closed again; a loss or none. *)
MCFees == {1}
MCLosses == {-3, 0}

(* Two transactions, two calls, and a chain that may drop a block, go on without
   the transaction, or mine it again. *)
MCTxs == {"t1", "t2"}
=============================================================================
