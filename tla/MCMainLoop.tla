----------------------------- MODULE MCMainLoop -----------------------------
(* Values for TLC: the thresholds of DefaultRiskConfig, and amounts that put
   every ratio below, on and above each of them. *)
EXTENDS MainLoop

MCAmounts == {-12, 0, 7, 8, 30, 50, 89, 94, 95, 100}

(* Tier B is not configured: its limit is the zero value. *)
MCTierLimit == [A |-> 1000, B |-> 0, C |-> 50]
=============================================================================
