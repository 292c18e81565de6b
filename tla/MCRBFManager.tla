---------------------------- MODULE MCRBFManager ----------------------------
(* Two transactions, three nonces and two attempts each, and a chain whose
   first answer may lie above zero, so that grants, rewinds, attempts and
   acknowledgements meet. *)
EXTENDS RBFManager

MCHashes == {"h1", "h2"}
MCBaseNonces == {0, 1}
=============================================================================
