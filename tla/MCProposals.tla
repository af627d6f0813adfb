----------------------------- MODULE MCProposals -----------------------------
(***************************************************************************)
(* Proposals for TLC.                                                      *)
(***************************************************************************)
EXTENDS Proposals, TLC

CONSTANTS d1, d2, c1, c2, p1, p2

Symmetry ==
  Permutations({d1, d2}) \cup Permutations({c1, c2}) \cup Permutations({p1, p2})
=============================================================================
