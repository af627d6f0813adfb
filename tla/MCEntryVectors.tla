--------------------------- MODULE MCEntryVectors ---------------------------
(***************************************************************************)
(* EntryVectors for TLC: a title that no body yields comes by import only. *)
(***************************************************************************)
EXTENDS EntryVectors, TLC

CONSTANTS e1, e2, b1, b2, t1, imported, s1, s2, r1

TwoBodies == {b1, b2}
TwoTitles == {t1, imported}
OneTitle == [b \in TwoBodies |-> t1]

Symmetry ==
  Permutations({e1, e2}) \cup Permutations(TwoBodies) \cup Permutations({s1, s2})
=============================================================================
