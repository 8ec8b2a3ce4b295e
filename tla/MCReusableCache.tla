-------------------------- MODULE MCReusableCache --------------------------
(* ReusableCache for TLC: three processes that are alike, two contents, two
   snapshots.                                                              *)
EXTENDS ReusableCache, TLC

CONSTANTS p1, p2, p3, c1, c2, s1, s2

MCProcs     == {p1, p2, p3}
MCContents  == {c1, c2}
MCSnapshots == {s1, s2}
Symmetry    == Permutations(MCProcs) \cup Permutations(MCContents) \cup Permutations(MCSnapshots)
=============================================================================
