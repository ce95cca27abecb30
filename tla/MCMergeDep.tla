----------------------------- MODULE MCMergeDep -----------------------------
(* Two objects and two headers, which nothing tells apart.                   *)
EXTENDS MergeDep, TLC

Symmetry == Permutations(Objects) \cup Permutations(Headers)
=============================================================================
