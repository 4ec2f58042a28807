---------------------------- MODULE MCGraphCache ----------------------------
(* The graph cache with symmetric graphs, jobs and encodings.               *)
EXTENDS GraphCache, TLC

Symmetry == Permutations(Graph) \cup Permutations(Job) \cup Permutations(Pe)
=============================================================================
