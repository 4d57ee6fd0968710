----------------------------- MODULE MCLifecycle -----------------------------
(* Lifecycle on three processes, as many directories and generations as    *)
(* they can refer to at once.                                              *)
EXTENDS Lifecycle, TLC

CONSTANTS o1, o2, o3, d1, d2, d3, g1, g2, g3

MCProc == {o1, o2, o3}
MCDir == {d1, d2, d3}
MCGeneration == {g1, g2, g3}

Symmetry == Permutations(MCProc) \cup Permutations(MCDir) \cup Permutations(MCGeneration)
=============================================================================
