--------------------------- MODULE MCPublication ----------------------------
(* TLC instance of Publication: two sources that share one topic.          *)
EXTENDS Publication, TLC

Symmetry == Permutations(Source) \cup Permutations(Basis)
=============================================================================
