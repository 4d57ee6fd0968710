--------------------------- MODULE MCMutationLive ---------------------------
(* MutationLive on one page, one artifact and two journals, with journals that *)
(* lose their backups; no symmetry, it has liveness.                          *)
EXTENDS MutationLive

CONSTANTS p1, a1, c1, j1, j2, u1, u2
=============================================================================
