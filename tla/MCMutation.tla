----------------------------- MODULE MCMutation -----------------------------
(* Mutation on two pages, one artifact and two journals. *)
EXTENDS Mutation, TLC

CONSTANTS p1, p2, a1, c1, c2, j1, j2, u1, u2

MCPage == {p1, p2}
MCArtifact == {a1}
MCContent == {c1, c2}
MCJournal == {j1, j2}
MCProcess == {u1, u2}

Symmetry == Permutations(MCPage) \cup Permutations(MCContent)
            \cup Permutations(MCJournal) \cup Permutations(MCProcess)
=============================================================================
