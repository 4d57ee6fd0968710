------------------------------- MODULE MCFacts -------------------------------
(* Two copies of a text, and a block that can be split.                    *)
EXTENDS Facts

CONSTANTS v, w

U(b, from, to) == [block |-> b, from |-> from, to |-> to]
MCSource == << <<U("a", 1, 1)>>, <<U("b", 1, 1), U("c", 1, 2)>> >>
MCText == [b \in {"a", "b", "c"} |-> IF b = "c" THEN "other" ELSE "same"]
=============================================================================
