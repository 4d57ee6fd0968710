------------------------------ MODULE AtomicKb ------------------------------
(***************************************************************************)
(* What openkb promises of the files of one knowledge base: a protected    *)
(* change appears at once when it commits or not at all, whatever happens  *)
(* to the process that makes it, and a reader sees one committed version   *)
(* for as long as it holds its lease.  Module Mutation implements it, but  *)
(* for what a failed snapshot may leave behind (Clash).                    *)
(*                                                                         *)
(* A commit whose journal write failed after the new journal was in place  *)
(* is in doubt: the old version is kept in fallback until the operation is *)
(* settled, and the knowledge base may still return to it.  Nobody reads   *)
(* or commits meanwhile.                                                   *)
(***************************************************************************)
CONSTANTS
    Page,       \* the files a mutation protects
    Value,      \* what a file can hold, its absence included
    Journal,    \* protected changes
    Process,
    NoVersion   \* no commit is in doubt

VARIABLES
    content,    \* the committed version
    fallback,   \* the version before a commit in doubt, or NoVersion
    draft,      \* the pages of each change in progress, as it has them now
    reading     \* the processes that hold a read lease

vars == <<content, fallback, draft, reading>>

Version == [Page -> Value]
NoDraft == [p \in {} |-> p]

Init ==
    /\ content \in Version
    /\ fallback = NoVersion
    /\ draft = [j \in Journal |-> NoDraft]
    /\ reading = {}

(* A change protects pages no other change in progress protects. *)
Begin(j, S) ==
    /\ reading = {} /\ fallback = NoVersion
    /\ \A k \in Journal : DOMAIN draft[k] \cap S = {}
    /\ draft' = [draft EXCEPT ![j] = [p \in S |-> content[p]]]
    /\ UNCHANGED <<content, fallback, reading>>

Edit(j, p, v) ==
    /\ p \in DOMAIN draft[j]
    /\ draft' = [draft EXCEPT ![j][p] = v]
    /\ UNCHANGED <<content, fallback, reading>>

Commit(j) ==
    /\ reading = {} /\ fallback = NoVersion
    /\ content' = [p \in Page |-> IF p \in DOMAIN draft[j] THEN draft[j][p] ELSE content[p]]
    /\ fallback' \in {NoVersion, content}
    /\ draft' = [draft EXCEPT ![j] = NoDraft]
    /\ UNCHANGED reading

Abandon(j) ==
    /\ draft' = [draft EXCEPT ![j] = NoDraft]
    /\ UNCHANGED <<content, fallback, reading>>

Revert ==
    /\ fallback # NoVersion
    /\ content' = fallback
    /\ fallback' = NoVersion
    /\ UNCHANGED <<draft, reading>>

Settle ==
    /\ fallback' = NoVersion
    /\ UNCHANGED <<content, draft, reading>>

(* The process that makes the changes is gone. *)
Die ==
    /\ draft' = [j \in Journal |-> NoDraft]
    /\ fallback' = NoVersion
    /\ UNCHANGED <<content, reading>>

Enter(p) ==
    /\ fallback = NoVersion
    /\ \A j \in Journal : draft[j] = NoDraft
    /\ reading' = reading \cup {p}
    /\ UNCHANGED <<content, fallback, draft>>

Leave(p) ==
    /\ reading' = reading \ {p}
    /\ UNCHANGED <<content, fallback, draft>>

Next ==
    \/ \E j \in Journal, S \in SUBSET Page : Begin(j, S)
    \/ \E j \in Journal, p \in Page, v \in Value : Edit(j, p, v)
    \/ \E j \in Journal : Commit(j) \/ Abandon(j)
    \/ Revert \/ Settle \/ Die
    \/ \E p \in Process : Enter(p) \/ Leave(p)

Spec == Init /\ [][Next]_vars
=============================================================================
