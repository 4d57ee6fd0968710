------------------------------ MODULE Mutation ------------------------------
(***************************************************************************)
(* The mutation journal of one knowledge base (openkb/mutation.py), with   *)
(* the part of kb_lock that drains it (openkb/locks.py) and the controlled *)
(* repair (openkb/application/repair.py).                                  *)
(*                                                                         *)
(* Files live on disk and survive a crash: live, status, targets, backup,  *)
(* staged, marker.  Everything else is the memory of the process that      *)
(* holds the write lease, or the OS lock itself, and dies with it.         *)
(*                                                                         *)
(* Abstractions.  A protected path is a file or a whole tree and its       *)
(* content one value.  A journal name is a uuid: an identifier is reused   *)
(* only once nothing of it is left on disk.  A write that fails does so    *)
(* before or after the rename that makes it visible.                       *)
(***************************************************************************)
EXTENDS Naturals

CONSTANTS
    Page,        \* paths a mutation snapshots before it starts
    Artifact,    \* paths that get their name while a mutation runs
    Content,
    Absent,      \* there is no file
    Journal,     \* journal names
    Process,
    NoPath, NoJournal, NoProc, NoVersion,
    MaxDepth     \* how deep mutation scopes nest

ASSUME ConstantsAssumption ==
    /\ Page \cap Artifact = {}
    /\ NoPath \notin Page \cup Artifact
    /\ Absent \notin Content
    /\ NoJournal \notin Journal
    /\ NoProc \notin Process
    /\ MaxDepth \in Nat \ {0}
    /\ NoVersion \notin [Page -> Content \cup {Absent}]

Path == Page \cup Artifact
Value == Content \cup {Absent}
Depth == 0 .. MaxDepth

VARIABLES
    live,       \* the knowledge base's own files
    status,     \* the status in each journal file, "none" when there is no file
    targets,    \* the entries of each journal
    backup,     \* the backup of each entry, Absent when the entry has none
    staged,     \* the journal's backup directory exists
    marker,     \* needs-repair.json exists
    torn,       \* history: the journals a failed snapshot left on disk; nothing reads it
    writer,     \* the process that holds ingest.lock exclusively
    readers,    \* the processes that hold it shared
    ctx,        \* on whose behalf the writer acts: "scope", "drain" or "repair"
    pc,         \* where it is
    exc,        \* the exception that unwinds its scopes: "none", "error", "recovery"
    level,      \* the nesting level of each open scope, 0 for a journal not in memory
    cur,        \* the journal in hand
    todo,       \* the journals recovery has still to visit
    done,       \* the entries the rollback in hand has restored
    inhand      \* the path between two steps of a rollback or of track_new

disk == <<live, status, targets, backup, staged, marker, torn>>
memory == <<ctx, pc, exc, level, cur, todo, done, inhand>>
vars == <<live, status, targets, backup, staged, marker, torn, writer, readers,
          ctx, pc, exc, level, cur, todo, done, inhand>>

Open == {"active", "recovering"}            \* the mutation is not decided
Terminal == {"committed", "rolled_back"}    \* only the files of the journal are left

Pending == {j \in Journal : status[j] # "none"}
Undecided(j, p) == status[j] \in Open /\ p \in targets[j]

NoBackup == [p \in Path |-> Absent]

(* The scopes in progress are nested: only the innermost one acts. *)
Top(j) == level[j] > 0 /\ \A k \in Journal : level[k] <= level[j]
NoScope == \A j \in Journal : level[j] = 0

TypeOK ==
    /\ live \in [Path -> Value]
    /\ status \in [Journal -> Open \cup Terminal \cup {"none"}]
    /\ targets \in [Journal -> SUBSET Path]
    /\ backup \in [Journal -> [Path -> Value]]
    /\ staged \in [Journal -> BOOLEAN]
    /\ marker \in BOOLEAN
    /\ torn \subseteq Journal
    /\ writer \in Process \cup {NoProc}
    /\ readers \subseteq Process
    /\ ctx \in {"none", "scope", "drain", "repair"}
    /\ pc \in {"idle", "drain", "work", "staging", "created", "unwind", "raised",
               "rollback", "discard", "unlink", "check"}
    /\ exc \in {"none", "error", "recovery"}
    /\ level \in [Journal -> Depth]
    /\ cur \in Journal \cup {NoJournal}
    /\ todo \subseteq Journal
    /\ done \subseteq Path
    /\ inhand \in Path \cup {NoPath}

Init ==
    /\ live \in [Path -> Value]
    /\ \A a \in Artifact : live[a] = Absent
    /\ status = [j \in Journal |-> "none"]
    /\ targets = [j \in Journal |-> {}]
    /\ backup = [j \in Journal |-> NoBackup]
    /\ staged = [j \in Journal |-> FALSE]
    /\ marker = FALSE
    /\ torn = {}
    /\ writer = NoProc
    /\ readers = {}
    /\ ctx = "none" /\ pc = "idle" /\ exc = "none"
    /\ level = [j \in Journal |-> 0]
    /\ cur = NoJournal /\ todo = {} /\ done = {} /\ inhand = NoPath

(* Leaving the lease, in order or by a crash: the memory is gone. *)
Forget ==
    /\ writer' = NoProc
    /\ ctx' = "none" /\ pc' = "idle" /\ exc' = "none"
    /\ level' = [j \in Journal |-> 0]
    /\ cur' = NoJournal /\ todo' = {} /\ done' = {} /\ inhand' = NoPath
    /\ UNCHANGED readers

(* mark_needs_repair is itself best effort: the marker may not reach the disk. *)
MarkNeedsRepair == marker' \in {marker, TRUE}

-----------------------------------------------------------------------------
(* Leases: kb_lock and kb_repair_lock. *)

(* Mutant: the drain does not look at the marker. *)
AcquireWriteUngated(p) ==
    /\ writer = NoProc /\ readers = {}
    /\ writer' = p
    /\ ctx' = "drain" /\ pc' = "drain"
    /\ todo' = Pending
    /\ UNCHANGED <<disk, readers, exc, level, cur, done, inhand>>

(* Mutant: a writer starts to work without draining. *)
AcquireWriteUndrained(p) ==
    /\ writer = NoProc /\ readers = {}
    /\ ~marker
    /\ writer' = p
    /\ ctx' = "scope" /\ pc' = "work"
    /\ UNCHANGED <<disk, readers, exc, level, cur, todo, done, inhand>>

(* A writer that finds the marker raises RecoveryRequired and leaves the   *)
(* lease at once, which changes nothing; otherwise it drains first.        *)
AcquireWrite(p) ==
    /\ writer = NoProc /\ readers = {}
    /\ ~marker
    /\ writer' = p
    /\ ctx' = "drain" /\ pc' = "drain"
    /\ todo' = Pending
    /\ UNCHANGED <<disk, readers, exc, level, cur, done, inhand>>

(* Repair looks past the marker. *)
AcquireRepair(p) ==
    /\ writer = NoProc /\ readers = {}
    /\ writer' = p
    /\ ctx' = "repair" /\ pc' = "drain"
    /\ todo' = Pending
    /\ UNCHANGED <<disk, readers, exc, level, cur, done, inhand>>

(* Mutant: a reader looks for the marker only. *)
AcquireReadGateOnly(p) ==
    /\ writer = NoProc
    /\ p \notin readers
    /\ ~marker
    /\ readers' = readers \cup {p}
    /\ UNCHANGED <<disk, writer, memory>>

(* A reader that finds pending recovery lets go of its shared lease and    *)
(* drains as a writer before it asks for the shared lease again.           *)
AcquireRead(p) ==
    /\ writer = NoProc
    /\ p \notin readers
    /\ ~marker /\ Pending = {}
    /\ readers' = readers \cup {p}
    /\ UNCHANGED <<disk, writer, memory>>

ReleaseRead(p) ==
    /\ p \in readers
    /\ readers' = readers \ {p}
    /\ UNCHANGED <<disk, writer, memory>>

ReleaseWrite ==
    /\ pc \in {"work", "raised"} /\ NoScope
    /\ Forget
    /\ UNCHANGED disk

Crash ==
    /\ writer # NoProc
    /\ Forget
    /\ UNCHANGED disk

-----------------------------------------------------------------------------
(* A mutation scope: snapshot, body, commit. *)

(* snapshot_paths makes the backup directory before anything else. *)
BeginSnapshot(j) ==
    /\ pc = "work"
    /\ status[j] = "none" /\ ~staged[j] /\ level[j] = 0
    /\ \A k \in Journal : level[k] < MaxDepth
    /\ staged' = [staged EXCEPT ![j] = TRUE]
    /\ cur' = j /\ pc' = "staging"
    /\ UNCHANGED <<live, status, targets, backup, marker, torn, writer, readers,
                   ctx, exc, level, todo, done, inhand>>

OpenScopePaths == UNION {targets[k] : k \in {i \in Journal : level[i] > 0}}

(* Every target is copied and the journal written: from here on another    *)
(* process can undo the mutation.  A nested scope takes other paths than   *)
(* the scopes around it (the diff of an archived artifact, for one).       *)
WriteJournal(S) ==
    /\ pc = "staging"
    /\ S \cap OpenScopePaths = {}
    /\ status' = [status EXCEPT ![cur] = "active"]
    /\ targets' = [targets EXCEPT ![cur] = S]
    /\ backup' = [backup EXCEPT ![cur] =
                    [p \in Path |-> IF p \in S THEN live[p] ELSE Absent]]
    /\ \E d \in 1 .. MaxDepth :
         /\ \A k \in Journal : level[k] < d
         /\ d = 1 \/ \E k \in Journal : level[k] = d - 1
         /\ level' = [level EXCEPT ![cur] = d]
    /\ cur' = NoJournal /\ pc' = "work"
    /\ UNCHANGED <<live, staged, marker, torn, writer, readers, ctx, exc, todo, done, inhand>>

(* A failed snapshot removes its backup directory (ignoring errors) and    *)
(* raises; an interrupt leaves the directory behind.                       *)
SnapshotFails ==
    /\ pc = "staging"
    /\ \E left \in BOOLEAN : staged' = [staged EXCEPT ![cur] = left]
    /\ exc' = "error" /\ cur' = NoJournal /\ pc' = "raised"
    /\ UNCHANGED <<live, status, targets, backup, marker, torn, writer, readers,
                   ctx, level, todo, done, inhand>>

(* The same when the journal was already renamed into place and flushing   *)
(* its directory failed: the file stays, its backups do not.               *)
SnapshotFailsLate(S) ==
    /\ pc = "staging"
    /\ S \cap OpenScopePaths = {}
    /\ status' = [status EXCEPT ![cur] = "active"]
    /\ targets' = [targets EXCEPT ![cur] = S]
    /\ backup' = [backup EXCEPT ![cur] =
                    [p \in Path |-> IF p \in S THEN live[p] ELSE Absent]]
    /\ \E left \in BOOLEAN : staged' = [staged EXCEPT ![cur] = left]
    /\ torn' = torn \cup {cur}
    /\ exc' = "error" /\ cur' = NoJournal /\ pc' = "raised"
    /\ UNCHANGED <<live, marker, writer, readers, ctx, level, todo, done, inhand>>

Write(j, p, v) ==
    /\ pc = "work" /\ Top(j)
    /\ p \in targets[j]
    /\ live' = [live EXCEPT ![p] = v]
    /\ UNCHANGED <<status, targets, backup, staged, marker, torn, writer, readers, memory>>

(* The body makes a file under a name nobody knew before, then registers   *)
(* it with track_new.                                                      *)
CreateArtifact(a, v) ==
    /\ pc = "work" /\ ~NoScope
    /\ live[a] = Absent
    /\ \A k \in Journal : ~Undecided(k, a)
    /\ live' = [live EXCEPT ![a] = v]
    /\ inhand' = a /\ pc' = "created"
    /\ UNCHANGED <<status, targets, backup, staged, marker, torn, writer, readers,
                   ctx, exc, level, cur, todo, done>>

TrackNew(j) ==
    /\ pc = "created" /\ Top(j)
    /\ targets' = [targets EXCEPT ![j] = @ \cup {inhand}]
    /\ backup' = [backup EXCEPT ![j][inhand] = Absent]
    /\ inhand' = NoPath /\ pc' = "work"
    /\ UNCHANGED <<live, status, staged, marker, torn, writer, readers,
                   ctx, exc, level, cur, todo, done>>

(* The entry is in memory before the journal is rewritten, so a rollback   *)
(* in this process still knows it.                                         *)
TrackNewFails ==
    /\ pc = "created"
    /\ exc' = "error" /\ pc' = "unwind"
    /\ UNCHANGED <<disk, writer, readers, ctx, level, cur, todo, done, inhand>>

(* The body raises, or check_cancelled does before the commit. *)
BodyFails ==
    /\ pc \in {"work", "created"} /\ ~NoScope
    /\ exc' = "error" /\ pc' = "unwind" /\ inhand' = NoPath
    /\ UNCHANGED <<disk, writer, readers, ctx, level, cur, todo, done>>

(* Mutant: the backups go without a committed status in the journal. *)
CommitUnmarked(j) ==
    /\ pc = "work" /\ Top(j)
    /\ cur' = j /\ pc' = "discard"
    /\ UNCHANGED <<live, status, targets, backup, staged, marker, torn, writer, readers,
                   ctx, exc, level, todo, done, inhand>>

(* mark_committed: the journal's status is the commit point. *)
Commit(j) ==
    /\ pc = "work" /\ Top(j)
    /\ status' = [status EXCEPT ![j] = "committed"]
    /\ cur' = j /\ pc' = "discard"
    /\ UNCHANGED <<live, targets, backup, staged, marker, torn, writer, readers,
                   ctx, exc, level, todo, done, inhand>>

(* mark_committed raises, with the new status on disk or without it. *)
CommitFails(j) ==
    /\ pc = "work" /\ Top(j)
    /\ status' \in {status, [status EXCEPT ![j] = "committed"]}
    /\ exc' = "error" /\ pc' = "unwind"
    /\ UNCHANGED <<live, targets, backup, staged, marker, torn, writer, readers,
                   ctx, level, cur, todo, done, inhand>>

-----------------------------------------------------------------------------
(* Rollback and discard, for a scope and for recovery alike. *)

(* The scope's exception handler, for an exception of its own body         *)
(* ("unwind") or one that a scope within it let through ("raised"), which  *)
(* the body did not catch.  rollback announces itself in the journal  *)
(* before it touches a live file.                                          *)
Abort(j) ==
    /\ pc \in {"unwind", "raised"} /\ Top(j)
    /\ status' = [status EXCEPT ![j] = "recovering"]
    /\ targets' = [targets EXCEPT ![j] = @ \cup ({inhand} \ {NoPath})]
    /\ cur' = j /\ pc' = "rollback" /\ done' = {} /\ inhand' = NoPath
    /\ UNCHANGED <<live, backup, staged, marker, torn, writer, readers, ctx, exc, level, todo>>

(* A failed rollback of a scope keeps the journal and the backups, asks    *)
(* for the marker and turns the exception into RecoveryRequired.           *)
ScopeRollbackFailed(j) ==
    /\ MarkNeedsRepair
    /\ level' = [level EXCEPT ![j] = 0]
    /\ exc' = "recovery" /\ pc' = "raised"
    /\ cur' = NoJournal /\ done' = {} /\ inhand' = NoPath
    /\ UNCHANGED <<writer, readers, ctx, todo>>

(* The announcement itself cannot be written. *)
AbortFails(j) ==
    /\ pc \in {"unwind", "raised"} /\ Top(j)
    /\ ScopeRollbackFailed(j)
    /\ UNCHANGED <<live, status, targets, backup, staged, torn>>

(* Restoring one entry: remove the live path, then copy the backup.  The   *)
(* two are apart, and so are the entries.                                  *)
RemoveTarget(p) ==
    /\ pc = "rollback" /\ inhand = NoPath
    /\ p \in targets[cur] \ done
    /\ live' = [live EXCEPT ![p] = Absent]
    /\ inhand' = p
    /\ UNCHANGED <<status, targets, backup, staged, marker, torn, writer, readers,
                   ctx, pc, exc, level, cur, todo, done>>

RestoreTarget ==
    /\ pc = "rollback" /\ inhand # NoPath
    /\ live' = [live EXCEPT ![inhand] = backup[cur][inhand]]
    /\ done' = done \cup {inhand} /\ inhand' = NoPath
    /\ UNCHANGED <<status, targets, backup, staged, marker, torn, writer, readers,
                   ctx, pc, exc, level, cur, todo>>

FinishRollbackEarly ==  \* Mutant: some entries are not restored.
    /\ pc = "rollback" /\ inhand = NoPath
    /\ status' = [status EXCEPT ![cur] = "rolled_back"]
    /\ done' = {} /\ pc' = "discard"
    /\ UNCHANGED <<live, targets, backup, staged, marker, torn, writer, readers,
                   ctx, exc, level, cur, todo, inhand>>

FinishRollback ==
    /\ pc = "rollback" /\ inhand = NoPath /\ done = targets[cur]
    /\ status' = [status EXCEPT ![cur] = "rolled_back"]
    /\ done' = {} /\ pc' = "discard"
    /\ UNCHANGED <<live, targets, backup, staged, marker, torn, writer, readers,
                   ctx, exc, level, cur, todo, inhand>>

(* The status a failing rollback leaves: its last write may have landed. *)
LateFinish ==
    IF inhand = NoPath /\ done = targets[cur]
    THEN {status, [status EXCEPT ![cur] = "rolled_back"]}
    ELSE {status}

ScopeRollbackFails ==
    /\ pc = "rollback" /\ ctx = "scope"
    /\ status' \in LateFinish
    /\ ScopeRollbackFailed(cur)
    /\ UNCHANGED <<live, targets, backup, staged, torn>>

(* discard: the backups first, then the journal.  rmtree ignores errors. *)
DiscardBackup ==
    /\ pc = "discard"
    /\ \E left \in BOOLEAN : staged' = [staged EXCEPT ![cur] = left]
    /\ pc' = "unlink"
    /\ UNCHANGED <<live, status, targets, backup, marker, torn, writer, readers,
                   ctx, exc, level, cur, todo, done, inhand>>

(* Where control goes once the journal in hand is dealt with. *)
Proceed ==
    /\ level' = [level EXCEPT ![cur] = 0]
    /\ todo' = todo \ {cur}
    /\ pc' = IF ctx # "scope" THEN "drain" ELSE IF exc = "none" THEN "work" ELSE "raised"
    /\ cur' = NoJournal
    /\ UNCHANGED <<writer, readers, ctx, exc, done, inhand>>

UnlinkJournal ==
    /\ pc = "unlink"
    /\ status' = [status EXCEPT ![cur] = "none"]
    /\ targets' = [targets EXCEPT ![cur] = {}]
    /\ backup' = [backup EXCEPT ![cur] = NoBackup]
    /\ torn' = torn \ {cur}
    /\ Proceed
    /\ UNCHANGED <<live, staged, marker>>

(* discard_best_effort: a scope goes on, the decided journal stays. *)
ScopeUnlinkFails ==
    /\ pc = "unlink" /\ ctx = "scope"
    /\ Proceed
    /\ UNCHANGED disk

(* Mutant: RecoveryRequired is caught like any other exception. *)
CatchAnyError ==
    /\ pc = "raised"
    /\ exc' = "none" /\ pc' = "work"
    /\ UNCHANGED <<disk, writer, readers, ctx, level, cur, todo, done, inhand>>

(* The code around a scope takes its ordinary failure for an answer and    *)
(* goes on; nothing catches RecoveryRequired before the lease is released. *)
CatchError ==
    /\ pc = "raised" /\ exc = "error"
    /\ exc' = "none" /\ pc' = "work"
    /\ UNCHANGED <<disk, writer, readers, ctx, level, cur, todo, done, inhand>>

-----------------------------------------------------------------------------
(* recover_pending_journals, by whoever drains or repairs. *)

DrainTerminal(j) ==
    /\ pc = "drain" /\ j \in todo
    /\ status[j] \in Terminal
    /\ cur' = j /\ pc' = "discard"
    /\ UNCHANGED <<disk, writer, readers, ctx, exc, level, todo, done, inhand>>

(* Every backup the journal names must be there. *)
Valid(j) == staged[j] \/ \A p \in targets[j] : backup[j][p] = Absent

(* Mutant: nobody, repair included, takes up an unfinished restoration. *)
MayRollBackOnce(j) ==
    /\ status[j] = "active"
    /\ Valid(j)

(* Mutant: ordinary recovery takes up an unfinished restoration. *)
MayRollBackAgain(j) ==
    /\ status[j] \in Open
    /\ Valid(j)

(* Only repair resumes a restoration that did not finish. *)
MayRollBack(j) ==
    /\ status[j] \in Open
    /\ Valid(j)
    /\ status[j] = "recovering" => ctx = "repair"

DrainRollback(j) ==
    /\ pc = "drain" /\ j \in todo
    /\ MayRollBack(j)
    /\ status' = [status EXCEPT ![j] = "recovering"]
    /\ cur' = j /\ pc' = "rollback" /\ done' = {}
    /\ UNCHANGED <<live, targets, backup, staged, marker, torn, writer, readers,
                   ctx, exc, level, todo, inhand>>

(* Mutant: recovery tries again what failed, with the lease in hand. *)
RecoveryTriesAgain ==
    /\ MarkNeedsRepair
    /\ pc' = "drain"
    /\ cur' = NoJournal /\ done' = {} /\ inhand' = NoPath
    /\ UNCHANGED <<writer, readers, ctx, exc, level, todo>>

(* Any failure asks for the marker and gives up the lease. *)
RecoveryFailed == MarkNeedsRepair /\ Forget

DrainRefuses(j) ==
    /\ pc = "drain" /\ j \in todo
    /\ status[j] \in Open /\ ~MayRollBack(j)
    /\ RecoveryFailed
    /\ UNCHANGED <<live, status, targets, backup, staged, torn>>

DrainFails ==
    /\ \/ pc = "drain" /\ todo # {}
       \/ pc = "unlink" /\ ctx # "scope"
    /\ RecoveryFailed
    /\ UNCHANGED <<live, status, targets, backup, staged, torn>>

DrainRollbackFails ==
    /\ pc = "rollback" /\ ctx # "scope"
    /\ status' \in LateFinish
    /\ RecoveryFailed
    /\ UNCHANGED <<live, targets, backup, staged, torn>>

DrainDone ==
    /\ pc = "drain" /\ todo = {}
    /\ IF ctx = "drain" THEN ctx' = "scope" /\ pc' = "work"
                        ELSE ctx' = ctx /\ pc' = "check"
    /\ UNCHANGED <<disk, writer, readers, exc, level, cur, todo, done, inhand>>

(* repair_knowledge_base: the storage checks, then the marker goes. *)
RepairPasses ==
    /\ pc = "check"
    /\ marker' = FALSE
    /\ Forget
    /\ UNCHANGED <<live, status, targets, backup, staged, torn>>

RepairFails ==
    /\ pc = "check"
    /\ MarkNeedsRepair
    /\ Forget
    /\ UNCHANGED <<live, status, targets, backup, staged, torn>>

-----------------------------------------------------------------------------
Lease ==
    \/ \E p \in Process : AcquireWrite(p) \/ AcquireRepair(p)
    \/ \E p \in Process : AcquireRead(p) \/ ReleaseRead(p)
    \/ ReleaseWrite

Body ==
    \/ \E j \in Journal : BeginSnapshot(j)
    \/ \E S \in SUBSET Page : WriteJournal(S)
    \/ \E j \in Journal, p \in Path, v \in Value : Write(j, p, v)
    \/ \E a \in Artifact, v \in Content : CreateArtifact(a, v)
    \/ \E j \in Journal : TrackNew(j) \/ Commit(j)
    \/ CatchError

(* Undoing, discarding and draining: code that runs to its end by itself. *)
Settle ==
    \/ \E j \in Journal : Abort(j)
    \/ \E p \in Path : RemoveTarget(p)
    \/ RestoreTarget \/ FinishRollback
    \/ DiscardBackup \/ UnlinkJournal
    \/ \E j \in Journal : DrainTerminal(j) \/ DrainRollback(j) \/ DrainRefuses(j)
    \/ DrainDone
    \/ RepairPasses

(* What goes wrong: I/O errors, exceptions, cancellation, a killed process. *)
Fault ==
    \/ SnapshotFails
    \/ \E S \in SUBSET Page : SnapshotFailsLate(S)
    \/ TrackNewFails \/ BodyFails
    \/ \E j \in Journal : CommitFails(j) \/ AbortFails(j)
    \/ ScopeRollbackFails \/ ScopeUnlinkFails
    \/ DrainFails \/ DrainRollbackFails \/ RepairFails
    \/ Crash

Next == Lease \/ Body \/ Settle \/ Fault

Spec == Init /\ [][Next]_vars

-----------------------------------------------------------------------------
(* Properties. *)

(* As long as a mutation is undecided, every backup that undoing it needs  *)
(* is on disk: discard never comes before the terminal status.  Only a     *)
(* journal whose snapshot failed between the rename and the flush of its   *)
(* directory lacks them (mutation.py:399-406), and its restoration never   *)
(* begins.                                                                 *)
JournalHasEvidence ==
    \A j \in Journal :
        status[j] \in Open => Valid(j) \/ (j \in torn /\ status[j] = "active")

(* Two undecided journals never protect the same path, so recovery, which  *)
(* visits journals in the order of their random names, ends in the same    *)
(* content in every order and undoes no later commit (add_coordinator.py,  *)
(* DirtyRollbackError).  The exception is a journal left by a failed       *)
(* snapshot: if the failure is caught, the same lease may take its paths   *)
(* again.                                                                  *)
UndecidedDisjoint ==
    \A j, k \in Journal, p \in Path :
        Undecided(j, p) /\ Undecided(k, p) => j = k \/ j \in torn \/ k \in torn

(* While anybody reads, nothing is undecided: no lease is granted between  *)
(* a crash and its recovery, nor across the repair barrier.                *)
ReadersSeeDecided ==
    readers # {} => ~marker /\ \A j \in Journal : status[j] \notin Open

(* A restoration announced and not finished is a barrier of its own, with  *)
(* the marker or without it: no scope is open or can be opened on it.      *)
BarrierHolds ==
    (marker \/ \E j \in Journal : status[j] = "recovering" /\ j # cur)
        => pc \notin {"work", "staging", "created"}

(* Ordinary recovery never resumes a restoration that did not finish.      *)
NoImplicitRetry ==
    [][\A j \in Journal :
         status[j] = "recovering" /\ cur # j /\ cur' = j => ctx' = "repair"]_vars

(* The files the abstract specification speaks of: what recovery would      *)
(* leave, the version a failed commit may fall back to, and the changes of  *)
(* the scopes that can still commit.                                        *)
KbContent ==
    [p \in Page |->
        IF \E j \in Journal : Undecided(j, p)
        THEN backup[CHOOSE j \in Journal : Undecided(j, p)][p]
        ELSE live[p]]

InDoubt == {j \in Journal : pc = "unwind" /\ Top(j) /\ status[j] = "committed"}

KbFallback ==
    IF InDoubt = {} THEN NoVersion
    ELSE [p \in Page |-> IF \E j \in InDoubt : p \in targets[j]
                         THEN backup[CHOOSE j \in InDoubt : TRUE][p]
                         ELSE KbContent[p]]

KbDraft ==
    [j \in Journal |->
        [p \in {q \in Page : level[j] > 0 /\ status[j] = "active" /\ q \in targets[j]}
            |-> live[p]]]

Kb == INSTANCE AtomicKb WITH
        content <- KbContent, fallback <- KbFallback, draft <- KbDraft, reading <- readers

(* A journal left by a failed snapshot protects a path of another change   *)
(* that is not decided: recovery may undo the one on behalf of the other.  *)
Clash ==
    \E j \in torn, k \in Journal, p \in Page :
        j # k /\ Undecided(j, p) /\ Undecided(k, p)

(* Every protected change is one atomic change of the knowledge base, and  *)
(* no crash, rollback, recovery or repair changes what was committed.      *)
(* Nothing is claimed of a step from or into a clash: a change that is     *)
(* committed over a journal left by a failed snapshot may be undone.       *)
KbSpec == Kb!Init /\ [][~Clash /\ ~Clash' => Kb!Next]_(Kb!vars)
=============================================================================
