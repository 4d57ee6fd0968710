------------------------------ MODULE Lifecycle ------------------------------
(***************************************************************************)
(* The life of the directory of one knowledge base: how operations are     *)
(* bound to a generation of it and how its deletion and its creation wait  *)
(* for them (openkb/lifecycle.py, the leases of openkb/locks.py,           *)
(* delete_kb of openkb/kb_admin.py, _creation and initialize_kb of         *)
(* openkb/application/knowledge_bases.py).                                 *)
(*                                                                         *)
(* The lifecycle lease and record are beside the directory and survive it; *)
(* the execution lease is a file inside, a new one in every new directory. *)
(*                                                                         *)
(* Abstractions.  The tree is one of a few states, config.yaml apart,      *)
(* which is what the code looks for.  The journal of an interrupted        *)
(* creation is the state "seeding"; draining it is one step here (module   *)
(* Mutation has its steps).  A generation is a uuid and a directory an     *)
(* inode: an identifier is used again only when nothing refers to it.      *)
(***************************************************************************)
EXTENDS Naturals

CONSTANTS
    Proc,         \* processes, or threads and tasks of one process
    Dir,          \* identities of directories
    Generation,
    Initial,      \* the generation of a directory without a lifecycle record
    NoDir, NoProc

ASSUME ConstantsAssumption ==
    /\ NoDir \notin Dir
    /\ NoProc \notin Proc
    /\ Initial \notin Generation

Gen == Generation \cup {Initial}
Identity == Dir \cup {NoDir}
Binding == [gen : Gen, dir : Identity]

VARIABLES
    dir,        \* the directory at the path
    tree,       \* what it holds: "none", "empty", "seeding", "seeded", "torn"
    config,     \* .openkb/config.yaml exists
    gen, status, recdir,   \* the lifecycle record
    known,      \* the registry lists the path
    owner,      \* who holds the lifecycle lease exclusively
    sharers,    \* who holds it shared
    writer,     \* per directory, who holds the execution lease exclusively
    readers,    \* per directory, who holds it shared
    pc, bound   \* each process: where it is and the binding it captured

place == <<dir, tree, config>>
record == <<gen, status, recdir>>
lease == <<owner, sharers, writer, readers>>
vars == <<dir, tree, config, gen, status, recdir, known,
          owner, sharers, writer, readers, pc, bound>>

Current == [gen |-> gen, dir |-> dir]
Unbound == [gen |-> Initial, dir |-> NoDir]

Deleting == {"deleting", "remembered", "marked", "erased", "absent"}
Creating == {"creating", "stamped", "seeding", "created"}

TypeOK ==
    /\ dir \in Identity /\ recdir \in Identity
    /\ tree \in {"none", "empty", "seeding", "seeded", "torn"}
    /\ config \in BOOLEAN /\ known \in BOOLEAN
    /\ gen \in Gen
    /\ status \in {"active", "deleting", "absent"}
    /\ owner \in Proc \cup {NoProc}
    /\ sharers \subseteq Proc
    /\ writer \in [Dir -> Proc \cup {NoProc}]
    /\ readers \in [Dir -> SUBSET Proc]
    /\ pc \in [Proc -> {"idle", "bound", "queued", "inside", "reading", "writing", "confirmed"}
                         \cup Deleting \cup Creating]
    /\ bound \in [Proc -> Binding]

Init ==
    /\ dir \in Identity
    /\ tree = (IF dir = NoDir THEN "none" ELSE "seeded")
    /\ config = (dir # NoDir)
    /\ gen = Initial /\ status = "active" /\ recdir = NoDir
    /\ known \in BOOLEAN
    /\ owner = NoProc /\ sharers = {}
    /\ writer = [d \in Dir |-> NoProc]
    /\ readers = [d \in Dir |-> {}]
    /\ pc = [p \in Proc |-> "idle"]
    /\ bound = [p \in Proc |-> Unbound]

FreshGen(g) == g # gen /\ \A p \in Proc : bound[p].gen # g
FreshDir(d) == d \notin {dir, recdir} /\ \A p \in Proc : bound[p].dir # d

At(p, where) == pc' = [pc EXCEPT ![p] = where]

(* Leaving every lease, in order or by a crash. *)
Leave(p) ==
    /\ owner' = (IF owner = p THEN NoProc ELSE owner)
    /\ sharers' = sharers \ {p}
    /\ writer' = [d \in Dir |-> IF writer[d] = p THEN NoProc ELSE writer[d]]
    /\ readers' = [d \in Dir |-> readers[d] \ {p}]
    /\ At(p, "idle")
    /\ bound' = [bound EXCEPT ![p] = Unbound]

-----------------------------------------------------------------------------
(* An operation: bound when it is submitted, it waits for the lifecycle    *)
(* lease, checks its binding, and waits for the execution lease.           *)

(* Without any lease, and whatever is there.  current_generation refuses   *)
(* here already what Enter refuses later.                                  *)
Bind(p) ==
    /\ pc[p] = "idle"
    /\ bound' = [bound EXCEPT ![p] = Current]
    /\ At(p, "bound")
    /\ UNCHANGED <<place, record, known, lease>>

(* The submitter then looks for config.yaml, perhaps in a directory that   *)
(* is not the one it is bound to any more.                                 *)
Submit(p) ==
    /\ pc[p] = "bound"
    /\ IF config THEN At(p, "queued") /\ UNCHANGED bound
                 ELSE At(p, "idle") /\ bound' = [bound EXCEPT ![p] = Unbound]
    /\ UNCHANGED <<place, record, known, lease>>

(* Mutant: the status of the record is not looked at. *)
StillBoundOnly(p) ==
    bound[p] = Current

(* _validate *)
StillValid(p) ==
    /\ bound[p] = Current
    /\ status # "deleting"
    /\ status = "absent" => config

(* The binding is checked under the lease; a stale operation lets go of it. *)
Enter(p) ==
    /\ pc[p] = "queued" /\ owner = NoProc
    /\ IF StillValid(p)
       THEN /\ sharers' = sharers \cup {p}
            /\ At(p, "inside") /\ UNCHANGED bound
       ELSE /\ At(p, "idle") /\ bound' = [bound EXCEPT ![p] = Unbound]
            /\ UNCHANGED sharers
    /\ UNCHANGED <<place, record, known, owner, writer, readers>>

(* Waiting is cancellable. *)
Cancel(p) ==
    /\ pc[p] \in {"queued", "inside", "confirmed"}
    /\ Leave(p)
    /\ UNCHANGED <<place, record, known>>

Free == writer[dir] = NoProc /\ readers[dir] = {}

(* An interrupted creation is rolled back before anybody works here, and   *)
(* validate_execution finds that nothing is left to work on.               *)
Recover(p) ==
    /\ pc[p] = "inside" /\ Free /\ tree = "seeding"
    /\ tree' = "empty" /\ config' = FALSE
    /\ Leave(p)
    /\ UNCHANGED <<dir, record, known>>

(* validate_execution *)
Executable == gen = Initial \/ config

Refuse(p) ==
    /\ pc[p] = "inside" /\ writer[dir] = NoProc
    /\ tree # "seeding" /\ ~Executable
    /\ Leave(p)
    /\ UNCHANGED <<place, record, known>>

LockRead(p) ==
    /\ pc[p] = "inside" /\ writer[dir] = NoProc
    /\ tree # "seeding" /\ Executable
    /\ readers' = [readers EXCEPT ![dir] = @ \cup {p}]
    /\ At(p, "reading")
    /\ UNCHANGED <<place, record, known, owner, sharers, writer, bound>>

(* Mutant: a writer does not wait for readers. *)
LockWriteEarly(p) ==
    /\ pc[p] = "inside" /\ writer[dir] = NoProc
    /\ tree # "seeding" /\ Executable
    /\ writer' = [writer EXCEPT ![dir] = p]
    /\ At(p, "writing")
    /\ UNCHANGED <<place, record, known, owner, sharers, readers, bound>>

LockWrite(p) ==
    /\ pc[p] = "inside" /\ Free
    /\ tree # "seeding" /\ Executable
    /\ writer' = [writer EXCEPT ![dir] = p]
    /\ At(p, "writing")
    /\ UNCHANGED <<place, record, known, owner, sharers, readers, bound>>

Finish(p) ==
    /\ pc[p] \in {"reading", "writing"}
    /\ Leave(p)
    /\ UNCHANGED <<place, record, known>>

-----------------------------------------------------------------------------
(* delete_kb *)

(* What the user confirms, or what delete_kb captures before it waits. *)
Confirm(p) ==
    /\ pc[p] = "idle"
    /\ bound' = [bound EXCEPT ![p] = Current]
    /\ At(p, "confirmed")
    /\ UNCHANGED <<place, record, known, lease>>

Alone == owner = NoProc /\ sharers = {}

(* A deletion that was begun goes on with the same directory only. *)
Deletable ==
    IF status = "deleting" THEN dir \in {NoDir, recdir}
    ELSE dir = NoDir \/ tree \in {"seeded", "seeding"}

(* Mutant: the directory found after waiting is not compared. *)
BeginDeleteUnchecked(p) ==
    /\ pc[p] = "confirmed" /\ Alone
    /\ Deletable
    /\ owner' = p
    /\ IF status # "deleting" /\ tree = "seeding"
       THEN tree' = "empty" /\ config' = FALSE
       ELSE UNCHANGED <<tree, config>>
    /\ At(p, "deleting")
    /\ UNCHANGED <<dir, record, known, sharers, writer, readers, bound>>

(* The directory is compared with the one that was confirmed, and drained  *)
(* while its execution lease can still be opened.                          *)
BeginDelete(p) ==
    /\ pc[p] = "confirmed" /\ Alone
    /\ bound[p] = Current /\ Deletable
    /\ owner' = p
    /\ IF status # "deleting" /\ tree = "seeding"
       THEN tree' = "empty" /\ config' = FALSE
       ELSE UNCHANGED <<tree, config>>
    /\ At(p, "deleting")
    /\ UNCHANGED <<dir, record, known, sharers, writer, readers, bound>>

(* A tree without .openkb and wiki is not a knowledge base. *)
RefuseDelete(p) ==
    /\ pc[p] = "confirmed" /\ Alone
    /\ bound[p] # Current \/ ~Deletable \/ tree = "seeding"
    /\ Leave(p)
    /\ UNCHANGED <<place, record, known>>

RememberNothing(p) ==  \* Mutant: the path may be in no list.
    /\ pc[p] = "deleting"
    /\ At(p, "remembered")
    /\ UNCHANGED <<place, record, known, lease, bound>>

(* _remember_pending_deletion *)
Remember(p) ==
    /\ pc[p] = "deleting"
    /\ known' = (known \/ dir # NoDir \/ status = "deleting")
    /\ At(p, "remembered")
    /\ UNCHANGED <<place, record, lease, bound>>

(* The record invalidates queued work before any file goes. *)
Mark(p) ==
    /\ pc[p] = "remembered"
    /\ gen' \in {g \in Generation : FreshGen(g)}
    /\ status' = "deleting" /\ recdir' = dir
    /\ At(p, "marked")
    /\ UNCHANGED <<place, known, lease, bound>>

(* rmtree, in no particular order. *)
Erase(p) ==
    /\ pc[p] = "marked" /\ dir # NoDir
    /\ tree' = "torn" /\ config' \in {config, FALSE}
    /\ UNCHANGED <<dir, record, known, lease, pc, bound>>

EraseFails(p) ==
    /\ pc[p] = "marked"
    /\ Leave(p)
    /\ UNCHANGED <<place, record, known>>

Erased(p) ==
    /\ pc[p] = "marked"
    /\ dir' = NoDir /\ tree' = "none" /\ config' = FALSE
    /\ At(p, "erased")
    /\ UNCHANGED <<record, known, lease, bound>>

Conclude(p) ==
    /\ pc[p] = "erased"
    /\ status' = "absent" /\ recdir' = NoDir
    /\ At(p, "absent")
    /\ UNCHANGED <<place, gen, known, lease, bound>>

(* unregister_kb *)
Unregister(p) ==
    /\ pc[p] = "absent"
    /\ known' = FALSE
    /\ Leave(p)
    /\ UNCHANGED <<place, record>>

-----------------------------------------------------------------------------
(* initialize_kb *)

(* Mutant: creation does not look at the record. *)
BeginCreateAnyway(p) ==
    /\ pc[p] = "idle" /\ Alone
    /\ tree \in {"none", "empty", "seeding", "torn"}
    /\ owner' = p
    /\ IF dir = NoDir THEN dir' \in {d \in Dir : FreshDir(d)} ELSE UNCHANGED dir
    /\ tree' = "empty" /\ config' = FALSE
    /\ writer' = [d \in Dir |-> IF d = dir' THEN p ELSE writer[d]]
    /\ At(p, "creating")
    /\ UNCHANGED <<record, known, sharers, readers, bound>>

(* creation_lifecycle and the execution lease, whose file makes the        *)
(* directory; an earlier attempt is rolled back.                           *)
BeginCreate(p) ==
    /\ pc[p] = "idle" /\ Alone
    /\ status # "deleting"
    /\ tree \in {"none", "empty", "seeding"}
    /\ owner' = p
    /\ IF dir = NoDir THEN dir' \in {d \in Dir : FreshDir(d)} ELSE UNCHANGED dir
    /\ tree' = "empty" /\ config' = FALSE
    /\ writer' = [d \in Dir |-> IF d = dir' THEN p ELSE writer[d]]
    /\ At(p, "creating")
    /\ UNCHANGED <<record, known, sharers, readers, bound>>

(* begin_creation *)
Stamp(p) ==
    /\ pc[p] = "creating"
    /\ gen' \in {g \in Generation : FreshGen(g)}
    /\ status' = "active" /\ recdir' = dir
    /\ At(p, "stamped")
    /\ UNCHANGED <<place, known, lease, bound>>

Seed(p) ==
    /\ pc[p] \in {"stamped", "seeding"}
    /\ tree' = "seeding" /\ config' \in {config, TRUE}
    /\ At(p, "seeding")
    /\ UNCHANGED <<dir, record, known, lease, bound>>

CommitCreate(p) ==
    /\ pc[p] = "seeding" /\ config
    /\ tree' = "seeded"
    /\ writer' = [writer EXCEPT ![dir] = NoProc]
    /\ At(p, "created")
    /\ UNCHANGED <<dir, config, record, known, owner, sharers, readers, bound>>

FailCreate(p) ==
    /\ pc[p] \in {"creating", "stamped", "seeding"}
    /\ tree' = "empty" /\ config' = FALSE
    /\ Leave(p)
    /\ UNCHANGED <<dir, record, known>>

(* register_kb *)
Register(p) ==
    /\ pc[p] = "created"
    /\ known' = TRUE
    /\ Leave(p)
    /\ UNCHANGED <<place, record>>

-----------------------------------------------------------------------------
Crash(p) ==
    /\ pc[p] # "idle"
    /\ Leave(p)
    /\ UNCHANGED <<place, record, known>>

(* The user moves the directory away or puts another knowledge base in its *)
(* place.  The code does not defend itself against that under a lease, nor *)
(* between the two steps of a submission.                                  *)
Replace ==
    /\ Alone /\ \A p \in Proc : pc[p] # "bound"
    /\ \/ dir' = NoDir /\ tree' = "none" /\ config' = FALSE
       \/ /\ dir' \in {d \in Dir : FreshDir(d)}
          /\ tree' = "seeded" /\ config' = TRUE
    /\ UNCHANGED <<record, known, lease, pc, bound>>

Work(p) ==
    \/ Bind(p) \/ Submit(p) \/ Enter(p) \/ Cancel(p)
    \/ Recover(p) \/ Refuse(p)
    \/ LockRead(p) \/ LockWrite(p) \/ Finish(p)

Delete(p) ==
    \/ Confirm(p) \/ BeginDelete(p) \/ RefuseDelete(p)
    \/ Remember(p) \/ Mark(p)
    \/ Erase(p) \/ EraseFails(p) \/ Erased(p)
    \/ Conclude(p) \/ Unregister(p)

Create(p) ==
    \/ BeginCreate(p) \/ Stamp(p) \/ Seed(p)
    \/ CommitCreate(p) \/ FailCreate(p) \/ Register(p)

Next ==
    \/ \E p \in Proc : Work(p) \/ Delete(p) \/ Create(p) \/ Crash(p)
    \/ Replace

Spec == Init /\ [][Next]_vars

-----------------------------------------------------------------------------
(* Properties. *)

(* However long an operation waited, it runs on the directory and the      *)
(* generation it was submitted for, never on one that was deleted, made    *)
(* again, replaced or left half made (read_lifecycle, validate_execution). *)
RunsOnItsGeneration ==
    \A p \in Proc : pc[p] \in {"reading", "writing"} =>
        /\ bound[p] = Current
        /\ status # "deleting"
        /\ tree = "seeded"

(* The execution lease is a file of the directory, so each directory has   *)
(* its own; a writer is still alone at the path.                           *)
WriterAlone ==
    \A p, q \in Proc :
        /\ pc[p] \in {"writing", "marked", "creating", "stamped", "seeding"}
        /\ pc[q] \in {"reading", "writing", "marked", "creating", "stamped", "seeding"}
        => p = q

(* A deletion takes away the directory that was confirmed, whatever came   *)
(* to its place while it waited (delete_kb).                               *)
DeletesWhatWasConfirmed ==
    [][\A p \in Proc : pc[p] = "marked" /\ dir # NoDir /\ tree' \in {"torn", "none"}
         => dir = bound[p].dir]_vars

(* A deletion that was begun is only ever finished, and on its own         *)
(* directory: nothing makes the path usable before (creation_lifecycle).   *)
DeletionIsFinal ==
    [][status = "deleting" =>
         /\ status' \in {"deleting", "absent"}
         /\ recdir' \in {recdir, NoDir}
         /\ status' = "absent" => dir = NoDir]_vars

(* A tree that lost files to an unfinished deletion stays in the registry, *)
(* so that its deletion can be taken up again.                             *)
UnfinishedDeletionListed ==
    status = "deleting" /\ dir # NoDir /\ dir = recdir => known
=============================================================================
