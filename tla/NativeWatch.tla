----------------------------- MODULE NativeWatch -----------------------------
(***************************************************************************)
(* The subscription to the raw directory of one knowledge base             *)
(* (openkb/runtime/watch.py).  One thread scans the directory, keeps a     *)
(* window of candidates, waits until they are stable, and submits a task   *)
(* for each version it has not seen.  People change files, and the tasks   *)
(* go on, between any two steps of it.                                     *)
(*                                                                         *)
(* Abstractions.  The versions of a file are a sequence of contents, and   *)
(* its stamp is the length of that sequence: a change of content changes   *)
(* the stamp (the verify interval, which covers the rest, only makes more  *)
(* candidates).  Time is what has passed for a candidate.  A task is the   *)
(* last one of its file; how it ends is Tasks.                             *)
(***************************************************************************)
EXTENDS Naturals, Sequences, SequencesExt, FiniteSets

CONSTANTS
    File, Content,
    Registered,    \* contents that the registry has under their own digest
    MayFail,       \* files that perhaps cannot be opened
    Capacity,      \* of the window
    MaxSubmitted,
    MaxChanges,    \* how often people change or remove files (a bound)
    MaxDelays,     \* how often a lock is not free, a row is old, or the loop fails (a bound)
    None

ASSUME WatchAssumption ==
    /\ Registered \subseteq Content /\ MayFail \subseteq File /\ None \notin Content
    /\ {Capacity, MaxSubmitted} \subseteq Nat \ {0} /\ {MaxChanges, MaxDelays} \subseteq Nat

VARIABLES
    bytes, there,         \* the versions of each file, and which files exist
    unreadable,           \* those that cannot be opened
    changes, delays,      \* the bounds
    task,                 \* the last task of each file
    seen,                 \* the version index
    candidates,           \* the window, in the order of entry
    active,               \* the files with a submitted task
    halted, stop,
    pc, unscanned, todo   \* the thread, its scan and its pass over the window

files == <<bytes, there, unreadable, changes>>
own == <<seen, candidates, active, halted, pc, unscanned, todo, delays>>
vars == <<files, task, stop, own>>

Init ==
    /\ bytes \in [File -> {<<c>> : c \in Content}] /\ there = File
    /\ unreadable \in SUBSET MayFail /\ changes = 0 /\ delays = 0
    /\ task = [f \in File |-> None] /\ seen = [f \in File |-> None]
    /\ candidates = <<>> /\ active = {} /\ halted = FALSE /\ stop = FALSE
    /\ pc = "top" /\ unscanned = {} /\ todo = <<>>

-----------------------------------------------------------------------------
Stamp(f) == Len(bytes[f])
Digest(f) == bytes[f][Stamp(f)]

(* UnitResult.revision of an import is the identity of a source version.   *)
Revision(f, content) == <<f, content>>

Row(stamp, digest) == [stamp |-> stamp, digest |-> digest, old |-> FALSE]
NewCandidate(f) ==
    [path |-> f, stamp |-> Stamp(f), digest |-> None, quiet |-> FALSE,
     tried |-> FALSE, aged |-> FALSE]
(* What a change, or an error, makes of a candidate.                       *)
Moved(c, stamp) == [c EXCEPT !.stamp = stamp, !.digest = None, !.quiet = FALSE, !.tried = TRUE]

Paths == {candidates[i].path : i \in DOMAIN candidates}
Place(f) == CHOOSE i \in DOMAIN candidates : candidates[i].path = f
Dropped(f) == RemoveAt(candidates, Place(f))

Ended == {"ended", "doubt"}
Live(f) == task[f] # None /\ ~(task[f].state \in Ended /\ task[f].reaped)

-----------------------------------------------------------------------------
(* Mutant: each loop begins a scan of its own.                             *)
ReapAnew ==
    /\ pc = "top" /\ ~stop
    /\ LET over == {f \in active : ~Live(f)}
       IN  /\ active' = active \ over
           /\ seen' = [f \in File |-> IF f \in over /\ task[f].revision # None
                                      THEN Row(0, task[f].revision) ELSE seen[f]]
           /\ halted' = (halted \/ \E f \in over : task[f].state = "doubt")
    /\ unscanned' = File
    /\ pc' = "scan"
    /\ UNCHANGED <<files, task, stop, candidates, todo, delays>>

(* The loop: submitted tasks that are over leave, with the version they    *)
(* have processed; a task in doubt ends all submission.                    *)
Reap ==
    /\ pc = "top" /\ ~stop
    /\ LET over == {f \in active : ~Live(f)}
       IN  /\ active' = active \ over
           /\ seen' = [f \in File |-> IF f \in over /\ task[f].revision # None
                                      THEN Row(0, task[f].revision) ELSE seen[f]]
           /\ halted' = (halted \/ \E f \in over : task[f].state = "doubt")
    /\ unscanned' = IF unscanned = {} THEN File ELSE unscanned
    /\ pc' = "scan"
    /\ UNCHANGED <<files, task, stop, candidates, todo, delays>>

(* A new candidate takes a free place, or that of the oldest if it is aged.*)
Entered(f) ==
    IF Len(candidates) < Capacity THEN Append(candidates, NewCandidate(f))
    ELSE IF Head(candidates).aged THEN Append(Tail(candidates), NewCandidate(f))
    ELSE candidates

(* What a scan makes of a file: nothing, a candidate, or a newer one.      *)
Discovered(f) ==
    CASE f \notin there \/ f \in active -> candidates
      [] f \in Paths -> IF candidates[Place(f)].stamp = Stamp(f) THEN candidates
                        ELSE [candidates EXCEPT ![Place(f)] = Moved(@, Stamp(f))]
      [] OTHER -> IF seen[f] # None /\ seen[f].stamp = Stamp(f) /\ ~seen[f].old
                  THEN candidates ELSE Entered(f)

(* One loop scans some of the files.                                       *)
Discover ==
    /\ pc = "scan"
    /\ \E f \in unscanned :
         /\ candidates' = Discovered(f)
         /\ unscanned' = unscanned \ {f}
         /\ pc' \in IF unscanned = {f} THEN {"accept"} ELSE {"scan", "accept"}
         /\ todo' = IF pc' = "accept" THEN [i \in DOMAIN candidates' |-> candidates'[i].path] ELSE <<>>
    /\ UNCHANGED <<files, task, stop, seen, active, halted, delays>>

-----------------------------------------------------------------------------
(* _accept, for each candidate of the window: it leaves the window, or it  *)
(* stays as it is or as it has become.                                     *)
Leaves(f) == candidates' = Dropped(f)
Becomes(f, c) == candidates' = [candidates EXCEPT ![Place(f)] = c]
NextOne == pc' = "accept" /\ todo' = Tail(todo)

(* First what can be told from the stamp and the time.                     *)
Examine ==
    /\ pc = "accept" /\ todo # <<>> /\ ~stop /\ ~halted
    /\ LET f == Head(todo)
           c == candidates[Place(f)]
       IN  \/ f \notin there /\ Leaves(f) /\ NextOne
           \/ f \in there /\ Stamp(f) # c.stamp /\ Becomes(f, Moved(c, Stamp(f))) /\ NextOne
           \/ f \in there /\ Stamp(f) = c.stamp /\ ~c.quiet /\ UNCHANGED candidates /\ NextOne
           \/ /\ f \in there /\ Stamp(f) = c.stamp /\ c.quiet
              /\ Becomes(f, [c EXCEPT !.tried = TRUE]) /\ UNCHANGED todo
              /\ pc' \in IF c.digest = None THEN {"hash"} ELSE {"hash", "confirm"}
    /\ UNCHANGED <<files, task, stop, seen, active, halted, unscanned, delays>>

(* Then the content, which takes time ...                                  *)
Hash ==
    /\ pc = "hash"
    /\ LET f == Head(todo)
           c == candidates[Place(f)]
       IN  CASE f \notin there -> Leaves(f) /\ NextOne
             [] f \in there \cap unreadable -> Becomes(f, [c EXCEPT !.quiet = FALSE]) /\ NextOne
             [] OTHER -> Becomes(f, [c EXCEPT !.digest = Digest(f)]) /\ pc' = "confirm" /\ UNCHANGED todo
    /\ UNCHANGED <<files, task, stop, seen, active, halted, unscanned, delays>>

Known(f, digest) == digest \in Registered \/ (seen[f] # None /\ seen[f].digest = digest)

(* Mutant: what was hashed is taken for what the stamp says.               *)
ConfirmUnchecked ==
    /\ pc = "confirm"
    /\ LET f == Head(todo)
           c == candidates[Place(f)]
       IN  IF Known(f, c.digest)
           THEN seen' = [seen EXCEPT ![f] = Row(c.stamp, c.digest)] /\ Leaves(f) /\ NextOne
           ELSE pc' = "gate" /\ UNCHANGED <<seen, candidates, todo>>
    /\ UNCHANGED <<files, task, stop, active, halted, unscanned, delays>>

(* ... in which the file may have changed; and what is known of it.        *)
Confirm ==
    /\ pc = "confirm"
    /\ LET f == Head(todo)
           c == candidates[Place(f)]
       IN  CASE f \notin there -> Leaves(f) /\ NextOne /\ UNCHANGED seen
             [] f \in there /\ Stamp(f) # c.stamp ->
                  Becomes(f, Moved(c, c.stamp)) /\ NextOne /\ UNCHANGED seen
             [] f \in there /\ Stamp(f) = c.stamp /\ Known(f, c.digest) ->
                  seen' = [seen EXCEPT ![f] = Row(c.stamp, c.digest)] /\ Leaves(f) /\ NextOne
             [] OTHER -> pc' = "gate" /\ UNCHANGED <<seen, candidates, todo>>
    /\ UNCHANGED <<files, task, stop, active, halted, unscanned, delays>>

(* A task, and (history) the version that it was submitted for.            *)
NewTask(version) ==
    [state |-> "queued", at |-> 0, version |-> version, revision |-> None, reaped |-> TRUE]

(* release_input_wait: the manager ends a task that waits for its file to  *)
(* be stable, and no other.                                                *)
TakenBack(g) == IF task[g].state # "waiting-input" THEN task[g]
                ELSE [task[g] EXCEPT !.state = "ended", !.version = None]
(* Mutant: nobody looks at its answer.                                     *)
ReleasedAnyway(g) == TRUE
Released(g) == task[g].state = "waiting-input"

Submit(f, others) ==
    /\ active' = others \cup {f}
    /\ LET c == candidates[Place(f)]
       IN  seen' = [g \in File |-> CASE g = f -> Row(c.stamp, c.digest)
                                     [] g \in active \ others -> None
                                     [] OTHER -> seen[g]]
    /\ task' = [g \in File |-> CASE g = f -> NewTask(candidates[Place(f)].digest)
                                 [] g \in active \ others -> TakenBack(g)
                                 [] OTHER -> task[g]]
    /\ Leaves(f)

(* Mutant: the stop is only looked at before the content is read.          *)
GateOpen ==
    /\ pc = "gate" /\ NextOne
    /\ \/ Cardinality(active) < MaxSubmitted /\ Submit(Head(todo), active)
       \/ /\ Cardinality(active) >= MaxSubmitted
          /\ \E g \in active : Released(g) /\ Submit(Head(todo), active \ {g})
       \/ /\ Cardinality(active) >= MaxSubmitted /\ ~\E g \in active : Released(g)
          /\ UNCHANGED <<task, seen, candidates, active>>
    /\ UNCHANGED <<files, stop, halted, unscanned, delays>>

(* The gate: nothing passes after a stop, and at most MaxSubmitted do.     *)
Gate ==
    /\ pc = "gate" /\ NextOne
    /\ \/ ~stop /\ Cardinality(active) < MaxSubmitted /\ Submit(Head(todo), active)
       \/ /\ ~stop /\ Cardinality(active) >= MaxSubmitted
          /\ \E g \in active : Released(g) /\ Submit(Head(todo), active \ {g})
       \/ /\ stop \/ (Cardinality(active) >= MaxSubmitted /\ ~\E g \in active : Released(g))
          /\ UNCHANGED <<task, seen, candidates, active>>
    /\ UNCHANGED <<files, stop, halted, unscanned, delays>>

PassEnds ==
    /\ pc = "accept" /\ (todo = <<>> \/ stop \/ halted)
    /\ pc' = "top" /\ todo' = <<>>
    /\ UNCHANGED <<files, task, stop, seen, candidates, active, halted, unscanned, delays>>

(* A lock of the knowledge base is not free, or it needs repair: the pass  *)
(* ends, with everything it has not submitted.                             *)
Busy ==
    /\ pc \in {"accept", "confirm"} /\ todo # <<>> /\ delays < MaxDelays /\ delays' = delays + 1
    /\ pc' = "top" /\ todo' = <<>>
    /\ UNCHANGED <<files, task, stop, seen, candidates, active, halted, unscanned>>

(* After a stop the loop ends, also where it would take a lock; any error  *)
(* that it does not expect (the knowledge base was replaced, the           *)
(* application closes) ends it at once.                                    *)
Finished == /\ pc' = "ended" /\ candidates' = <<>> /\ todo' = <<>> /\ unscanned' = {}
            /\ UNCHANGED <<files, task, stop, seen, active, halted, delays>>
End == pc \in {"top", "accept", "confirm"} /\ stop /\ Finished
Fail == pc # "ended" /\ delays < MaxDelays /\ Finished

Thread == Reap \/ Discover \/ Examine \/ Hash \/ Confirm \/ Gate \/ PassEnds \/ End

-----------------------------------------------------------------------------
Stop == ~stop /\ stop' = TRUE /\ UNCHANGED <<files, task, own>>

(* Time: a candidate has been quiet for a debounce, or it has been in the  *)
(* window for three.  A pass over the window takes less than two.          *)
Settle(i) ==
    /\ i \in DOMAIN candidates /\ ~candidates[i].quiet
    /\ candidates' = [candidates EXCEPT ![i].quiet = TRUE]
    /\ UNCHANGED <<files, task, stop, seen, active, halted, pc, unscanned, todo, delays>>
Age(i) ==
    /\ i \in DOMAIN candidates /\ ~candidates[i].aged /\ candidates[i].tried
    /\ candidates' = [candidates EXCEPT ![i].aged = TRUE]
    /\ UNCHANGED <<files, task, stop, seen, active, halted, pc, unscanned, todo, delays>>

(* A row of the index is to be verified again.                             *)
Expire(f) ==
    /\ seen[f] # None /\ ~seen[f].old /\ delays < MaxDelays
    /\ seen' = [seen EXCEPT ![f].old = TRUE] /\ delays' = delays + 1
    /\ UNCHANGED <<files, task, stop, candidates, active, halted, pc, unscanned, todo>>

(* People change and remove files, and bring back what they removed.       *)
Write(f, content) == bytes' = [bytes EXCEPT ![f] = Append(@, content)] /\ UNCHANGED unreadable
Change(f) ==
    /\ f \in there /\ changes < MaxChanges /\ changes' = changes + 1
    /\ \/ \E c \in Content : Write(f, c) /\ UNCHANGED there
       \/ there' = there \ {f} /\ UNCHANGED <<bytes, unreadable>>
    /\ UNCHANGED <<task, stop, own>>
BringBack(f) ==
    /\ f \notin there /\ there' = there \cup {f}
    /\ \E c \in Content : Write(f, c)
    /\ UNCHANGED <<changes, task, stop, own>>

(* The task: a worker prepares its input, which may change meanwhile,      *)
(* captures a version of it, and ends with or without a confirmed result.  *)
(* While it waits for a lease it is as good as queued.                     *)
Becoming(f, from, to) == task[f] # None /\ task[f].state \in from /\ task' = [task EXCEPT ![f] = to]

Prepare(f) == Becoming(f, {"queued"}, [task[f] EXCEPT !.state = "preparing", !.at = Stamp(f)])
Begin(f) ==
    /\ Becoming(f, {"preparing"}, [task[f] EXCEPT !.state = "running", !.at = 0,
                                                 !.revision = Revision(f, Digest(f))])
    /\ task[f].at = Stamp(f) /\ f \in there
InputChanged(f) ==
    /\ Becoming(f, {"preparing"}, [task[f] EXCEPT !.state = "waiting-input", !.at = 0])
    /\ task[f].at # Stamp(f)
Retry(f) == Becoming(f, {"waiting-input"}, [task[f] EXCEPT !.state = "queued"])

(* It is stopped before it begins, its worker does not start, or the       *)
(* preparation fails or is stopped: nothing was captured.                  *)
EndsEarly(f) ==
    Becoming(f, {"queued", "waiting-input", "preparing"}, [task[f] EXCEPT !.state = "ended", !.at = 0])

(* Without a confirmed result there is no revision.                        *)
Results(f) == IF task[f] = None THEN {} ELSE {task[f].revision, None}

Finish(f) ==
    \E revision \in Results(f) :
        Becoming(f, {"running"}, [task[f] EXCEPT !.state = "ended", !.revision = revision])

(* Its result needs attention: the worker died, the knowledge base is gone *)
(* or has to be repaired.  Nobody looks at its revision, if it has one.    *)
InDoubt(f) ==
    \E reaped \in BOOLEAN :
        Becoming(f, {"preparing", "running"},
                 [task[f] EXCEPT !.state = "doubt", !.at = 0, !.revision = None, !.reaped = reaped])
Reaped(f) == Becoming(f, {"doubt"}, [task[f] EXCEPT !.reaped = TRUE]) /\ ~task[f].reaped

TaskStep(f) ==
    /\ \/ Prepare(f) \/ Begin(f) \/ InputChanged(f) \/ Retry(f)
       \/ EndsEarly(f) \/ Finish(f) \/ InDoubt(f) \/ Reaped(f)
    /\ UNCHANGED <<files, stop, own>>

Next == \/ Thread \/ Busy \/ Fail \/ Stop
        \/ \E i \in 1..Capacity : Settle(i) \/ Age(i)
        \/ \E f \in File : Change(f) \/ BringBack(f) \/ Expire(f) \/ TaskStep(f)

Spec == Init /\ [][Next]_vars
(* The thread goes on, time passes, and tasks end.                         *)
FairSpec ==
    /\ Spec /\ WF_vars(Thread)
    /\ \A i \in 1..Capacity : WF_vars(Settle(i)) /\ WF_vars(Age(i))
    /\ \A f \in File : WF_vars(TaskStep(f))

-----------------------------------------------------------------------------
(* The gate submits f, or would again. *)
Submitted(f) == pc = "gate" /\ pc' # "gate" /\ f = Head(todo) /\ f \in active'

(* What the index says of a stamp is the content of the file that had it:  *)
(* otherwise a later scan would take an unread version for a known one.    *)
SeenIsTrue ==
    \A f \in File : seen[f] # None /\ seen[f].stamp # 0 => seen[f].digest = bytes[f][seen[f].stamp]

(* Nothing is submitted after stop() has returned, however far the thread  *)
(* had come with a candidate: it looks again when it holds the lock of     *)
(* stop(), which makes the look and the submission one step (_gate).       *)
NothingAfterStop == [][\A f \in File : Submitted(f) => ~stop]_vars

(* A file has one task at a time: the one before has ended, and no process *)
(* of it is left.                                                          *)
OneAtATime == [][\A f \in File : Submitted(f) => ~Live(f)]_vars

(* The last task of f was submitted for its present version, or captured   *)
(* it; a version that can be read and is not handed over is pending.       *)
Handed(f) == /\ task[f] # None
             /\ task[f].version = Digest(f) \/ task[f].revision = Revision(f, Digest(f))
Pending(f) ==
    /\ f \in there \ unreadable /\ Digest(f) \notin Registered /\ ~Handed(f)
    /\ ~halted /\ pc # "ended"

(* The gate submits f for the version that the task before has processed.  *)
Replayed(f) ==
    /\ Submitted(f)
    /\ task[f] # None /\ task[f].revision = Revision(f, candidates[Place(f)].digest)

(* The scan leaves f outside a full window, or puts it out of it.          *)
CrowdedOut(f) ==
    /\ pc = "scan" /\ Len(candidates) = Capacity
    /\ Pending(f) /\ f \notin active \cup Paths'
    /\ f \in Paths \cup (unscanned \ unscanned')

(* Every version that stays is handed over to a task, in spite of files    *)
(* that never can be and of tasks that are stopped, fail, or are taken     *)
(* back, unless the subscription ends or halts.  The exception is a file   *)
(* that is crowded out of the window again and again while the same        *)
(* versions are submitted again and again (see NotReplayed).               *)
HandedOver ==
    \A f \in File :
        \/ []<>~Pending(f)
        \/ /\ []<><<\E g \in File : Replayed(g)>>_vars
           /\ []<><<CrowdedOut(f)>>_vars

(* A version that a task has processed is not given to another one.        *)
(* ("Even its failed processed version must not be replayed",              *)
(* openkb/runtime/watch.py:181)                                            *)
NotReplayed == [][\A f \in File : ~Replayed(f)]_vars
=============================================================================
