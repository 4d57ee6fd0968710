# A verification of UrltraKB (openkb)

UrltraKB compiles documents into a wiki with language models. Its core is not the models but what
surrounds them: one directory of files that several processes change, workers that may die at any
step, services that are paid per call, and people who edit the same pages. This directory holds
TLA+ modules of that core, the TLC runs that check them on small instances, and proofs of their
main safety properties for every size. The code is `src/`; every definition names its lines in
`PROJECT.json` (`map`).

## 1. Inventory

| Part | Code under `src/openkb/` | State | Operations | What is hard |
|---|---|---|---|---|
| Mutation journal, repair | `mutation.py`, `application/repair.py`, `add_coordinator.py` | journals, backups, staging, `needs-repair.json`, the files themselves | snapshot, `track_new`, commit, rollback, drain, repair | a crash or a failing write between any two steps; nested scopes; order of recovery |
| Directory lifecycle | `lifecycle.py`, `kb_admin.py`, `application/knowledge_bases.py` | generation and status beside the directory, the registry of knowledge bases | bind, validate, create, delete, resume a deletion | the directory is replaced while somebody waits; the lease file lives inside it |
| Leases | `locks.py`, `settings_access.py` | OS locks, depth per thread | read, write, delegated write, conversation, configuration | order of several leases, no queue |
| Tasks and workers | `runtime/` , `application/execution.py` | task summaries, receipts, the pending queue, a process and a pipe per unit | submit, start, acknowledge, stop, budget, defer, navigate, finish, recover, retry, shut down, restart | messages against stops, dead workers, failed saves, a dead manager |
| Cloud recognition | `ocr/cloud.py` | a checkpoint per page, the jobs of the service | submit, poll, download, assemble, resume | lost answers of calls that cost money |
| Proposals and publication | `knowledge_commit.py`, `source_refs.py`, `agent/evidence_pages.py`, `application/source_actions.py` | wiki, baselines, ownership, receipts, registry, proposals, acceptances | generate privately, propose, accept, publish, continue | edits by people at any time, proposals that wait, pages several sources share |
| Native watch | `runtime/watch.py` | candidates, submitted tasks, a version index | scan, discover, verify, submit, release, reap, halt, stop | files that change while they are read, a full window, a stop against a submission |
| Service watch | `watch_service.py`, `watcher.py` | pending paths, a debounce timer | notice, flush, drain, stop | a stop against the timer |
| Processing budget | `processing.py`, `source_request_journal.py`, `execution_allowance.py` | attempts, charged tokens, permits, the stop latch | reserve, call, settle, expand, time out | threads that share a latch and permits; a transport that outlives its request |
| Settings | `settings_access.py`, `config_state.py`, `application/settings.py` | configuration files, environment files | capture, patch, read | two kinds of lease; external edits |
| Removal and cleanup | `application/removal.py`, `application/source_cleanup.py` | plans, previews | remove, clean | two scopes with a partial result; a preview that is out of date |
| Conversations, outbox | `application/conversations.py`, `desktop/chat_outbox.py`, `agent/chat_session.py` | sessions, saved submissions | accept, recover, run, delete | a submission replayed after a crash |
| Sources, evidence, parsing versions | `sources.py`, `evidence.py` | content-addressed records, selected parsing | intake, parse, select | none of their own: each write is a scope |
| Extraction of facts | `agent/evidence_facts.py`, `evidence_parallel.py`, `evidence_retry.py`, `evidence_fact_cache.py`, `analysis_flights.py`, `shared_analysis.py` | rows, splits and shared results on disk, pending flights, a stack of batches per worker | submit, look up, claim, wait, ask, verify, split, give up, resume | one executor and many waiters; text that is split; what a resumption pays again |
| Compiler, navigation, parsing, rendering, skills, decks, desktop, command line, HTTP | the rest | – | – | pure functions, prompts, widgets and thin callers |

How they interact: every operation on a knowledge base first binds itself to a generation
(lifecycle), takes a lease (locks), which drains what a dead process left (mutation), and changes
files only inside scopes (mutation). Long operations are units of tasks; a unit runs in a process
of its own, takes the lease, captures the configuration, does its work (which ends in a
publication), and reports by a receipt on disk and messages on a pipe. Recognition and generation
run inside a unit, under the write lease.

What makes each part correct: an all-or-nothing change whatever dies (journal); no operation on a
directory it was not meant for, no deletion of another one, and no half-deleted one in use
(lifecycle); each unit acts at most once and what is reported is what happened (tasks); a page is
paid for once (recognition); no text of a person, or of another source, is lost or appropriated
(publication); nothing is submitted after a stop, nothing is lost that was accepted (watchers);
limits hold under concurrency and threads end (budget).

The hazards of this code, each with its line and the properties that cover it, are listed in
`PROJECT.json` (`hazards`).

## 2. Modules

**AtomicKb → Mutation → MutationLive, MutationProof.** `AtomicKb` is what the journal promises: a
set of files changes at once or not at all. `Mutation` has one action per step of `mutation.py`
between which the process can die or a write can fail: taking the backups, writing the journal,
naming an artifact and tracking it, marking committed, announcing `recovering`, restoring one
entry, discarding the backups, unlinking the journal, the drain of `kb_lock`, the repair. Disk and
memory are separate variables, and `Crash` clears memory alone. `KbSpec` is the refinement: the
committed content is the disk with every undecided journal undone. A commit whose journal write
failed after the rename is *in doubt* and may be reverted by its own scope; `AtomicKb` says so with
`fallback`. `MutationLive` adds fairness and the properties of progress.

**Lifecycle → LifecycleProof.** Processes that bind, wait, read, write, delete, create and die
around one path, whose directory may also be replaced from outside. The lifecycle lease is beside
the directory, the execution lease a file inside it, hence one for each identity of a directory.
A submission is two steps, as in `TaskManager.submit` and `NativeWatch`: it is bound to whatever is
there (`Bind`, `lifecycle.py` looks at no configuration) and then looks for `config.yaml` (`Submit`),
with deletions and creations in between. A caller that looks first and takes its binding with the
lease (`kb_lock`) is caught by what `Enter` and `Refuse` look at.

**Tasks → TasksProof.** The manager (one thread's steps under its lock), a process per unit, and the pipe as a
sequence each way. Disk is summaries, receipts and settings; a crash of the manager loses the rest
and leaves workers running as orphans. A unit's publication is one step; the steps in it are those
of `Mutation`. What follows it in the unit may fail (`CleanupFails`): the wiki has changed and the unit
reports a failure. A stop is saved twice, as asked and as stopped, and either save may fail. One
pass of the manager over a pipe reads on although one of its own saves sets the stop: the worker hears of
it with the next pass (`reading`).

**CloudJobs → CloudJobsProof.** One run at a time over pages with a record each; the service and
the network are nondeterministic, except that a documented rejection means that no job was made.

**Publication → PublicationProof.** A session at a time (every caller holds the write lease from the snapshot to the
end of the publication: `documents.import_document`, `source_actions.continue_source`,
`recompilation`), proposals that wait, and people who edit whenever they like. A page is the
contributions of its sources, the rest of it, and its links; that is all `requires_review`,
`retract_retired_topics` and `prune_withdrawn_links` look at. The scope is seen from outside: what
was done is undone unless it commits.

**NativeWatch → NativeWatchProof.** The watch's thread, one action per part of its loop: reap, one file of a scan, and
for each candidate the stamp, the content, the second look at the stamp with the index and the
registry, and the gate. People change files, and tasks go on, between any two of them. The versions
of a file are a sequence and its stamp is the length of that sequence, so a file that gets its old
content back has a new stamp. Of a task there is what the watch can see: whether it waits for its
input, whether it is over and reaped, and the revision of its result, which is the identity of a
source version and not a digest (finding 2). A task may end at any point, also before it has captured
anything: stopped while it is queued, failed or stopped in its preparation, or without a worker. Its
row keeps the digest then and the file is not submitted again until it changes, as the code intends:
who wants that version retries the task. `version`, which only properties read, is the digest a task was
submitted for.

**Budget → BudgetProof.** The allowance of one document: admission under the lock, permits, tries,
charges, the latch, limits that double, and three ways to ask. The thread of a synchronous request
may outlive its caller and then keeps the permit (`orphan`); its answer then reaches nobody. The lock
is a variable where its holder does more than one thing, because what a call observes and what it
charges are not one step. Tokens that cannot be counted and parameters that are no numbers are one
reason, "invalid", which sets the latch like any other.

**Facts → FactsProof.** Workers that take batches of units through cache, flight, request,
verification, splits and retries, and the coordinator that collects them, fails or is resumed from
what is on disk. A unit is a range of characters of a block; two blocks may have the same text, which
is when workers meet in a flight. A request ends with the save of its rows (`Reply`): a crash between
the answer and the save leaves on disk what a crash before the answer leaves. The rows are saved before
they are shared, one by one, and that may fail in the middle.

`MC*` modules give the instances for TLC.

## 3. Runs

| Run | Instance | What it shows |
|---|---|---|
| `mutation` | 2 pages, 1 artifact, 2 contents, 2 journals, 2 processes, 2 nested scopes | safety of the journal and the refinement of `AtomicKb` |
| `mutation_live` | 1 page, 1 artifact, 2 journals, 2 processes | the barrier holds although journals may lose their backups; recovery ends, a killed process's journal is decided, repair lifts the barrier |
| `lifecycle` | 3 processes, 3 directories, 3 generations | the five properties of the directory |
| `tasks` | 1 task of 2 units, 1 failing save, 1 crash | safety of tasks and their workers |
| `tasks_live` | 2 tasks, 2 knowledge bases, 1 process slot | a shutdown ends; a task that waits for its lease starves nobody |
| `tasks_retry` | 2 tasks, 1 knowledge base | a retry may repeat a publication (a finding) |
| `cloud` | 2 pages, 1 page and 5 requests a run, 2 runs | a page is paid for once |
| `publication` | 2 sources, 1 shared topic, 3 proposals, 1 edit or change of basis | nobody's text is lost or appropriated |
| `budget` | 1 caller of each kind, 1 permit, 2 tries, 2 requests, 8 tokens | permits and tokens are accounted for, the latch stops admission, every call ends |
| `facts` | 2 workers, 2 batches with a text that occurs twice and a unit that can be split, 1 resumption | the text is covered exactly, one executor for equal requests, nothing on disk is paid for again, the extraction ends |
| `watch` | 2 files, 1 perhaps unreadable, a window of 1, 1 submission, 1 change or removal (and what was removed may come back), 1 delay | the index is true, nothing after a stop, one task per file, everything is handed over |
| `watch_replay` | 1 file, no change needed | an import that is over is submitted again (a finding) |

Why the bounds are enough. Two journals suffice for any conflict between journals, and nesting of
two for inner against outer; two values distinguish old from new. Three processes are a worker, a
deletion and a creation at once, and there are as many directories and generations as they can
refer to. Two units are the first and a later one of a batch, and one failing save at any point
already reaches every error path of the manager; two faults were too many states for their worth.
Two runs are a run and its resumption, and five requests let a run submit, be rejected, submit again
and still poll. Three proposals are what it takes to make one source's edited text the baseline of
another's publication (the first source publishes, the second does after the edit, the first
again); a second edit adds nothing, since an edit survives until it is accepted. One permit for three
callers is contention of every kind, and two requests with two tries let the count run out during a
retry. Two workers are an executor and a waiter; the second batch has a text of the first one and one
that can be split, once, and the limit grows once, so that a shared result may have been made with
another limit. A window of one is full with the first file, and the unreadable file is the one that
would keep the other out for ever; one submission at a time makes the gate release what waits; a
change and a delay may each come between any two steps. Each property has
a mutant of the code that TLC finds within the same bounds, so the bounds reach the case.

Deadlock is checked except where the system really ends: runs, tasks, calls, extractions and the watch
come to an end (`cloud`, `tasks`, `tasks_live`, `tasks_retry`, `budget`, `facts`, `watch`,
`watch_replay`).

`RangeOf`, `Copies`, `Named`, `Barrier` and the like are parts of properties and model no code.

## 4. Fairness

`MutationLive`: a process that is undoing or draining goes on; an exception that reaches the top
releases the lease; readers leave; somebody uses the knowledge base again and, when the marker is
there, somebody repairs it. The first three are the code's own control flow (`finally` and context
managers); the last two are the user, without whom nothing recovers, and are the hypothesis of what
is shown. Nothing makes faults stop; `FaultsStop` is a hypothesis of the two properties that need it,
and `RepairUnblocks` also assumes that the evidence is there, because a failed flush may lose it (the
first observation of section 6).

`Tasks`: the manager's loop runs (`_run` wakes at least every 25 ms), its deadlines pass, and the
operating system kills what it is told to kill. For `NoStarvation`, units also end on their own;
for `ShutdownEnds`, which must hold against hanging workers, the specification has no such
assumption on a unit that was told to stop and has to be killed.

`Budget`: a caller that can go on does (a wait has its deadline, `checkpoint` has its clock). No
transport is assumed to end: `CallEnds` holds although they hang, since a queue has its own limit.

`Facts`: workers and the coordinator go on; a request ends, which is what `CallEnds` says.

`NativeWatch`: the thread goes on, time passes for candidates, and tasks end. That a file is read, that
a lock is free and that nothing fails are not assumed; failures that would end the thread are part of
what `HandedOver` allows. So is, because of finding 2, that a file is crowded out of a full window for
ever by versions that are submitted for ever; where the window has room for every file, or nothing is
submitted again, the property is that each version gets its task.

Leases are never assumed to be fair: they are polled, and the code has no queue.

## 5. Proofs

Proved with TLAPS for every value of the constants:

* `MutationProof` — whatever fails: type correctness, `ReadersSeeDecided`, `BarrierHolds`,
  `NoImplicitRetry`. None of them is inductive: who may roll back what depends on where the writer is.
  The invariant (`WriterInv`) says which variables are in use at each point of the writer
  (`ControlInv`), which exception is in flight and what a scope may believe because of it
  (`ExceptionInv`), that open scopes are nested and only the innermost one is decided (`ScopeInv`), the
  status of the journal in hand (`HandInv`), and that recovery visits all that was pending when it
  began (`DrainInv`).
  From what is on disk (`JournalInv`) follow `JournalHasEvidence` and `UndecidedDisjoint`: journals in
  use are staged and disjoint, and each undecided one has a scope or is ahead of a recovery, but for
  those that a snapshot left when flushing the journal directory failed after the rename
  (`mutation.py:399-406`, `locks.py:460-461`). Their backups are gone and the next scope may take their
  paths; `torn`, a history variable that no action reads, remembers them, and both properties name them
  as the exception. What still holds of them is that their restoration never begins.
  `Atomicity` is `KbSpec`: each step of `Mutation` is one of `AtomicKb`, except from or into a `Clash`,
  where such a journal protects a page of another undecided one. It needs besides that each page a
  rollback has put back has its backup's content (`RestoredInv`) and that a path in hand without an
  entry is no page (`UntrackedInv`).
* `LifecycleProof` — the type and the five properties of `lifecycle`. The invariant ties leases to where a
  process is, the tree to the record, a binding that is not stale to the directory in place, which was
  complete when work was submitted on it, and a deletion or creation in progress to the directory it
  began with.
* `CloudJobsProof` — the type, `AtMostOneJob`, `PostsRecorded`, `JobRemembered`. The invariant: a record
  from which a submission may follow proves that the service has no job of the page.
* `BudgetProof` — the type, `PermitsConserved`, `BudgetKept`, `AdmissionStops`, `LimitsGrow` (limits double once for a
  size that was too small, stay under their ceilings, and leave room for a prompt). The invariant says
  for each point of a call what it holds: who has the lock was inspected and not yet observed, a
  request on the wire belongs to the caller that waits for it or to nobody, and one permit is out for
  each of them. `BudgetKept` needs two facts more: nothing is settled of a request whose answer nobody
  has read (`UnsettledInv`), and who was inspected still has the room it saw when it charges
  (`RoomInv`), however many others were counted, settled or lost since.
* `FactsProof` — `OneExecutor`, `NeverAskedAgain`, `Covered`. Three invariants. `IInv`: a flight is there
  exactly while its owner is between claiming and finishing, before the request and after the answer
  too, and no two flights are for equal requests. `UInv`: a worker only has parts of its own batch on
  its stack and in its request, and no batch has two workers, so that nobody writes a row of a unit
  between the last look at it and its request. `CInv`: the completed units of a batch come before those
  on the stack of its worker, the next part on top; what is neither completed nor on a stack was
  reported, or its worker failed; and what is completed has its row.
* `NativeWatchProof` — `SeenIsTrue`, `NothingAfterStop` and `OneAtATime`. The invariant: the window holds
  a file once and none that is submitted, and its pass visits each once; a digest, of a candidate or of
  the index, is that of the contents at its stamp unless that stamp is out of date; and a live task of
  the watch is among those it counts. Without the first two the index could take the digest of other
  contents, and a second task of a file could start.
* `PublicationProof` — the type, `OwnershipEarned`, `OwnershipMatchesReceipt`, `NoEditLost`,
  `OthersUntouched`. The invariant: what a proposal does to a page is settled when it is generated and
  leaves the contributions of the other sources and, unless it is protected, every edit; a publication
  in progress has passed its checks; the ownership and the receipts that its scope would restore are
  equal; and no ownership holds words of a person. What a proposal does is said without the ownership,
  because that may have changed before the proposal is published.
* `TasksProof` — the type, `AtMostOnce`, `ResultsConfirmed`, `BatchInOrder`, `LateUnitNeverBegins`,
  `EndIsEnd`, for any tasks, units, workers, crashes and failures to save (manual retries, `RetrySpec`,
  are outside: finding 1). None of them is inductive. The invariant says, by where a process is, what
  may have happened to its unit, also after its manager died (`WorkInv`); that who puts a unit off has
  not touched it (`PutOffInv`); that a live task has no process but that of its attempt, and nothing has
  happened to the units it would start next (`ReachInv`); that the configuration is the same from the
  process that captured it through the pipe to the task (`ConfigInv`); and that a stop is ahead of every
  acknowledgement in the pipe of a process that was started too late (`LateInv`). `EndIsEnd` needs the
  invariant for what a later application loads: the receipts cover at least the results of the
  summary, whichever of them was last saved (lemma `Loaded`).

The proofs assume of the constants what the modules state: numbers are numbers, each task has a
knowledge base and at least one unit, the set of tasks is finite (`Shutdown` counts the summaries it
could not save), and `None` (`NoVersion` in `Mutation`) is no value of what it is used to be absent from.
`Facts` assumes of its source what `source_units` and `fact_batches` make (`evidence_units.py`; the
identities of blocks are unique, `evidence.py:254`): no batch and no unit is empty, and the units come
in the order of the text without overlap.

No induction theorem takes part: they have an operator as a parameter. What is claimed of every
partial sum (`Spent` in `BudgetProof`) or every prefix of a batch (`Without`, a recursive function) is
shown by the least exception, which the well-foundedness of `<` provides and one unfolding refutes.

Only model-checked, because liveness is out of the prover's reach: `RecoveryTerminates`,
`CrashRecovered`, `RepairUnblocks`, `ShutdownEnds`, `NoStarvation`, `CallEnds`, `ExtractionEnds`,
`HandedOver`. Every invariant, every action property and the refinement of the passing runs are
proved.

## 6. Findings

1. `tasks_retry`: a worker that publishes, dies before its receipt and whose recovery fails leaves
   its task `blocked`; a retry publishes the unit again (`task_actions.py:48` refuses only
   `interrupted`).
2. `watch_replay`: the watch remembers the identity of the source version that an import has made
   (`watch.py:182`, `records.py:89`) and compares it with digests of files (`watch.py:221-230`), so each
   file is submitted again when its task is over, and again after that. The comment at
   `watch.py:180-181` and the test at `tests/test_native_watch.py:99` say that a processed version is
   not replayed; the test's manager puts a digest into its results. With digests as revisions TLC
   finds no violation.

Observations without a run of their own, all but the second a comment or a document that the code does
not keep:

* A failed flush after the rename leaves an active journal whose backups `snapshot_paths` then
  removes (`mutation.py:405`, `locks.py:460-461`); the barrier it raises can never be repaired. The
  comment at `mutation.py:401-404` says that no journal was written. Such a failure is a step of
  `Mutation` like any other (`SnapshotFailsLate`), and the properties say what it costs (section 5).
* A unit whose publication is done reports a failure when the private workspace cannot be removed
  after it (`document_pipeline.py:258-297`, `CleanupFails`). `ResultsConfirmed` therefore says that a
  success was published and not that a failure was not, and `RetryRepeatsNothing` leaves out what was
  reported as failed, which a retry repeats on purpose.
* No drain or reaper removes a staging directory that has no journal, against the comment at
  `add_coordinator.py:123-124`.
* A batch that waits for the executor of an equal request counts a validation attempt of its own when
  that executor succeeds with nothing to share (`evidence_facts.py:175`, `evidence_fact_cache.py:149-152`);
  with several copies of a text a unit is given up although no request for it has failed, against
  `docs/document-processing.md:384-385`.

## 7. Not modelled

File formats, prompts, models, retrieval, widgets and routes have no state to check. In `Tasks`:
clearing history, the input store, progress texts, version chains of recompilations. In
`Publication`: the replacement of one source by another, `index.md`, malformed ranges (the code
refuses them before it proposes), receipts without an ownership record, as earlier versions left them
(`source_refs.py:67-71` takes the page contents of the proposal instead), withdrawals by a removal,
edits between the check of a page and its copy, which the code cannot see and
`docs/document-processing.md:606-610` concedes. In
`Lifecycle`: an inode used again at once by a directory the program did not make, and a user who moves
the directory away and another one in between the two steps of a submission (`Replace`). Artifacts that
get their name while a scope runs are in `Mutation`, but `AtomicKb` speaks of pages only.

Hazards of this code that no module reaches: an artifact that is named and not yet tracked when its
process dies (`mutation.py:207`: garbage, invisible to readers); an inode used again
(`lifecycle.py:99`); upgrades and the order of several leases (`locks.py:80`, refused by an exception);
readers that keep a writer waiting (`locks.py:85`, nothing is promised); a new attempt at a page in
doubt (`ocr/reprocessing.py:66`, a second job on purpose); a page that is saved between its check and
its copy (`knowledge_commit.py:408`); the debounce timer of the service watch against its stop
(`watcher.py:58`); the second scope of a removal (`application/removal.py:370`).

In `NativeWatch`, a record of a finished task that somebody clears meanwhile (the manager keeps those
the watch refers to), links, directories and a raw directory that moves, which ends the watch like
`Fail`. In `Budget`, the request journal and the counting of tokens. In `Facts`, how a text is cut and
what makes an answer valid.

## 8. Plan

Done: the journal, the lifecycle, tasks, cloud jobs, publication, the budget, the extraction of facts,
the native watch. What would come next:

1. `LeaseOrder` — `locks.py`, `settings_access.py`, `config_state.py`, sessions: no deadlock among
   configuration, session, lifecycle and knowledge-base leases; upgrades refused.
2. `Removal`, `SourceCleanup`, `Outbox` as small modules over the journal's atomic scopes, and the
   service watch.
3. Theorems: the safety of these modules.
