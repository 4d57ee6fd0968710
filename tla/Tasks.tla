-------------------------------- MODULE Tasks --------------------------------
(***************************************************************************)
(* The task manager and its worker processes (openkb/runtime/tasks.py,     *)
(* worker.py, records.py, recovery.py, task_actions.py, and begin of       *)
(* openkb/application/execution.py).                                       *)
(*                                                                         *)
(* A task is a batch of units on one knowledge base.  Each unit gets a     *)
(* fresh process; the two talk over a pipe, a FIFO each way.  Three things *)
(* outlive the manager: the summary of a task, the receipt of a unit, and  *)
(* a worker that still runs.                                               *)
(*                                                                         *)
(* Abstractions.  A manager step is one the scheduler takes under its      *)
(* lock.  Grace periods and limits are nondeterministic.  A result is its  *)
(* status; skipped behaves as completed.  What a unit does to the          *)
(* knowledge base is one step, Publish (module Mutation has its steps);    *)
(* the lease of a knowledge base is held by whoever is in one of the       *)
(* states Leased.                                                          *)
(***************************************************************************)
EXTENDS Naturals, Sequences, FiniteSets

CONSTANTS
    Task, Kb, KbOf,   \* tasks, knowledge bases, and where each task works
    Total,            \* how many units a task that is submitted has
    MaxUnits,
    Document,         \* the tasks whose units publish before they navigate
    Settings,         \* the configurations that may be saved
    MaxWorkers,
    MaxFaults,        \* bound: how often a file cannot be saved
    MaxCrashes,       \* bound: how often the application dies
    None

ASSUME TasksAssumption ==
    /\ IsFiniteSet(Task)
    /\ KbOf \in [Task -> Kb]
    /\ MaxUnits \in Nat /\ Total \in [Task -> 1..MaxUnits]
    /\ Document \subseteq Task
    /\ MaxWorkers \in Nat \ {0}
    /\ MaxFaults \in Nat /\ MaxCrashes \in Nat
    /\ None \notin Settings \cup {"completed", "failed", "unfinished", "stopped", "blocked"}

Status == {"completed", "failed", "unfinished", "stopped", "blocked"}
TERMINAL == {"completed", "partial", "failed", "stopped", "interrupted", "blocked"}
Waiting == {"waiting", "waiting-input"}
Request == Task \X (1..MaxUnits)

View == [state : {"queued", "running", "stopping"} \cup Waiting \cup TERMINAL,
         results : Seq(Status), stop : BOOLEAN]
Attempt == [recovery : BOOLEAN, stopSent : BOOLEAN, reading : BOOLEAN, limited : BOOLEAN,
            budget : BOOLEAN, settling : BOOLEAN, deferred : {"no", "lease", "input"},
            unconfirmed : BOOLEAN, recovered : BOOLEAN, terminated : BOOLEAN]
Worker == [pc : {"none", "boot", "acking", "working", "committed", "handoff",
                 "saving", "closing", "draining", "exited", "dead"},
           unit : Nat, parent : BOOLEAN, late : BOOLEAN, stopped : {"no", "stop", "budget"},
           acked : BOOLEAN, navigated : BOOLEAN,
           config : Settings \cup {None}, result : Status \cup {None}]

ASSUME NoneAssumption == None \notin View /\ None \notin Attempt

Leased == {"acking", "working", "committed", "handoff"}
Gone == {"none", "exited", "dead"}

VARIABLES
    view,      \* the manager's tasks: a summary each
    disk,      \* the summaries as they were last saved
    job,       \* the requests of a task, in order
    held,      \* the tasks whose requests the manager still holds
    snapshot,  \* the configuration a task acknowledged
    pending, accepting,
    attempt,   \* what the manager knows of a task's process
    worker, inbox, outbox,    \* the process, and the pipe's two directions
    receipt,   \* the receipts, a function of the units of each task
    settings,  \* the configuration that is saved now
    published, \* what units did: how often each one published
    begun,     \* and the configuration under which it began
    faults, crashes

manager == <<view, disk, job, held, snapshot, pending, accepting, attempt>>
pipes == <<inbox, outbox>>
history == <<published, begun>>
bounds == <<faults, crashes>>
vars == <<view, disk, job, held, snapshot, pending, accepting, attempt,
          worker, inbox, outbox, receipt, settings, published, begun, faults, crashes>>

NoWorker == [pc |-> "none", unit |-> 0, parent |-> FALSE, late |-> FALSE, stopped |-> "no",
             acked |-> FALSE, navigated |-> FALSE, config |-> None, result |-> None]
NewAttempt == [recovery |-> FALSE, stopSent |-> FALSE, reading |-> FALSE, limited |-> FALSE,
               budget |-> FALSE, settling |-> FALSE, deferred |-> "no",
               unconfirmed |-> FALSE, recovered |-> FALSE, terminated |-> FALSE]

Unit == 1..MaxUnits

TypeOK ==
    /\ view \in [Task -> View \cup {None}] /\ disk \in [Task -> View \cup {None}]
    /\ job \in [Task -> Seq(Request)]
    /\ held \subseteq Task
    /\ snapshot \in [Task -> Settings \cup {None}]
    /\ pending \in Seq(Task) /\ accepting \in BOOLEAN
    /\ attempt \in [Task -> Attempt \cup {None}]
    /\ worker \in [Task -> Worker]
    /\ inbox \in [Task -> Seq({"stop", "budget", "snapshot-ack", "navigation-ack"})]
    /\ outbox \in [Task -> Seq([kind : {"snapshot", "navigation", "deferred", "input", "result",
                                        "unconfirmed", "recovered"},
                                config : Settings \cup {None}])]
    /\ receipt \in [Task -> [Unit -> Status \cup {None}]]
    /\ settings \in Settings
    /\ published \in [Task -> [Unit -> Nat]]
    /\ begun \in [Task -> [Unit -> Settings \cup {None}]]
    /\ faults \in 0..MaxFaults /\ crashes \in 0..MaxCrashes

Init ==
    /\ view = [t \in Task |-> None] /\ disk = view
    /\ job = [t \in Task |-> <<>>] /\ held = {}
    /\ snapshot = [t \in Task |-> None]
    /\ pending = <<>> /\ accepting = TRUE
    /\ attempt = [t \in Task |-> None]
    /\ worker = [t \in Task |-> NoWorker]
    /\ inbox = [t \in Task |-> <<>>] /\ outbox = [t \in Task |-> <<>>]
    /\ receipt = [t \in Task |-> [u \in Unit |-> None]]
    /\ settings \in Settings
    /\ published = [t \in Task |-> [u \in Unit |-> 0]]
    /\ begun = [t \in Task |-> [u \in Unit |-> None]]
    /\ faults = 0 /\ crashes = 0

-----------------------------------------------------------------------------
(* Helpers of the manager. *)

Live(t) == view[t] # None /\ view[t].state \notin TERMINAL
Next1(t) == Len(view[t].results) + 1     \* the unit a task is at

(* _update: a summary that cannot be saved stops the task in memory. *)
Update(t, v) ==
    \E saved \in BOOLEAN :
        /\ view' = [view EXCEPT ![t] = IF saved THEN v ELSE [v EXCEPT !.stop = TRUE]]
        /\ disk' = [disk EXCEPT ![t] = IF saved THEN v ELSE @]
        /\ saved \/ faults < MaxFaults
        /\ faults' = faults + (IF saved THEN 0 ELSE 1)

(* A terminal state, for good: the process is reaped. *)
Settle(t, v) ==
    /\ Update(t, v)
    /\ attempt' = [attempt EXCEPT ![t] = None]
    /\ worker' = [worker EXCEPT ![t] = NoWorker]
    /\ inbox' = [inbox EXCEPT ![t] = <<>>]

(* The receipts that follow the results a task knows, up to the first gap. *)
Confirmed(t, known) ==
    LET last == CHOOSE n \in Len(known)..Len(job[t]) :
                    /\ \A u \in Len(known)+1..n : receipt[t][u] # None
                    /\ n = Len(job[t]) \/ receipt[t][n + 1] = None
    IN  [u \in 1..last |-> IF u <= Len(known) THEN known[u] ELSE receipt[t][u]]

Spawn(t, recovering, config) ==
    /\ worker' = [worker EXCEPT ![t] =
           [NoWorker EXCEPT !.pc = IF recovering THEN "draining" ELSE "boot",
                            !.unit = Next1(t), !.parent = TRUE,
                            !.late = ~recovering /\ view[t].stop, !.config = config]]
    /\ attempt' = [attempt EXCEPT ![t] = [NewAttempt EXCEPT !.recovery = recovering]]
    /\ inbox' = [inbox EXCEPT ![t] = <<>>]

(* To a process that is gone, nothing is delivered. *)
Tell(t, message) ==
    inbox' = [inbox EXCEPT ![t] = IF worker[t].pc \in Gone THEN @ ELSE Append(@, message)]

-----------------------------------------------------------------------------
(* What the user asks of the manager. *)

Submit(t) ==
    /\ accepting /\ view[t] = None
    /\ view' = [view EXCEPT ![t] = [state |-> "queued", results |-> <<>>, stop |-> FALSE]]
    /\ disk' = [disk EXCEPT ![t] = view'[t]]
    /\ job' = [job EXCEPT ![t] = [u \in 1..Total[t] |-> <<t, u>>]]
    /\ held' = held \cup {t}
    /\ pending' = Append(pending, t)
    /\ UNCHANGED <<snapshot, accepting, attempt, worker, pipes, receipt, settings, history, bounds>>

Asked(t) == [view[t] EXCEPT !.stop = TRUE]

Stopped(t) == [Asked(t) EXCEPT !.state = IF attempt[t] = None THEN "stopped" ELSE @]

(* Saved twice, as asked and as stopped: either save may fail. *)
Stop(t) ==
    /\ Live(t)
    /\ view' = [view EXCEPT ![t] = Stopped(t)]
    /\ \E saved \in {Stopped(t), Asked(t), disk[t]} :
        /\ disk' = [disk EXCEPT ![t] = saved]
        /\ faults' = faults + (IF saved = Stopped(t) THEN 0 ELSE 1) /\ faults' <= MaxFaults
    /\ UNCHANGED <<job, held, snapshot, pending, accepting, attempt,
                   worker, pipes, receipt, settings, history, crashes>>

Shutdown(stop) ==
    /\ accepting /\ accepting' = FALSE
    /\ view' = [t \in Task |-> IF stop /\ Live(t) THEN Stopped(t) ELSE view[t]]
    /\ \E lost \in SUBSET {t \in Task : stop /\ Live(t)} : \E half \in SUBSET lost :
        /\ disk' = [t \in Task |-> CASE t \in half -> Asked(t)
                                    [] t \in lost \ half -> disk[t]
                                    [] OTHER -> view'[t]]
        /\ faults' = faults + Cardinality(lost) /\ faults' <= MaxFaults
    /\ UNCHANGED <<job, held, snapshot, pending, attempt,
                   worker, pipes, receipt, settings, history, crashes>>

(* release_input_wait *)
ReleaseInputWait(t) ==
    /\ view[t] # None /\ view[t].state = "waiting-input"
    /\ attempt[t] = None /\ snapshot[t] = None
    /\ Update(t, [view[t] EXCEPT !.state = "stopped"])
    /\ UNCHANGED <<job, held, snapshot, pending, accepting, attempt,
                   worker, pipes, receipt, settings, history, crashes>>

(* preview_retry: the units without a receipt, and those that failed. *)
Remaining(t) ==
    LET known == Confirmed(t, <<>>)
    IN  {u \in 1..Len(job[t]) : u > Len(known) \/ known[u] \in {"failed", "stopped", "blocked"}}

(* Under a read lease, with every confirmed result backed by its receipt,  *)
(* and nothing left in doubt by an interruption.                           *)
Retriable(t) ==
    /\ view[t] # None /\ ~Live(t) /\ attempt[t] = None
    /\ \A q \in Task : worker[q].pc \in Leased => KbOf[q] # KbOf[t]
    /\ Len(view[t].results) <= Len(Confirmed(t, <<>>))
    /\ view[t].state = "interrupted" => Len(Confirmed(t, <<>>)) = Len(job[t])
    /\ t \in held
    /\ Remaining(t) # {}

Retry(t, new) ==
    /\ accepting /\ view[new] = None /\ KbOf[new] = KbOf[t]
    /\ Retriable(t)
    /\ view' = [view EXCEPT ![new] = [state |-> "queued", results |-> <<>>, stop |-> FALSE]]
    /\ disk' = [disk EXCEPT ![new] = view'[new]]
    /\ job' = [job EXCEPT ![new] =
           LET nth(i) == CHOOSE u \in Remaining(t) :
                             Cardinality({v \in Remaining(t) : v < u}) = i - 1
           IN  [i \in 1..Cardinality(Remaining(t)) |-> job[t][nth(i)]]]
    /\ held' = held \cup {new}
    /\ pending' = Append(pending, new)
    /\ UNCHANGED <<snapshot, accepting, attempt, worker, pipes, receipt, settings, history, bounds>>

SaveSettings ==
    /\ settings' \in Settings \ {settings}
    /\ UNCHANGED <<manager, worker, pipes, receipt, history, bounds>>

-----------------------------------------------------------------------------
(* The scheduler, _run: one attempt per knowledge base, and a bounded      *)
(* number of them.                                                         *)

Active == {t \in Task : attempt[t] # None}
Busy(t) == \E q \in Active : KbOf[q] = KbOf[t]

(* A task that has ended is dropped from the queue. *)
Drop ==
    /\ pending # <<>> /\ Cardinality(Active) < MaxWorkers
    /\ ~Live(Head(pending))
    /\ pending' = Tail(pending)
    /\ UNCHANGED <<view, disk, job, held, snapshot, accepting, attempt,
                   worker, pipes, receipt, settings, history, bounds>>

(* One that must wait for its knowledge base or its delay goes to the end. *)
Rotate ==
    /\ pending # <<>> /\ Cardinality(Active) < MaxWorkers
    /\ Live(Head(pending))
    /\ Busy(Head(pending)) \/ view[Head(pending)].state \in Waiting
    /\ pending' = Append(Tail(pending), Head(pending))
    /\ UNCHANGED <<view, disk, job, held, snapshot, accepting, attempt,
                   worker, pipes, receipt, settings, history, bounds>>

(* Mutant: the queue is not asked whether the task has ended. *)
StartableEnded(t) ==
    /\ pending # <<>> /\ Head(pending) = t
    /\ ~Busy(t) /\ Cardinality(Active) < MaxWorkers

Startable(t) ==
    /\ pending # <<>> /\ Head(pending) = t
    /\ Live(t) /\ ~Busy(t) /\ Cardinality(Active) < MaxWorkers

(* _start *)
Start(t) ==
    /\ Startable(t)
    /\ pending' = Tail(pending)
    /\ Spawn(t, FALSE, snapshot[t])
    /\ Update(t, [view[t] EXCEPT !.state = "running"])
    /\ UNCHANGED <<job, held, snapshot, accepting, outbox,
                   receipt, settings, history, crashes>>

StartFails(t) ==
    /\ Startable(t)
    /\ pending' = Tail(pending)
    /\ Update(t, [view[t] EXCEPT !.state = "failed"])
    /\ UNCHANGED <<job, held, snapshot, accepting, attempt,
                   worker, pipes, receipt, settings, history, crashes>>

(* _control sends a stop, once, before it reads anything in that pass. *)
MustSendStop(t) ==
    /\ attempt[t] # None
    /\ view[t].stop \/ attempt[t].budget
    /\ ~attempt[t].stopSent /\ ~attempt[t].recovery

SendStop(t) ==
    /\ MustSendStop(t)
    /\ Tell(t, IF view[t].stop THEN "stop" ELSE "budget")
    /\ attempt' = [attempt EXCEPT ![t].stopSent = TRUE, ![t].reading = FALSE, ![t].settling = TRUE]
    /\ Update(t, [view[t] EXCEPT !.state = "stopping"])
    /\ UNCHANGED <<job, held, snapshot, pending, accepting, worker, outbox,
                   receipt, settings, history, crashes>>

(* Mutant: messages are read before a stop is sent. *)
MayReadBeforeStop(t, kind) ==
    attempt[t] # None /\ outbox[t] # <<>> /\ Head(outbox[t]).kind = kind

(* A stop that the pass itself brings about, by a save that fails, is sent *)
(* by the next one, and until then the pass reads on.  Nobody else stops a *)
(* task meanwhile: the pass holds the manager's lock.                      *)
MayRead(t, kind) ==
    /\ attempt[t] # None /\ (~MustSendStop(t) \/ attempt[t].reading)
    /\ outbox[t] # <<>> /\ Head(outbox[t]).kind = kind

(* The rest of _control, one action per kind of message. *)
ReadSnapshot(t) ==
    /\ MayRead(t, "snapshot")
    /\ snapshot' = [snapshot EXCEPT ![t] = Head(outbox[t]).config]
    /\ Update(t, view[t])     \* started_at
    /\ Tell(t, "snapshot-ack")
    /\ attempt' = [attempt EXCEPT ![t].limited = t \in Document,
                                  ![t].reading = ~view[t].stop /\ view'[t].stop]
    /\ outbox' = [outbox EXCEPT ![t] = Tail(@)]
    /\ UNCHANGED <<job, held, pending, accepting, worker,
                   receipt, settings, history, crashes>>

ReadNavigation(t) ==
    /\ MayRead(t, "navigation")
    /\ IF receipt[t][Next1(t)] = "completed" /\ snapshot[t] # None
       THEN Tell(t, "navigation-ack")
       ELSE UNCHANGED inbox
    /\ outbox' = [outbox EXCEPT ![t] = Tail(@)]
    /\ UNCHANGED <<manager, worker, receipt, settings, history, bounds>>

ReadOutcome(t) ==
    /\ \E kind \in {"deferred", "input", "result", "unconfirmed", "recovered"} :
        /\ MayRead(t, kind)
        /\ attempt' = [attempt EXCEPT ![t] =
             CASE kind = "deferred" -> [@ EXCEPT !.deferred = "lease"]
               [] kind = "input" -> [@ EXCEPT !.deferred = "input"]
               [] kind = "recovered" -> [@ EXCEPT !.recovered = TRUE]
               [] OTHER -> [@ EXCEPT !.settling = TRUE, !.unconfirmed = (kind = "unconfirmed")]]
    /\ outbox' = [outbox EXCEPT ![t] = Tail(@)]
    /\ UNCHANGED <<view, disk, job, held, snapshot, pending, accepting,
                   worker, inbox, receipt, settings, history, bounds>>

(* _progress saves the summary now and then. *)
SaveProgress(t) ==
    /\ attempt[t] # None
    /\ Update(t, view[t])
    /\ UNCHANGED <<job, held, snapshot, pending, accepting, attempt,
                   worker, pipes, receipt, settings, history, crashes>>

(* _supervise: a document's budget, and the deadline of a process that was *)
(* told to stop, gave its result, recovers, or left children behind.       *)
ExpireBudget(t) ==
    /\ attempt[t] # None /\ attempt[t].limited
    /\ ~view[t].stop /\ ~attempt[t].budget
    /\ attempt' = [attempt EXCEPT ![t].budget = TRUE]
    /\ UNCHANGED <<view, disk, job, held, snapshot, pending, accepting,
                   worker, pipes, receipt, settings, history, bounds>>

OverdueUnit(t) ==   \* Mutant: a recovery has no deadline
    attempt[t].settling \/ worker[t].pc \in {"exited", "dead"}

Overdue(t) ==
    attempt[t].settling \/ attempt[t].recovery \/ worker[t].pc \in {"exited", "dead"}

Terminate(t) ==
    /\ attempt[t] # None /\ ~attempt[t].terminated
    /\ Overdue(t)
    /\ attempt' = [attempt EXCEPT ![t].terminated = TRUE]
    /\ UNCHANGED <<view, disk, job, held, snapshot, pending, accepting,
                   worker, pipes, receipt, settings, history, bounds>>

(* _finish: the process is gone and everything it said was read.           *)
Ended(t) ==
    /\ attempt[t] # None /\ worker[t].pc \in {"exited", "dead"}
    /\ outbox[t] = <<>> /\ ~MustSendStop(t)

Unfinished(t) ==     \* recovery did not confirm that it is safe to go on
    attempt[t].recovery /\ ~attempt[t].recovered

Abnormal(t) ==
    ~attempt[t].recovery /\ (attempt[t].terminated \/ worker[t].pc = "dead")

WithReceipt(t) ==
    IF receipt[t][Next1(t)] = None THEN view[t].results
    ELSE Append(view[t].results, receipt[t][Next1(t)])

FinishUnrecovered(t) ==
    /\ Ended(t) /\ Unfinished(t)
    /\ Settle(t, [view[t] EXCEPT !.results = WithReceipt(t), !.state = "blocked"])
    /\ UNCHANGED <<job, held, snapshot, pending, accepting, outbox,
                   receipt, settings, history, crashes>>

(* _start_recovery: another process drains the journals. *)
StartRecovery(t) ==
    /\ Ended(t) /\ Abnormal(t)
    /\ Spawn(t, TRUE, None)
    /\ Update(t, [view[t] EXCEPT !.state = "stopping"])
    /\ UNCHANGED <<job, held, snapshot, pending, accepting, outbox,
                   receipt, settings, history, crashes>>

StartRecoveryFails(t) ==
    /\ Ended(t) /\ Abnormal(t)
    /\ Settle(t, [view[t] EXCEPT !.state = "blocked"])
    /\ UNCHANGED <<job, held, snapshot, pending, accepting, outbox,
                   receipt, settings, history, crashes>>

PutBack(t) == <<t>> \o pending    \* Mutant: it keeps its turn

PutLast(t) == Append(pending, t)

Deferred(t) ==
    ~attempt[t].recovery /\ attempt[t].deferred # "no"

FinishDeferred(t) ==
    /\ Ended(t) /\ ~Abnormal(t) /\ Deferred(t)
    /\ Settle(t, [view[t] EXCEPT !.state =
                     IF view[t].stop THEN "stopped"
                     ELSE IF attempt[t].deferred = "input" THEN "waiting-input" ELSE "waiting"])
    /\ pending' = (IF view[t].stop THEN pending ELSE PutLast(t))
    /\ UNCHANGED <<job, held, snapshot, accepting, outbox,
                   receipt, settings, history, crashes>>

InDoubt(t) ==
    receipt[t][Next1(t)] = None \/ attempt[t].unconfirmed

(* Mutant: what may not have happened is tried again. *)
FinishInDoubtAgain(t) ==
    /\ Ended(t) /\ ~Unfinished(t) /\ ~Abnormal(t) /\ ~Deferred(t)
    /\ InDoubt(t)
    /\ Settle(t, [view[t] EXCEPT !.state = "queued"])
    /\ pending' = PutLast(t)
    /\ UNCHANGED <<job, held, snapshot, accepting, outbox,
                   receipt, settings, history, crashes>>

FinishInDoubt(t) ==
    /\ Ended(t) /\ ~Unfinished(t) /\ ~Abnormal(t) /\ ~Deferred(t)
    /\ InDoubt(t)
    /\ Settle(t, [view[t] EXCEPT !.state = "interrupted"])
    /\ UNCHANGED <<job, held, snapshot, pending, accepting, outbox,
                   receipt, settings, history, crashes>>

(* The state of a task whose last unit gave the last of these results. *)
Outcome(results) ==
    LET has(status) == \E u \in 1..Len(results) : results[u] = status
    IN  CASE results[Len(results)] = "stopped" -> "stopped"
          [] results[Len(results)] # "stopped" /\ has("unfinished") -> "partial"
          [] results[Len(results)] # "stopped" /\ ~has("unfinished") /\ has("failed") ->
                 IF has("completed") THEN "partial" ELSE "failed"
          [] OTHER -> "completed"

NextState(t, results, stop) ==
    LET last == results[Len(results)]
    IN  CASE worker[t].pc = "dead" -> "interrupted"
          [] worker[t].pc # "dead" /\ last = "blocked" -> "blocked"
          [] worker[t].pc # "dead" /\ last # "blocked" /\ Len(results) = Len(job[t]) ->
                 Outcome(results)
          [] OTHER -> IF stop \/ last = "stopped" THEN "stopped" ELSE "queued"

(* The result is saved before the state; either may not be saved, and a    *)
(* result that was not saved stops the batch.  An answer that was only     *)
(* recovered is unavailable: the task ends as partial.                     *)
FinishConfirmed(t) ==
    /\ Ended(t) /\ ~Unfinished(t) /\ ~Abnormal(t) /\ ~Deferred(t)
    /\ receipt[t][Next1(t)] # None /\ ~attempt[t].unconfirmed
    /\ \E first, second \in BOOLEAN :
        LET results == Append(view[t].results, receipt[t][Next1(t)])
            stop == view[t].stop \/ ~first
        IN  \E state \in {NextState(t, results, stop)}
                         \cup (IF attempt[t].recovery /\ NextState(t, results, stop) \notin {"interrupted", "blocked"}
                             THEN {"partial"} ELSE {}) :
            /\ view' = [view EXCEPT ![t] = [state |-> state, results |-> results,
                                            stop |-> stop \/ ~second]]
            /\ disk' = [disk EXCEPT ![t] =
                   IF second THEN [state |-> state, results |-> results, stop |-> stop]
                   ELSE IF first THEN [view[t] EXCEPT !.results = results] ELSE @]
            /\ faults' = faults + (IF first THEN 0 ELSE 1) + (IF second THEN 0 ELSE 1)
            /\ faults' <= MaxFaults
            /\ pending' = (IF state = "queued" THEN PutLast(t) ELSE pending)
    /\ attempt' = [attempt EXCEPT ![t] = None]
    /\ worker' = [worker EXCEPT ![t] = NoWorker]
    /\ inbox' = [inbox EXCEPT ![t] = <<>>]
    /\ UNCHANGED <<job, held, snapshot, accepting, outbox,
                   receipt, settings, history, crashes>>

(* The application dies; the next one loads the history (_load_history)    *)
(* and runs none of it.  The workers find the pipe closed.                 *)
Restart ==
    /\ crashes < MaxCrashes /\ crashes' = crashes + 1
    /\ view' = [t \in Task |->
         IF disk[t] = None THEN None
         ELSE [state |-> IF disk[t].state \in TERMINAL THEN disk[t].state ELSE "interrupted",
               results |-> Confirmed(t, disk[t].results),
               stop |-> disk[t].stop]]
    /\ held' = {}
    /\ snapshot' = [t \in Task |-> None]
    /\ pending' = <<>> /\ accepting' = TRUE
    /\ attempt' = [t \in Task |-> None]
    /\ worker' = [t \in Task |-> IF worker[t].pc \in Gone THEN NoWorker
                                 ELSE [worker[t] EXCEPT !.parent = FALSE]]
    /\ inbox' = [t \in Task |-> <<>>] /\ outbox' = [t \in Task |-> <<>>]
    /\ UNCHANGED <<disk, job, receipt, settings, history, faults>>

-----------------------------------------------------------------------------
(* A worker, run_unit.                                                     *)

Say(t, kind, config) ==
    outbox' = [outbox EXCEPT ![t] =
        IF worker[t].parent THEN Append(@, [kind |-> kind, config |-> config]) ELSE @]

Free(k) == \A q \in Task : KbOf[q] = k => worker[q].pc \notin Leased

(* The thread that reads the control pipe, in order. *)
Hear(t) ==
    /\ worker[t].pc \notin Gone /\ inbox[t] # <<>>
    /\ inbox' = [inbox EXCEPT ![t] = Tail(@)]
    /\ LET message == Head(inbox[t])
       IN  worker' = [worker EXCEPT
             ![t].stopped = IF message \in {"stop", "budget"} THEN message ELSE @,
             ![t].acked = @ \/ message = "snapshot-ack",
             ![t].navigated = @ \/ message = "navigation-ack"]
    /\ UNCHANGED <<manager, outbox, receipt, settings, history, bounds>>

HearNobody(t) ==
    /\ worker[t].pc \notin Gone /\ ~worker[t].parent /\ worker[t].stopped = "no"
    /\ worker' = [worker EXCEPT ![t].stopped = "stop"]
    /\ UNCHANGED <<manager, pipes, receipt, settings, history, bounds>>

(* WaitingForLease and InputChanged: nothing has begun. *)
Defer(t) ==
    /\ worker[t].pc = "boot"
    /\ \E kind \in {"deferred", "input"} : Say(t, kind, None)
    /\ worker' = [worker EXCEPT ![t].pc = "exited"]
    /\ UNCHANGED <<manager, inbox, receipt, settings, history, bounds>>

(* The knowledge base was removed, needs repair, or the request is refused. *)
Reject(t) ==
    /\ worker[t].pc = "boot"
    /\ \E status \in {"failed", "blocked"} :
         worker' = [worker EXCEPT ![t].pc = "closing", ![t].result = status]
    /\ UNCHANGED <<manager, pipes, receipt, settings, history, bounds>>

(* Mutant: every unit captures the configuration of its day. *)
CaptureAgain(t) ==
    /\ worker[t].pc = "boot" /\ worker[t].stopped = "no" /\ Free(KbOf[t])
    /\ worker' = [worker EXCEPT ![t].pc = "acking", ![t].config = settings]
    /\ Say(t, "snapshot", settings)
    /\ UNCHANGED <<manager, inbox, receipt, settings, history, bounds>>

(* The lease, and begin: the configuration is captured, once for a task. *)
Capture(t) ==
    /\ worker[t].pc = "boot" /\ worker[t].stopped = "no" /\ Free(KbOf[t])
    /\ LET config == IF worker[t].config = None THEN settings ELSE worker[t].config
       IN  /\ worker' = [worker EXCEPT ![t].pc = "acking", ![t].config = config]
           /\ Say(t, "snapshot", config)
    /\ UNCHANGED <<manager, inbox, receipt, settings, history, bounds>>

Begin(t) ==
    /\ worker[t].pc = "acking" /\ worker[t].acked /\ worker[t].stopped = "no"
    /\ worker' = [worker EXCEPT ![t].pc = "working"]
    /\ begun' = [begun EXCEPT ![t][worker[t].unit] = worker[t].config]
    /\ UNCHANGED <<manager, pipes, receipt, settings, published, bounds>>

(* LockCancelled and OperationCancelled.  The wait for the acknowledgement *)
(* ends with it, or with the parent.                                       *)
Cancelled(t) ==
    /\ worker[t].pc \in {"boot", "acking", "working"} /\ worker[t].stopped # "no"
    /\ worker[t].pc = "acking" => worker[t].acked \/ ~worker[t].parent
    /\ worker' = [worker EXCEPT ![t].pc = "closing",
           ![t].result = IF worker[t].stopped = "budget" THEN "unfinished" ELSE "stopped"]
    /\ UNCHANGED <<manager, pipes, receipt, settings, history, bounds>>

Publish(t) ==
    /\ worker[t].pc = "working"
    /\ published' = [published EXCEPT ![t][worker[t].unit] = @ + 1]
    /\ worker' = [worker EXCEPT ![t].pc = IF t \in Document THEN "committed" ELSE "saving",
                                ![t].result = "completed"]
    /\ UNCHANGED <<manager, pipes, receipt, settings, begun, bounds>>

(* What follows the publication fails: the private workspace cannot be     *)
(* removed, the usage not be recorded.  The unit reports that instead.     *)
CleanupFails(t) ==
    /\ worker[t].pc = "working"
    /\ published' = [published EXCEPT ![t][worker[t].unit] = @ + 1]
    /\ \E pc \in {"saving", "closing"}, status \in {"failed", "unfinished"} :
         worker' = [worker EXCEPT ![t].pc = pc, ![t].result = status]
    /\ UNCHANGED <<manager, pipes, receipt, settings, begun, bounds>>

(* It ends without publishing: it returns so, or it raises. *)
Fail(t) ==
    /\ worker[t].pc = "working"
    /\ \E pc \in {"saving", "closing"}, status \in {"failed", "unfinished", "blocked"} :
         worker' = [worker EXCEPT ![t].pc = pc, ![t].result = status]
    /\ UNCHANGED <<manager, pipes, receipt, settings, history, bounds>>

SaveReceipt(t) ==
    /\ receipt' = [receipt EXCEPT ![t][worker[t].unit] = worker[t].result]
    /\ UNCHANGED faults

ReceiptLost ==
    /\ faults < MaxFaults /\ faults' = faults + 1
    /\ UNCHANGED receipt

(* committed: the outcome is fixed before the optional navigation. *)
Committed(t) ==
    /\ worker[t].pc = "committed"
    /\ \/ /\ SaveReceipt(t)
          /\ Say(t, "navigation", None)
          /\ worker' = [worker EXCEPT ![t].pc = IF worker[t].parent THEN "handoff" ELSE "closing"]
       \/ /\ ReceiptLost
          /\ worker' = [worker EXCEPT ![t].pc = "closing"]
          /\ UNCHANGED outbox
    /\ UNCHANGED <<manager, inbox, settings, history, crashes>>

(* Mutant: a stop after the publication becomes the result. *)
HandoffForgotten(t) ==
    /\ worker[t].pc = "handoff"
    /\ \/ /\ worker[t].navigated
          /\ worker' = [worker EXCEPT ![t].pc = "saving"]
       \/ /\ worker[t].stopped # "no"
          /\ worker' = [worker EXCEPT ![t].pc = "closing", ![t].result = "stopped"]
    /\ UNCHANGED <<manager, pipes, receipt, settings, history, bounds>>

(* Cancelled while it waits, or by a navigation that does not succeed, it  *)
(* still reports what it published.                                        *)
Handoff(t) ==
    /\ worker[t].pc = "handoff"
    /\ \E pc \in {"saving", "closing"} :
        /\ worker[t].navigated \/ (worker[t].stopped # "no" /\ pc = "closing")
        /\ worker' = [worker EXCEPT ![t].pc = pc]
    /\ UNCHANGED <<manager, pipes, receipt, settings, history, bounds>>

(* The result is saved before the worker cleans up, and again after. *)
Save(t) ==
    /\ worker[t].pc = "saving"
    /\ worker' = [worker EXCEPT ![t].pc = "closing"]
    /\ \/ SaveReceipt(t) /\ Say(t, "result", None)
       \/ ReceiptLost /\ UNCHANGED outbox
    /\ UNCHANGED <<manager, inbox, settings, history, crashes>>

Close(t) ==
    /\ worker[t].pc = "closing"
    /\ worker' = [worker EXCEPT ![t].pc = "exited"]
    /\ \/ SaveReceipt(t) /\ Say(t, "result", None)
       \/ ReceiptLost /\ Say(t, "unconfirmed", None)
    /\ UNCHANGED <<manager, inbox, settings, history, crashes>>

(* recover_worker: it confirms a recovery, or gives up. *)
Drain(t) ==
    /\ worker[t].pc = "draining"
    /\ \/ Free(KbOf[t]) /\ Say(t, "recovered", None)
       \/ UNCHANGED outbox
    /\ worker' = [worker EXCEPT ![t].pc = "exited"]
    /\ UNCHANGED <<manager, inbox, receipt, settings, history, bounds>>

Die(t) ==
    /\ worker[t].pc \notin Gone
    /\ worker' = [worker EXCEPT ![t].pc = "dead"]
    /\ UNCHANGED <<manager, pipes, receipt, settings, history, bounds>>

Killed(t) == attempt[t] # None /\ attempt[t].terminated /\ Die(t)

(* Nobody waits for a worker whose manager died. *)
Vanish(t) ==
    /\ worker[t].pc \in {"exited", "dead"} /\ ~worker[t].parent
    /\ worker' = [worker EXCEPT ![t] = NoWorker]
    /\ UNCHANGED <<manager, pipes, receipt, settings, history, bounds>>

-----------------------------------------------------------------------------
Ask ==
    \/ \E t \in Task : Submit(t) \/ Stop(t) \/ ReleaseInputWait(t)
    \/ \E stop \in BOOLEAN : Shutdown(stop)
    \/ SaveSettings

Schedule(t) ==
    \/ Start(t) \/ SendStop(t)
    \/ ReadSnapshot(t) \/ ReadNavigation(t) \/ ReadOutcome(t)
    \/ FinishUnrecovered(t) \/ StartRecovery(t) \/ StartRecoveryFails(t)
    \/ FinishDeferred(t) \/ FinishInDoubt(t) \/ FinishConfirmed(t)

Supervise(t) ==
    StartFails(t) \/ SaveProgress(t) \/ ExpireBudget(t) \/ Terminate(t)

Act(t) ==
    \/ Hear(t) \/ HearNobody(t)
    \/ Defer(t) \/ Reject(t) \/ Capture(t) \/ Begin(t) \/ Cancelled(t)
    \/ Publish(t) \/ CleanupFails(t) \/ Fail(t)
    \/ Committed(t) \/ Handoff(t) \/ Save(t) \/ Close(t) \/ Drain(t)

Next ==
    \/ Ask \/ Drop \/ Rotate \/ Restart
    \/ \E t \in Task : Schedule(t) \/ Supervise(t) \/ Act(t) \/ Die(t) \/ Vanish(t)

Spec == Init /\ [][Next]_vars

(* A manual retry on top, for which the code promises less. *)
RetryNext == Next \/ \E t, new \in Task : Retry(t, new)
RetrySpec == Init /\ [][RetryNext]_vars

-----------------------------------------------------------------------------
(* Properties. *)

(* A unit acts on the knowledge base at most once, whatever was deferred,  *)
(* terminated, recovered or loaded from history (_finish, _load_history).  *)
AtMostOnce ==
    \A t \in Task, u \in Unit : published[t][u] <= 1

(* What a task reports as confirmed was confirmed: by a receipt with that  *)
(* result, and a success by what was published (read_receipt, _finish).    *)
ResultsConfirmed ==
    \A t \in Task : view[t] # None =>
        \A u \in 1..Len(view[t].results) :
            /\ receipt[t][u] = view[t].results[u]
            /\ view[t].results[u] = "completed" => published[t][u] = 1

(* A unit begins only after every earlier unit of its batch was confirmed, *)
(* and all of them run under the configuration the first one captured.     *)
BatchInOrder ==
    \A t \in Task, u \in Unit : begun[t][u] # None =>
        /\ u <= Len(view[t].results) + 1
        /\ \A v \in 1..u-1 : begun[t][v] \in {None, begun[t][u]}

(* A process that is started although its task was told to stop, which     *)
(* happens when a summary could not be saved, never begins its unit: the   *)
(* stop is ahead of the acknowledgement in the pipe (_control, begin).     *)
LateUnitNeverBegins ==
    \A t \in Task : worker[t].late =>
        worker[t].pc \notin {"working", "committed", "handoff", "saving"}

(* The end of a task is its end: it is never started again, not by a later *)
(* application either, and no confirmed result is forgotten.               *)
EndIsEnd ==
    [][\A t \in Task : view[t] # None =>
         /\ view'[t] # None
         /\ Len(view[t].results) <= Len(view'[t].results)
         /\ ~Live(t) => view'[t].state \in TERMINAL /\ attempt'[t] = None]_vars

(* What the code schedules for certain: the manager's loop, its deadlines, *)
(* and the operating system that kills what it is told to kill.            *)
Fairness ==
    \A t \in Task :
        /\ WF_vars(SendStop(t))
        /\ WF_vars(ReadSnapshot(t) \/ ReadNavigation(t) \/ ReadOutcome(t))
        /\ WF_vars(Terminate(t)) /\ WF_vars(Killed(t))
        /\ WF_vars(FinishUnrecovered(t) \/ StartRecovery(t) \/ StartRecoveryFails(t)
                   \/ FinishDeferred(t) \/ FinishInDoubt(t) \/ FinishConfirmed(t))

FairSpec == Spec /\ Fairness

(* Units that end, unless they are told to, and a scheduler that looks at  *)
(* its queue.                                                              *)
Progressing ==
    /\ \A t \in Task :
        /\ WF_vars(worker[t].stopped = "no" /\ worker[t].pc # "draining" /\ Act(t))
        /\ WF_vars(Start(t) \/ StartFails(t))
    /\ WF_vars(Drop \/ Rotate)

LiveSpec == FairSpec /\ Progressing

(* An application that is told to stop everything ends, even if a worker   *)
(* hangs or its recovery does: every task reaches its end and no process   *)
(* is left (shutdown, _supervise).                                         *)
ShutdownEnds ==
    (~accepting /\ \A t \in Task : Live(t) => view[t].stop)
        ~> (\A t \in Task : ~Live(t) /\ attempt[t] = None)

(* A task whose knowledge base is held elsewhere waits without keeping     *)
(* another one from its turn, even with a single process slot (_run).      *)
NoStarvation ==
    \A t \in Task :
        view[t] # None /\ view[t].state = "queued" ~> view[t] # None /\ view[t].state # "queued"

(* What a retry repeats is what remains or was reported as failed: no      *)
(* other request is published by two tasks (docs/desktop.md).              *)
RetryRepeatsNothing ==
    \A t, q \in Task : \A u \in 1..Len(job[t]), v \in 1..Len(job[q]) :
        t # q /\ job[t][u] = job[q][v] =>
            \/ published[t][u] + published[q][v] <= 1
            \/ "failed" \in {receipt[t][u], receipt[q][v]}
=============================================================================
