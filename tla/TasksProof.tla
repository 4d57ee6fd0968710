------------------------------ MODULE TasksProof ------------------------------
(***************************************************************************)
(* For any tasks, units, knowledge bases, workers, crashes and failures to *)
(* save: a unit publishes at most once, what a task reports was confirmed, *)
(* a batch runs in order under one configuration, a unit that is started   *)
(* after a stop never begins, and an end is for good.                      *)
(*                                                                         *)
(* The argument.  What a process may still do to its unit follows from     *)
(* where it is, also when its manager died (PhaseInv); a task that goes on *)
(* has no process but the one of its attempt, and nothing of the units it  *)
(* would start next has happened (ReachInv); the pipe carries no stop      *)
(* behind an acknowledgement (LateInv).                                    *)
(***************************************************************************)
EXTENDS Tasks, FiniteSetTheorems, SequenceTheorems, WellFoundedInduction, TLAPS

Gives(t, kinds) == \E i \in DOMAIN outbox[t] : outbox[t][i].kind \in kinds
Takes(t, kinds) == \E i \in DOMAIN inbox[t] : inbox[t][i] \in kinds
Stops == {"stop", "budget"}

Untouched(t, u) == published[t][u] = 0 /\ receipt[t][u] = None /\ begun[t][u] = None

(* Results of a summary are those of the receipts. *)
Backed(t, results) ==
    /\ Len(results) <= Len(job[t])
    /\ \A u \in 1..Len(results) : receipt[t][u] = results[u]

(* A task that was never submitted has left no trace. *)
BirthInv(t) ==
    IF view[t] = None
    THEN /\ disk[t] = None /\ job[t] = <<>> /\ attempt[t] = None /\ worker[t] = NoWorker
         /\ snapshot[t] = None
         /\ \A u \in Unit : Untouched(t, u)
    ELSE /\ disk[t] # None /\ Len(job[t]) = Total[t]
         /\ Backed(t, view[t].results) /\ Backed(t, disk[t].results)

CountInv(t) ==
    \A u \in Unit :
        /\ published[t][u] \in {0, 1}
        /\ receipt[t][u] # None => (receipt[t][u] = "completed" => published[t][u] = 1)

(* A process belongs to the attempt of a live task, or has lost its manager. *)
AttemptInv(t) ==
    /\ attempt[t] # None =>
           /\ Live(t)
           /\ worker[t].parent /\ worker[t].pc # "none" /\ worker[t].unit = Next1(t)
           /\ attempt[t].recovery => worker[t].pc \in {"draining", "exited", "dead"}
                                     /\ worker[t].config = None /\ ~worker[t].late
    /\ attempt[t] = None =>
           /\ inbox[t] = <<>> /\ outbox[t] = <<>>
           /\ worker[t].pc = "none" \/ ~worker[t].parent
           /\ Live(t) => worker[t].pc = "none"

(* Units are begun one after the other. *)
ReachInv(t) ==
    /\ worker[t].pc # "none" =>
           /\ worker[t].unit \in 1..Len(job[t])
           /\ view[t] # None /\ worker[t].unit <= Next1(t)
           /\ \A u \in Unit : u > worker[t].unit => Untouched(t, u)
    /\ Live(t) => Next1(t) <= Len(job[t])
    /\ Live(t) /\ attempt[t] = None => \A u \in Unit : u >= Next1(t) => Untouched(t, u)
    /\ \A u \in Unit : begun[t][u] # None => view[t] # None /\ u <= Next1(t)

(* What has happened to its unit, by where a process is. *)
WorkInv(t) ==
    LET w == worker[t]
        u == worker[t].unit
    IN  /\ w.pc \in {"boot", "acking"} => Untouched(t, u)
        /\ w.pc = "working" => published[t][u] = 0 /\ receipt[t][u] = None
        /\ w.pc = "committed" => published[t][u] = 1 /\ receipt[t][u] = None /\ w.result = "completed"
        /\ w.pc = "handoff" => published[t][u] = 1 /\ receipt[t][u] = "completed" /\ w.result = "completed"
        /\ w.pc \in {"saving", "closing"} =>
               /\ w.result \in Status /\ receipt[t][u] \in {None, w.result}
               /\ w.result = "completed" => published[t][u] = 1

(* Who puts a unit off has not touched it. *)
PutOffInv(t) ==
    attempt[t] # None /\ (attempt[t].deferred # "no" \/ Gives(t, {"deferred", "input"})) =>
        worker[t].pc \in Gone /\ Untouched(t, worker[t].unit)

PhaseInv(t) == WorkInv(t) /\ PutOffInv(t)

(* One configuration: from the one captured, through the pipe, to the task. *)
ConfigInv(t) ==
    /\ \A u, v \in Unit : begun[t][u] # None /\ begun[t][v] # None => begun[t][u] = begun[t][v]
    /\ Live(t) => \A u \in Unit : begun[t][u] \in {None, snapshot[t]}
    /\ worker[t].config # None => \A u \in Unit : begun[t][u] \in {None, worker[t].config}
    /\ worker[t].pc = "boot" /\ worker[t].config = None => \A u \in Unit : begun[t][u] = None
    /\ worker[t].pc = "acking" => worker[t].config # None
    /\ attempt[t] # None =>
           /\ \A i \in DOMAIN outbox[t] : outbox[t][i].kind = "snapshot" =>
                  outbox[t][i].config = worker[t].config /\ worker[t].config # None
           /\ Takes(t, {"snapshot-ack"}) \/ worker[t].acked =>
                  snapshot[t] = worker[t].config /\ worker[t].config # None

(* The stop of a task that was told to stop is ahead of every other word. *)
LateInv(t) ==
    worker[t].late =>
        /\ worker[t].pc \notin {"working", "committed", "handoff", "saving"}
        /\ worker[t].acked => worker[t].stopped # "no"
        /\ attempt[t] # None =>
              /\ view[t].stop /\ ~attempt[t].reading
              /\ ~attempt[t].stopSent => ~worker[t].acked /\ ~Takes(t, {"snapshot-ack"})
              /\ attempt[t].stopSent /\ worker[t].pc \notin Gone =>
                     worker[t].stopped # "no" \/ Takes(t, Stops)
              /\ \A i \in DOMAIN inbox[t] : inbox[t][i] = "snapshot-ack" =>
                     worker[t].stopped # "no" \/ \E j \in 1..i : inbox[t][j] \in Stops

TaskInv(t) ==
    /\ BirthInv(t) /\ CountInv(t) /\ AttemptInv(t) /\ ReachInv(t)
    /\ PhaseInv(t) /\ ConfigInv(t) /\ LateInv(t)

IInv == TypeOK /\ \A t \in Task : TaskInv(t)

-----------------------------------------------------------------------------
(* Helpers.                                                                *)

USE TasksAssumption, NoneAssumption

(* A task none of whose state changed keeps its invariant. *)
Same(q) ==
    /\ view'[q] = view[q] /\ disk'[q] = disk[q] /\ job'[q] = job[q] /\ snapshot'[q] = snapshot[q]
    /\ attempt'[q] = attempt[q] /\ worker'[q] = worker[q]
    /\ inbox'[q] = inbox[q] /\ outbox'[q] = outbox[q]
    /\ receipt'[q] = receipt[q] /\ published'[q] = published[q] /\ begun'[q] = begun[q]

LEMMA Kept == ASSUME NEW q \in Task, TaskInv(q), Same(q) PROVE TaskInv(q)'
<1>1. Live(q)' = Live(q) /\ (Live(q) \/ view[q] # None => Next1(q)' = Next1(q))
  BY DEF Same, Live, Next1
<1>2. BirthInv(q)' /\ CountInv(q)'
  BY DEF TaskInv, Same, BirthInv, CountInv, Backed, Untouched
<1>3. AttemptInv(q)' /\ ReachInv(q)'
  BY <1>1 DEF TaskInv, Same, AttemptInv, ReachInv, Untouched, Live, Next1
<1>4. PhaseInv(q)'
  BY DEF TaskInv, Same, PhaseInv, WorkInv, PutOffInv, Untouched, Gives
<1>5. ConfigInv(q)' /\ LateInv(q)'
  BY <1>1 DEF TaskInv, Same, ConfigInv, LateInv, Takes
<1> QED  BY <1>2, <1>3, <1>4, <1>5 DEF TaskInv

LEMMA Local ==
    ASSUME IInv, NEW t \in Task, TypeOK', TaskInv(t)', \A q \in Task \ {t} : Same(q)
    PROVE  IInv'
BY Kept DEF IInv

LEMMA Updated ==
    ASSUME TypeOK, NEW t \in Task, NEW v \in View, Update(t, v)
    PROVE  /\ view' \in [Task -> View \cup {None}] /\ disk' \in [Task -> View \cup {None}]
           /\ faults' \in 0..MaxFaults
           /\ view'[t] \in View /\ view'[t] # None
           /\ view'[t].state = v.state /\ view'[t].results = v.results /\ (v.stop => view'[t].stop)
           /\ disk'[t] \in {v, disk[t]}
           /\ \A q \in Task \ {t} : view'[q] = view[q] /\ disk'[q] = disk[q]
<1>1. PICK saved \in BOOLEAN :
        /\ view' = [view EXCEPT ![t] = IF saved THEN v ELSE [v EXCEPT !.stop = TRUE]]
        /\ disk' = [disk EXCEPT ![t] = IF saved THEN v ELSE @]
        /\ saved \/ faults < MaxFaults
        /\ faults' = faults + (IF saved THEN 0 ELSE 1)
  BY Zenon DEF Update
<1>2. [v EXCEPT !.stop = TRUE] \in View
  BY DEF View
<1>3. CASE saved = TRUE
  BY <1>1, <1>2, <1>3 DEF TypeOK, View
<1>4. CASE saved = FALSE
  <2>1. view' = [view EXCEPT ![t] = [v EXCEPT !.stop = TRUE]] /\ disk' = disk /\ faults' = faults + 1
    BY <1>1, <1>4 DEF TypeOK
  <2>2. faults' \in 0..MaxFaults
    BY <1>1, <1>4, <2>1 DEF TypeOK
  <2>3. /\ [v EXCEPT !.stop = TRUE].state = v.state /\ [v EXCEPT !.stop = TRUE].results = v.results
        /\ [v EXCEPT !.stop = TRUE].stop = TRUE
    BY DEF View
  <2>4. view'[t] = [v EXCEPT !.stop = TRUE]
    BY <2>1 DEF TypeOK
  <2> QED  BY <1>2, <2>1, <2>2, <2>3, <2>4 DEF TypeOK
<1> QED  BY <1>3, <1>4

(* The receipts that follow what is known, up to the first gap. *)
LEMMA ConfirmedResults ==
    ASSUME TypeOK, NEW t \in Task, NEW known \in Seq(Status), Backed(t, known), Len(job[t]) <= MaxUnits
    PROVE  /\ Confirmed(t, known) \in Seq(Status) /\ Backed(t, Confirmed(t, known))
           /\ \A k \in 0..Len(job[t]) :
                  (\A u \in 1..k : receipt[t][u] # None) => k <= Len(Confirmed(t, known))
<1> DEFINE n0 == Len(known)
           n1 == Len(job[t])
           Gap(n) == n = n1 \/ receipt[t][n + 1] = None
           Last(n) == (\A u \in n0+1..n : receipt[t][u] # None) /\ Gap(n)
           gaps == {n \in n0..n1 : Gap(n)}
<1>1. n0 \in Nat /\ n1 \in Nat /\ n0 <= n1 /\ n1 <= MaxUnits
  BY DEF Backed, TypeOK
<1>2. gaps \subseteq Nat /\ gaps # {}
  <2>1. n1 \in gaps
    BY <1>1
  <2> QED  BY <1>1, <2>1
<1>3. PICK m \in gaps : \A n \in gaps : ~(<<n, m>> \in OpToRel(<, Nat))
  BY <1>2, NatLessThanWellFounded, WFMin
<1>4. \A n \in gaps : m <= n
  <2> SUFFICES ASSUME NEW n \in gaps, n < m PROVE FALSE
    BY <1>2
  <2>1. n \in Nat /\ m \in Nat
    BY <1>2
  <2> HIDE DEF gaps
  <2>2. <<n, m>> \in OpToRel(<, Nat)
    BY <2>1 DEF OpToRel
  <2> QED  BY <1>3, <2>2
<1>5. \A u \in n0+1..m : receipt[t][u] # None
  <2> SUFFICES ASSUME NEW u \in n0+1..m, receipt[t][u] = None PROVE FALSE
    OBVIOUS
  <2>1. u - 1 \in n0..n1 /\ (u - 1) + 1 = u
    BY <1>1
  <2>2. u - 1 \in gaps
    BY <2>1
  <2>3. m <= u - 1 /\ m \in Nat
    BY <1>2, <1>4, <2>2
  <2> QED  BY <1>1, <2>3
<1>6. m \in n0..n1 /\ Last(m)
  BY <1>5
<1> DEFINE last == CHOOSE n \in n0..n1 : Last(n)
<1>7. last \in n0..n1 /\ Last(last)
  BY <1>6, Zenon
<1>8. Confirmed(t, known) = [u \in 1..last |-> IF u <= n0 THEN known[u] ELSE receipt[t][u]]
  BY DEF Confirmed
<1> HIDE DEF last
<1>9. ASSUME NEW u \in 1..last
      PROVE  (IF u <= n0 THEN known[u] ELSE receipt[t][u]) \in Status
             /\ (IF u <= n0 THEN known[u] ELSE receipt[t][u]) = receipt[t][u]
  <2>1. CASE u <= n0
    BY <1>1, <1>7, <2>1 DEF Backed
  <2>2. CASE ~(u <= n0)
    <3>1. u \in n0+1..last /\ u \in Unit
      BY <1>1, <1>7, <2>2 DEF Unit
    <3> QED  BY <1>7, <2>2, <3>1 DEF TypeOK
  <2> QED  BY <2>1, <2>2
<1>10. Confirmed(t, known) \in Seq(Status) /\ Len(Confirmed(t, known)) = last
  <2> DEFINE value(u) == IF u <= n0 THEN known[u] ELSE receipt[t][u]
  <2>1. last \in Nat
    BY <1>1, <1>7
  <2>2. \A u \in 1..last : value(u) \in Status
    BY <1>9
  <2>3. Confirmed(t, known) = [u \in 1..last |-> value(u)]
    BY <1>8
  <2> HIDE DEF value
  <2> QED  BY <2>1, <2>2, <2>3
<1>11. Backed(t, Confirmed(t, known))
  BY <1>7, <1>8, <1>9, <1>10 DEF Backed
<1>12. ASSUME NEW k \in 0..n1, \A u \in 1..k : receipt[t][u] # None PROVE k <= last
  <2> SUFFICES ASSUME k > last PROVE FALSE
    BY <1>1, <1>7
  <2>1. last + 1 \in 1..k /\ last # n1
    BY <1>1, <1>7
  <2> QED  BY <1>7, <1>12, <2>1
<1> QED  BY <1>10, <1>11, <1>12

LEMMA InitInv == Init => IInv
<1> SUFFICES ASSUME Init PROVE IInv
  OBVIOUS
<1>1. NoWorker \in Worker
  BY DEF NoWorker, Worker
<1>2. TypeOK
  BY <1>1 DEF Init, TypeOK
<1>3. ASSUME NEW t \in Task PROVE TaskInv(t)
  <2>1. /\ view[t] = None /\ disk[t] = None /\ job[t] = <<>> /\ attempt[t] = None
        /\ worker[t] = NoWorker /\ snapshot[t] = None /\ inbox[t] = <<>> /\ outbox[t] = <<>>
        /\ \A u \in Unit : receipt[t][u] = None /\ published[t][u] = 0 /\ begun[t][u] = None
    BY DEF Init
  <2> QED
    BY <2>1 DEF TaskInv, BirthInv, CountInv, AttemptInv, ReachInv, PhaseInv, WorkInv, PutOffInv, ConfigInv, LateInv, NoWorker,
                Untouched, Live
<1> QED  BY <1>2, <1>3 DEF IInv

-----------------------------------------------------------------------------
(* What the invariant says of a task.                                      *)

LEMMA Known ==
    ASSUME IInv, NEW t \in Task, view[t] # None
    PROVE  /\ view[t] \in View /\ view[t].results \in Seq(Status)
           /\ Next1(t) \in Nat /\ Next1(t) = Len(view[t].results) + 1
           /\ Len(view[t].results) <= Len(job[t]) /\ Len(job[t]) \in 1..MaxUnits
           /\ disk[t] \in View /\ disk[t].results \in Seq(Status)
<1>1. view[t] \in View /\ disk[t] \in View \cup {None} /\ Total[t] \in 1..MaxUnits
  BY DEF IInv, TypeOK
<1>2. disk[t] # None /\ Len(job[t]) = Total[t] /\ Backed(t, view[t].results)
  BY DEF IInv, TaskInv, BirthInv
<1> QED  BY <1>1, <1>2 DEF View, Next1, Backed

LEMMA Attempted ==
    ASSUME IInv, NEW t \in Task, attempt[t] # None
    PROVE  /\ view[t] # None /\ Live(t) /\ attempt[t] \in Attempt /\ worker[t] \in Worker
           /\ worker[t].parent /\ worker[t].pc # "none"
           /\ worker[t].unit = Next1(t) /\ Next1(t) \in 1..Len(job[t]) /\ Next1(t) \in Unit
<1>1. view[t] # None
  BY DEF IInv, TaskInv, AttemptInv, Live
<1>2. Len(job[t]) \in 1..MaxUnits
  BY <1>1, Known
<1> QED  BY <1>1, <1>2 DEF IInv, TypeOK, TaskInv, AttemptInv, ReachInv, Unit

-----------------------------------------------------------------------------
(* The steps of users.                                                     *)

LEMMA SubmitInv == ASSUME IInv, NEW t \in Task, Submit(t) PROVE IInv'
<1> DEFINE v == [state |-> "queued", results |-> <<>>, stop |-> FALSE]
<1>1. v \in View /\ v # None
  <2>1. <<>> \in Seq(Status)
    OBVIOUS
  <2>2. v \in View
    BY <2>1 DEF View
  <2> QED  BY <2>2
<1>2. /\ view' = [view EXCEPT ![t] = v] /\ disk' = [disk EXCEPT ![t] = v]
      /\ job' = [job EXCEPT ![t] = [u \in 1..Total[t] |-> <<t, u>>]]
  BY DEF Submit, IInv, TypeOK
<1>3. Total[t] \in 1..MaxUnits /\ [u \in 1..Total[t] |-> <<t, u>>] \in Seq(Request)
      /\ Len([u \in 1..Total[t] |-> <<t, u>>]) = Total[t]
  <2>1. Total[t] \in 1..MaxUnits
    OBVIOUS
  <2>2. \A u \in 1..Total[t] : <<t, u>> \in Request
    BY <2>1 DEF Request
  <2> QED  BY <2>1, <2>2
<1>4. view'[t] = v /\ disk'[t] = v /\ Len(job'[t]) = Total[t]
  BY <1>2, <1>3 DEF IInv, TypeOK
<1>5. v.state = "queued" /\ v.results = <<>> /\ v.stop = FALSE
  OBVIOUS
<1> HIDE DEF v
<1>6. TypeOK'
  <2>1. pending' \in Seq(Task)
    BY DEF Submit, IInv, TypeOK
  <2>2. held' \subseteq Task
    BY DEF Submit, IInv, TypeOK
  <2>3. view' \in [Task -> View \cup {None}] /\ disk' \in [Task -> View \cup {None}]
    BY <1>1, <1>2 DEF IInv, TypeOK
  <2>4. job' \in [Task -> Seq(Request)]
    BY <1>2, <1>3 DEF IInv, TypeOK
  <2> QED
    BY <2>1, <2>2, <2>3, <2>4 DEF Submit, IInv, TypeOK, history, bounds, pipes
<1>7. /\ attempt[t] = None /\ worker[t] = NoWorker /\ snapshot[t] = None
      /\ inbox[t] = <<>> /\ outbox[t] = <<>> /\ \A u \in Unit : Untouched(t, u)
  BY DEF IInv, TaskInv, BirthInv, AttemptInv, Submit
<1>8. TaskInv(t)'
  <2>1. /\ attempt'[t] = None /\ worker'[t] = NoWorker /\ snapshot'[t] = None
        /\ inbox'[t] = <<>> /\ outbox'[t] = <<>>
        /\ receipt' = receipt /\ published' = published /\ begun' = begun
    BY <1>7 DEF Submit, pipes, history, bounds
  <2>2. NoWorker.pc = "none" /\ NoWorker.config = None /\ NoWorker.late = FALSE
    BY DEF NoWorker
  <2>3. Next1(t)' = 1 /\ Live(t)'
    BY <1>1, <1>4, <1>5 DEF Next1, Live, TERMINAL
  <2>4. BirthInv(t)' /\ CountInv(t)'
    BY <1>1, <1>3, <1>4, <1>5, <1>7, <2>1 DEF BirthInv, Backed, CountInv, Untouched
  <2>5. AttemptInv(t)' /\ ReachInv(t)'
    BY <1>3, <1>4, <1>7, <2>1, <2>2, <2>3 DEF AttemptInv, ReachInv, Untouched
  <2>6. PhaseInv(t)' /\ ConfigInv(t)' /\ LateInv(t)'
    BY <1>7, <2>1, <2>2 DEF PhaseInv, WorkInv, PutOffInv, ConfigInv, LateInv, Untouched
  <2> QED  BY <2>4, <2>5, <2>6 DEF TaskInv
<1>9. \A q \in Task \ {t} : Same(q)
  BY <1>2 DEF Submit, Same, IInv, TypeOK, history, bounds, pipes
<1> QED  BY <1>6, <1>8, <1>9, Local

(* A summary changes, and nothing else of the task. *)
Summarised(t) ==
    /\ job'[t] = job[t] /\ snapshot'[t] = snapshot[t] /\ worker'[t] = worker[t]
    /\ inbox'[t] = inbox[t] /\ outbox'[t] = outbox[t]
    /\ receipt'[t] = receipt[t] /\ published'[t] = published[t] /\ begun'[t] = begun[t]

LEMMA Resummarised ==
    ASSUME IInv, NEW t \in Task, Summarised(t), attempt'[t] = attempt[t], view[t] # None,
           view'[t] \in View, view'[t] # None, view'[t].results = view[t].results,
           view[t].stop => view'[t].stop, Live(t)' => Live(t), attempt[t] # None => Live(t)',
           disk'[t] = disk[t] \/ (disk'[t] # None /\ disk'[t].results = view[t].results)
    PROVE  TaskInv(t)'
<1>1. Next1(t)' = Next1(t)
  BY DEF Next1
<1>2. TaskInv(t)
  BY DEF IInv
<1>3. BirthInv(t)' /\ CountInv(t)'
  BY <1>2 DEF TaskInv, Summarised, BirthInv, CountInv, Backed, Untouched
<1>4. AttemptInv(t)' /\ ReachInv(t)'
  BY <1>1, <1>2 DEF TaskInv, Summarised, AttemptInv, ReachInv, Untouched
<1>5. PhaseInv(t)'
  BY <1>2 DEF TaskInv, Summarised, PhaseInv, WorkInv, PutOffInv, Untouched, Gives
<1>6. ConfigInv(t)' /\ LateInv(t)'
  BY <1>2 DEF TaskInv, Summarised, ConfigInv, LateInv, Takes
<1> QED  BY <1>3, <1>4, <1>5, <1>6 DEF TaskInv

(* What a stop makes of the summary of a live task.                        *)
LEMMA Stopping ==
    ASSUME IInv, NEW t \in Task, Live(t)
    PROVE  /\ Stopped(t) \in View /\ Stopped(t).results = view[t].results /\ Stopped(t).stop
           /\ attempt[t] # None => Stopped(t).state = view[t].state
           /\ Asked(t) \in View /\ Asked(t).results = view[t].results
           /\ disk[t] \in View
<1>1. view[t] # None /\ view[t] \in View /\ disk[t] \in View
  BY Known DEF Live
<1> QED  BY <1>1 DEF Asked, Stopped, View, TERMINAL

LEMMA StopInv == ASSUME IInv, NEW t \in Task, Stop(t) PROVE IInv'
<1>1. view[t] # None /\ view[t] \in View /\ Live(t) /\ TypeOK
  BY Known DEF Stop, Live, IInv
<1>2. PICK saved \in {Stopped(t), Asked(t), disk[t]} :
        /\ disk' = [disk EXCEPT ![t] = saved]
        /\ faults' = faults + (IF saved = Stopped(t) THEN 0 ELSE 1) /\ faults' <= MaxFaults
  BY DEF Stop
<1>3. /\ saved \in View /\ saved # None
      /\ disk' \in [Task -> View \cup {None}] /\ disk'[t] = saved
      /\ \A q \in Task \ {t} : disk'[q] = disk[q]
  BY <1>1, <1>2, Stopping DEF TypeOK
<1>4. /\ view' \in [Task -> View \cup {None}] /\ view'[t] = Stopped(t)
      /\ \A q \in Task \ {t} : view'[q] = view[q]
  BY <1>1, Stopping DEF Stop, TypeOK
<1>5. TypeOK'
  <2>1. faults' \in 0..MaxFaults
    BY <1>1, <1>2 DEF TypeOK
  <2> QED  BY <1>1, <1>3, <1>4, <2>1 DEF Stop, TypeOK, history, pipes
<1>6. TaskInv(t)'
  <2>1. Summarised(t) /\ attempt'[t] = attempt[t]
    BY DEF Stop, Summarised, history, pipes
  <2>2. /\ view'[t] \in View /\ view'[t] # None /\ view'[t].results = view[t].results /\ view'[t].stop
        /\ attempt[t] # None => view'[t].state = view[t].state
    BY <1>1, <1>4, Stopping
  <2>3. attempt[t] # None => Live(t)'
    BY <1>1, <2>2 DEF Live
  <2>4. disk'[t] = disk[t] \/ (disk'[t] # None /\ disk'[t].results = view[t].results)
    BY <1>1, <1>2, <1>3, Stopping
  <2> QED  BY <1>1, <2>1, <2>2, <2>3, <2>4, Resummarised
<1>7. \A q \in Task \ {t} : Same(q)
  BY <1>3, <1>4 DEF Stop, Same, history, pipes
<1> QED  BY <1>5, <1>6, <1>7, Local

LEMMA ReleaseInv == ASSUME IInv, NEW t \in Task, ReleaseInputWait(t) PROVE IInv'
<1> DEFINE v == [view[t] EXCEPT !.state = "stopped"]
<1>1. view[t] # None /\ view[t] \in View
  BY Known DEF ReleaseInputWait
<1>2. v \in View /\ v.results = view[t].results /\ v.stop = view[t].stop /\ v.state = "stopped"
  BY <1>1 DEF View, TERMINAL
<1>3. Update(t, v) /\ TypeOK
  BY DEF ReleaseInputWait, IInv
<1> HIDE DEF v
<1>4. TypeOK'
  BY <1>2, <1>3, Updated DEF ReleaseInputWait, TypeOK, history, pipes
<1>5. TaskInv(t)'
  <2>1. Summarised(t) /\ attempt'[t] = attempt[t] /\ attempt[t] = None
    BY DEF ReleaseInputWait, Summarised, history, pipes
  <2>2. /\ view'[t] \in View /\ view'[t] # None /\ view'[t].results = view[t].results
        /\ view[t].stop => view'[t].stop
        /\ view'[t].state = "stopped" /\ disk'[t] \in {v, disk[t]}
    BY <1>2, <1>3, Updated
  <2>3. ~Live(t)'
    BY <2>2 DEF Live, TERMINAL
  <2>4. v # None
    BY <1>2
  <2> QED  BY <1>1, <1>2, <2>1, <2>2, <2>3, <2>4, Resummarised
<1>6. \A q \in Task \ {t} : Same(q)
  BY <1>2, <1>3, Updated DEF ReleaseInputWait, Same, history, pipes
<1> QED  BY <1>4, <1>5, <1>6, Local

LEMMA ShutdownInv == ASSUME IInv, NEW stop \in BOOLEAN, Shutdown(stop) PROVE IInv'
<1>1. PICK lost \in SUBSET {t \in Task : stop /\ Live(t)} :
        /\ \E half \in SUBSET lost :
               disk' = [t \in Task |-> CASE t \in half -> Asked(t)
                                         [] t \in lost \ half -> disk[t]
                                         [] OTHER -> view'[t]]
        /\ faults' = faults + Cardinality(lost) /\ faults' <= MaxFaults
  BY DEF Shutdown
<1>2. view' = [t \in Task |-> IF stop /\ Live(t) THEN Stopped(t) ELSE view[t]]
  BY DEF Shutdown
<1>3. /\ DOMAIN disk' = Task /\ disk' = [t \in Task |-> disk'[t]]
      /\ \A t \in Task : disk'[t] \in {disk[t], view'[t]} \/ (Live(t) /\ disk'[t] = Asked(t))
  <2>1. PICK half \in SUBSET lost :
          disk' = [t \in Task |-> CASE t \in half -> Asked(t)
                                    [] t \in lost \ half -> disk[t]
                                    [] OTHER -> view'[t]]
    BY <1>1
  <2> QED  BY <2>1
<1>4. TypeOK'
  <2>1. Cardinality(lost) \in Nat
    BY <1>1, FS_Subset, FS_CardinalityType
  <2>2. faults' \in 0..MaxFaults
    BY <1>1, <2>1 DEF IInv, TypeOK
  <2>3. view' \in [Task -> View \cup {None}]
    BY <1>2, Stopping DEF IInv, TypeOK
  <2>4. \A t \in Task : disk'[t] \in View \cup {None}
    BY <1>3, <2>3, Stopping DEF IInv, TypeOK
  <2>5. disk' \in [Task -> View \cup {None}]
    BY <1>3, <2>4
  <2> QED  BY <2>2, <2>3, <2>5 DEF Shutdown, IInv, TypeOK, history, pipes
<1>5. ASSUME NEW t \in Task PROVE TaskInv(t)'
  <2>1. Summarised(t) /\ attempt'[t] = attempt[t]
    BY DEF Shutdown, Summarised, history, pipes
  <2>2. CASE view[t] = None
    <3>1. view'[t] = None /\ disk'[t] = None /\ disk[t] = None
      BY <1>2, <1>3, <2>2 DEF Live, IInv, TaskInv, BirthInv
    <3> QED  BY <2>1, <2>2, <3>1, Kept DEF Same, Summarised, IInv
  <2>3. CASE view[t] # None
    <3>1. view[t] \in View
      BY <2>3, Known
    <3>2. /\ view'[t] \in View /\ view'[t] # None /\ view'[t].results = view[t].results
          /\ view[t].stop => view'[t].stop
          /\ attempt[t] # None => view'[t].state = view[t].state
          /\ ~Live(t) => view'[t] = view[t]
      BY <1>2, <2>3, <3>1, Stopping
    <3>3. (Live(t)' => Live(t)) /\ (attempt[t] # None => Live(t)')
      BY <2>3, <3>2, Attempted DEF Live
    <3>4. disk'[t] = disk[t] \/ (disk'[t] # None /\ disk'[t].results = view[t].results)
      BY <1>3, <3>2, Stopping
    <3> QED  BY <2>1, <2>3, <3>2, <3>3, <3>4, Resummarised
  <2> QED  BY <2>2, <2>3
<1> QED  BY <1>4, <1>5 DEF IInv

LEMMA SaveSettingsInv == ASSUME IInv, SaveSettings PROVE IInv'
<1>1. TypeOK'
  BY DEF SaveSettings, IInv, TypeOK, manager, pipes, history, bounds
<1>2. \A q \in Task : Same(q)
  BY DEF SaveSettings, Same, manager, pipes, history, bounds
<1> QED  BY <1>1, <1>2, Kept DEF IInv

-----------------------------------------------------------------------------
(* The steps of the scheduler.                                             *)

LEMMA QueueInv == ASSUME IInv, Drop \/ Rotate PROVE IInv'
<1>1. TypeOK'
  <2>1. pending \in Seq(Task) /\ pending # <<>>
    BY DEF Drop, Rotate, IInv, TypeOK
  <2>2. Tail(pending) \in Seq(Task) /\ Append(Tail(pending), Head(pending)) \in Seq(Task)
    BY <2>1
  <2>3. pending' \in Seq(Task)
    BY <2>2 DEF Drop, Rotate
  <2> QED  BY <2>3 DEF Drop, Rotate, IInv, TypeOK, pipes, history, bounds
<1>2. \A q \in Task : Same(q)
  BY DEF Drop, Rotate, Same, pipes, history, bounds
<1> QED  BY <1>1, <1>2, Kept DEF IInv

LEMMA StartFailsInv == ASSUME IInv, NEW t \in Task, StartFails(t) PROVE IInv'
<1> DEFINE v == [view[t] EXCEPT !.state = "failed"]
<1>1. view[t] # None /\ view[t] \in View /\ attempt[t] = None
  BY Known DEF StartFails, Startable, Live, Busy, Active
<1>2. v \in View /\ v.results = view[t].results /\ v.stop = view[t].stop /\ v.state = "failed"
  BY <1>1 DEF View, TERMINAL
<1>3. Update(t, v) /\ TypeOK
  BY DEF StartFails, IInv
<1> HIDE DEF v
<1>4. TypeOK'
  <2>1. pending' \in Seq(Task)
    BY DEF StartFails, Startable, IInv, TypeOK
  <2> QED  BY <1>2, <1>3, <2>1, Updated DEF StartFails, TypeOK, history, pipes
<1>5. TaskInv(t)'
  <2>1. Summarised(t) /\ attempt'[t] = attempt[t]
    BY DEF StartFails, Summarised, history, pipes
  <2>2. /\ view'[t] \in View /\ view'[t] # None /\ view'[t].results = view[t].results
        /\ view[t].stop => view'[t].stop
        /\ view'[t].state = "failed" /\ disk'[t] \in {v, disk[t]}
    BY <1>2, <1>3, Updated
  <2>3. ~Live(t)' /\ v # None
    BY <1>2, <2>2 DEF Live, TERMINAL
  <2> QED  BY <1>1, <1>2, <2>1, <2>2, <2>3, Resummarised
<1>6. \A q \in Task \ {t} : Same(q)
  BY <1>2, <1>3, Updated DEF StartFails, Same, history, pipes
<1> QED  BY <1>4, <1>5, <1>6, Local

LEMMA SaveProgressInv == ASSUME IInv, NEW t \in Task, SaveProgress(t) PROVE IInv'
<1>1. view[t] # None /\ view[t] \in View /\ Live(t)
  BY Attempted, Known DEF SaveProgress
<1>2. Update(t, view[t]) /\ TypeOK
  BY DEF SaveProgress, IInv
<1>3. TypeOK'
  BY <1>1, <1>2, Updated DEF SaveProgress, TypeOK, history, pipes
<1>4. TaskInv(t)'
  <2>1. Summarised(t) /\ attempt'[t] = attempt[t]
    BY DEF SaveProgress, Summarised, history, pipes
  <2>2. /\ view'[t] \in View /\ view'[t] # None /\ view'[t].results = view[t].results
        /\ view[t].stop => view'[t].stop
        /\ view'[t].state = view[t].state /\ disk'[t] \in {view[t], disk[t]}
    BY <1>1, <1>2, Updated
  <2>3. Live(t)'
    BY <1>1, <2>2 DEF Live
  <2> QED  BY <1>1, <2>1, <2>2, <2>3, Resummarised
<1>5. \A q \in Task \ {t} : Same(q)
  BY <1>1, <1>2, Updated DEF SaveProgress, Same, history, pipes
<1> QED  BY <1>3, <1>4, <1>5, Local

(* Sequences. *)
LEMMA TailOf == ASSUME NEW S, NEW s \in Seq(S), s # <<>>
    PROVE  /\ Tail(s) \in Seq(S) /\ Head(s) \in S /\ Head(s) = s[1] /\ 1 \in DOMAIN s
           /\ \A i \in DOMAIN Tail(s) : i \in Nat /\ i + 1 \in DOMAIN s /\ Tail(s)[i] = s[i + 1]
OBVIOUS

LEMMA AppendOf == ASSUME NEW S, NEW s \in Seq(S), NEW e \in S
    PROVE  /\ Append(s, e) \in Seq(S) /\ Len(s) + 1 \in DOMAIN Append(s, e) /\ Append(s, e)[Len(s) + 1] = e
           /\ \A i \in DOMAIN s : i \in 1..Len(s) /\ i \in DOMAIN Append(s, e) /\ Append(s, e)[i] = s[i]
           /\ \A i \in DOMAIN Append(s, e) : i \in DOMAIN s \/ i = Len(s) + 1
OBVIOUS

Control == {"stop", "budget", "snapshot-ack", "navigation-ack"}
Saying == [kind : {"snapshot", "navigation", "deferred", "input", "result", "unconfirmed", "recovered"},
           config : Settings \cup {None}]

LEMMA Pipes == ASSUME TypeOK PROVE inbox \in [Task -> Seq(Control)] /\ outbox \in [Task -> Seq(Saying)]
BY DEF TypeOK, Control, Saying

LEMMA Told ==
    ASSUME TypeOK, NEW t \in Task, NEW message \in Control, Tell(t, message)
    PROVE  /\ inbox' \in [Task -> Seq(Control)]
           /\ \A q \in Task \ {t} : inbox'[q] = inbox[q]
           /\ inbox'[t] = IF worker[t].pc \in Gone THEN inbox[t] ELSE Append(inbox[t], message)
<1>1. Append(inbox[t], message) \in Seq(Control)
  BY Pipes, AppendOf
<1> QED  BY <1>1, Pipes DEF Tell

(* Of an attempt, the invariant tells apart four things. *)
LEMMA Reattempted ==
    ASSUME IInv, NEW t \in Task, Summarised(t), view'[t] = view[t], disk'[t] = disk[t],
           attempt[t] # None, attempt'[t] # None,
           attempt'[t].recovery = attempt[t].recovery, attempt'[t].deferred = attempt[t].deferred,
           attempt'[t].stopSent = attempt[t].stopSent, attempt'[t].reading = attempt[t].reading
    PROVE  TaskInv(t)'
<1>1. (Live(t)' <=> Live(t)) /\ Next1(t)' = Next1(t) /\ view[t] # None
  BY Attempted DEF Live, Next1
<1>2. TaskInv(t)
  BY DEF IInv
<1>3. BirthInv(t)' /\ CountInv(t)'
  BY <1>1, <1>2 DEF TaskInv, Summarised, BirthInv, CountInv, Backed, Untouched
<1>4. AttemptInv(t)' /\ ReachInv(t)'
  BY <1>1, <1>2 DEF TaskInv, Summarised, AttemptInv, ReachInv, Untouched
<1>5. PhaseInv(t)'
  BY <1>2 DEF TaskInv, Summarised, PhaseInv, WorkInv, PutOffInv, Untouched, Gives
<1>6. ConfigInv(t)' /\ LateInv(t)'
  BY <1>1, <1>2 DEF TaskInv, Summarised, ConfigInv, LateInv, Takes
<1> QED  BY <1>3, <1>4, <1>5, <1>6 DEF TaskInv

LEMMA SuperviseInv == ASSUME IInv, NEW t \in Task, ExpireBudget(t) \/ Terminate(t) PROVE IInv'
<1>1. attempt[t] \in Attempt /\ attempt[t] # None
  BY Attempted DEF ExpireBudget, Terminate
<1>2. PICK a \in Attempt :
        /\ attempt' = [attempt EXCEPT ![t] = a]
        /\ a.recovery = attempt[t].recovery /\ a.deferred = attempt[t].deferred
        /\ a.stopSent = attempt[t].stopSent /\ a.reading = attempt[t].reading
  <2>1. CASE ExpireBudget(t)
    <3>1. attempt' = [attempt EXCEPT ![t] = [attempt[t] EXCEPT !.budget = TRUE]]
      BY <2>1 DEF ExpireBudget, IInv, TypeOK
    <3>2. LET a == [attempt[t] EXCEPT !.budget = TRUE]
          IN  a \in Attempt /\ a.recovery = attempt[t].recovery /\ a.deferred = attempt[t].deferred
              /\ a.stopSent = attempt[t].stopSent /\ a.reading = attempt[t].reading
      BY <1>1 DEF Attempt
    <3> QED  BY <3>1, <3>2
  <2>2. CASE Terminate(t)
    <3>1. attempt' = [attempt EXCEPT ![t] = [attempt[t] EXCEPT !.terminated = TRUE]]
      BY <2>2 DEF Terminate, IInv, TypeOK
    <3>2. LET a == [attempt[t] EXCEPT !.terminated = TRUE]
          IN  a \in Attempt /\ a.recovery = attempt[t].recovery /\ a.deferred = attempt[t].deferred
              /\ a.stopSent = attempt[t].stopSent /\ a.reading = attempt[t].reading
      BY <1>1 DEF Attempt
    <3> QED  BY <3>1, <3>2
  <2> QED  BY <2>1, <2>2
<1>3. TypeOK' /\ attempt'[t] = a
  BY <1>2 DEF ExpireBudget, Terminate, IInv, TypeOK, pipes, history, bounds
<1>4. Summarised(t) /\ view'[t] = view[t] /\ disk'[t] = disk[t]
  BY DEF ExpireBudget, Terminate, Summarised, pipes, history, bounds
<1>5. TaskInv(t)'
  BY <1>1, <1>2, <1>3, <1>4, Reattempted
<1>6. \A q \in Task \ {t} : Same(q)
  BY <1>2 DEF ExpireBudget, Terminate, Same, pipes, history, bounds, IInv, TypeOK
<1> QED  BY <1>3, <1>5, <1>6, Local

LEMMA SendStopInv == ASSUME IInv, NEW t \in Task, SendStop(t) PROVE IInv'
<1> DEFINE v == [view[t] EXCEPT !.state = "stopping"]
           a == [attempt[t] EXCEPT !.stopSent = TRUE, !.reading = FALSE, !.settling = TRUE]
<1>1. /\ attempt[t] # None /\ ~attempt[t].recovery /\ attempt[t] \in Attempt
      /\ view[t] # None /\ view[t] \in View /\ Live(t) /\ TaskInv(t)
  BY Attempted, Known DEF SendStop, MustSendStop, IInv
<1>2. v \in View /\ v.results = view[t].results /\ v.stop = view[t].stop /\ v.state = "stopping"
  BY <1>1 DEF View
<1>3. a \in Attempt /\ a.recovery = attempt[t].recovery /\ a.deferred = attempt[t].deferred
      /\ a.stopSent /\ ~a.reading
  BY <1>1 DEF Attempt
<1>4. Update(t, v) /\ TypeOK /\ attempt' = [attempt EXCEPT ![t] = a]
  BY DEF SendStop, IInv, TypeOK
<1>5. PICK message \in Stops : Tell(t, message)
  BY DEF SendStop, Stops
<1> HIDE DEF v, a
<1>6. message \in Control
  BY DEF Stops, Control
<1>7. TypeOK'
  <2>1. inbox' \in [Task -> Seq(Control)]
    BY <1>4, <1>5, <1>6, Told
  <2>2. /\ view' \in [Task -> View \cup {None}] /\ disk' \in [Task -> View \cup {None}]
        /\ faults' \in 0..MaxFaults
    BY <1>2, <1>4, Updated
  <2>3. attempt' \in [Task -> Attempt \cup {None}]
    BY <1>3, <1>4 DEF TypeOK
  <2> QED  BY <1>4, <2>1, <2>2, <2>3 DEF SendStop, TypeOK, history, Control
<1>8. \A q \in Task \ {t} : Same(q)
  <2>1. \A q \in Task \ {t} : view'[q] = view[q] /\ disk'[q] = disk[q]
    BY <1>2, <1>4, Updated
  <2>2. \A q \in Task \ {t} : inbox'[q] = inbox[q]
    BY <1>4, <1>5, <1>6, Told
  <2> QED  BY <1>4, <2>1, <2>2 DEF SendStop, Same, history, TypeOK
<1>9. TaskInv(t)'
  <2>1. /\ view'[t] \in View /\ view'[t] # None /\ view'[t].results = view[t].results
        /\ view[t].stop => view'[t].stop
        /\ view'[t].state = "stopping" /\ disk'[t] \in {v, disk[t]} /\ v # None
    BY <1>2, <1>4, Updated
  <2>2. Live(t)' /\ Next1(t)' = Next1(t)
    BY <2>1 DEF Live, TERMINAL, Next1
  <2>3. attempt'[t] = a /\ a # None
    BY <1>3, <1>4 DEF TypeOK
  <2>4. /\ job' = job /\ snapshot' = snapshot /\ worker' = worker /\ outbox' = outbox
        /\ receipt' = receipt /\ published' = published /\ begun' = begun
    BY DEF SendStop, history
  <2>5. inbox'[t] = IF worker[t].pc \in Gone THEN inbox[t] ELSE Append(inbox[t], message)
    BY <1>4, <1>5, <1>6, Told
  <2>6. inbox[t] \in Seq(Control)
    BY <1>4, Pipes
  <2>7. Takes(t, {"snapshot-ack"})' <=> Takes(t, {"snapshot-ack"})
    <3>1. message # "snapshot-ack"
      BY DEF Stops
    <3> QED  BY <1>6, <2>5, <2>6, <3>1, AppendOf DEF Takes
  <2>8. worker[t].pc \notin Gone => Takes(t, Stops)'
    BY <1>6, <2>5, <2>6, AppendOf DEF Takes
  <2>9. BirthInv(t)' /\ CountInv(t)'
    BY <1>1, <1>2, <2>1, <2>4 DEF TaskInv, BirthInv, CountInv, Backed, Untouched
  <2>10. AttemptInv(t)' /\ ReachInv(t)'
    BY <1>1, <1>3, <2>2, <2>1, <2>3, <2>4 DEF TaskInv, AttemptInv, ReachInv, Untouched
  <2>11. PhaseInv(t)' /\ ConfigInv(t)'
    BY <1>1, <1>3, <2>3, <2>4, <2>7 DEF TaskInv, PhaseInv, WorkInv, PutOffInv, ConfigInv, Untouched, Gives
  <2>12. LateInv(t)'
    <3>1. \A i \in DOMAIN inbox'[t] : inbox'[t][i] = "snapshot-ack" => i \in DOMAIN inbox[t] /\ inbox[t][i] = "snapshot-ack"
      <4>1. message # "snapshot-ack"
        BY DEF Stops
      <4> QED  BY <1>6, <2>5, <2>6, <4>1, AppendOf
    <3>2. \A i \in DOMAIN inbox[t] : i \in 1..Len(inbox[t]) /\ \A j \in 1..i : inbox'[t][j] = inbox[t][j]
      BY <1>6, <2>5, <2>6, AppendOf
    <3> QED  BY <1>1, <1>3, <2>1, <2>3, <2>4, <2>7, <2>8, <3>1, <3>2 DEF TaskInv, LateInv
  <2> QED  BY <2>9, <2>10, <2>11, <2>12 DEF TaskInv
<1> QED  BY <1>7, <1>8, <1>9, Local

LEMMA ReadSnapshotInv == ASSUME IInv, NEW t \in Task, ReadSnapshot(t) PROVE IInv'
<1> DEFINE limited == t \in Document
           reading == ~view[t].stop /\ view'[t].stop
           a == [attempt[t] EXCEPT !.limited = limited, !.reading = reading]
<1>1. /\ attempt[t] # None /\ attempt[t] \in Attempt /\ (~MustSendStop(t) \/ attempt[t].reading)
      /\ view[t] # None /\ view[t] \in View /\ Live(t) /\ TaskInv(t) /\ TypeOK
  BY Attempted, Known DEF ReadSnapshot, MayRead, IInv
<1>2. /\ outbox[t] \in Seq(Saying) /\ outbox[t] # <<>> /\ Head(outbox[t]).kind = "snapshot"
      /\ Head(outbox[t]) \in Saying
  BY <1>1, Pipes DEF ReadSnapshot, MayRead
<1>3. Head(outbox[t]).config = worker[t].config /\ worker[t].config # None
  BY <1>1, <1>2, TailOf DEF TaskInv, ConfigInv
<1>4. a \in Attempt /\ a.recovery = attempt[t].recovery /\ a.deferred = attempt[t].deferred
      /\ a.stopSent = attempt[t].stopSent /\ a.reading = reading /\ (view[t].stop => ~reading)
  <2>1. limited \in BOOLEAN /\ reading \in BOOLEAN /\ (view[t].stop => ~reading)
    OBVIOUS
  <2> HIDE DEF limited, reading
  <2>2. a \in Attempt /\ a.recovery = attempt[t].recovery /\ a.deferred = attempt[t].deferred
        /\ a.stopSent = attempt[t].stopSent /\ a.reading = reading
    BY <1>1, <2>1 DEF Attempt
  <2> QED  BY <2>1, <2>2
<1>5. /\ snapshot' = [snapshot EXCEPT ![t] = worker[t].config]
      /\ Update(t, view[t]) /\ Tell(t, "snapshot-ack")
      /\ attempt' = [attempt EXCEPT ![t] = a]
      /\ outbox' = [outbox EXCEPT ![t] = Tail(outbox[t])]
  BY <1>1, <1>3 DEF ReadSnapshot, TypeOK
<1> HIDE DEF a, reading, limited
<1>6. "snapshot-ack" \in Control /\ worker[t].config \in Settings
  BY <1>1, <1>3 DEF Control, TypeOK, Worker
<1>7. /\ inbox' \in [Task -> Seq(Control)] /\ \A q \in Task \ {t} : inbox'[q] = inbox[q]
      /\ inbox'[t] = IF worker[t].pc \in Gone THEN inbox[t] ELSE Append(inbox[t], "snapshot-ack")
  BY <1>1, <1>5, <1>6, Told
<1>8. TypeOK'
  <2>1. /\ view' \in [Task -> View \cup {None}] /\ disk' \in [Task -> View \cup {None}]
        /\ faults' \in 0..MaxFaults
    BY <1>1, <1>5, Updated
  <2>2. outbox' \in [Task -> Seq(Saying)]
    BY <1>1, <1>2, <1>5, TailOf, Pipes
  <2>3. attempt' \in [Task -> Attempt \cup {None}] /\ snapshot' \in [Task -> Settings \cup {None}]
    BY <1>1, <1>4, <1>5, <1>6 DEF TypeOK
  <2> QED  BY <1>1, <1>7, <2>1, <2>2, <2>3 DEF ReadSnapshot, TypeOK, history, Control, Saying
<1>9. \A q \in Task \ {t} : Same(q)
  <2>1. \A q \in Task \ {t} : view'[q] = view[q] /\ disk'[q] = disk[q]
    BY <1>1, <1>5, Updated
  <2> QED  BY <1>1, <1>5, <1>7, <2>1 DEF ReadSnapshot, Same, history, TypeOK
<1>10. TaskInv(t)'
  <2>1. /\ view'[t] \in View /\ view'[t] # None /\ view'[t].results = view[t].results
        /\ view[t].stop => view'[t].stop
        /\ view'[t].state = view[t].state /\ disk'[t] \in {view[t], disk[t]}
    BY <1>1, <1>5, Updated
  <2>2. Live(t)' /\ Next1(t)' = Next1(t)
    BY <1>1, <2>1 DEF Live, TERMINAL, Next1
  <2>3. attempt'[t] = a /\ a # None /\ snapshot'[t] = worker[t].config /\ outbox'[t] = Tail(outbox[t])
    BY <1>1, <1>4, <1>5 DEF TypeOK
  <2>4. /\ job' = job /\ worker' = worker
        /\ receipt' = receipt /\ published' = published /\ begun' = begun
    BY DEF ReadSnapshot, history
  <2>5. inbox[t] \in Seq(Control)
    BY <1>1, Pipes
  <2>6. \A i \in DOMAIN outbox'[t] : i + 1 \in DOMAIN outbox[t] /\ outbox'[t][i] = outbox[t][i + 1]
    BY <1>2, <2>3, TailOf
  <2>7. \A kinds : Gives(t, kinds)' => Gives(t, kinds)
    BY <2>6 DEF Gives
  <2>8. BirthInv(t)' /\ CountInv(t)'
    BY <1>1, <2>1, <2>4 DEF TaskInv, BirthInv, CountInv, Backed, Untouched
  <2>9. AttemptInv(t)' /\ ReachInv(t)'
    BY <1>1, <1>4, <2>2, <2>1, <2>3, <2>4 DEF TaskInv, AttemptInv, ReachInv, Untouched
  <2>10. PhaseInv(t)'
    BY <1>1, <1>4, <2>3, <2>4, <2>7 DEF TaskInv, PhaseInv, WorkInv, PutOffInv, Untouched
  <2>11. ConfigInv(t)'
    BY <1>1, <1>3, <2>3, <2>4, <2>6 DEF TaskInv, ConfigInv
  <2>12. LateInv(t)'
    <3> SUFFICES ASSUME worker[t].late PROVE LateInv(t)'
      BY <2>4 DEF LateInv
    <3>1. view[t].stop /\ ~attempt[t].recovery /\ ~attempt[t].reading
      BY <1>1 DEF TaskInv, LateInv, AttemptInv
    <3>2. attempt[t].stopSent
      BY <1>1, <3>1 DEF MustSendStop
    <3>3. CASE worker[t].pc \in Gone
      BY <1>1, <1>4, <1>7, <2>1, <2>3, <2>4, <3>1, <3>2, <3>3 DEF TaskInv, LateInv, Takes
    <3>4. CASE worker[t].pc \notin Gone
      <4>1. inbox'[t] = Append(inbox[t], "snapshot-ack")
        BY <1>7, <3>4
      <4>2. /\ Len(inbox[t]) + 1 \in DOMAIN inbox'[t] /\ Len(inbox[t]) \in Nat
            /\ \A i \in DOMAIN inbox[t] : i \in 1..Len(inbox[t]) /\ i \in DOMAIN inbox'[t] /\ inbox'[t][i] = inbox[t][i]
            /\ \A i \in DOMAIN inbox'[t] : i \in DOMAIN inbox[t] \/ i = Len(inbox[t]) + 1
        BY <1>6, <2>5, <4>1, AppendOf
      <4>3. worker[t].stopped # "no" \/ Takes(t, Stops)
        BY <1>1, <3>2, <3>4 DEF TaskInv, LateInv
      <4>4. Takes(t, Stops) => Takes(t, Stops)'
        BY <4>2 DEF Takes
      <4>5. \A i \in DOMAIN inbox'[t] : inbox'[t][i] = "snapshot-ack" =>
                worker[t].stopped # "no" \/ \E j \in 1..i : inbox'[t][j] \in Stops
        <5> SUFFICES ASSUME NEW i \in DOMAIN inbox'[t], inbox'[t][i] = "snapshot-ack", worker[t].stopped = "no"
                     PROVE  \E j \in 1..i : inbox'[t][j] \in Stops
          OBVIOUS
        <5>1. CASE i \in DOMAIN inbox[t]
          <6>1. PICK j \in 1..i : inbox[t][j] \in Stops
            BY <1>1, <4>2, <5>1 DEF TaskInv, LateInv
          <6>2. j \in DOMAIN inbox[t]
            BY <2>5, <5>1
          <6> QED  BY <4>2, <6>1, <6>2
        <5>2. CASE i = Len(inbox[t]) + 1
          <6>1. PICK j \in DOMAIN inbox[t] : inbox[t][j] \in Stops
            BY <4>3 DEF Takes
          <6> QED  BY <4>2, <5>2, <6>1
        <5> QED  BY <4>2, <5>1, <5>2
      <4> QED  BY <1>1, <1>4, <2>1, <2>3, <2>4, <3>1, <3>2, <4>3, <4>4, <4>5 DEF TaskInv, LateInv
    <3> QED  BY <3>3, <3>4
  <2> QED  BY <2>8, <2>9, <2>10, <2>11, <2>12 DEF TaskInv
<1> QED  BY <1>8, <1>9, <1>10, Local

LEMMA ReadNavigationInv == ASSUME IInv, NEW t \in Task, ReadNavigation(t) PROVE IInv'
<1>1. /\ attempt[t] # None /\ TaskInv(t) /\ TypeOK /\ view[t] # None /\ Live(t)
  BY Attempted DEF ReadNavigation, MayRead, IInv
<1>2. outbox[t] \in Seq(Saying) /\ outbox[t] # <<>> /\ outbox' = [outbox EXCEPT ![t] = Tail(outbox[t])]
  BY <1>1, Pipes DEF ReadNavigation, MayRead
<1>3. /\ inbox' \in [Task -> Seq(Control)] /\ \A q \in Task \ {t} : inbox'[q] = inbox[q]
      /\ inbox'[t] \in {inbox[t], Append(inbox[t], "navigation-ack")}
  <2>1. "navigation-ack" \in Control
    BY DEF Control
  <2>2. Tell(t, "navigation-ack") \/ UNCHANGED inbox
    BY DEF ReadNavigation
  <2> QED  BY <1>1, <2>1, <2>2, Told, Pipes
<1>4. TypeOK'
  <2>1. outbox' \in [Task -> Seq(Saying)]
    BY <1>1, <1>2, TailOf, Pipes
  <2> QED  BY <1>1, <1>3, <2>1 DEF ReadNavigation, TypeOK, history, manager, bounds, Control, Saying
<1>5. \A q \in Task \ {t} : Same(q)
  BY <1>1, <1>2, <1>3 DEF ReadNavigation, Same, history, manager, bounds, TypeOK
<1>6. TaskInv(t)'
  <2>1. /\ view' = view /\ disk' = disk /\ job' = job /\ snapshot' = snapshot /\ attempt' = attempt
        /\ worker' = worker /\ receipt' = receipt /\ published' = published /\ begun' = begun
    BY DEF ReadNavigation, manager, history
  <2>2. inbox[t] \in Seq(Control) /\ "navigation-ack" \in Control /\ outbox'[t] = Tail(outbox[t])
    BY <1>1, <1>2, Pipes DEF Control
  <2>3. \A i \in DOMAIN outbox'[t] : i + 1 \in DOMAIN outbox[t] /\ outbox'[t][i] = outbox[t][i + 1]
    BY <1>2, <2>2, TailOf
  <2>4. \A kinds : Gives(t, kinds)' => Gives(t, kinds)
    BY <2>3 DEF Gives
  <2>5. /\ \A i \in DOMAIN inbox'[t] : inbox'[t][i] # "navigation-ack" => i \in DOMAIN inbox[t] /\ inbox'[t][i] = inbox[t][i]
        /\ \A i \in DOMAIN inbox[t] : i \in DOMAIN inbox'[t] /\ inbox'[t][i] = inbox[t][i]
        /\ \A i \in DOMAIN inbox[t] : \A j \in 1..i : j \in DOMAIN inbox[t]
    <3>1. CASE inbox'[t] = inbox[t]
      BY <2>2, <3>1
    <3>2. CASE inbox'[t] = Append(inbox[t], "navigation-ack")
      BY <2>2, <3>2, AppendOf
    <3> QED  BY <1>3, <3>1, <3>2
  <2>6. Takes(t, {"snapshot-ack"})' => Takes(t, {"snapshot-ack"})
    BY <2>5 DEF Takes
  <2>7. Takes(t, Stops) => Takes(t, Stops)'
    BY <2>5 DEF Takes
  <2>8. (Live(t)' <=> Live(t)) /\ Next1(t)' = Next1(t)
    BY <2>1 DEF Live, Next1
  <2>9. BirthInv(t)' /\ CountInv(t)'
    BY <1>1, <2>1 DEF TaskInv, BirthInv, CountInv, Backed, Untouched
  <2>10. AttemptInv(t)' /\ ReachInv(t)'
    BY <1>1, <2>1, <2>8 DEF TaskInv, AttemptInv, ReachInv, Untouched
  <2>11. PhaseInv(t)'
    BY <1>1, <2>1, <2>4 DEF TaskInv, PhaseInv, WorkInv, PutOffInv, Untouched
  <2>12. ConfigInv(t)'
    BY <1>1, <2>1, <2>3, <2>6, <2>8 DEF TaskInv, ConfigInv
  <2>13. LateInv(t)'
    BY <1>1, <2>1, <2>5, <2>6, <2>7 DEF TaskInv, LateInv
  <2> QED  BY <2>9, <2>10, <2>11, <2>12, <2>13 DEF TaskInv
<1> QED  BY <1>4, <1>5, <1>6, Local

LEMMA ReadOutcomeInv == ASSUME IInv, NEW t \in Task, ReadOutcome(t) PROVE IInv'
<1>1. /\ attempt[t] # None /\ attempt[t] \in Attempt /\ TaskInv(t) /\ TypeOK /\ view[t] # None
  BY Attempted DEF ReadOutcome, MayRead, IInv
<1>2. outbox[t] \in Seq(Saying) /\ outbox[t] # <<>> /\ outbox' = [outbox EXCEPT ![t] = Tail(outbox[t])]
  BY <1>1, Pipes DEF ReadOutcome, MayRead
<1>3. PICK a \in Attempt :
        /\ attempt' = [attempt EXCEPT ![t] = a]
        /\ a.recovery = attempt[t].recovery /\ a.stopSent = attempt[t].stopSent /\ a.reading = attempt[t].reading
        /\ a.deferred = attempt[t].deferred \/ Gives(t, {"deferred", "input"})
  <2>1. PICK kind \in {"deferred", "input", "result", "unconfirmed", "recovered"} :
          /\ Head(outbox[t]).kind = kind
          /\ attempt' = [attempt EXCEPT ![t] =
               CASE kind = "deferred" -> [attempt[t] EXCEPT !.deferred = "lease"]
                 [] kind = "input" -> [attempt[t] EXCEPT !.deferred = "input"]
                 [] kind = "recovered" -> [attempt[t] EXCEPT !.recovered = TRUE]
                 [] OTHER -> [attempt[t] EXCEPT !.settling = TRUE, !.unconfirmed = (kind = "unconfirmed")]]
    BY <1>1 DEF ReadOutcome, MayRead, TypeOK
  <2>2. kind \in {"deferred", "input"} => Gives(t, {"deferred", "input"})
    BY <1>2, <2>1, TailOf DEF Gives
  <2>3. CASE kind \in {"deferred", "input"}
    <3> DEFINE b == [attempt[t] EXCEPT !.deferred = IF kind = "deferred" THEN "lease" ELSE "input"]
    <3>1. /\ b \in Attempt /\ b.recovery = attempt[t].recovery /\ b.stopSent = attempt[t].stopSent
          /\ b.reading = attempt[t].reading
      BY <1>1 DEF Attempt
    <3>2. attempt' = [attempt EXCEPT ![t] = b]
      BY <2>1, <2>3
    <3> QED  BY <2>2, <2>3, <3>1, <3>2
  <2>4. CASE kind = "recovered"
    <3> DEFINE b == [attempt[t] EXCEPT !.recovered = TRUE]
    <3>1. /\ b \in Attempt /\ b.recovery = attempt[t].recovery /\ b.stopSent = attempt[t].stopSent
          /\ b.reading = attempt[t].reading
          /\ b.deferred = attempt[t].deferred
      BY <1>1 DEF Attempt
    <3>2. attempt' = [attempt EXCEPT ![t] = b]
      BY <2>1, <2>4
    <3> QED  BY <3>1, <3>2
  <2>5. CASE kind \in {"result", "unconfirmed"}
    <3> DEFINE b == [attempt[t] EXCEPT !.settling = TRUE, !.unconfirmed = (kind = "unconfirmed")]
    <3>1. /\ b \in Attempt /\ b.recovery = attempt[t].recovery /\ b.stopSent = attempt[t].stopSent
          /\ b.reading = attempt[t].reading
          /\ b.deferred = attempt[t].deferred
      BY <1>1 DEF Attempt
    <3>2. attempt' = [attempt EXCEPT ![t] = b]
      BY <2>1, <2>5
    <3> QED  BY <3>1, <3>2
  <2> QED  BY <2>1, <2>3, <2>4, <2>5
<1>4. TypeOK'
  <2>1. outbox' \in [Task -> Seq(Saying)] /\ attempt' \in [Task -> Attempt \cup {None}]
    BY <1>1, <1>2, <1>3, TailOf, Pipes DEF TypeOK
  <2> QED  BY <1>1, <2>1 DEF ReadOutcome, TypeOK, history, bounds, Saying
<1>5. \A q \in Task \ {t} : Same(q)
  BY <1>1, <1>2, <1>3 DEF ReadOutcome, Same, history, bounds, TypeOK
<1>6. TaskInv(t)'
  <2>1. /\ view' = view /\ disk' = disk /\ job' = job /\ snapshot' = snapshot /\ inbox' = inbox
        /\ worker' = worker /\ receipt' = receipt /\ published' = published /\ begun' = begun
    BY DEF ReadOutcome, history
  <2>2. outbox'[t] = Tail(outbox[t]) /\ attempt'[t] = a /\ a # None
    BY <1>1, <1>2, <1>3 DEF TypeOK
  <2>3. \A i \in DOMAIN outbox'[t] : i + 1 \in DOMAIN outbox[t] /\ outbox'[t][i] = outbox[t][i + 1]
    BY <1>2, <2>2, TailOf
  <2>4. \A kinds : Gives(t, kinds)' => Gives(t, kinds)
    BY <2>3 DEF Gives
  <2>5. (Live(t)' <=> Live(t)) /\ Next1(t)' = Next1(t)
    BY <2>1 DEF Live, Next1
  <2>6. BirthInv(t)' /\ CountInv(t)'
    BY <1>1, <2>1 DEF TaskInv, BirthInv, CountInv, Backed, Untouched
  <2>7. AttemptInv(t)' /\ ReachInv(t)'
    BY <1>1, <1>3, <2>1, <2>2, <2>5 DEF TaskInv, AttemptInv, ReachInv, Untouched
  <2>8. PhaseInv(t)'
    BY <1>1, <1>3, <2>1, <2>2, <2>4 DEF TaskInv, PhaseInv, WorkInv, PutOffInv, Untouched
  <2>9. ConfigInv(t)'
    BY <1>1, <2>1, <2>2, <2>3, <2>5 DEF TaskInv, ConfigInv, Takes
  <2>10. LateInv(t)'
    BY <1>1, <1>3, <2>1, <2>2 DEF TaskInv, LateInv, Takes
  <2> QED  BY <2>6, <2>7, <2>8, <2>9, <2>10 DEF TaskInv
<1> QED  BY <1>4, <1>5, <1>6, Local

(* A new process: nothing was said to it, nothing by it. *)
Fresh(t, recovering, config) ==
    [NoWorker EXCEPT !.pc = IF recovering THEN "draining" ELSE "boot",
                     !.unit = Next1(t), !.parent = TRUE,
                     !.late = ~recovering /\ view[t].stop, !.config = config]

LEMMA Spawned ==
    ASSUME TypeOK, NEW t \in Task, NEW recovering \in BOOLEAN, NEW config \in Settings \cup {None},
           view[t] \in View, Next1(t) \in Nat, Spawn(t, recovering, config)
    PROVE  /\ worker' \in [Task -> Worker] /\ attempt' \in [Task -> Attempt \cup {None}]
           /\ inbox' \in [Task -> Seq(Control)] /\ inbox'[t] = <<>>
           /\ worker'[t].pc = IF recovering THEN "draining" ELSE "boot"
           /\ worker'[t].unit = Next1(t) /\ worker'[t].parent /\ worker'[t].config = config
           /\ worker'[t].late <=> ~recovering /\ view[t].stop
           /\ ~worker'[t].acked
           /\ attempt'[t] # None /\ attempt'[t].recovery = recovering
           /\ attempt'[t].deferred = "no" /\ ~attempt'[t].stopSent /\ ~attempt'[t].reading
           /\ \A q \in Task \ {t} :
                  worker'[q] = worker[q] /\ attempt'[q] = attempt[q] /\ inbox'[q] = inbox[q]
<1> DEFINE late == ~recovering /\ view[t].stop
           w == [NoWorker EXCEPT !.pc = IF recovering THEN "draining" ELSE "boot",
                                 !.unit = Next1(t), !.parent = TRUE, !.late = late, !.config = config]
           a == [NewAttempt EXCEPT !.recovery = recovering]
<1>1. worker' = [worker EXCEPT ![t] = w] /\ attempt' = [attempt EXCEPT ![t] = a]
      /\ inbox' = [inbox EXCEPT ![t] = <<>>]
  BY DEF Spawn
<1>2. late \in BOOLEAN
  OBVIOUS
<1>3. late <=> ~recovering /\ view[t].stop
  OBVIOUS
<1> HIDE DEF late
<1>4. /\ w \in Worker /\ w.unit = Next1(t) /\ w.parent = TRUE /\ w.config = config
      /\ w.pc = IF recovering THEN "draining" ELSE "boot"
      /\ w.late = late /\ w.acked = FALSE
  BY <1>2 DEF NoWorker, Worker
<1>5. a \in Attempt /\ a.recovery = recovering /\ a.deferred = "no" /\ a.stopSent = FALSE
      /\ a.reading = FALSE
  BY DEF NewAttempt, Attempt
<1> HIDE DEF w, a
<1>6. worker'[t] = w /\ attempt'[t] = a /\ inbox'[t] = <<>>
  BY <1>1, Pipes DEF TypeOK
<1>7. worker' \in [Task -> Worker] /\ attempt' \in [Task -> Attempt \cup {None}]
  BY <1>1, <1>4, <1>5 DEF TypeOK
<1>8. inbox' \in [Task -> Seq(Control)]
  <2>1. <<>> \in Seq(Control)
    OBVIOUS
  <2> QED  BY <1>1, <2>1, Pipes
<1>9. \A q \in Task \ {t} : worker'[q] = worker[q] /\ attempt'[q] = attempt[q] /\ inbox'[q] = inbox[q]
  BY <1>1 DEF TypeOK
<1>10. a # None
  BY <1>5
<1> QED  BY <1>3, <1>4, <1>5, <1>6, <1>7, <1>8, <1>9, <1>10

LEMMA StartInv == ASSUME IInv, NEW t \in Task, Start(t) PROVE IInv'
<1> DEFINE v == [view[t] EXCEPT !.state = "running"]
<1>1. /\ view[t] # None /\ view[t] \in View /\ attempt[t] = None /\ Live(t) /\ TaskInv(t) /\ TypeOK
      /\ Next1(t) \in Nat
  BY Known DEF Start, Startable, Live, Busy, Active, IInv
<1>2. v \in View /\ v.results = view[t].results /\ v.stop = view[t].stop /\ v.state = "running"
  BY <1>1 DEF View
<1>3. Update(t, v) /\ Spawn(t, FALSE, snapshot[t]) /\ snapshot[t] \in Settings \cup {None}
  BY <1>1 DEF Start, TypeOK
<1> HIDE DEF v
<1>4. /\ view' \in [Task -> View \cup {None}] /\ disk' \in [Task -> View \cup {None}]
      /\ faults' \in 0..MaxFaults
      /\ view'[t] \in View /\ view'[t] # None
      /\ view'[t].state = "running" /\ view'[t].results = view[t].results /\ (view[t].stop => view'[t].stop)
      /\ disk'[t] \in {v, disk[t]} /\ v # None
      /\ \A q \in Task \ {t} : view'[q] = view[q] /\ disk'[q] = disk[q]
  BY <1>1, <1>2, <1>3, Updated
<1>5. /\ worker' \in [Task -> Worker] /\ attempt' \in [Task -> Attempt \cup {None}]
      /\ inbox' \in [Task -> Seq(Control)] /\ inbox'[t] = <<>>
      /\ worker'[t].pc = "boot"
      /\ worker'[t].unit = Next1(t) /\ worker'[t].parent /\ worker'[t].config = snapshot[t]
      /\ worker'[t].late <=> view[t].stop
      /\ ~worker'[t].acked
      /\ attempt'[t] # None /\ attempt'[t].recovery = FALSE
      /\ attempt'[t].deferred = "no" /\ ~attempt'[t].stopSent /\ ~attempt'[t].reading
      /\ \A q \in Task \ {t} : worker'[q] = worker[q] /\ attempt'[q] = attempt[q] /\ inbox'[q] = inbox[q]
  BY <1>1, <1>3, Spawned
<1>6. TypeOK'
  <2>1. pending' \in Seq(Task)
    BY <1>1 DEF Start, Startable, TypeOK
  <2> QED  BY <1>1, <1>4, <1>5, <2>1 DEF Start, TypeOK, history, Control
<1>7. \A q \in Task \ {t} : Same(q)
  BY <1>4, <1>5 DEF Start, Same, history
<1>8. TaskInv(t)'
  <2>1. /\ job' = job /\ snapshot' = snapshot /\ outbox' = outbox
        /\ receipt' = receipt /\ published' = published /\ begun' = begun
    BY DEF Start, history
  <2>2. Live(t)' /\ Next1(t)' = Next1(t)
    BY <1>4 DEF Live, TERMINAL, Next1
  <2>3. outbox[t] = <<>> /\ worker[t].pc = "none"
    BY <1>1 DEF TaskInv, AttemptInv
  <2>4. /\ Next1(t) \in 1..Len(job[t]) /\ Next1(t) \in Unit
        /\ \A u \in Unit : u >= Next1(t) => Untouched(t, u)
    <3>1. Next1(t) <= Len(job[t]) /\ \A u \in Unit : u >= Next1(t) => Untouched(t, u)
      BY <1>1 DEF TaskInv, ReachInv
    <3>2. Len(job[t]) \in 1..MaxUnits /\ Next1(t) >= 1
      BY <1>1, Known
    <3> QED  BY <1>1, <3>1, <3>2 DEF Unit
  <2>5. BirthInv(t)' /\ CountInv(t)'
    BY <1>1, <1>2, <1>4, <2>1 DEF TaskInv, BirthInv, CountInv, Backed, Untouched
  <2>6. AttemptInv(t)'
    BY <1>5, <2>2 DEF AttemptInv
  <2>7. ReachInv(t)'
    BY <1>1, <1>4, <1>5, <2>1, <2>2, <2>4 DEF TaskInv, ReachInv, Untouched, Unit
  <2>8. PhaseInv(t)'
    BY <1>5, <2>1, <2>3, <2>4 DEF PhaseInv, WorkInv, PutOffInv, Untouched, Gives
  <2>9. ConfigInv(t)'
    BY <1>1, <1>5, <2>1, <2>3 DEF TaskInv, ConfigInv, Takes
  <2>10. LateInv(t)'
    BY <1>4, <1>5 DEF LateInv, Takes
  <2> QED  BY <2>5, <2>6, <2>7, <2>8, <2>9, <2>10 DEF TaskInv
<1> QED  BY <1>6, <1>7, <1>8, Local

-----------------------------------------------------------------------------
(* The end of a process.                                                   *)

LEMMA Settled ==
    ASSUME IInv, NEW t \in Task, attempt[t] # None, outbox[t] = <<>>,
           job'[t] = job[t], snapshot'[t] = snapshot[t], outbox'[t] = outbox[t],
           receipt'[t] = receipt[t], published'[t] = published[t], begun'[t] = begun[t],
           attempt'[t] = None, worker'[t] = NoWorker, inbox'[t] = <<>>,
           view'[t] \in View, view'[t] # None, disk'[t] # None,
           Backed(t, view'[t].results), Backed(t, disk'[t].results),
           Len(view[t].results) <= Len(view'[t].results),
           \/ view'[t].state \in TERMINAL
           \/ /\ Len(view'[t].results) < Len(job[t])
              /\ \A u \in Unit : u > Len(view'[t].results) => Untouched(t, u)
    PROVE  TaskInv(t)'
<1>1. TaskInv(t) /\ view[t] # None /\ Live(t) /\ TypeOK
  BY Attempted DEF IInv
<1>2. /\ NoWorker.pc = "none" /\ NoWorker.config = None /\ NoWorker.late = FALSE
  BY DEF NoWorker
<1>3. /\ Next1(t)' = Len(view'[t].results) + 1 /\ Next1(t) = Len(view[t].results) + 1
      /\ Len(view'[t].results) \in Nat /\ Len(view[t].results) \in Nat /\ Len(job[t]) \in Nat
  BY <1>1, Known DEF Next1, View
<1>4. Live(t)' <=> view'[t].state \notin TERMINAL
  BY DEF Live
<1>5. BirthInv(t)' /\ CountInv(t)'
  BY <1>1 DEF TaskInv, BirthInv, CountInv, Backed, Untouched
<1>6. AttemptInv(t)'
  BY <1>2 DEF AttemptInv
<1>7. ReachInv(t)'
  <2>1. \A u \in Unit : begun[t][u] # None => u <= Next1(t)'
    BY <1>1, <1>3 DEF TaskInv, ReachInv, Unit
  <2>2. Live(t)' => Next1(t)' <= Len(job[t]) /\ \A u \in Unit : u >= Next1(t)' => Untouched(t, u)
    BY <1>3, <1>4 DEF Unit
  <2> QED  BY <1>2, <2>1, <2>2 DEF ReachInv, Untouched
<1>8. PhaseInv(t)' /\ ConfigInv(t)' /\ LateInv(t)'
  BY <1>1, <1>2 DEF TaskInv, PhaseInv, WorkInv, PutOffInv, ConfigInv, LateInv
<1> QED  BY <1>5, <1>6, <1>7, <1>8 DEF TaskInv

(* What a summary knows, with the receipt of the unit that has ended. *)
LEMMA OneMore ==
    ASSUME IInv, NEW t \in Task, attempt[t] # None, receipt[t][Next1(t)] # None
    PROVE  LET results == Append(view[t].results, receipt[t][Next1(t)])
           IN  /\ results \in Seq(Status) /\ Backed(t, results)
               /\ Len(results) = Len(view[t].results) + 1
               /\ results[Len(results)] = receipt[t][Next1(t)] /\ receipt[t][Next1(t)] \in Status
<1>1. /\ view[t] # None /\ Next1(t) \in 1..Len(job[t]) /\ Next1(t) \in Unit
      /\ view[t].results \in Seq(Status) /\ Next1(t) = Len(view[t].results) + 1
      /\ Backed(t, view[t].results)
  BY Attempted, Known DEF IInv, TaskInv, BirthInv
<1>2. receipt[t][Next1(t)] \in Status
  BY <1>1 DEF IInv, TypeOK
<1>3. ASSUME NEW r \in Status, NEW known \in Seq(Status)
      PROVE  /\ Append(known, r) \in Seq(Status) /\ Len(Append(known, r)) = Len(known) + 1
             /\ Append(known, r)[Len(known) + 1] = r
             /\ \A u \in 1..Len(known) : Append(known, r)[u] = known[u]
  OBVIOUS
<1> QED  BY <1>1, <1>2, <1>3 DEF Backed

LEMMA SettledTypes ==
    ASSUME TypeOK, NEW t \in Task, NEW v \in View, Settle(t, v)
    PROVE  /\ view' \in [Task -> View \cup {None}] /\ disk' \in [Task -> View \cup {None}]
           /\ faults' \in 0..MaxFaults
           /\ attempt' \in [Task -> Attempt \cup {None}] /\ worker' \in [Task -> Worker]
           /\ inbox' \in [Task -> Seq(Control)]
           /\ attempt'[t] = None /\ worker'[t] = NoWorker /\ inbox'[t] = <<>>
           /\ view'[t] \in View /\ view'[t] # None
           /\ view'[t].state = v.state /\ view'[t].results = v.results
           /\ disk'[t] \in {v, disk[t]}
           /\ \A q \in Task \ {t} :
                  /\ view'[q] = view[q] /\ disk'[q] = disk[q]
                  /\ attempt'[q] = attempt[q] /\ worker'[q] = worker[q] /\ inbox'[q] = inbox[q]
<1>1. Update(t, v) /\ attempt' = [attempt EXCEPT ![t] = None] /\ worker' = [worker EXCEPT ![t] = NoWorker]
      /\ inbox' = [inbox EXCEPT ![t] = <<>>]
  BY DEF Settle
<1>2. NoWorker \in Worker /\ <<>> \in Seq(Control)
  BY DEF NoWorker, Worker
<1>3. inbox' \in [Task -> Seq(Control)] /\ inbox'[t] = <<>> /\ \A q \in Task \ {t} : inbox'[q] = inbox[q]
  BY <1>1, <1>2, Pipes
<1>4. /\ attempt' \in [Task -> Attempt \cup {None}] /\ worker' \in [Task -> Worker]
      /\ attempt'[t] = None /\ worker'[t] = NoWorker
      /\ \A q \in Task \ {t} : attempt'[q] = attempt[q] /\ worker'[q] = worker[q]
  BY <1>1, <1>2 DEF TypeOK
<1> QED  BY <1>1, <1>3, <1>4, Updated

(* A step that settles a task, with these results and in this state.       *)
LEMMA SettleInv ==
    ASSUME IInv, NEW t \in Task, NEW v \in View, Settle(t, v), Ended(t),
           job' = job, held' = held, snapshot' = snapshot, accepting' = accepting, outbox' = outbox,
           receipt' = receipt, settings' = settings, published' = published, begun' = begun,
           crashes' = crashes, pending' \in Seq(Task),
           Backed(t, v.results), Len(view[t].results) <= Len(v.results),
           \/ v.state \in TERMINAL
           \/ /\ Len(v.results) < Len(job[t])
              /\ \A u \in Unit : u > Len(v.results) => Untouched(t, u)
    PROVE  IInv'
<1>1. TypeOK /\ TaskInv(t) /\ attempt[t] # None /\ outbox[t] = <<>> /\ view[t] # None
  BY Attempted DEF IInv, Ended
<1>2. TypeOK'
  BY <1>1, SettledTypes DEF TypeOK, Control
<1>3. \A q \in Task \ {t} : Same(q)
  BY <1>1, SettledTypes DEF Same
<1>4. TaskInv(t)'
  <2>1. Backed(t, disk[t].results) /\ disk[t] # None
    BY <1>1 DEF TaskInv, BirthInv
  <2>2. /\ view'[t] \in View /\ view'[t] # None /\ view'[t].state = v.state /\ view'[t].results = v.results
        /\ disk'[t] \in {v, disk[t]} /\ attempt'[t] = None /\ worker'[t] = NoWorker /\ inbox'[t] = <<>>
    BY <1>1, SettledTypes
  <2>3. v # None
    OBVIOUS
  <2>4. disk'[t] # None /\ Backed(t, disk'[t].results)
    BY <2>1, <2>2, <2>3
  <2> QED  BY <1>1, <2>2, <2>4, Settled
<1> QED  BY <1>2, <1>3, <1>4, Local

(* A task ends with the results it has. *)
LEMMA EndInv ==
    ASSUME IInv, NEW t \in Task, Ended(t), NEW state \in TERMINAL,
           Settle(t, [view[t] EXCEPT !.state = state]),
           job' = job, held' = held, snapshot' = snapshot, accepting' = accepting, outbox' = outbox,
           receipt' = receipt, settings' = settings, published' = published, begun' = begun,
           crashes' = crashes, pending' = pending
    PROVE  IInv'
<1> DEFINE v == [view[t] EXCEPT !.state = state]
<1>1. view[t] # None /\ view[t] \in View /\ Backed(t, view[t].results)
  BY Attempted, Known DEF Ended, IInv, TaskInv, BirthInv
<1>2. v \in View /\ v.results = view[t].results /\ v.state = state
  BY <1>1 DEF View
<1>3. Settle(t, v) /\ pending' \in Seq(Task) /\ Len(v.results) \in Nat
  BY <1>1, <1>2, Known DEF IInv, TypeOK
<1> HIDE DEF v
<1> QED  BY <1>1, <1>2, <1>3, SettleInv

LEMMA FinishUnrecoveredInv == ASSUME IInv, NEW t \in Task, FinishUnrecovered(t) PROVE IInv'
<1> DEFINE v == [view[t] EXCEPT !.results = WithReceipt(t), !.state = "blocked"]
<1>1. /\ view[t] # None /\ view[t] \in View /\ Backed(t, view[t].results) /\ attempt[t] # None
      /\ view[t].results \in Seq(Status)
  BY Attempted, Known DEF FinishUnrecovered, Ended, IInv, TaskInv, BirthInv
<1>2. /\ WithReceipt(t) \in Seq(Status) /\ Backed(t, WithReceipt(t))
      /\ Len(view[t].results) <= Len(WithReceipt(t))
  BY <1>1, OneMore DEF WithReceipt
<1>3. v \in View /\ v.results = WithReceipt(t) /\ v.state = "blocked"
  BY <1>1, <1>2 DEF View, TERMINAL
<1>4. Settle(t, v) /\ Ended(t) /\ pending' \in Seq(Task) /\ "blocked" \in TERMINAL
  BY DEF FinishUnrecovered, IInv, TypeOK, TERMINAL
<1> HIDE DEF v
<1>5. /\ job' = job /\ held' = held /\ snapshot' = snapshot /\ accepting' = accepting /\ outbox' = outbox
      /\ receipt' = receipt /\ settings' = settings /\ published' = published /\ begun' = begun
      /\ crashes' = crashes
  BY DEF FinishUnrecovered, history
<1> QED  BY <1>2, <1>3, <1>4, <1>5, SettleInv

LEMMA StartRecoveryFailsInv == ASSUME IInv, NEW t \in Task, StartRecoveryFails(t) PROVE IInv'
<1>1. "blocked" \in TERMINAL
  BY DEF TERMINAL
<1> QED  BY <1>1, EndInv DEF StartRecoveryFails, history

LEMMA FinishInDoubtInv == ASSUME IInv, NEW t \in Task, FinishInDoubt(t) PROVE IInv'
<1>1. "interrupted" \in TERMINAL
  BY DEF TERMINAL
<1> QED  BY <1>1, EndInv DEF FinishInDoubt, history

(* The units behind the one of an attempt are untouched, and the unit      *)
(* itself if it was deferred.                                              *)
LEMMA Ahead ==
    ASSUME IInv, NEW t \in Task, attempt[t] # None
    PROVE  /\ \A u \in Unit : u > Next1(t) => Untouched(t, u)
           /\ attempt[t].deferred # "no" => Untouched(t, Next1(t))
BY Attempted DEF IInv, TaskInv, ReachInv, PhaseInv, WorkInv, PutOffInv

LEMMA FinishDeferredInv == ASSUME IInv, NEW t \in Task, FinishDeferred(t) PROVE IInv'
<1> DEFINE state == IF view[t].stop THEN "stopped"
                    ELSE IF attempt[t].deferred = "input" THEN "waiting-input" ELSE "waiting"
           v == [view[t] EXCEPT !.state = state]
<1>1. /\ view[t] # None /\ view[t] \in View /\ Backed(t, view[t].results) /\ attempt[t] # None
      /\ Next1(t) = Len(view[t].results) + 1 /\ Len(view[t].results) \in Nat /\ Next1(t) <= Len(job[t])
      /\ Len(job[t]) \in Nat
  BY Attempted, Known DEF FinishDeferred, Ended, IInv, TaskInv, BirthInv
<1>2. v \in View /\ v.results = view[t].results
  BY <1>1 DEF View, Waiting, TERMINAL
<1>3. Settle(t, v) /\ Ended(t)
  BY DEF FinishDeferred
<1>4. pending' \in Seq(Task)
  BY DEF FinishDeferred, PutLast, IInv, TypeOK
<1>5. \A u \in Unit : u > Len(v.results) => Untouched(t, u)
  <2> SUFFICES ASSUME NEW u \in Unit, u > Len(view[t].results) PROVE Untouched(t, u)
    BY <1>2
  <2>1. attempt[t].deferred # "no"
    BY DEF FinishDeferred, Deferred
  <2>2. u = Next1(t) \/ u > Next1(t)
    BY <1>1 DEF Unit
  <2> QED  BY <1>1, <2>1, <2>2, Ahead
<1>6. /\ job' = job /\ held' = held /\ snapshot' = snapshot /\ accepting' = accepting /\ outbox' = outbox
      /\ receipt' = receipt /\ settings' = settings /\ published' = published /\ begun' = begun
      /\ crashes' = crashes
  BY DEF FinishDeferred, history
<1> HIDE DEF v
<1> QED  BY <1>1, <1>2, <1>3, <1>4, <1>5, <1>6, SettleInv

LEMMA NextStates ==
    ASSUME NEW t, NEW results, NEW stop
    PROVE  /\ NextState(t, results, stop) \in TERMINAL \cup {"queued"}
           /\ NextState(t, results, stop) = "queued" => Len(results) # Len(job[t])
<1>1. Outcome(results) \in TERMINAL /\ Outcome(results) # "queued"
  BY DEF Outcome, TERMINAL
<1> QED  BY <1>1 DEF NextState, TERMINAL

LEMMA FinishConfirmedInv == ASSUME IInv, NEW t \in Task, FinishConfirmed(t) PROVE IInv'
<1> DEFINE results == Append(view[t].results, receipt[t][Next1(t)])
<1>1. PICK first \in BOOLEAN, second \in BOOLEAN :
        \E state \in {NextState(t, results, view[t].stop \/ ~first)}
                     \cup (IF attempt[t].recovery /\ NextState(t, results, view[t].stop \/ ~first) \notin {"interrupted", "blocked"}
                           THEN {"partial"} ELSE {}) :
            /\ view' = [view EXCEPT ![t] = [state |-> state, results |-> results,
                                            stop |-> (view[t].stop \/ ~first) \/ ~second]]
            /\ disk' = [disk EXCEPT ![t] =
                   IF second THEN [state |-> state, results |-> results, stop |-> view[t].stop \/ ~first]
                   ELSE IF first THEN [view[t] EXCEPT !.results = results] ELSE @]
            /\ faults' = faults + (IF first THEN 0 ELSE 1) + (IF second THEN 0 ELSE 1)
            /\ faults' <= MaxFaults
            /\ pending' = (IF state = "queued" THEN PutLast(t) ELSE pending)
  BY Zenon DEF FinishConfirmed
<1> DEFINE stop == view[t].stop \/ ~first
           last == stop \/ ~second
<1>2. PICK state \in {NextState(t, results, stop)} \cup {"partial"} :
        /\ view' = [view EXCEPT ![t] = [state |-> state, results |-> results, stop |-> last]]
        /\ disk' = [disk EXCEPT ![t] =
               IF second THEN [state |-> state, results |-> results, stop |-> stop]
               ELSE IF first THEN [view[t] EXCEPT !.results = results] ELSE @]
        /\ faults' = faults + (IF first THEN 0 ELSE 1) + (IF second THEN 0 ELSE 1)
        /\ faults' <= MaxFaults
        /\ pending' = (IF state = "queued" THEN PutLast(t) ELSE pending)
  BY <1>1
<1>3. /\ view[t] # None /\ view[t] \in View /\ attempt[t] # None /\ outbox[t] = <<>> /\ TypeOK /\ TaskInv(t)
      /\ Next1(t) = Len(view[t].results) + 1 /\ Len(view[t].results) \in Nat /\ Next1(t) <= Len(job[t])
      /\ Len(job[t]) \in Nat
  BY Attempted, Known DEF FinishConfirmed, Ended, IInv
<1>4. /\ results \in Seq(Status) /\ Backed(t, results) /\ Len(results) = Len(view[t].results) + 1
  BY <1>3, OneMore DEF FinishConfirmed
<1>5. stop \in BOOLEAN /\ last \in BOOLEAN
  OBVIOUS
<1>6. state \in TERMINAL \cup {"queued"} /\ (state = "queued" => Len(results) # Len(job[t]))
  <2>1. "partial" \in TERMINAL /\ "partial" # "queued"
    BY DEF TERMINAL
  <2> QED  BY <1>2, <2>1, NextStates
<1> HIDE DEF results, stop, last
<1> DEFINE v == [state |-> state, results |-> results, stop |-> last]
           d == IF second THEN [state |-> state, results |-> results, stop |-> stop]
                ELSE IF first THEN [view[t] EXCEPT !.results = results] ELSE disk[t]
<1>7. v \in View /\ v # None /\ v.state = state /\ v.results = results
  <2>1. v \in View /\ v.state = state /\ v.results = results
    BY <1>4, <1>5, <1>6 DEF View, TERMINAL
  <2> QED  BY <2>1
<1>8. d \in View /\ d # None /\ Backed(t, d.results)
  <2>1. CASE second
    <3>1. [state |-> state, results |-> results, stop |-> stop] \in View
      BY <1>4, <1>5, <1>6 DEF View, TERMINAL
    <3> QED  BY <1>4, <2>1, <3>1
  <2>2. CASE ~second /\ first
    <3>1. [view[t] EXCEPT !.results = results] \in View /\ [view[t] EXCEPT !.results = results].results = results
      BY <1>3, <1>4 DEF View
    <3> QED  BY <1>4, <2>2, <3>1
  <2>3. CASE ~second /\ ~first
    <3>1. disk[t] \in View /\ disk[t] # None /\ Backed(t, disk[t].results)
      BY <1>3, Known DEF TaskInv, BirthInv
    <3> QED  BY <2>3, <3>1
  <2> QED  BY <2>1, <2>2, <2>3
<1>9. view' = [view EXCEPT ![t] = v] /\ disk' = [disk EXCEPT ![t] = d]
  BY <1>2, <1>3 DEF TypeOK
<1> HIDE DEF v, d
<1>10. TypeOK'
  <2>1. faults' \in 0..MaxFaults
    <3>1. faults \in Nat
      BY <1>3 DEF TypeOK
    <3>2. (IF first THEN 0 ELSE 1) \in Nat /\ (IF second THEN 0 ELSE 1) \in Nat
      OBVIOUS
    <3> QED  BY <1>2, <3>1, <3>2
  <2>2. pending' \in Seq(Task)
    BY <1>2, <1>3 DEF PutLast, TypeOK
  <2>3. view' \in [Task -> View \cup {None}] /\ disk' \in [Task -> View \cup {None}]
    BY <1>3, <1>7, <1>8, <1>9 DEF TypeOK
  <2>4. NoWorker \in Worker
    BY DEF NoWorker, Worker
  <2>5. attempt' \in [Task -> Attempt \cup {None}] /\ worker' \in [Task -> Worker]
    BY <1>3, <2>4 DEF FinishConfirmed, TypeOK
  <2>6. inbox' \in [Task -> Seq(Control)]
    <3>1. <<>> \in Seq(Control)
      OBVIOUS
    <3> QED  BY <1>3, <3>1, Pipes DEF FinishConfirmed
  <2> QED  BY <1>3, <2>1, <2>2, <2>3, <2>5, <2>6 DEF FinishConfirmed, TypeOK, history, Control
<1>11. \A q \in Task \ {t} : Same(q)
  BY <1>3, <1>9 DEF FinishConfirmed, Same, TypeOK, history
<1>12. TaskInv(t)'
  <2>1. view'[t] = v /\ disk'[t] = d /\ attempt'[t] = None /\ worker'[t] = NoWorker /\ inbox'[t] = <<>>
    BY <1>3, <1>9 DEF FinishConfirmed, TypeOK
  <2>2. /\ job' = job /\ snapshot' = snapshot /\ outbox' = outbox
        /\ receipt' = receipt /\ published' = published /\ begun' = begun
    BY DEF FinishConfirmed, history
  <2>3. v.state \notin TERMINAL => Len(v.results) < Len(job[t])
    BY <1>3, <1>4, <1>6, <1>7
  <2>4. \A u \in Unit : u > Len(v.results) => Untouched(t, u)
    BY <1>3, <1>4, <1>7, Ahead DEF Unit
  <2> QED  BY <1>3, <1>4, <1>7, <1>8, <2>1, <2>2, <2>3, <2>4, Settled
<1> QED  BY <1>10, <1>11, <1>12, Local

LEMMA StartRecoveryInv == ASSUME IInv, NEW t \in Task, StartRecovery(t) PROVE IInv'
<1> DEFINE v == [view[t] EXCEPT !.state = "stopping"]
<1>1. /\ view[t] # None /\ view[t] \in View /\ attempt[t] # None /\ Live(t) /\ TaskInv(t) /\ TypeOK
      /\ Next1(t) \in Nat /\ Next1(t) \in 1..Len(job[t]) /\ Next1(t) \in Unit /\ outbox[t] = <<>>
      /\ worker[t].unit = Next1(t) /\ worker[t].pc # "none"
  BY Attempted, Known DEF StartRecovery, Ended, IInv
<1>2. v \in View /\ v.results = view[t].results /\ v.stop = view[t].stop /\ v.state = "stopping"
  BY <1>1 DEF View
<1>3. Update(t, v) /\ Spawn(t, TRUE, None)
  BY DEF StartRecovery
<1> HIDE DEF v
<1>4. /\ view' \in [Task -> View \cup {None}] /\ disk' \in [Task -> View \cup {None}]
      /\ faults' \in 0..MaxFaults
      /\ view'[t] \in View /\ view'[t] # None
      /\ view'[t].state = "stopping" /\ view'[t].results = view[t].results
      /\ disk'[t] \in {v, disk[t]} /\ v # None
      /\ \A q \in Task \ {t} : view'[q] = view[q] /\ disk'[q] = disk[q]
  BY <1>1, <1>2, <1>3, Updated
<1>5. /\ worker' \in [Task -> Worker] /\ attempt' \in [Task -> Attempt \cup {None}]
      /\ inbox' \in [Task -> Seq(Control)] /\ inbox'[t] = <<>>
      /\ worker'[t].pc = "draining"
      /\ worker'[t].unit = Next1(t) /\ worker'[t].parent /\ worker'[t].config = None
      /\ ~worker'[t].late /\ ~worker'[t].acked
      /\ attempt'[t] # None /\ attempt'[t].recovery = TRUE
      /\ attempt'[t].deferred = "no"
      /\ \A q \in Task \ {t} : worker'[q] = worker[q] /\ attempt'[q] = attempt[q] /\ inbox'[q] = inbox[q]
  BY <1>1, <1>3, Spawned
<1>6. TypeOK'
  BY <1>1, <1>4, <1>5 DEF StartRecovery, TypeOK, history, Control
<1>7. \A q \in Task \ {t} : Same(q)
  BY <1>4, <1>5 DEF StartRecovery, Same, history
<1>8. TaskInv(t)'
  <2>1. /\ job' = job /\ snapshot' = snapshot /\ outbox' = outbox
        /\ receipt' = receipt /\ published' = published /\ begun' = begun
    BY DEF StartRecovery, history
  <2>2. Live(t)' /\ Next1(t)' = Next1(t)
    BY <1>4 DEF Live, TERMINAL, Next1
  <2>3. BirthInv(t)' /\ CountInv(t)'
    BY <1>1, <1>2, <1>4, <2>1 DEF TaskInv, BirthInv, CountInv, Backed, Untouched
  <2>4. AttemptInv(t)'
    BY <1>5, <2>2 DEF AttemptInv
  <2>5. ReachInv(t)'
    BY <1>1, <1>4, <1>5, <2>1, <2>2 DEF TaskInv, ReachInv, Untouched
  <2>6. PhaseInv(t)'
    BY <1>1, <1>5, <2>1 DEF PhaseInv, WorkInv, PutOffInv, Gives
  <2>7. ConfigInv(t)'
    BY <1>1, <1>5, <2>1, <2>2 DEF TaskInv, ConfigInv, Takes
  <2>8. LateInv(t)'
    BY <1>5 DEF LateInv
  <2> QED  BY <2>3, <2>4, <2>5, <2>6, <2>7, <2>8 DEF TaskInv
<1> QED  BY <1>6, <1>7, <1>8, Local

(* A task that the next application loads has lost no result.              *)
LEMMA Loaded ==
    ASSUME IInv, NEW t \in Task, disk[t] # None
    PROVE  /\ view[t] # None /\ disk[t] \in View
           /\ Confirmed(t, disk[t].results) \in Seq(Status) /\ Backed(t, Confirmed(t, disk[t].results))
           /\ Len(view[t].results) <= Len(Confirmed(t, disk[t].results))
<1>1. view[t] # None
  BY DEF IInv, TaskInv, BirthInv
<1>2. /\ disk[t].results \in Seq(Status) /\ disk[t] \in View /\ Len(job[t]) <= MaxUnits
      /\ Len(view[t].results) \in 0..Len(job[t]) /\ view[t].results \in Seq(Status)
  BY <1>1, Known
<1>3. Backed(t, disk[t].results) /\ Backed(t, view[t].results)
  BY <1>1 DEF IInv, TaskInv, BirthInv
<1>4. \A u \in 1..Len(view[t].results) : receipt[t][u] # None
  <2>1. \A u \in 1..Len(view[t].results) : view[t].results[u] \in Status
    BY <1>2
  <2> QED  BY <1>3, <2>1 DEF Backed, Status
<1> QED  BY <1>1, <1>2, <1>3, <1>4, ConfirmedResults DEF IInv

LEMMA RestartInv == ASSUME IInv, Restart PROVE IInv'
<1>1. TypeOK
  BY DEF IInv
<1>2. ASSUME NEW t \in Task, disk[t] # None
      PROVE  /\ view[t] # None /\ disk[t] \in View
             /\ Confirmed(t, disk[t].results) \in Seq(Status) /\ Backed(t, Confirmed(t, disk[t].results))
             /\ Len(view[t].results) <= Len(Confirmed(t, disk[t].results))
  BY <1>2, Loaded
<1> DEFINE state(t) == IF disk[t].state \in TERMINAL THEN disk[t].state ELSE "interrupted"
           v(t) == [state |-> state(t), results |-> Confirmed(t, disk[t].results), stop |-> disk[t].stop]
<1>3. view' = [t \in Task |-> IF disk[t] = None THEN None ELSE v(t)]
  BY DEF Restart
<1>4. ASSUME NEW t \in Task, disk[t] # None
      PROVE  /\ v(t) \in View /\ v(t) # None /\ v(t).state \in TERMINAL
             /\ v(t).results = Confirmed(t, disk[t].results)
  <2>1. state(t) \in TERMINAL
    BY DEF TERMINAL
  <2>2. disk[t].stop \in BOOLEAN
    BY <1>2, <1>4 DEF View
  <2> HIDE DEF state
  <2>3. v(t) \in View
    BY <1>2, <1>4, <2>1, <2>2 DEF View
  <2> QED  BY <2>1, <2>3
<1> HIDE DEF v
<1>5. TypeOK'
  <2>1. view' \in [Task -> View \cup {None}]
    BY <1>3, <1>4
  <2>2. worker' \in [Task -> Worker]
    <3>1. NoWorker \in Worker
      BY DEF NoWorker, Worker
    <3>2. \A w \in Worker : [w EXCEPT !.parent = FALSE] \in Worker
      BY DEF Worker
    <3> QED  BY <1>1, <3>1, <3>2 DEF Restart, TypeOK
  <2>3. inbox' \in [Task -> Seq(Control)] /\ outbox' \in [Task -> Seq(Saying)]
    BY DEF Restart
  <2>4. crashes' \in 0..MaxCrashes
    BY <1>1 DEF Restart, TypeOK
  <2>5. pending' \in Seq(Task) /\ accepting' \in BOOLEAN /\ held' \subseteq Task
    BY DEF Restart
  <2>6. snapshot' \in [Task -> Settings \cup {None}] /\ attempt' \in [Task -> Attempt \cup {None}]
    BY DEF Restart
  <2> QED  BY <1>1, <2>1, <2>2, <2>3, <2>4, <2>5, <2>6 DEF Restart, TypeOK, history, Control, Saying
<1>6. ASSUME NEW t \in Task PROVE TaskInv(t)'
  <2>1. /\ attempt'[t] = None /\ inbox'[t] = <<>> /\ outbox'[t] = <<>> /\ snapshot'[t] = None
        /\ disk' = disk /\ job' = job /\ receipt' = receipt /\ published' = published /\ begun' = begun
    BY DEF Restart, history
  <2>2. TaskInv(t) /\ worker[t] \in Worker
    BY <1>1 DEF IInv, TypeOK
  <2>3. worker'[t] = IF worker[t].pc \in Gone THEN NoWorker ELSE [worker[t] EXCEPT !.parent = FALSE]
    BY DEF Restart
  <2>4. /\ NoWorker.pc = "none" /\ NoWorker.config = None /\ NoWorker.late = FALSE
    BY DEF NoWorker
  <2>5. LET w == [worker[t] EXCEPT !.parent = FALSE]
        IN  /\ w.pc = worker[t].pc /\ w.unit = worker[t].unit /\ w.late = worker[t].late
            /\ w.config = worker[t].config /\ w.result = worker[t].result /\ w.acked = worker[t].acked
            /\ w.stopped = worker[t].stopped /\ w.parent = FALSE
    BY <2>2 DEF Worker
  <2>6. CASE disk[t] = None
    <3>1. view[t] = None /\ view'[t] = None
      BY <1>3, <2>2, <2>6 DEF TaskInv, BirthInv
    <3>2. worker[t] = NoWorker /\ job[t] = <<>> /\ \A u \in Unit : Untouched(t, u)
      BY <2>2, <3>1 DEF TaskInv, BirthInv
    <3>3. worker'[t] = NoWorker
      BY <2>3, <2>4, <3>2 DEF Gone
    <3>4. BirthInv(t)' /\ CountInv(t)' /\ AttemptInv(t)' /\ ReachInv(t)'
      BY <2>1, <2>4, <2>6, <3>1, <3>2, <3>3 DEF BirthInv, CountInv, AttemptInv, ReachInv, Untouched, Live
    <3>5. PhaseInv(t)' /\ ConfigInv(t)' /\ LateInv(t)'
      BY <2>1, <2>4, <3>1, <3>2, <3>3 DEF PhaseInv, WorkInv, PutOffInv, ConfigInv, LateInv, Untouched, Live
    <3> QED  BY <3>4, <3>5 DEF TaskInv
  <2>7. CASE disk[t] # None
    <3>1. /\ view'[t] = v(t) /\ view'[t] # None /\ ~Live(t)' /\ Backed(t, view'[t].results)
          /\ view[t] # None /\ Next1(t) <= Next1(t)' /\ Next1(t) \in Nat /\ Next1(t)' \in Nat
      <4>1. view'[t] = v(t) /\ v(t) # None /\ v(t).state \in TERMINAL
            /\ v(t).results = Confirmed(t, disk[t].results)
        BY <1>3, <1>4, <2>7
      <4>2. Len(Confirmed(t, disk[t].results)) \in Nat /\ view[t] # None /\ Next1(t) = Len(view[t].results) + 1
            /\ Len(view[t].results) <= Len(Confirmed(t, disk[t].results)) /\ Next1(t) \in Nat
        BY <1>2, <2>7, Known
      <4>3. Next1(t)' = Len(Confirmed(t, disk[t].results)) + 1
        BY <4>1 DEF Next1
      <4>4. Len(view[t].results) \in Nat
        BY <4>2, Known
      <4> QED  BY <1>2, <2>7, <4>1, <4>2, <4>3, <4>4 DEF Live
    <3>2. BirthInv(t)' /\ CountInv(t)'
      BY <2>1, <2>2, <3>1 DEF TaskInv, BirthInv, CountInv, Backed, Untouched
    <3>3. AttemptInv(t)'
      BY <2>1, <2>3, <2>4, <2>5, <3>1 DEF AttemptInv
    <3>4. ReachInv(t)'
      <4>1. \A u \in Unit : begun[t][u] # None => u <= Next1(t)'
        BY <2>2, <3>1 DEF TaskInv, ReachInv, Unit
      <4>2. worker'[t].pc # "none" =>
              /\ worker'[t].unit = worker[t].unit /\ worker[t].pc # "none" /\ worker[t].unit \in Nat
        BY <2>2, <2>3, <2>4, <2>5 DEF Gone, Worker
      <4> QED  BY <2>1, <2>2, <3>1, <4>1, <4>2 DEF TaskInv, ReachInv, Untouched
    <3>5. CASE worker[t].pc \in Gone
      <4>1. worker'[t] = NoWorker
        BY <2>3, <3>5
      <4>2. PhaseInv(t)' /\ ConfigInv(t)' /\ LateInv(t)'
        BY <2>1, <2>2, <2>4, <3>1, <4>1 DEF TaskInv, PhaseInv, WorkInv, PutOffInv, ConfigInv, LateInv
      <4> QED  BY <3>2, <3>3, <3>4, <4>2 DEF TaskInv
    <3>6. CASE worker[t].pc \notin Gone
      <4>1. worker'[t] = [worker[t] EXCEPT !.parent = FALSE]
        BY <2>3, <3>6
      <4>2. PhaseInv(t)'
        BY <2>1, <2>2, <2>5, <4>1 DEF TaskInv, PhaseInv, WorkInv, PutOffInv, Untouched
      <4>3. ConfigInv(t)' /\ LateInv(t)'
        BY <2>1, <2>2, <2>5, <3>1, <4>1 DEF TaskInv, ConfigInv, LateInv
      <4> QED  BY <3>2, <3>3, <3>4, <4>2, <4>3 DEF TaskInv
    <3> QED  BY <3>5, <3>6
  <2> QED  BY <2>6, <2>7
<1> QED  BY <1>5, <1>6 DEF IInv

-----------------------------------------------------------------------------
(* The steps of a worker.                                                  *)

Plain == {"navigation", "result", "unconfirmed", "recovered"}
PutOff == {"deferred", "input"}

(* It says at most one word, of these kinds, and only to a manager. *)
Speaks(t, kinds) ==
    /\ outbox' \in [Task -> Seq(Saying)]
    /\ \A q \in Task \ {t} : outbox'[q] = outbox[q]
    /\ \/ outbox'[t] = outbox[t]
       \/ /\ worker[t].parent
          /\ \E word \in Saying : word.kind \in kinds /\ outbox'[t] = Append(outbox[t], word)

LEMMA Silent == ASSUME TypeOK, NEW t \in Task, NEW kinds, outbox' = outbox PROVE Speaks(t, kinds)
BY Pipes DEF Speaks

LEMMA Said ==
    ASSUME TypeOK, NEW t \in Task, NEW kinds, NEW kind \in kinds, NEW config \in Settings \cup {None},
           kind \in {"snapshot", "navigation", "deferred", "input", "result", "unconfirmed", "recovered"},
           Say(t, kind, config)
    PROVE  Speaks(t, kinds)
<1> DEFINE word == [kind |-> kind, config |-> config]
<1>1. word \in Saying /\ word.kind = kind
  BY DEF Saying
<1>2. outbox' = [outbox EXCEPT ![t] = IF worker[t].parent THEN Append(outbox[t], word) ELSE outbox[t]]
  BY Pipes DEF Say
<1> HIDE DEF word
<1>3. Append(outbox[t], word) \in Seq(Saying)
  BY <1>1, Pipes, AppendOf
<1>4. outbox' \in [Task -> Seq(Saying)]
  BY <1>2, <1>3, Pipes
<1>5. outbox'[t] = outbox[t] \/ (worker[t].parent /\ outbox'[t] = Append(outbox[t], word))
  BY <1>2, Pipes
<1>6. \A q \in Task \ {t} : outbox'[q] = outbox[q]
  BY <1>2, Pipes
<1> QED  BY <1>1, <1>4, <1>5, <1>6 DEF Speaks

(* It may leave a mark on its own unit, where there was none. *)
Marks(t) ==
    /\ receipt' \in [Task -> [Unit -> Status \cup {None}]]
    /\ published' \in [Task -> [Unit -> Nat]]
    /\ \A q \in Task \ {t} : receipt'[q] = receipt[q] /\ published'[q] = published[q]
    /\ \A u \in Unit : receipt'[t][u] = receipt[t][u] \/ (u = worker[t].unit /\ receipt[t][u] = None)
    /\ \A u \in Unit : u # worker[t].unit => published'[t][u] = published[t][u]

LEMMA Unmarked == ASSUME TypeOK, NEW t \in Task, receipt' = receipt, published' = published PROVE Marks(t)
BY DEF TypeOK, Marks

LEMMA Going ==
    ASSUME IInv, NEW t \in Task, worker[t].pc # "none"
    PROVE  /\ TypeOK /\ TaskInv(t) /\ worker[t] \in Worker /\ worker[t].unit \in Unit /\ view[t] # None
           /\ Len(job[t]) \in 1..MaxUnits /\ worker[t].unit \in 1..Len(job[t])
           /\ worker[t].unit <= Next1(t) /\ (Live(t) => attempt[t] # None)
           /\ attempt[t] = None => ~worker[t].parent
           /\ attempt[t] # None => worker[t].parent
<1>1. view[t] # None /\ worker[t].unit \in 1..Len(job[t]) /\ worker[t].unit <= Next1(t)
  BY DEF IInv, TaskInv, ReachInv
<1>2. Len(job[t]) \in 1..MaxUnits
  BY <1>1, Known
<1>3. TypeOK /\ TaskInv(t) /\ worker[t] \in Worker
  BY DEF IInv, TypeOK
<1>4. /\ Live(t) => attempt[t] # None
      /\ attempt[t] = None => ~worker[t].parent
      /\ attempt[t] # None => worker[t].parent
  BY <1>3 DEF TaskInv, AttemptInv
<1>5. worker[t].unit \in Unit
  BY <1>1, <1>2 DEF Unit
<1> QED  BY <1>1, <1>2, <1>3, <1>4, <1>5

Late == {"working", "committed", "handoff", "saving"}

LEMMA Moved ==
    ASSUME IInv, NEW t \in Task, worker[t].pc \notin Gone,
           NEW w \in Worker, worker' = [worker EXCEPT ![t] = w],
           view' = view, disk' = disk, job' = job, held' = held, snapshot' = snapshot, pending' = pending,
           accepting' = accepting, attempt' = attempt,
           inbox' = inbox, settings' = settings, crashes' = crashes, begun' = begun,
           faults' \in 0..MaxFaults,
           NEW kinds \in {Plain, PutOff}, Speaks(t, kinds), Marks(t),
           w.unit = worker[t].unit, w.parent = worker[t].parent, w.late = worker[t].late,
           w.config = worker[t].config, w.acked = worker[t].acked,
           worker[t].stopped # "no" => w.stopped # "no",
           w.pc = worker[t].pc \/ (w.pc \notin {"none", "boot", "acking", "draining"}
                                   /\ (worker[t].late => w.pc \notin Late)),
           attempt[t] # None /\ attempt[t].recovery => w.pc \in {"draining", "exited", "dead"},
           kinds = PutOff => w.pc \in Gone /\ Untouched(t, worker[t].unit)',
           CountInv(t)', WorkInv(t)'
    PROVE  IInv'
<1> DEFINE u0 == worker[t].unit
<1>1. /\ TypeOK /\ TaskInv(t) /\ worker[t] \in Worker /\ u0 \in Unit /\ view[t] # None
      /\ u0 \in 1..Len(job[t]) /\ Len(job[t]) \in 1..MaxUnits
      /\ u0 <= Next1(t) /\ (Live(t) => attempt[t] # None) /\ worker[t].pc # "none"
      /\ attempt[t] = None => ~worker[t].parent
  BY Going DEF Gone
<1>2. worker'[t] = w /\ \A q \in Task \ {t} : worker'[q] = worker[q]
  BY <1>1 DEF TypeOK
<1>3. TypeOK'
  <2>1. worker' \in [Task -> Worker]
    BY <1>1 DEF TypeOK
  <2> QED  BY <1>1, <2>1 DEF TypeOK, Speaks, Marks, Saying
<1>4. \A q \in Task \ {t} : Same(q)
  BY <1>2 DEF Same, Speaks, Marks
<1>5. (Live(t)' <=> Live(t)) /\ Next1(t)' = Next1(t)
  BY DEF Live, Next1
<1>6. \A u \in Unit : u > u0 => (Untouched(t, u) => Untouched(t, u)')
  <2> SUFFICES ASSUME NEW u \in Unit, u > u0, Untouched(t, u) PROVE Untouched(t, u)'
    OBVIOUS
  <2>1. u # u0
    BY <1>1 DEF Unit
  <2>2. receipt'[t][u] = receipt[t][u] /\ published'[t][u] = published[t][u]
    BY <2>1 DEF Marks
  <2> QED  BY <2>2 DEF Untouched
<1>7. BirthInv(t)'
  <2>1. ASSUME NEW results \in Seq(Status), Backed(t, results) PROVE Backed(t, results)'
    <3>1. ASSUME NEW u \in 1..Len(results) PROVE receipt'[t][u] = results[u]
      <4>1. u \in Unit /\ results[u] # None /\ receipt[t][u] = results[u]
        BY <1>1, <2>1 DEF Backed, Unit, Status
      <4> QED  BY <4>1 DEF Marks
    <3> QED  BY <2>1, <3>1 DEF Backed
  <2>2. /\ view[t].results \in Seq(Status) /\ disk[t].results \in Seq(Status)
        /\ Backed(t, view[t].results) /\ Backed(t, disk[t].results) /\ disk[t] # None /\ Len(job[t]) = Total[t]
    BY <1>1, Known DEF TaskInv, BirthInv
  <2> QED  BY <1>1, <2>1, <2>2 DEF BirthInv
<1>8. AttemptInv(t)'
  <2>1. attempt[t] = None => outbox'[t] = outbox[t]
    BY <1>1 DEF Speaks
  <2> QED  BY <1>1, <1>2, <1>5, <2>1, Attempted DEF TaskInv, AttemptInv, Gone
<1>9. ReachInv(t)'
  BY <1>1, <1>2, <1>5, <1>6 DEF TaskInv, ReachInv
<1>10. PutOffInv(t)'
  <2> SUFFICES ASSUME attempt[t] # None, attempt[t].deferred # "no" \/ Gives(t, PutOff)'
               PROVE  w.pc \in Gone /\ Untouched(t, u0)'
    BY <1>2 DEF PutOffInv, PutOff
  <2>1. attempt[t].deferred = "no" /\ ~Gives(t, PutOff)
    BY <1>1 DEF TaskInv, PhaseInv, PutOffInv, PutOff
  <2>2. outbox'[t] # outbox[t]
    BY <2>1 DEF Gives
  <2>3. PICK word \in Saying : word.kind \in kinds /\ outbox'[t] = Append(outbox[t], word)
    BY <2>2 DEF Speaks
  <2>4. outbox[t] \in Seq(Saying)
    BY <1>1, Pipes
  <2>5. word.kind \in PutOff
    BY <2>1, <2>3, <2>4, AppendOf DEF Gives
  <2>6. kinds = PutOff
    BY <2>3, <2>5 DEF Plain, PutOff
  <2> QED  BY <2>6
<1>11. ConfigInv(t)'
  <2>1. \A i \in DOMAIN outbox'[t] : outbox'[t][i].kind = "snapshot" =>
            i \in DOMAIN outbox[t] /\ outbox'[t][i] = outbox[t][i]
    <3>1. CASE outbox'[t] = outbox[t]
      BY <3>1
    <3>2. CASE outbox'[t] # outbox[t]
      <4>1. PICK word \in Saying : word.kind \in kinds /\ outbox'[t] = Append(outbox[t], word)
        BY <3>2 DEF Speaks
      <4>2. word.kind # "snapshot" /\ outbox[t] \in Seq(Saying)
        BY <1>1, <4>1, Pipes DEF Plain, PutOff
      <4> QED  BY <4>1, <4>2, AppendOf
    <3> QED  BY <3>1, <3>2
  <2> QED  BY <1>1, <1>2, <1>5, <2>1 DEF TaskInv, ConfigInv, Takes
<1>12. LateInv(t)'
  BY <1>1, <1>2 DEF TaskInv, LateInv, Takes, Late, Gone
<1> QED  BY <1>3, <1>4, <1>7, <1>8, <1>9, <1>10, <1>11, <1>12, Local DEF TaskInv, PhaseInv

(* Steps that leave no mark: what the invariant knows of the unit stays.   *)
LEMMA Unwritten ==
    ASSUME IInv, NEW t \in Task, worker[t].pc \notin Gone,
           NEW w \in Worker, worker' = [worker EXCEPT ![t] = w],
           view' = view, disk' = disk, job' = job, held' = held, snapshot' = snapshot, pending' = pending,
           accepting' = accepting, attempt' = attempt,
           inbox' = inbox, settings' = settings, crashes' = crashes, faults' = faults,
           receipt' = receipt, published' = published, begun' = begun,
           NEW kinds \in {Plain, PutOff}, Speaks(t, kinds),
           w.unit = worker[t].unit, w.parent = worker[t].parent, w.late = worker[t].late,
           w.config = worker[t].config, w.acked = worker[t].acked,
           worker[t].stopped # "no" => w.stopped # "no",
           \/ w.pc = worker[t].pc /\ w.result = worker[t].result
           \/ w.pc \in {"exited", "dead"}
           \/ /\ w.pc \in {"saving", "closing"} /\ worker[t].pc # "draining" /\ w.result \in Status
              /\ receipt[t][w.unit] \in {None, w.result}
              /\ w.result = "completed" => published[t][w.unit] = 1
              /\ worker[t].late => w.pc # "saving",
           kinds = PutOff => w.pc \in Gone /\ Untouched(t, worker[t].unit)
    PROVE  IInv'
<1>1. /\ TypeOK /\ TaskInv(t) /\ worker[t] \in Worker /\ worker[t].unit \in Unit /\ worker[t].pc # "none"
  BY Going DEF Gone
<1>2. worker'[t] = w
  BY <1>1 DEF TypeOK
<1>3. Marks(t) /\ faults' \in 0..MaxFaults
  BY <1>1, Unmarked DEF TypeOK
<1>4. CountInv(t)' /\ (Untouched(t, worker[t].unit)' <=> Untouched(t, worker[t].unit))
  BY <1>1 DEF TaskInv, CountInv, Untouched
<1>5. WorkInv(t)'
  BY <1>1, <1>2 DEF TaskInv, PhaseInv, WorkInv, Untouched
<1>6. attempt[t] # None /\ attempt[t].recovery => w.pc \in {"draining", "exited", "dead"}
  BY <1>1 DEF TaskInv, AttemptInv, Gone
<1>7. w.pc = worker[t].pc \/ (w.pc \notin {"none", "boot", "acking", "draining"} /\ (worker[t].late => w.pc \notin Late))
  BY DEF Late
<1>8. kinds = PutOff => w.pc \in Gone /\ Untouched(t, worker[t].unit)'
  BY <1>4
<1> QED
  BY <1>3, <1>4, <1>5, <1>6, <1>7, <1>8, Moved

LEMMA HearNobodyInv == ASSUME IInv, NEW t \in Task, HearNobody(t) PROVE IInv'
<1> DEFINE w == [worker[t] EXCEPT !.stopped = "stop"]
<1>1. worker[t].pc \notin Gone /\ worker[t] \in Worker /\ TypeOK
  BY DEF HearNobody, IInv, TypeOK
<1>2. /\ w \in Worker /\ w.unit = worker[t].unit /\ w.parent = worker[t].parent /\ w.late = worker[t].late
      /\ w.config = worker[t].config /\ w.acked = worker[t].acked /\ w.stopped = "stop"
      /\ w.pc = worker[t].pc /\ w.result = worker[t].result
  BY <1>1 DEF Worker
<1>3. worker' = [worker EXCEPT ![t] = w]
  BY <1>1 DEF HearNobody, TypeOK
<1>4. Speaks(t, Plain) /\ Plain # PutOff
  BY <1>1, Silent DEF HearNobody, pipes, Plain, PutOff
<1> HIDE DEF w
<1> QED  BY <1>1, <1>2, <1>3, <1>4, Unwritten DEF HearNobody, manager, pipes, history, bounds

LEMMA GoesOn ==
    ASSUME NEW o \in Worker, NEW p \in {"exited", "dead", "saving", "closing", "working", "committed", "handoff"}
    PROVE  [o EXCEPT !.pc = p] = [o EXCEPT !.pc = p, !.result = o.result] /\ o.result \in Status \cup {None}
BY DEF Worker

LEMMA DeferInv == ASSUME IInv, NEW t \in Task, Defer(t) PROVE IInv'
<1> DEFINE w == [worker[t] EXCEPT !.pc = "exited", !.result = worker[t].result]
<1>1. worker[t].pc = "boot" /\ worker[t].pc \notin Gone /\ worker[t] \in Worker /\ TypeOK /\ TaskInv(t)
  BY DEF Defer, IInv, TypeOK, Gone
<1>2. worker' = [worker EXCEPT ![t] = w] /\ worker[t].result \in Status \cup {None}
  BY <1>1, GoesOn DEF Defer, TypeOK
<1>3. /\ w \in Worker /\ w.unit = worker[t].unit /\ w.parent = worker[t].parent /\ w.late = worker[t].late
      /\ w.config = worker[t].config /\ w.acked = worker[t].acked /\ w.stopped = worker[t].stopped
      /\ w.pc = "exited"
  BY <1>1, <1>2 DEF Worker
<1>4. Speaks(t, PutOff)
  <2>1. PICK kind \in PutOff : Say(t, kind, None)
    BY DEF Defer, PutOff
  <2> QED  BY <1>1, <2>1, Said DEF PutOff
<1>5. Untouched(t, worker[t].unit) /\ w.pc \in Gone
  BY <1>1, <1>3 DEF TaskInv, PhaseInv, WorkInv, Gone
<1> HIDE DEF w
<1> QED  BY <1>1, <1>2, <1>3, <1>4, <1>5, Unwritten DEF Defer, manager, pipes, history, bounds

(* It ends, or goes on to save and close, with a result that is true.      *)
LEMMA Ends ==
    ASSUME IInv, NEW t \in Task, worker[t].pc \notin Gone \cup {"draining"},
           NEW p \in {"saving", "closing"}, NEW r \in Status,
           worker' = [worker EXCEPT ![t] = [worker[t] EXCEPT !.pc = p, !.result = r]],
           worker[t].late => p # "saving",
           receipt[t][worker[t].unit] \in {None, r},
           r = "completed" => published[t][worker[t].unit] = 1,
           UNCHANGED <<manager, pipes, receipt, settings, history, bounds>>
    PROVE  IInv'
<1> DEFINE w == [worker[t] EXCEPT !.pc = p, !.result = r]
<1>1. worker[t] \in Worker /\ TypeOK
  BY DEF IInv, TypeOK
<1>2. /\ w \in Worker /\ w.unit = worker[t].unit /\ w.parent = worker[t].parent /\ w.late = worker[t].late
      /\ w.config = worker[t].config /\ w.acked = worker[t].acked /\ w.stopped = worker[t].stopped
      /\ w.pc = p /\ w.result = r
  BY <1>1 DEF Worker
<1>3. Speaks(t, Plain) /\ Plain # PutOff
  BY <1>1, Silent DEF pipes, Plain, PutOff
<1>4. worker' = [worker EXCEPT ![t] = w]
  OBVIOUS
<1> HIDE DEF w
<1> QED  BY <1>1, <1>2, <1>3, <1>4, Unwritten DEF manager, pipes, history, bounds

LEMMA AtWork ==
    ASSUME IInv, NEW t \in Task, worker[t].pc # "none"
    PROVE  WorkInv(t) /\ worker[t].unit \in Unit /\ CountInv(t) /\ LateInv(t)
BY Going DEF TaskInv, PhaseInv

LEMMA RejectInv == ASSUME IInv, NEW t \in Task, Reject(t) PROVE IInv'
<1>1. PICK r \in {"failed", "blocked"} :
        worker' = [worker EXCEPT ![t] = [worker[t] EXCEPT !.pc = "closing", !.result = r]]
  BY DEF Reject, IInv, TypeOK
<1>2. worker[t].pc = "boot" /\ worker[t].pc \notin Gone \cup {"draining"} /\ Untouched(t, worker[t].unit)
  BY AtWork DEF Reject, Gone, WorkInv
<1>3. r \in Status /\ r # "completed"
  BY DEF Status
<1>4. receipt[t][worker[t].unit] = None /\ published[t][worker[t].unit] = 0
  BY <1>2 DEF Untouched
<1>5. /\ r = "completed" => published[t][worker[t].unit] = 1
      /\ receipt[t][worker[t].unit] \in {None, r}
      /\ "closing" \in {"saving", "closing"} /\ (worker[t].late => "closing" # "saving")
  BY <1>3, <1>4
<1> QED  BY <1>1, <1>2, <1>3, <1>5, Ends DEF Reject

LEMMA CancelledInv == ASSUME IInv, NEW t \in Task, Cancelled(t) PROVE IInv'
<1> DEFINE r == IF worker[t].stopped = "budget" THEN "unfinished" ELSE "stopped"
<1>1. worker' = [worker EXCEPT ![t] = [worker[t] EXCEPT !.pc = "closing", !.result = r]]
  BY DEF Cancelled, IInv, TypeOK
<1>2. worker[t].pc \in {"boot", "acking", "working"} /\ worker[t].pc \notin Gone \cup {"draining"}
  BY DEF Cancelled, Gone
<1>3. r \in Status /\ r # "completed"
  BY DEF Status
<1>4. receipt[t][worker[t].unit] = None /\ published[t][worker[t].unit] = 0
  BY <1>2, AtWork DEF Untouched, WorkInv
<1> HIDE DEF r
<1>5. /\ r = "completed" => published[t][worker[t].unit] = 1
      /\ receipt[t][worker[t].unit] \in {None, r}
      /\ "closing" \in {"saving", "closing"} /\ (worker[t].late => "closing" # "saving")
  BY <1>3, <1>4
<1> QED  BY <1>1, <1>2, <1>3, <1>5, Ends DEF Cancelled

LEMMA FailInv == ASSUME IInv, NEW t \in Task, Fail(t) PROVE IInv'
<1>1. PICK p \in {"saving", "closing"}, r \in {"failed", "unfinished", "blocked"} :
        worker' = [worker EXCEPT ![t] = [worker[t] EXCEPT !.pc = p, !.result = r]]
  <2>1. PICK p \in {"saving", "closing"}, r \in {"failed", "unfinished", "blocked"} :
          worker' = [worker EXCEPT ![t].pc = p, ![t].result = r]
    BY DEF Fail
  <2> QED  BY <2>1 DEF IInv, TypeOK
<1>2. worker[t].pc = "working" /\ worker[t].pc \notin Gone \cup {"draining"} /\ worker[t].pc # "none"
  BY DEF Fail, Gone
<1>3. r \in Status /\ r # "completed"
  BY DEF Status
<1>4. receipt[t][worker[t].unit] = None /\ published[t][worker[t].unit] = 0 /\ ~worker[t].late
  BY <1>2, AtWork DEF WorkInv, LateInv
<1>5. /\ r = "completed" => published[t][worker[t].unit] = 1
      /\ receipt[t][worker[t].unit] \in {None, r}
  BY <1>3, <1>4
<1> QED  BY <1>1, <1>2, <1>3, <1>4, <1>5, Ends DEF Fail

LEMMA HandoffInv == ASSUME IInv, NEW t \in Task, Handoff(t) PROVE IInv'
<1>1. PICK p \in {"saving", "closing"} : worker' = [worker EXCEPT ![t] = [worker[t] EXCEPT !.pc = p]]
  BY DEF Handoff, IInv, TypeOK
<1>2. worker[t].pc = "handoff" /\ worker[t].pc \notin Gone \cup {"draining"} /\ worker[t].pc # "none"
  BY DEF Handoff, Gone
<1>3. /\ receipt[t][worker[t].unit] = "completed" /\ published[t][worker[t].unit] = 1 /\ ~worker[t].late
      /\ worker[t].result = "completed" /\ "completed" \in Status
  BY <1>2, AtWork DEF WorkInv, LateInv, Status
<1>4. worker' = [worker EXCEPT ![t] = [worker[t] EXCEPT !.pc = p, !.result = worker[t].result]]
  BY <1>1, GoesOn DEF IInv, TypeOK
<1> QED  BY <1>2, <1>3, <1>4, Ends DEF Handoff

(* It is gone, having changed nothing. *)
LEMMA Leaves ==
    ASSUME IInv, NEW t \in Task, worker[t].pc \notin Gone, NEW p \in {"exited", "dead"},
           worker' = [worker EXCEPT ![t] = [worker[t] EXCEPT !.pc = p]],
           Speaks(t, Plain),
           UNCHANGED <<manager, inbox, receipt, settings, history, bounds>>
    PROVE  IInv'
<1> DEFINE w == [worker[t] EXCEPT !.pc = p, !.result = worker[t].result]
<1>1. worker[t] \in Worker
  BY DEF IInv, TypeOK
<1>2. worker' = [worker EXCEPT ![t] = w] /\ worker[t].result \in Status \cup {None}
  BY <1>1, GoesOn
<1>3. /\ w \in Worker /\ w.unit = worker[t].unit /\ w.parent = worker[t].parent /\ w.late = worker[t].late
      /\ w.config = worker[t].config /\ w.acked = worker[t].acked /\ w.stopped = worker[t].stopped
      /\ w.pc = p
  BY <1>1, <1>2 DEF Worker
<1>4. Plain # PutOff
  BY DEF Plain, PutOff
<1> HIDE DEF w
<1> QED  BY <1>2, <1>3, <1>4, Unwritten DEF manager, history, bounds

LEMMA DieInv == ASSUME IInv, NEW t \in Task, Die(t) PROVE IInv'
<1>1. Speaks(t, Plain)
  BY Silent DEF Die, pipes, IInv
<1>2. worker' = [worker EXCEPT ![t] = [worker[t] EXCEPT !.pc = "dead"]]
  BY DEF Die, IInv, TypeOK
<1> QED  BY <1>1, <1>2, Leaves DEF Die, pipes

LEMMA DrainInv == ASSUME IInv, NEW t \in Task, Drain(t) PROVE IInv'
<1>1. Speaks(t, Plain)
  BY Silent, Said DEF Drain, IInv, Plain
<1>2. worker' = [worker EXCEPT ![t] = [worker[t] EXCEPT !.pc = "exited"]] /\ worker[t].pc \notin Gone
  BY DEF Drain, IInv, TypeOK, Gone
<1> QED  BY <1>1, <1>2, Leaves DEF Drain

LEMMA VanishInv == ASSUME IInv, NEW t \in Task, Vanish(t) PROVE IInv'
<1>1. /\ TypeOK /\ TaskInv(t) /\ worker[t].pc # "none" /\ attempt[t] = None /\ ~Live(t) /\ view[t] # None
  <2>1. worker[t].pc # "none" /\ ~worker[t].parent
    BY DEF Vanish
  <2> QED  BY <2>1, Going
<1>2. worker'[t] = NoWorker /\ \A q \in Task \ {t} : worker'[q] = worker[q]
  BY <1>1 DEF Vanish, TypeOK
<1>3. TypeOK'
  <2>1. NoWorker \in Worker
    BY DEF NoWorker, Worker
  <2> QED  BY <1>1, <2>1 DEF Vanish, TypeOK, manager, pipes, history, bounds
<1>4. \A q \in Task \ {t} : Same(q)
  BY <1>2 DEF Vanish, Same, manager, pipes, history
<1>5. TaskInv(t)'
  <2>1. /\ view' = view /\ disk' = disk /\ job' = job /\ snapshot' = snapshot /\ attempt' = attempt
        /\ inbox' = inbox /\ outbox' = outbox
        /\ receipt' = receipt /\ published' = published /\ begun' = begun
    BY DEF Vanish, manager, pipes, history
  <2>2. NoWorker.pc = "none" /\ NoWorker.config = None /\ NoWorker.late = FALSE
    BY DEF NoWorker
  <2>3. ~Live(t)' /\ Next1(t)' = Next1(t)
    BY <1>1, <2>1 DEF Live, Next1
  <2>4. BirthInv(t)' /\ CountInv(t)'
    BY <1>1, <2>1 DEF TaskInv, BirthInv, CountInv, Backed, Untouched
  <2>5. AttemptInv(t)' /\ ReachInv(t)'
    BY <1>1, <1>2, <2>1, <2>2, <2>3 DEF TaskInv, AttemptInv, ReachInv, Untouched
  <2>6. PhaseInv(t)' /\ ConfigInv(t)' /\ LateInv(t)'
    BY <1>1, <1>2, <2>1, <2>2, <2>3 DEF TaskInv, PhaseInv, WorkInv, PutOffInv, ConfigInv, LateInv
  <2> QED  BY <2>4, <2>5, <2>6 DEF TaskInv
<1> QED  BY <1>3, <1>4, <1>5, Local

(* The receipt of a true result.                                           *)
LEMMA Receipted ==
    ASSUME IInv, NEW t \in Task, worker[t].pc # "none", worker[t].result \in Status,
           receipt[t][worker[t].unit] \in {None, worker[t].result},
           worker[t].result = "completed" => published[t][worker[t].unit] = 1,
           receipt' = [receipt EXCEPT ![t][worker[t].unit] = worker[t].result], published' = published
    PROVE  Marks(t) /\ CountInv(t)' /\ receipt'[t][worker[t].unit] = worker[t].result
<1> DEFINE u0 == worker[t].unit
<1>1. TypeOK /\ CountInv(t) /\ u0 \in Unit
  BY Going DEF TaskInv
<1>2. /\ receipt' \in [Task -> [Unit -> Status \cup {None}]]
      /\ receipt'[t][u0] = worker[t].result
      /\ \A u \in Unit : u # u0 => receipt'[t][u] = receipt[t][u]
      /\ \A q \in Task \ {t} : receipt'[q] = receipt[q]
  BY <1>1 DEF TypeOK
<1>3. \A u \in Unit : receipt'[t][u] = receipt[t][u] \/ (u = u0 /\ receipt[t][u] = None)
  BY <1>2
<1>4. CountInv(t)'
  BY <1>1, <1>2 DEF CountInv
<1>5. published' \in [Task -> [Unit -> Nat]]
  BY <1>1 DEF TypeOK
<1> QED  BY <1>2, <1>3, <1>4, <1>5 DEF Marks

(* Nothing was saved.                                                      *)
LEMMA Lost ==
    ASSUME IInv, NEW t \in Task, ReceiptLost, published' = published
    PROVE  Marks(t) /\ (CountInv(t) => CountInv(t)') /\ receipt' = receipt /\ faults' \in 0..MaxFaults
<1>1. TypeOK
  BY DEF IInv
<1>2. receipt' = receipt /\ faults' \in 0..MaxFaults
  BY <1>1 DEF ReceiptLost, TypeOK
<1> QED  BY <1>1, <1>2, Unmarked DEF CountInv

LEMMA PublishInv == ASSUME IInv, NEW t \in Task, Publish(t) PROVE IInv'
<1> DEFINE u0 == worker[t].unit
           p == IF t \in Document THEN "committed" ELSE "saving"
           w == [worker[t] EXCEPT !.pc = p, !.result = "completed"]
<1>1. /\ worker[t].pc = "working" /\ worker[t].pc \notin Gone /\ worker[t] \in Worker /\ TypeOK
      /\ u0 \in Unit /\ CountInv(t) /\ ~worker[t].late
      /\ published[t][u0] = 0 /\ receipt[t][u0] = None
  BY AtWork DEF Publish, IInv, TypeOK, Gone, WorkInv, LateInv
<1>2. /\ w \in Worker /\ w.unit = worker[t].unit /\ w.parent = worker[t].parent /\ w.late = worker[t].late
      /\ w.config = worker[t].config /\ w.acked = worker[t].acked /\ w.stopped = worker[t].stopped
      /\ w.pc = p /\ w.result = "completed" /\ p \in {"committed", "saving"}
  BY <1>1 DEF Worker, Status
<1>3. worker' = [worker EXCEPT ![t] = w] /\ worker'[t] = w
  BY <1>1 DEF Publish, TypeOK
<1>4. /\ published' \in [Task -> [Unit -> Nat]] /\ published'[t][u0] = 1
      /\ \A u \in Unit : u # u0 => published'[t][u] = published[t][u]
      /\ \A q \in Task \ {t} : published'[q] = published[q]
  BY <1>1 DEF Publish, TypeOK
<1>5. receipt' = receipt /\ faults' = faults
  BY DEF Publish, bounds
<1>6. Marks(t) /\ CountInv(t)'
  BY <1>1, <1>4, <1>5 DEF Marks, CountInv, TypeOK
<1>7. Speaks(t, Plain) /\ Plain # PutOff /\ faults' \in 0..MaxFaults
  BY <1>1, <1>5, Silent DEF Publish, pipes, Plain, PutOff, TypeOK
<1> HIDE DEF w, p
<1>8. WorkInv(t)'
  BY <1>1, <1>2, <1>3, <1>4, <1>5 DEF WorkInv, Status
<1>9. attempt[t] # None /\ attempt[t].recovery => w.pc \in {"draining", "exited", "dead"}
  BY <1>1 DEF IInv, TaskInv, AttemptInv
<1>10. w.pc \notin {"none", "boot", "acking", "draining"} /\ (worker[t].late => w.pc \notin Late)
  BY <1>1, <1>2
<1> QED
  BY <1>1, <1>2, <1>3, <1>6, <1>7, <1>8, <1>9, <1>10, Moved DEF Publish, manager, pipes, bounds

LEMMA CleanupFailsInv == ASSUME IInv, NEW t \in Task, CleanupFails(t) PROVE IInv'
<1> DEFINE u0 == worker[t].unit
<1>1. /\ worker[t].pc = "working" /\ worker[t].pc \notin Gone /\ worker[t] \in Worker /\ TypeOK
      /\ u0 \in Unit /\ CountInv(t) /\ ~worker[t].late
      /\ published[t][u0] = 0 /\ receipt[t][u0] = None
  BY AtWork DEF CleanupFails, IInv, TypeOK, Gone, WorkInv, LateInv
<1>2. PICK p \in {"saving", "closing"}, r \in {"failed", "unfinished"} :
        worker' = [worker EXCEPT ![t] = [worker[t] EXCEPT !.pc = p, !.result = r]]
  <2>1. PICK p \in {"saving", "closing"}, r \in {"failed", "unfinished"} :
          worker' = [worker EXCEPT ![t].pc = p, ![t].result = r]
    BY DEF CleanupFails
  <2> QED  BY <1>1, <2>1 DEF TypeOK
<1> DEFINE w == [worker[t] EXCEPT !.pc = p, !.result = r]
<1>3. /\ w \in Worker /\ w.unit = worker[t].unit /\ w.parent = worker[t].parent /\ w.late = worker[t].late
      /\ w.config = worker[t].config /\ w.acked = worker[t].acked /\ w.stopped = worker[t].stopped
      /\ w.pc = p /\ w.result = r /\ r \in Status /\ r # "completed"
  BY <1>1 DEF Worker, Status
<1>4. worker' = [worker EXCEPT ![t] = w] /\ worker'[t] = w
  BY <1>1, <1>2 DEF TypeOK
<1>5. /\ published' \in [Task -> [Unit -> Nat]] /\ published'[t][u0] = 1
      /\ \A u \in Unit : u # u0 => published'[t][u] = published[t][u]
      /\ \A q \in Task \ {t} : published'[q] = published[q]
  BY <1>1 DEF CleanupFails, TypeOK
<1>6. receipt' = receipt /\ faults' = faults
  BY DEF CleanupFails, bounds
<1>7. Marks(t) /\ CountInv(t)'
  BY <1>1, <1>5, <1>6 DEF Marks, CountInv, TypeOK
<1>8. Speaks(t, Plain) /\ Plain # PutOff /\ faults' \in 0..MaxFaults
  BY <1>1, <1>6, Silent DEF CleanupFails, pipes, Plain, PutOff, TypeOK
<1> HIDE DEF w
<1>9. WorkInv(t)'
  BY <1>1, <1>3, <1>4, <1>5, <1>6 DEF WorkInv
<1>10. attempt[t] # None /\ attempt[t].recovery => w.pc \in {"draining", "exited", "dead"}
  BY <1>1 DEF IInv, TaskInv, AttemptInv
<1>11. w.pc \notin {"none", "boot", "acking", "draining"} /\ (worker[t].late => w.pc \notin Late)
  BY <1>1, <1>3
<1> QED
  BY <1>1, <1>3, <1>4, <1>7, <1>8, <1>9, <1>10, <1>11, Moved DEF CleanupFails, manager, pipes, bounds

(* A worker whose result is true goes on, saving it or failing to.         *)
LEMMA Reports ==
    ASSUME IInv, NEW t \in Task, worker[t].pc \in {"committed", "saving", "closing"},
           NEW p \in {"handoff", "closing", "exited"},
           worker' = [worker EXCEPT ![t] = [worker[t] EXCEPT !.pc = p]],
           worker[t].late => p # "handoff",
           p = "handoff" => worker[t].pc = "committed" /\ receipt' # receipt,
           Speaks(t, Plain), SaveReceipt(t) \/ ReceiptLost,
           UNCHANGED <<manager, inbox, settings, history, crashes>>
    PROVE  IInv'
<1> DEFINE u0 == worker[t].unit
           w == [worker[t] EXCEPT !.pc = p]
<1>1. /\ worker[t].pc \notin Gone /\ worker[t].pc # "none" /\ worker[t] \in Worker /\ TypeOK
      /\ u0 \in Unit /\ CountInv(t) /\ WorkInv(t)
  BY AtWork DEF IInv, TypeOK, Gone
<1>2. /\ w \in Worker /\ w.unit = worker[t].unit /\ w.parent = worker[t].parent /\ w.late = worker[t].late
      /\ w.config = worker[t].config /\ w.acked = worker[t].acked /\ w.stopped = worker[t].stopped
      /\ w.pc = p /\ w.result = worker[t].result
  BY <1>1 DEF Worker
<1>3. /\ worker[t].result \in Status /\ receipt[t][u0] \in {None, worker[t].result}
      /\ worker[t].result = "completed" => published[t][u0] = 1
      /\ worker[t].pc = "committed" => worker[t].result = "completed"
  BY <1>1 DEF WorkInv, Status
<1>4. published' = published
  BY DEF history
<1>5. /\ Marks(t) /\ CountInv(t)' /\ receipt'[t][u0] \in {receipt[t][u0], worker[t].result}
      /\ receipt' # receipt => receipt'[t][u0] = worker[t].result
      /\ faults' \in 0..MaxFaults
  <2>1. CASE SaveReceipt(t)
    <3>1. Marks(t) /\ CountInv(t)' /\ receipt'[t][u0] = worker[t].result
      BY <1>1, <1>3, <1>4, <2>1, Receipted DEF SaveReceipt
    <3>2. faults' \in 0..MaxFaults
      BY <1>1, <2>1 DEF SaveReceipt, TypeOK
    <3> QED  BY <3>1, <3>2
  <2>2. CASE ReceiptLost
    BY <1>1, <1>4, <2>2, Lost
  <2> QED  BY <2>1, <2>2
<1>6. worker'[t] = w
  BY <1>1 DEF TypeOK
<1>7. worker' = [worker EXCEPT ![t] = w]
  OBVIOUS
<1> HIDE DEF w
<1>8. WorkInv(t)'
  BY <1>2, <1>3, <1>4, <1>5, <1>6 DEF WorkInv
<1>9. attempt[t] # None /\ attempt[t].recovery => w.pc \in {"draining", "exited", "dead"}
  BY <1>1 DEF IInv, TaskInv, AttemptInv
<1>10. w.pc \notin {"none", "boot", "acking", "draining"} /\ (worker[t].late => w.pc \notin Late)
  BY <1>2 DEF Late
<1>11. Plain # PutOff
  BY DEF Plain, PutOff
<1> QED
  BY <1>1, <1>2, <1>5, <1>7, <1>8, <1>9, <1>10, <1>11, Moved DEF manager, history

LEMMA CommittedInv == ASSUME IInv, NEW t \in Task, Committed(t) PROVE IInv'
<1>1. worker[t].pc = "committed" /\ worker[t] \in Worker /\ TypeOK /\ WorkInv(t) /\ ~worker[t].late /\ worker[t].unit \in Unit
  BY AtWork DEF Committed, IInv, TypeOK, LateInv
<1>2. CASE SaveReceipt(t) /\ Say(t, "navigation", None)
           /\ worker' = [worker EXCEPT ![t].pc = IF worker[t].parent THEN "handoff" ELSE "closing"]
  <2>1. PICK p \in {"handoff", "closing"} : worker' = [worker EXCEPT ![t] = [worker[t] EXCEPT !.pc = p]]
    BY <1>1, <1>2 DEF TypeOK
  <2>2. receipt' # receipt
    <3>1. receipt[t][worker[t].unit] = None /\ worker[t].result # None
      BY <1>1 DEF WorkInv
    <3>2. receipt'[t][worker[t].unit] = worker[t].result
      BY <1>1, <1>2 DEF SaveReceipt, TypeOK
    <3> QED  BY <3>1, <3>2
  <2>3. Speaks(t, Plain)
    BY <1>1, <1>2, Said DEF Plain
  <2> QED  BY <1>1, <1>2, <2>1, <2>2, <2>3, Reports DEF Committed
<1>3. CASE ReceiptLost /\ worker' = [worker EXCEPT ![t].pc = "closing"] /\ UNCHANGED outbox
  <2>1. worker' = [worker EXCEPT ![t] = [worker[t] EXCEPT !.pc = "closing"]]
    BY <1>1, <1>3 DEF TypeOK
  <2>2. Speaks(t, Plain)
    BY <1>1, <1>3, Silent
  <2> QED  BY <1>1, <1>3, <2>1, <2>2, Reports DEF Committed
<1> QED  BY <1>2, <1>3 DEF Committed

LEMMA SaveInv == ASSUME IInv, NEW t \in Task, Save(t) PROVE IInv'
<1>1. TypeOK /\ worker[t].pc = "saving"
  BY DEF Save, IInv
<1>2. Speaks(t, Plain) /\ (SaveReceipt(t) \/ ReceiptLost)
  BY <1>1, Said, Silent DEF Save, Plain
<1>3. worker' = [worker EXCEPT ![t] = [worker[t] EXCEPT !.pc = "closing"]]
  BY <1>1 DEF Save, TypeOK
<1> QED  BY <1>1, <1>2, <1>3, Reports DEF Save

LEMMA CloseInv == ASSUME IInv, NEW t \in Task, Close(t) PROVE IInv'
<1>1. TypeOK /\ worker[t].pc = "closing"
  BY DEF Close, IInv
<1>2. Speaks(t, Plain) /\ (SaveReceipt(t) \/ ReceiptLost)
  BY <1>1, Said DEF Close, Plain
<1>3. worker' = [worker EXCEPT ![t] = [worker[t] EXCEPT !.pc = "exited"]]
  BY <1>1 DEF Close, TypeOK
<1> QED  BY <1>1, <1>2, <1>3, Reports DEF Close

LEMMA HearInv == ASSUME IInv, NEW t \in Task, Hear(t) PROVE IInv'
<1> DEFINE message == Head(inbox[t])
           stopped == IF message \in Stops THEN message ELSE worker[t].stopped
           acked == worker[t].acked \/ message = "snapshot-ack"
           navigated == worker[t].navigated \/ message = "navigation-ack"
           w == [worker[t] EXCEPT !.stopped = stopped, !.acked = acked, !.navigated = navigated]
<1>1. /\ worker[t].pc \notin Gone /\ worker[t].pc # "none" /\ TypeOK /\ TaskInv(t) /\ worker[t] \in Worker
      /\ inbox[t] \in Seq(Control) /\ inbox[t] # <<>> /\ attempt[t] # None /\ view[t] # None
  <2>1. worker[t].pc \notin Gone /\ worker[t].pc # "none" /\ inbox[t] # <<>>
    BY DEF Hear, Gone
  <2>2. TypeOK /\ TaskInv(t) /\ worker[t] \in Worker /\ view[t] # None
    BY <2>1, Going
  <2> QED  BY <2>1, <2>2, Pipes DEF TaskInv, AttemptInv
<1>2. /\ Tail(inbox[t]) \in Seq(Control) /\ message \in Control /\ message = inbox[t][1] /\ 1 \in DOMAIN inbox[t]
      /\ \A i \in DOMAIN Tail(inbox[t]) : i \in Nat /\ i + 1 \in DOMAIN inbox[t] /\ Tail(inbox[t])[i] = inbox[t][i + 1]
  BY <1>1, TailOf
<1>3. worker' = [worker EXCEPT ![t] = w] /\ inbox' = [inbox EXCEPT ![t] = Tail(inbox[t])]
  BY <1>1, Pipes DEF Hear, TypeOK, Stops
<1>4. acked \in BOOLEAN /\ navigated \in BOOLEAN /\ stopped \in {"no", "stop", "budget"}
  BY <1>1 DEF Worker, Stops
<1>5. acked <=> worker[t].acked \/ message = "snapshot-ack"
  OBVIOUS
<1>6. /\ worker[t].stopped # "no" => stopped # "no"
      /\ message \in Stops => stopped # "no"
  BY DEF Stops
<1> HIDE DEF message, stopped, acked, navigated
<1>7. /\ w \in Worker /\ w.unit = worker[t].unit /\ w.parent = worker[t].parent /\ w.late = worker[t].late
      /\ w.config = worker[t].config /\ w.pc = worker[t].pc /\ w.result = worker[t].result
      /\ w.acked = acked /\ w.stopped = stopped
  BY <1>1, <1>4 DEF Worker
<1> HIDE DEF w
<1>8. worker'[t] = w /\ inbox'[t] = Tail(inbox[t])
  BY <1>1, <1>3, Pipes DEF TypeOK
<1>9. TypeOK'
  <2>1. inbox' \in [Task -> Seq(Control)]
    BY <1>1, <1>2, <1>3, Pipes
  <2>2. worker' \in [Task -> Worker]
    BY <1>1, <1>3, <1>7 DEF TypeOK
  <2> QED  BY <1>1, <2>1, <2>2 DEF Hear, TypeOK, manager, history, bounds, Control
<1>10. \A q \in Task \ {t} : Same(q)
  BY <1>1, <1>3, Pipes DEF Hear, Same, manager, history, TypeOK
<1>11. TaskInv(t)'
  <2>1. /\ view' = view /\ disk' = disk /\ job' = job /\ snapshot' = snapshot /\ attempt' = attempt
        /\ outbox' = outbox /\ receipt' = receipt /\ published' = published /\ begun' = begun
    BY DEF Hear, manager, history
  <2>2. (Live(t)' <=> Live(t)) /\ Next1(t)' = Next1(t)
    BY <2>1 DEF Live, Next1
  <2>3. Takes(t, {"snapshot-ack"})' \/ message = "snapshot-ack" => Takes(t, {"snapshot-ack"})
    BY <1>2, <1>8 DEF Takes
  <2>4. BirthInv(t)' /\ CountInv(t)'
    BY <1>1, <2>1 DEF TaskInv, BirthInv, CountInv, Backed, Untouched
  <2>5. AttemptInv(t)' /\ ReachInv(t)'
    BY <1>1, <1>7, <1>8, <2>1, <2>2 DEF TaskInv, AttemptInv, ReachInv, Untouched
  <2>6. PhaseInv(t)'
    BY <1>1, <1>7, <1>8, <2>1 DEF TaskInv, PhaseInv, WorkInv, PutOffInv, Untouched, Gives
  <2>7. ConfigInv(t)'
    BY <1>1, <1>5, <1>7, <1>8, <2>1, <2>2, <2>3 DEF TaskInv, ConfigInv
  <2>8. LateInv(t)'
    <3> SUFFICES ASSUME worker[t].late PROVE LateInv(t)'
      BY <1>7, <1>8 DEF LateInv
    <3>1. worker[t].pc \notin {"working", "committed", "handoff", "saving"}
      BY <1>1 DEF TaskInv, LateInv
    <3>2. message = "snapshot-ack" => stopped # "no"
      <4> SUFFICES ASSUME message = "snapshot-ack" PROVE worker[t].stopped # "no"
        BY <1>6
      <4>1. worker[t].stopped # "no" \/ \E j \in 1..1 : inbox[t][j] \in Stops
        BY <1>1, <1>2 DEF TaskInv, LateInv
      <4>2. inbox[t][1] \notin Stops
        BY <1>2 DEF Stops
      <4> QED  BY <4>1, <4>2
    <3>3. acked => stopped # "no"
      BY <1>1, <1>5, <1>6, <3>2 DEF TaskInv, LateInv
    <3>4. ~attempt[t].stopSent => ~acked /\ ~Takes(t, {"snapshot-ack"})'
      BY <1>1, <1>5, <2>3 DEF TaskInv, LateInv
    <3>5. attempt[t].stopSent => stopped # "no" \/ Takes(t, Stops)'
      <4> SUFFICES ASSUME attempt[t].stopSent, stopped = "no" PROVE Takes(t, Stops)'
        OBVIOUS
      <4>1. PICK i \in DOMAIN inbox[t] : inbox[t][i] \in Stops
        BY <1>1, <1>6 DEF TaskInv, LateInv, Takes
      <4>2. i # 1
        BY <1>2, <1>6, <4>1
      <4>3. i - 1 \in DOMAIN Tail(inbox[t]) /\ Tail(inbox[t])[i - 1] = inbox[t][i]
        BY <1>1, <4>2
      <4> QED  BY <1>8, <4>1, <4>3 DEF Takes
    <3>6. \A i \in DOMAIN inbox'[t] : inbox'[t][i] = "snapshot-ack" =>
              stopped # "no" \/ \E j \in 1..i : inbox'[t][j] \in Stops
      <4> SUFFICES ASSUME NEW i \in DOMAIN Tail(inbox[t]), Tail(inbox[t])[i] = "snapshot-ack", stopped = "no"
                   PROVE  \E j \in 1..i : Tail(inbox[t])[j] \in Stops
        BY <1>8
      <4>1. i \in Nat /\ i + 1 \in DOMAIN inbox[t] /\ inbox[t][i + 1] = "snapshot-ack"
        BY <1>2
      <4>2. PICK j \in 1..i + 1 : inbox[t][j] \in Stops
        BY <1>1, <1>6, <4>1 DEF TaskInv, LateInv
      <4>3. j # 1
        BY <1>2, <1>6, <4>2
      <4>4. j - 1 \in 1..i /\ Tail(inbox[t])[j - 1] = inbox[t][j]
        BY <1>1, <4>1, <4>2, <4>3
      <4> QED  BY <4>2, <4>4
    <3>7. view'[t].stop /\ ~attempt'[t].reading
      BY <1>1, <2>1 DEF TaskInv, LateInv
    <3> QED  BY <1>7, <1>8, <2>1, <3>1, <3>3, <3>4, <3>5, <3>6, <3>7 DEF LateInv
  <2> QED  BY <2>4, <2>5, <2>6, <2>7, <2>8 DEF TaskInv
<1> QED  BY <1>9, <1>10, <1>11, Local

LEMMA CaptureInv == ASSUME IInv, NEW t \in Task, Capture(t) PROVE IInv'
<1> DEFINE config == IF worker[t].config = None THEN settings ELSE worker[t].config
           w == [worker[t] EXCEPT !.pc = "acking", !.config = config]
<1>1. /\ worker[t].pc = "boot" /\ worker[t].pc # "none" /\ TypeOK /\ TaskInv(t) /\ worker[t] \in Worker
      /\ view[t] # None
  BY Going DEF Capture
<1>2. config \in Settings /\ config # None /\ (worker[t].config # None => config = worker[t].config)
  BY <1>1 DEF Worker, TypeOK
<1>3. worker' = [worker EXCEPT ![t] = w] /\ Say(t, "snapshot", config)
  BY <1>1 DEF Capture, TypeOK
<1> HIDE DEF config
<1>4. /\ w \in Worker /\ w.unit = worker[t].unit /\ w.parent = worker[t].parent /\ w.late = worker[t].late
      /\ w.config = config /\ w.pc = "acking" /\ w.acked = worker[t].acked /\ w.stopped = worker[t].stopped
  BY <1>1, <1>2 DEF Worker
<1>5. worker'[t] = w
  BY <1>1, <1>3 DEF TypeOK
<1> HIDE DEF w
<1> DEFINE word == [kind |-> "snapshot", config |-> config]
<1>6. word \in Saying /\ word.kind = "snapshot" /\ word.config = config
  BY <1>2 DEF Saying
<1>7. outbox' = [outbox EXCEPT ![t] = IF worker[t].parent THEN Append(outbox[t], word) ELSE outbox[t]]
  BY <1>1, <1>3, Pipes DEF Say
<1> HIDE DEF word
<1>8. /\ outbox[t] \in Seq(Saying) /\ outbox' \in [Task -> Seq(Saying)]
      /\ outbox'[t] = IF worker[t].parent THEN Append(outbox[t], word) ELSE outbox[t]
      /\ \A q \in Task \ {t} : outbox'[q] = outbox[q]
  <2>1. outbox \in [Task -> Seq(Saying)] /\ Append(outbox[t], word) \in Seq(Saying)
    BY <1>1, <1>6, Pipes, AppendOf
  <2> QED  BY <1>7, <2>1
<1>9. \A i \in DOMAIN outbox'[t] : (i \in DOMAIN outbox[t] /\ outbox'[t][i] = outbox[t][i]) \/ outbox'[t][i] = word
  BY <1>6, <1>8, AppendOf
<1>10. TypeOK'
  <2>1. worker' \in [Task -> Worker]
    BY <1>1, <1>3, <1>4 DEF TypeOK
  <2> QED  BY <1>1, <1>8, <2>1 DEF Capture, TypeOK, manager, history, bounds, Saying
<1>11. \A q \in Task \ {t} : Same(q)
  BY <1>1, <1>3, <1>8 DEF Capture, Same, manager, history, TypeOK
<1>12. TaskInv(t)'
  <2>1. /\ view' = view /\ disk' = disk /\ job' = job /\ snapshot' = snapshot /\ attempt' = attempt
        /\ inbox' = inbox /\ receipt' = receipt /\ published' = published /\ begun' = begun
    BY DEF Capture, manager, history
  <2>2. (Live(t)' <=> Live(t)) /\ Next1(t)' = Next1(t)
    BY <2>1 DEF Live, Next1
  <2>3. BirthInv(t)' /\ CountInv(t)'
    BY <1>1, <2>1 DEF TaskInv, BirthInv, CountInv, Backed, Untouched
  <2>4. AttemptInv(t)' /\ ReachInv(t)'
    BY <1>1, <1>4, <1>5, <1>8, <2>1, <2>2 DEF TaskInv, AttemptInv, ReachInv, Untouched
  <2>5. PhaseInv(t)'
    <3>1. WorkInv(t)'
      BY <1>1, <1>4, <1>5, <2>1 DEF TaskInv, PhaseInv, WorkInv, Untouched
    <3>2. Gives(t, {"deferred", "input"})' => Gives(t, {"deferred", "input"})
      BY <1>6, <1>9 DEF Gives
    <3>3. PutOffInv(t)'
      BY <1>1, <2>1, <3>2 DEF TaskInv, PhaseInv, PutOffInv, Gone
    <3> QED  BY <3>1, <3>3 DEF PhaseInv
  <2>6. ConfigInv(t)'
    <3>1. \A u \in Unit : begun[t][u] \in {None, config}
      BY <1>1, <1>2 DEF TaskInv, ConfigInv
    <3>2. attempt[t] # None => \A i \in DOMAIN outbox[t] : outbox[t][i].kind = "snapshot" => outbox[t][i].config = config
      BY <1>1, <1>2 DEF TaskInv, ConfigInv
    <3>3. attempt[t] # None /\ (Takes(t, {"snapshot-ack"}) \/ worker[t].acked) => snapshot[t] = config
      <4> SUFFICES ASSUME attempt[t] # None, Takes(t, {"snapshot-ack"}) \/ worker[t].acked PROVE snapshot[t] = config
        OBVIOUS
      <4>1. snapshot[t] = worker[t].config /\ worker[t].config # None
        BY <1>1 DEF TaskInv, ConfigInv
      <4> QED  BY <1>2, <4>1
    <3> QED  BY <1>1, <1>2, <1>4, <1>5, <1>6, <1>9, <2>1, <2>2, <3>1, <3>2, <3>3 DEF TaskInv, ConfigInv, Takes
  <2>7. LateInv(t)'
    BY <1>1, <1>4, <1>5, <2>1 DEF TaskInv, LateInv, Takes, Gone
  <2> QED  BY <2>3, <2>4, <2>5, <2>6, <2>7 DEF TaskInv
<1> QED  BY <1>10, <1>11, <1>12, Local

LEMMA BeginInv == ASSUME IInv, NEW t \in Task, Begin(t) PROVE IInv'
<1> DEFINE u0 == worker[t].unit
           w == [worker[t] EXCEPT !.pc = "working"]
<1>1. /\ worker[t].pc = "acking" /\ worker[t].acked /\ worker[t].stopped = "no"
      /\ TypeOK /\ TaskInv(t) /\ worker[t] \in Worker /\ u0 \in Unit /\ view[t] # None
      /\ u0 <= Next1(t) /\ (Live(t) => attempt[t] # None)
  BY Going DEF Begin
<1>2. worker' = [worker EXCEPT ![t] = w] /\ begun' = [begun EXCEPT ![t][u0] = worker[t].config]
  BY <1>1 DEF Begin, TypeOK
<1>3. /\ w \in Worker /\ w.unit = u0 /\ w.parent = worker[t].parent /\ w.late = worker[t].late
      /\ w.config = worker[t].config /\ w.pc = "working" /\ w.acked = worker[t].acked /\ w.stopped = worker[t].stopped
      /\ w.result = worker[t].result
  BY <1>1 DEF Worker
<1>4. worker'[t] = w /\ \A q \in Task \ {t} : worker'[q] = worker[q]
  BY <1>1, <1>2 DEF TypeOK
<1> HIDE DEF w
<1>5. /\ worker[t].config # None /\ worker[t].config \in Settings /\ ~worker[t].late
      /\ attempt[t] # None => ~attempt[t].recovery /\ snapshot[t] = worker[t].config
  BY <1>1 DEF TaskInv, ConfigInv, LateInv, AttemptInv, Worker
<1>6. /\ begun' \in [Task -> [Unit -> Settings \cup {None}]] /\ begun'[t][u0] = worker[t].config
      /\ \A u \in Unit : u # u0 => begun'[t][u] = begun[t][u]
      /\ \A q \in Task \ {t} : begun'[q] = begun[q]
  BY <1>1, <1>2, <1>5 DEF TypeOK
<1>7. /\ view' = view /\ disk' = disk /\ job' = job /\ held' = held /\ snapshot' = snapshot /\ attempt' = attempt
      /\ pending' = pending /\ accepting' = accepting /\ settings' = settings /\ faults' = faults /\ crashes' = crashes
      /\ inbox' = inbox /\ outbox' = outbox /\ receipt' = receipt /\ published' = published
  BY DEF Begin, manager, pipes, bounds
<1>8. TypeOK'
  <2>1. worker' \in [Task -> Worker]
    BY <1>1, <1>2, <1>3 DEF TypeOK
  <2> QED  BY <1>1, <1>6, <1>7, <2>1 DEF TypeOK
<1>9. \A q \in Task \ {t} : Same(q)
  BY <1>4, <1>6, <1>7 DEF Same
<1>10. TaskInv(t)'
  <2>1. (Live(t)' <=> Live(t)) /\ Next1(t)' = Next1(t)
    BY <1>7 DEF Live, Next1
  <2>2. BirthInv(t)' /\ CountInv(t)'
    BY <1>1, <1>7 DEF TaskInv, BirthInv, CountInv, Backed
  <2>3. AttemptInv(t)'
    BY <1>1, <1>3, <1>4, <1>5, <1>7, <2>1 DEF TaskInv, AttemptInv
  <2>4. ReachInv(t)'
    <3>1. \A u \in Unit : u > u0 => Untouched(t, u)'
      <4> SUFFICES ASSUME NEW u \in Unit, u > u0 PROVE Untouched(t, u)'
        OBVIOUS
      <4>1. Untouched(t, u) /\ u # u0
        BY <1>1 DEF TaskInv, ReachInv, Unit
      <4> QED  BY <1>6, <1>7, <4>1 DEF Untouched
    <3>2. \A u \in Unit : begun'[t][u] # None => u <= Next1(t)
      BY <1>1, <1>6 DEF TaskInv, ReachInv
    <3> QED  BY <1>1, <1>3, <1>4, <1>7, <2>1, <3>1, <3>2 DEF TaskInv, ReachInv
  <2>5. PhaseInv(t)'
    <3>1. WorkInv(t)'
      BY <1>1, <1>3, <1>4, <1>7 DEF TaskInv, PhaseInv, WorkInv, Untouched
    <3>2. PutOffInv(t)'
      BY <1>1, <1>7 DEF TaskInv, PhaseInv, PutOffInv, Gives, Gone
    <3> QED  BY <3>1, <3>2 DEF PhaseInv
  <2>6. ConfigInv(t)'
    <3>1. \A u \in Unit : begun'[t][u] \in {None, worker[t].config}
      BY <1>1, <1>5, <1>6 DEF TaskInv, ConfigInv
    <3> QED  BY <1>1, <1>3, <1>4, <1>5, <1>7, <2>1, <3>1 DEF TaskInv, ConfigInv, Takes
  <2>7. LateInv(t)'
    BY <1>3, <1>4, <1>5 DEF LateInv
  <2> QED  BY <2>2, <2>3, <2>4, <2>5, <2>6, <2>7 DEF TaskInv
<1> QED  BY <1>8, <1>9, <1>10, Local

-----------------------------------------------------------------------------
(* All steps.                                                              *)

LEMMA ManagerInv ==
    ASSUME IInv, NEW t \in Task, Schedule(t) \/ Supervise(t)
    PROVE  IInv'
<1>1. CASE Schedule(t)
  BY <1>1, StartInv, SendStopInv, ReadSnapshotInv, ReadNavigationInv, ReadOutcomeInv,
     FinishUnrecoveredInv, StartRecoveryInv, StartRecoveryFailsInv,
     FinishDeferredInv, FinishInDoubtInv, FinishConfirmedInv DEF Schedule
<1>2. CASE Supervise(t)
  BY <1>2, StartFailsInv, SaveProgressInv, SuperviseInv DEF Supervise
<1> QED  BY <1>1, <1>2

LEMMA ActInv == ASSUME IInv, NEW t \in Task, Act(t) PROVE IInv'
BY HearInv, HearNobodyInv, DeferInv, RejectInv, CaptureInv, BeginInv, CancelledInv,
   PublishInv, CleanupFailsInv, FailInv, CommittedInv, HandoffInv, SaveInv, CloseInv, DrainInv DEF Act

LEMMA NextInv == IInv /\ [Next]_vars => IInv'
<1> SUFFICES ASSUME IInv, [Next]_vars PROVE IInv'
  OBVIOUS
<1>1. CASE Ask
  BY <1>1, SubmitInv, StopInv, ReleaseInv, ShutdownInv, SaveSettingsInv DEF Ask
<1>2. CASE Drop \/ Rotate
  BY <1>2, QueueInv
<1>3. CASE Restart
  BY <1>3, RestartInv
<1>4. ASSUME NEW t \in Task, Schedule(t) \/ Supervise(t) \/ Act(t) \/ Die(t) \/ Vanish(t) PROVE IInv'
  BY <1>4, ManagerInv, ActInv, DieInv, VanishInv
<1>5. CASE UNCHANGED vars
  <2>1. TypeOK'
    BY <1>5 DEF vars, IInv, TypeOK
  <2>2. \A q \in Task : Same(q)
    BY <1>5 DEF vars, Same
  <2> QED  BY <2>1, <2>2, Kept DEF IInv
<1> QED  BY <1>1, <1>2, <1>3, <1>4, <1>5 DEF Next

(* The invariant of a manager and its workers holds whatever fails.        *)
THEOREM Invariance == Spec => []IInv
BY InitInv, NextInv, PTL DEF Spec

(* Every record of a task, its processes and pipes has its type.           *)
THEOREM TypeCorrect == Spec => []TypeOK
<1>1. IInv => TypeOK
  BY DEF IInv
<1> QED  BY <1>1, Invariance, PTL

(* No unit publishes twice: not when it is put off, terminated, recovered, *)
(* or when a later application loads what an earlier one left (_finish).   *)
THEOREM OncePerUnit == Spec => []AtMostOnce
<1>1. IInv => AtMostOnce
  BY DEF IInv, TaskInv, CountInv, AtMostOnce
<1> QED  BY <1>1, Invariance, PTL

(* A result that a task reports is the one of its receipt, and a success   *)
(* that it reports was published (read_receipt, _finish, _load_history).   *)
THEOREM ReportsAreTrue == Spec => []ResultsConfirmed
<1>1. IInv => ResultsConfirmed
  <2> SUFFICES ASSUME IInv, NEW t \in Task, view[t] # None, NEW u \in 1..Len(view[t].results)
               PROVE  /\ receipt[t][u] = view[t].results[u]
                      /\ view[t].results[u] = "completed" => published[t][u] = 1
    BY DEF ResultsConfirmed
  <2>1. /\ view[t].results \in Seq(Status) /\ Len(view[t].results) <= Len(job[t])
        /\ Len(job[t]) \in 1..MaxUnits
    BY Known
  <2>2. u \in Unit /\ view[t].results[u] # None
    BY <2>1 DEF Unit, Status
  <2>3. receipt[t][u] = view[t].results[u]
    BY DEF IInv, TaskInv, BirthInv, Backed
  <2> QED  BY <2>2, <2>3 DEF IInv, TaskInv, CountInv
<1> QED  BY <1>1, Invariance, PTL

(* The units of a task begin one after the other, all of them under the    *)
(* configuration the first one captured (_control, begin).                 *)
THEOREM InOrder == Spec => []BatchInOrder
<1>1. IInv => BatchInOrder
  <2> SUFFICES ASSUME IInv, NEW t \in Task, NEW u \in Unit, begun[t][u] # None
               PROVE  /\ u <= Len(view[t].results) + 1
                      /\ \A v \in 1..u-1 : begun[t][v] \in {None, begun[t][u]}
    BY DEF BatchInOrder
  <2>1. u <= Next1(t)
    BY DEF IInv, TaskInv, ReachInv
  <2>2. \A v \in 1..u-1 : v \in Unit
    BY DEF Unit
  <2> QED  BY <2>1, <2>2 DEF IInv, TaskInv, ConfigInv, Next1
<1> QED  BY <1>1, Invariance, PTL

(* A unit whose process was started after its task was told to stop never  *)
(* begins, whatever could not be saved (_control, begin).                  *)
THEOREM NeverLate == Spec => []LateUnitNeverBegins
<1>1. IInv => LateUnitNeverBegins
  BY DEF IInv, TaskInv, LateInv, LateUnitNeverBegins
<1> QED  BY <1>1, Invariance, PTL

-----------------------------------------------------------------------------
(* The end of a task.  Only a live task gets another summary, or, from its *)
(* receipts and what was saved, one that the next application loads.       *)

Grows(q) ==
    view[q] # None =>
        /\ view'[q] # None
        /\ Len(view[q].results) <= Len(view'[q].results)
        /\ ~Live(q) => view'[q].state \in TERMINAL

LEMMA SameView == ASSUME IInv, NEW q \in Task, view'[q] = view[q] PROVE Grows(q)
BY Known DEF Grows, Live

LEMMA Rewritten ==
    ASSUME IInv, NEW t \in Task, Live(t), NEW v \in View, Update(t, v),
           Len(view[t].results) <= Len(v.results)
    PROVE  \A q \in Task : Grows(q)
<1>1. /\ view'[t] # None /\ view'[t].results = v.results
      /\ \A q \in Task \ {t} : view'[q] = view[q]
  BY Updated DEF IInv
<1>2. Grows(t)
  BY <1>1 DEF Grows
<1> QED  BY <1>1, <1>2, SameView

LEMMA Restated ==
    ASSUME IInv, NEW t \in Task, Live(t),
           NEW state \in {"running", "stopping", "failed", "stopped", "blocked", "interrupted",
                          "waiting", "waiting-input"},
           Update(t, [view[t] EXCEPT !.state = state])
    PROVE  \A q \in Task : Grows(q)
<1> DEFINE v == [view[t] EXCEPT !.state = state]
<1>1. view[t] \in View /\ Len(view[t].results) \in Nat
  BY Known DEF Live
<1>2. v \in View /\ v.results = view[t].results
  BY <1>1 DEF View, Waiting, TERMINAL
<1> HIDE DEF v
<1>3. Update(t, v)
  BY DEF v
<1> QED  BY <1>1, <1>2, <1>3, Rewritten

LEMMA AskGrows == ASSUME IInv, NEW q \in Task, Ask PROVE Grows(q)
<1>1. ASSUME NEW t \in Task, Submit(t) PROVE Grows(q)
  <2>1. view[t] = None /\ (q # t => view'[q] = view[q])
    BY <1>1 DEF Submit, IInv, TypeOK
  <2> QED  BY <2>1, SameView DEF Grows
<1>2. ASSUME NEW t \in Task, Live(t), view'[t] = Stopped(t) PROVE Grows(t)
  <2>1. view[t] # None /\ Len(view[t].results) \in Nat
    BY <1>2, Known DEF Live
  <2> QED  BY <1>2, <2>1, Stopping DEF Grows
<1>3. ASSUME NEW t \in Task, Stop(t) PROVE Grows(q)
  <2>1. Live(t) /\ view'[t] = Stopped(t) /\ (q # t => view'[q] = view[q])
    BY <1>3 DEF Stop, IInv, TypeOK
  <2> QED  BY <1>2, <2>1, SameView
<1>4. ASSUME NEW t \in Task, ReleaseInputWait(t) PROVE Grows(q)
  <2>1. Live(t)
    BY <1>4 DEF ReleaseInputWait, Live, TERMINAL
  <2> QED  BY <1>4, <2>1, Restated DEF ReleaseInputWait
<1>5. ASSUME NEW stop \in BOOLEAN, Shutdown(stop) PROVE Grows(q)
  <2>1. view'[q] = view[q] \/ (Live(q) /\ view'[q] = Stopped(q))
    BY <1>5 DEF Shutdown
  <2> QED  BY <1>2, <2>1, SameView
<1>6. CASE SaveSettings
  BY <1>6, SameView DEF SaveSettings, manager
<1> QED  BY <1>1, <1>3, <1>4, <1>5, <1>6 DEF Ask

LEMMA FinishConfirmedGrows == ASSUME IInv, NEW t \in Task, FinishConfirmed(t) PROVE \A q \in Task : Grows(q)
<1> DEFINE results == Append(view[t].results, receipt[t][Next1(t)])
<1>1. /\ view[t] # None /\ attempt[t] # None /\ TypeOK /\ Live(t)
      /\ view[t].results \in Seq(Status) /\ Len(view[t].results) \in Nat
  BY Attempted, Known DEF FinishConfirmed, Ended, IInv
<1>2. Len(results) = Len(view[t].results) + 1
  BY <1>1, OneMore DEF FinishConfirmed
<1>3. \E state, last : view' = [view EXCEPT ![t] = [state |-> state, results |-> results, stop |-> last]]
  BY Zenon DEF FinishConfirmed
<1> HIDE DEF results
<1>4. PICK state, last : view' = [view EXCEPT ![t] = [state |-> state, results |-> results, stop |-> last]]
  BY <1>3
<1>5. view'[t].results = results /\ \A q \in Task \ {t} : view'[q] = view[q]
  BY <1>1, <1>4 DEF TypeOK
<1>6. IInv'
  BY FinishConfirmedInv
<1>7. view'[t] # None
  BY <1>1, <1>6 DEF FinishConfirmed, IInv, TaskInv, BirthInv
<1>8. Grows(t)
  BY <1>1, <1>2, <1>5, <1>7 DEF Grows
<1> QED  BY <1>5, <1>8, SameView

LEMMA ManagerGrows ==
    ASSUME IInv, NEW t \in Task, Schedule(t) \/ Supervise(t)
    PROVE  \A q \in Task : Grows(q)
<1>1. attempt[t] # None =>
        /\ Live(t) /\ view[t] \in View /\ view[t].results \in Seq(Status) /\ Len(view[t].results) \in Nat
  BY Attempted, Known
<1>2. CASE ReadNavigation(t) \/ ReadOutcome(t) \/ ExpireBudget(t) \/ Terminate(t)
  <2>1. view' = view
    BY <1>2 DEF ReadNavigation, ReadOutcome, ExpireBudget, Terminate, manager
  <2> QED  BY <2>1, SameView
<1>3. CASE ReadSnapshot(t) \/ SaveProgress(t)
  <2>1. attempt[t] # None /\ Update(t, view[t])
    BY <1>3 DEF ReadSnapshot, SaveProgress, MayRead
  <2> QED  BY <1>1, <2>1, Rewritten
<1>4. CASE Start(t) \/ StartFails(t)
  BY <1>4, Restated DEF Start, StartFails, Startable
<1>5. CASE SendStop(t)
  BY <1>1, <1>5, Restated DEF SendStop, MustSendStop
<1>6. CASE StartRecovery(t) \/ StartRecoveryFails(t) \/ FinishInDoubt(t)
  BY <1>1, <1>6, Restated DEF StartRecovery, StartRecoveryFails, FinishInDoubt, Ended, Settle
<1>7. CASE FinishDeferred(t)
  <2>1. attempt[t] # None
    BY <1>7 DEF FinishDeferred, Ended
  <2>2. \E state \in {"stopped", "waiting", "waiting-input"} : Update(t, [view[t] EXCEPT !.state = state])
    BY <1>7 DEF FinishDeferred, Settle
  <2> QED  BY <1>1, <2>1, <2>2, Restated
<1>8. CASE FinishUnrecovered(t)
  <2> DEFINE v == [view[t] EXCEPT !.results = WithReceipt(t), !.state = "blocked"]
  <2>1. attempt[t] # None /\ Update(t, v)
    BY <1>8 DEF FinishUnrecovered, Ended, Settle
  <2>2. WithReceipt(t) \in Seq(Status) /\ Len(view[t].results) <= Len(WithReceipt(t))
    BY <1>1, <2>1, OneMore DEF WithReceipt
  <2>3. v \in View /\ v.results = WithReceipt(t)
    BY <1>1, <2>1, <2>2 DEF View, TERMINAL
  <2> HIDE DEF v
  <2> QED  BY <1>1, <2>1, <2>2, <2>3, Rewritten
<1>9. CASE FinishConfirmed(t)
  BY <1>9, FinishConfirmedGrows
<1> QED  BY <1>2, <1>3, <1>4, <1>5, <1>6, <1>7, <1>8, <1>9 DEF Schedule, Supervise

LEMMA WorkerKeepsView == ASSUME NEW t \in Task, Act(t) \/ Die(t) \/ Vanish(t) PROVE view' = view
BY DEF Act, Die, Vanish, Hear, HearNobody, Defer, Reject, Capture, Begin, Cancelled, Publish, CleanupFails,
       Fail, Committed, Handoff, Save, Close, Drain, manager

LEMMA RestartGrows == ASSUME IInv, NEW q \in Task, Restart PROVE Grows(q)
<1> SUFFICES ASSUME view[q] # None
             PROVE  /\ view'[q] # None /\ Len(view[q].results) <= Len(view'[q].results)
                    /\ view'[q].state \in TERMINAL
  BY DEF Grows
<1>1. disk[q] # None
  BY DEF IInv, TaskInv, BirthInv
<1>2. /\ view'[q].state = IF disk[q].state \in TERMINAL THEN disk[q].state ELSE "interrupted"
      /\ view'[q].results = Confirmed(q, disk[q].results)
  BY <1>1 DEF Restart
<1>3. IInv'
  BY RestartInv
<1>4. view'[q] # None
  BY <1>1, <1>3 DEF Restart, IInv, TaskInv, BirthInv
<1> QED  BY <1>1, <1>2, <1>4, Loaded DEF TERMINAL

(* No application starts a task that has ended, and no confirmed result is *)
(* forgotten, not by a crash between two files either (_load_history).     *)
THEOREM EndsForGood == Spec => EndIsEnd
<1>1. ASSUME IInv, [Next]_vars, NEW q \in Task PROVE Grows(q)
  <2>1. CASE Ask
    BY <1>1, <2>1, AskGrows
  <2>2. CASE Drop \/ Rotate \/ UNCHANGED vars
    <3>1. view' = view
      BY <2>2 DEF Drop, Rotate, vars
    <3> QED  BY <1>1, <3>1, SameView
  <2>3. CASE Restart
    BY <1>1, <2>3, RestartGrows
  <2>4. ASSUME NEW t \in Task, Schedule(t) \/ Supervise(t) PROVE Grows(q)
    BY <1>1, <2>4, ManagerGrows
  <2>5. ASSUME NEW t \in Task, Act(t) \/ Die(t) \/ Vanish(t) PROVE Grows(q)
    BY <1>1, <2>5, WorkerKeepsView, SameView
  <2> QED  BY <1>1, <2>1, <2>2, <2>3, <2>4, <2>5 DEF Next
<1>2. ASSUME IInv, [Next]_vars
      PROVE  \A t \in Task : view[t] # None =>
                 /\ view'[t] # None
                 /\ Len(view[t].results) <= Len(view'[t].results)
                 /\ ~Live(t) => view'[t].state \in TERMINAL /\ attempt'[t] = None
  <2>1. IInv'
    BY <1>2, NextInv
  <2> SUFFICES ASSUME NEW t \in Task, view[t] # None
               PROVE  Grows(t) /\ (view'[t].state \in TERMINAL => attempt'[t] = None)
    BY DEF Grows
  <2> QED  BY <1>1, <1>2, <2>1 DEF IInv, TaskInv, AttemptInv, Live
<1>3. IInv /\ [Next]_vars =>
        [\A t \in Task : view[t] # None =>
             /\ view'[t] # None
             /\ Len(view[t].results) <= Len(view'[t].results)
             /\ ~Live(t) => view'[t].state \in TERMINAL /\ attempt'[t] = None]_vars
  BY <1>2
<1> QED  BY <1>3, Invariance, PTL DEF Spec, EndIsEnd
=============================================================================
