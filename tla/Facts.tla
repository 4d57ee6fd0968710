-------------------------------- MODULE Facts --------------------------------
(***************************************************************************)
(* The extraction of facts from the units of one source (openkb/agent:     *)
(* extract_facts, parallel_batches, retry_batches, analysis_flights,       *)
(* FactCache and SharedAnalysis).                                          *)
(*                                                                         *)
(* A coordinator gives batches of units to workers.  A worker retries and  *)
(* splits its batch on a stack of its own.  Equal requests have one        *)
(* executor (a flight), everybody else waits for it and looks again.  Rows *)
(* and splits of this source are on disk, and so are the shared results,   *)
(* each under the whole request and the output limit it was made with.     *)
(*                                                                         *)
(* Abstractions.  A unit is a range of characters of a block, and what the *)
(* model sees of it is the name of the text and the range.  A request is   *)
(* one step from its dispatch to its end (Budget shows that it has one).   *)
(* It ends with the save of its rows: who dies with an unsaved answer dies *)
(* here before the request has ended.  The limit that the allowance has    *)
(* reached is a number.                                                    *)
(***************************************************************************)
EXTENDS Naturals, Sequences, FiniteSets

CONSTANTS
    Worker,       \* one for each request that may be under way
    Source,       \* the batches of the source, sequences of units
    Text,         \* the text of a block: blocks may have the same one
    Barren,       \* the texts that a model finds no facts in
    MaxAttempts,
    MaxCap,       \* how often the output limit may grow (a bound)
    MaxRestarts,  \* how often the task is resumed (a bound)
    None

Units(batch) == {batch[i] : i \in DOMAIN batch}
Given == UNION {Units(Source[i]) : i \in DOMAIN Source}
Block == {u.block : u \in Given}
Error == {"invalid", "capacity", "busy", "fatal", "stopped", "wait"}

(* A block is cut into ranges that follow each other, and each of them is  *)
(* in one batch; no range and no batch is empty.                           *)
ASSUME SourceAssumption ==
    /\ Source \in Seq(Seq([block : Block, from : Nat, to : Nat]) \ {<<>>})
    /\ \A u \in Given : u.from <= u.to
    /\ \A i, j \in DOMAIN Source : \A k \in DOMAIN Source[i], l \in DOMAIN Source[j] :
         (i < j \/ (i = j /\ k < l)) /\ Source[i][k].block = Source[j][l].block
            => Source[i][k].to < Source[j][l].from

ASSUME FactsAssumption ==
    /\ Text \in [Block -> STRING] /\ Barren \subseteq STRING
    /\ MaxAttempts \in Nat \ {0} /\ MaxCap \in Nat \ {0} /\ MaxRestarts \in Nat
    /\ None \notin Worker \cup Error

VARIABLES
    row, splits, shared,      \* on disk: units with a row, batches that were split,
                              \* and the results that other units may take over
    mem,                      \* units with a row in memory only
    cap,                      \* the output limit of the next request
    flight,                   \* the executors, each of the request it has pending
    phase, next, restarts,    \* the coordinator, its next batch, the resumptions
    results, failures,        \* per batch what was completed; the units given up
    pc, job, stack, pending, used, owner, error  \* each worker

disk == <<row, splits, shared>>
main == <<phase, next, restarts>>
vars == <<disk, mem, cap, flight, main, results, failures,
          pc, job, stack, pending, used, owner, error>>

Init ==
    /\ row = {} /\ splits = {} /\ shared = {} /\ restarts = 0
    /\ mem = {} /\ cap = 1 /\ flight = {} /\ next = 1 /\ phase = "running"
    /\ results = [i \in DOMAIN Source |-> <<>>] /\ failures = {}
    /\ pc = [w \in Worker |-> "idle"] /\ job = [w \in Worker |-> 0]
    /\ stack = [w \in Worker |-> <<>>] /\ pending = [w \in Worker |-> <<>>]
    /\ used = [w \in Worker |-> 0] /\ owner = [w \in Worker |-> None]
    /\ error = [w \in Worker |-> None]

-----------------------------------------------------------------------------
(* What the model sees of a batch, without the identities of its blocks.   *)
FactInput(batch) ==
    [i \in DOMAIN batch |-> <<Text[batch[i].block], batch[i].from, batch[i].to>>]

Halves(batch) ==
    IF Len(batch) < 2 THEN <<>>
    ELSE <<SubSeq(batch, 1, Len(batch) \div 2), SubSeq(batch, Len(batch) \div 2 + 1, Len(batch))>>

SplitSpan(u) ==
    LET middle == (u.from + u.to) \div 2
    IN  IF u.from = u.to THEN <<>>
        ELSE << <<[u EXCEPT !.to = middle]>>, <<[u EXCEPT !.from = middle + 1]>> >>

SplitUnits(batch) == IF Len(batch) > 1 THEN Halves(batch) ELSE SplitSpan(batch[1])

(* Mutant: rows on disk are only read at a restart.                        *)
GotFresh(batch) ==
    {u \in Units(batch) :
        \/ u \in mem
        \/ \E i \in DOMAIN batch : batch[i] = u /\ <<cap, FactInput(batch), i>> \in shared}

(* The units of a batch that cache.get finds, by a row of their own or by  *)
(* a shared result for the same place in the same request.                 *)
Got(batch) ==
    {u \in Units(batch) :
        \/ u \in row \cup mem
        \/ \E i \in DOMAIN batch : batch[i] = u /\ <<cap, FactInput(batch), i>> \in shared}

(* What remains of a batch, in its order.                                  *)
Without(batch, got) ==
    LET left[i \in 0..Len(batch)] ==
            IF i = 0 THEN <<>>
            ELSE IF batch[i] \in got THEN left[i - 1] ELSE Append(left[i - 1], batch[i])
    IN  left[Len(batch)]

(* Where a look at a batch leads: a smaller request is looked at again.    *)
After(batch, left) == CASE left = <<>> -> "verifying"
                        [] left = batch /\ batch # <<>> -> "claiming"
                        [] OTHER -> "narrowing"

Current(w) == stack[w][Len(stack[w])].batch
Attempt(w) == stack[w][Len(stack[w])].attempt
Popped(w) == SubSeq(stack[w], 1, Len(stack[w]) - 1)
Pushed(w, parts) == Popped(w) \o [i \in DOMAIN parts |->
    [batch |-> parts[Len(parts) + 1 - i], attempt |-> 1]]

(* Nothing remains of an attempt but its batch.                            *)
Left(w) == /\ pending' = [pending EXCEPT ![w] = <<>>] /\ used' = [used EXCEPT ![w] = 0]
           /\ owner' = [owner EXCEPT ![w] = None] /\ error' = [error EXCEPT ![w] = None]

Stopped == phase = "failing"
To(w, where) == pc' = [pc EXCEPT ![w] = where]
Raises(w, e) == error' = [error EXCEPT ![w] = e]

-----------------------------------------------------------------------------
(* submit, by the coordinator: one batch for each worker, and no further   *)
(* one when a failure is there to be seen.                                 *)
Submit(w) ==
    /\ phase = "running" /\ pc[w] = "idle" /\ next <= Len(Source)
    /\ \A v \in Worker : pc[v] # "failed"
    /\ next' = next + 1 /\ job' = [job EXCEPT ![w] = next]
    /\ stack' = [stack EXCEPT ![w] = <<[batch |-> Source[next], attempt |-> 1]>>]
    /\ To(w, "popping")
    /\ UNCHANGED <<disk, mem, cap, flight, phase, restarts, results, failures, pending, used, owner, error>>

(* retry_batches: the next batch of the stack; a split that is on disk is  *)
(* repeated without a request.                                             *)
Pop(w) ==
    /\ pc[w] = "popping"
    /\ CASE stack[w] = <<>> -> To(w, "idle") /\ UNCHANGED stack
         [] stack[w] # <<>> /\ Stopped -> To(w, "failed") /\ stack' = [stack EXCEPT ![w] = <<>>]
         [] stack[w] # <<>> /\ ~Stopped /\ Current(w) \in splits ->
              stack' = [stack EXCEPT ![w] = Pushed(w, SplitUnits(Current(w)))] /\ UNCHANGED pc
         [] OTHER -> To(w, "looking") /\ UNCHANGED stack
    /\ job' = IF stack[w] = <<>> THEN [job EXCEPT ![w] = 0] ELSE job
    /\ UNCHANGED <<disk, mem, cap, flight, main, results, failures, pending, used, owner, error>>

(* extract: what the cache knows of the batch ...                          *)
Look(w) ==
    /\ pc[w] = "looking"
    /\ IF Stopped THEN To(w, "raising") /\ Raises(w, "stopped") /\ UNCHANGED <<mem, pending>>
       ELSE LET got == Got(Current(w))
                left == Without(Current(w), got)
            IN  /\ mem' = mem \cup (got \ row) /\ pending' = [pending EXCEPT ![w] = left]
                /\ To(w, After(Current(w), left)) /\ UNCHANGED error
    /\ UNCHANGED <<disk, cap, flight, main, results, failures, job, stack, used, owner>>

(* ... and of the smaller request, until it knows nothing of that.         *)
Narrow(w) ==
    /\ pc[w] = "narrowing"
    /\ LET got == Got(pending[w])
           left == Without(pending[w], got)
       IN  /\ mem' = mem \cup (got \ row) /\ pending' = [pending EXCEPT ![w] = left]
           /\ To(w, After(pending[w], left))
    /\ UNCHANGED <<disk, cap, flight, main, results, failures, job, stack, used, owner, error>>

(* Mutant: everybody is an executor.                                       *)
ClaimAlways(w) ==
    /\ pc[w] = "claiming"
    /\ flight' = flight \cup {w} /\ To(w, "owning") /\ UNCHANGED owner
    /\ UNCHANGED <<disk, mem, cap, main, results, failures, job, stack, pending, used, error>>

Claim(w) ==
    LET others == {v \in flight : FactInput(pending[v]) = FactInput(pending[w])}
    IN  /\ pc[w] = "claiming"
        /\ IF others = {}
           THEN flight' = flight \cup {w} /\ To(w, "owning") /\ UNCHANGED owner
           ELSE /\ owner' = [owner EXCEPT ![w] = CHOOSE v \in others : TRUE]
                /\ To(w, "waiting") /\ UNCHANGED flight
        /\ UNCHANGED <<disk, mem, cap, main, results, failures, job, stack, pending, used, error>>

(* A previous executor may have finished between the look and the claim.   *)
Recheck(w) ==
    /\ pc[w] = "owning"
    /\ mem' = mem \cup (Got(pending[w]) \ row)
    /\ IF Got(pending[w]) = Units(pending[w])
       THEN To(w, "finishing") /\ UNCHANGED used
       ELSE To(w, "asking") /\ used' = [used EXCEPT ![w] = cap]
    /\ UNCHANGED <<disk, cap, flight, main, results, failures, job, stack, pending, owner, error>>

(* What goes to other units: only facts, and under the limit that was used.*)
Shareable(w, good, limit) ==
    {<<limit, FactInput(pending[w]), i>> : i \in
        {i \in DOMAIN pending[w] : pending[w][i] \in good /\ Text[pending[w][i].block] \notin Barren}}

(* The request ends, maybe after the limit has grown.  The rows that are   *)
(* valid stay, also when the answer as a whole is not.  They are saved     *)
(* first and shared one by one after that, which may fail in the middle.   *)
Reply(w) ==
    /\ pc[w] = "asking"
    /\ \E limit \in used[w]..MaxCap :
         /\ cap' = IF limit > cap THEN limit ELSE cap
         /\ \/ \E good \in SUBSET Units(pending[w]) :
                 /\ row' = row \cup good /\ mem' = mem \ good
                 /\ \/ /\ (good = {} \/ ~Stopped)
                       /\ shared' = shared \cup Shareable(w, good, limit)
                       /\ Raises(w, IF good = Units(pending[w]) THEN None ELSE "invalid")
                    \/ good # {} /\ Stopped /\ Raises(w, "stopped") /\ UNCHANGED shared
                    \/ LET all == Shareable(w, good, limit)
                       IN  \E some \in (SUBSET all) \ {all} : shared' = shared \cup some /\ Raises(w, "fatal")
            \/ limit \in {used[w], MaxCap} /\ Raises(w, "capacity") /\ UNCHANGED <<row, shared, mem>>
            \/ \E e \in {"busy", "fatal"} : limit = used[w] /\ Raises(w, e) /\ UNCHANGED <<row, shared, mem>>
            \/ Stopped /\ limit = used[w] /\ Raises(w, "stopped") /\ UNCHANGED <<row, shared, mem>>
    /\ To(w, "finishing")
    /\ UNCHANGED <<splits, flight, main, results, failures, job, stack, pending, used, owner>>

Waiters(w) == {v \in Worker : pc[v] = "waiting" /\ owner[v] = w}

(* Mutant: only who succeeds ends its flight.                              *)
FinishOnSuccess(w) ==
    /\ pc[w] = "finishing"
    /\ flight' = IF error[w] = None THEN flight \ {w} ELSE flight
    /\ pc' = [v \in Worker |-> CASE v = w -> IF error[w] = None THEN "verifying" ELSE "raising"
                                 [] v \in Waiters(w) /\ error[w] = None -> "woken"
                                 [] OTHER -> pc[v]]
    /\ UNCHANGED <<disk, mem, cap, main, results, failures, job, stack, pending, used, owner, error>>

(* The flight ends, whatever came of it, and its event is set.             *)
Finish(w) ==
    /\ pc[w] = "finishing"
    /\ flight' = flight \ {w}
    /\ pc' = [v \in Worker |-> CASE v = w -> IF error[w] = None THEN "verifying" ELSE "raising"
                                 [] v \in Waiters(w) -> "woken"
                                 [] OTHER -> pc[v]]
    /\ UNCHANGED <<disk, mem, cap, main, results, failures, job, stack, pending, used, owner, error>>

(* A waiter may stop, or run out of time, without its executor.            *)
StopWaiting(w) ==
    /\ pc[w] \in {"waiting", "woken"} /\ Stopped
    /\ To(w, "raising") /\ Raises(w, "stopped")
    /\ UNCHANGED <<disk, mem, cap, flight, main, results, failures, job, stack, pending, used, owner>>

WaitTooLong(w) ==
    /\ pc[w] = "waiting" /\ To(w, "raising") /\ Raises(w, "wait")
    /\ UNCHANGED <<disk, mem, cap, flight, main, results, failures, job, stack, pending, used, owner>>

(* A batch is complete when every unit of it has a row.                    *)
Verify(w) ==
    /\ pc[w] \in {"verifying", "woken"} /\ (pc[w] = "woken" => ~Stopped)
    /\ mem' = mem \cup (Got(pending[w]) \ row)
    /\ IF \A u \in Units(Current(w)) : u \in row \cup mem'
       THEN /\ results' = [results EXCEPT ![job[w]] = @ \o Current(w)]
            /\ stack' = [stack EXCEPT ![w] = Popped(w)] /\ To(w, "popping") /\ Left(w)
       ELSE To(w, "raising") /\ Raises(w, "invalid") /\ UNCHANGED <<results, stack, pending, used, owner>>
    /\ UNCHANGED <<disk, cap, flight, main, failures, job>>

-----------------------------------------------------------------------------
(* Mutant: what remains after a split is the second part.                  *)
ReplaceLast(w, parts) ==
    /\ splits' = splits \cup {Current(w)}
    /\ stack' = [stack EXCEPT ![w] = Pushed(w, Tail(parts))]
    /\ To(w, "popping") /\ UNCHANGED failures

Replace(w, parts) ==
    /\ splits' = splits \cup {Current(w)}
    /\ stack' = [stack EXCEPT ![w] = Pushed(w, parts)]
    /\ To(w, "popping") /\ UNCHANGED failures

GiveUp(w) ==
    /\ failures' = failures \cup Units(Current(w))
    /\ stack' = [stack EXCEPT ![w] = Popped(w)]
    /\ To(w, "popping") /\ UNCHANGED splits

Again(w) ==
    /\ stack' = [stack EXCEPT ![w][Len(stack[w])].attempt = @ + 1]
    /\ To(w, "popping") /\ UNCHANGED <<splits, failures>>

(* The handlers of retry_batches.                                          *)
Invalid(w) ==
    /\ error[w] = "invalid"
    /\ CASE Len(Current(w)) > 1 -> Replace(w, Halves(Current(w)))
         [] Len(Current(w)) = 1 /\ Attempt(w) < MaxAttempts -> Again(w)
         [] OTHER -> GiveUp(w)

Capacity(w) ==
    /\ error[w] = "capacity"
    /\ LET parts == SplitUnits(Current(w)) IN IF parts = <<>> THEN GiveUp(w) ELSE Replace(w, parts)

Handle(w) ==
    /\ pc[w] = "raising"
    /\ \/ Invalid(w)
       \/ Capacity(w)
       \/ error[w] = "busy" /\ GiveUp(w)
       \/ error[w] \in {"fatal", "stopped", "wait"} /\ To(w, "failed")
          /\ stack' = [stack EXCEPT ![w] = <<>>] /\ UNCHANGED <<splits, failures>>
    /\ Left(w)
    /\ UNCHANGED <<row, shared, mem, cap, flight, main, results, job>>

-----------------------------------------------------------------------------
(* A worker has failed, or the coordinator itself is to stop.  What was    *)
(* completed is given up, as far as it is not on disk.                     *)
Fail ==
    /\ phase = "running" /\ phase' = "failing" /\ results' = [i \in DOMAIN Source |-> <<>>]
    /\ UNCHANGED <<disk, mem, cap, flight, next, restarts, failures, pc, job, stack, pending, used, owner, error>>

Conclude ==
    /\ phase = "running" /\ next > Len(Source) /\ \A w \in Worker : pc[w] = "idle"
    /\ phase' = "done"
    /\ UNCHANGED <<disk, mem, cap, flight, next, restarts, results, failures, pc, job, stack, pending, used, owner, error>>

Join ==
    /\ phase = "failing" /\ \A w \in Worker : pc[w] \in {"idle", "failed"}
    /\ phase' = "failed" /\ mem' = {} /\ failures' = {}
    /\ UNCHANGED <<disk, cap, flight, next, restarts, results, pc, job, stack, pending, used, owner, error>>

(* The process ends, or the extraction has failed, and the task is resumed *)
(* with what is on disk and a new allowance.                               *)
Resume ==
    /\ phase # "done" /\ restarts < MaxRestarts
    /\ restarts' = restarts + 1 /\ UNCHANGED disk
    /\ mem' = {} /\ cap' = 1 /\ flight' = {} /\ next' = 1 /\ phase' = "running"
    /\ results' = [i \in DOMAIN Source |-> <<>>] /\ failures' = {}
    /\ pc' = [w \in Worker |-> "idle"] /\ job' = [w \in Worker |-> 0]
    /\ stack' = [w \in Worker |-> <<>>] /\ pending' = [w \in Worker |-> <<>>]
    /\ used' = [w \in Worker |-> 0] /\ owner' = [w \in Worker |-> None]
    /\ error' = [w \in Worker |-> None]

(* The blocks that are reported instead of their facts.                    *)
Excluded == {u.block : u \in failures}

Step(w) ==
    \/ Submit(w) \/ Pop(w) \/ Look(w) \/ Narrow(w) \/ Claim(w) \/ Recheck(w) \/ Reply(w)
    \/ Finish(w) \/ StopWaiting(w) \/ Verify(w) \/ Handle(w)

Next == \/ \E w \in Worker : Step(w) \/ WaitTooLong(w)
        \/ Fail \/ Conclude \/ Join \/ Resume

Spec == Init /\ [][Next]_vars
(* As long as threads can go on one of them does, and a request ends;      *)
(* nobody has to resume, to stop or to run out of time.                    *)
Progress == \/ \E w \in Worker : Step(w)
            \/ Conclude \/ Join
            \/ Fail /\ \E w \in Worker : pc[w] = "failed"
FairSpec == Spec /\ WF_vars(Progress)

-----------------------------------------------------------------------------
(* The characters of a block that were given to the extraction.            *)
Characters(b) == UNION {u.from..u.to : u \in {v \in Given : v.block = b}}

(* At the end each block is either reported as omitted or extracted: the   *)
(* ranges of its completed units are in source order and neither leave a   *)
(* gap nor overlap, however its batches were split, retried and resumed;   *)
(* and each of these units has its row.                                    *)
Completed(b) == {u \in UNION {Units(results[i]) : i \in DOMAIN Source} : u.block = b}
Covered ==
    phase = "done" => \A b \in Block \ Excluded :
        /\ Completed(b) \subseteq row \cup mem
        /\ UNION {u.from..u.to : u \in Completed(b)} = Characters(b)
        /\ \A i, j \in DOMAIN Source : \A k \in DOMAIN results[i], l \in DOMAIN results[j] :
             /\ i < j \/ (i = j /\ k < l)
             /\ results[i][k].block = b /\ results[j][l].block = b
             => results[i][k].to < results[j][l].from

(* Equal requests are never with the service at the same time, and who     *)
(* waits for one waits for somebody who is about to end it.                *)
OneExecutor ==
    /\ \A v, w \in Worker :
         pc[v] = "asking" /\ pc[w] = "asking" /\ v # w => FactInput(pending[v]) # FactInput(pending[w])
    /\ \A w \in Worker : pc[w] = "waiting" => pc[owner[w]] \in {"owning", "asking", "finishing"}

(* A request only contains units that have no row on disk, so that what    *)
(* was paid for before a failure or a crash is never asked again.          *)
NeverAskedAgain ==
    [][\A w \in Worker : pc[w] # "asking" /\ pc'[w] = "asking" => Units(pending[w]) \cap row = {}]_vars

(* The extraction ends.                                                    *)
ExtractionEnds == phase = "running" ~> phase \in {"done", "failed"}
=============================================================================
