------------------------------- MODULE Budget -------------------------------
(***************************************************************************)
(* The allowance of one document (openkb/processing.py, the optional       *)
(* allowance of navigation_enhancement.py, the observations that           *)
(* source_request_journal.py keeps).                                       *)
(*                                                                         *)
(* Threads share permits, counters, growing limits and a stop latch.  A    *)
(* caller asks in one of three ways: "sync" runs the transport in a thread *)
(* that may outlive the request, "async" cancels its transport, and        *)
(* "external" only accounts for a request that somebody else sends.        *)
(*                                                                         *)
(* Abstractions.  Elapsed times are nondeterministic: a wait may end at    *)
(* once, and "expired" says that the document or its stage has no time     *)
(* left, which nothing takes back (a stage only changes after the check).  *)
(* A message is its number of tokens.  A caller makes one call: a thread   *)
(* that asks again is one more caller.  The lock is explicit where its     *)
(* holder does more than one thing.                                        *)
(***************************************************************************)
EXTENDS Naturals, Sequences, FiniteSets, FiniteSetsExt

CONSTANTS
    Caller, Mode,        \* the threads, and how each of them asks
    Optional,            \* those whose requests are an optional extra
    Fixed, FixedOutput,  \* those that name an output limit, and that limit
    Size,                \* how many tokens the request of each has
    Usage,               \* how many tokens a service may report
    Context, Output, MaxContext, MaxOutput,
    MaxAttempts, MaxRequests, MaxTokens, Allowance, Concurrency,
    MaxStops,            \* how many operations or clocks stop them (a bound)
    None

Limits == [context : Nat, output : Nat]
(* The reasons that the latch keeps; a stop from outside is not one.       *)
Reason == {"time", "requests", "tokens", "timeout", "unknown", "queue", "invalid"}
Error == Reason \cup {"stopped", "truncated", "large", "busy", "refused", "optional"}
(* What a transport ends with: an answer, one cut off at its limit, a      *)
(* temporary failure, an unknown outcome, or a definite error.             *)
Outcome == {"stop", "length", "busy", "unknown", "refused"}

ASSUME BudgetAssumption ==
    /\ Mode \in [Caller -> {"sync", "async", "external"}] /\ IsFiniteSet(Caller)
    /\ Optional \subseteq Caller /\ Fixed \subseteq Caller
    /\ Size \in [Caller -> Nat] /\ Usage \subseteq Nat /\ FixedOutput \in Nat \ {0}
    /\ {Context, Output, MaxContext, MaxOutput} \subseteq Nat \ {0}
    /\ Output < Context /\ Context <= MaxContext /\ Output <= MaxOutput /\ MaxOutput < MaxContext
    /\ {MaxAttempts, Concurrency} \subseteq Nat \ {0}
    /\ {MaxRequests, MaxTokens, Allowance, MaxStops} \subseteq Nat
    /\ None \notin Nat \cup Caller \cup Error \cup Outcome

VARIABLES
    limits,      \* the limits of the next request, which only grow
    attempts, charged,
    obs,         \* the observations: who asked, what was reserved, what was used
    incomplete,  \* the stop latch
    lock, permits,
    wire,        \* the requests that are with the service
    orphan,      \* those whose caller is gone and whose permit waits for them
    cancelled,   \* the callers whose operation was stopped
    expired,
    lost,        \* what was charged for requests that were then refused
    pc, result,  \* what a caller does, and what its transport or its call ended with
    prev, tries, req

shared == <<limits, attempts, charged, obs, incomplete, lock, permits, wire, orphan, lost>>
outside == <<cancelled, expired>>
ask == <<prev, tries>>
vars == <<limits, attempts, charged, obs, incomplete, lock, permits, wire, orphan,
          cancelled, expired, lost, pc, result, prev, tries, req>>

Init ==
    /\ limits = [context |-> Context, output |-> Output]
    /\ attempts = 0 /\ charged = 0 /\ obs = <<>> /\ incomplete = None
    /\ lock = None /\ permits = Concurrency /\ wire = {} /\ orphan = {}
    /\ cancelled = {} /\ expired = FALSE /\ lost = 0
    /\ pc = [c \in Caller |-> "idle"] /\ result = [c \in Caller |-> None]
    /\ tries = [c \in Caller |-> 0]
    /\ prev = [c \in Caller |-> limits]
    /\ req = [c \in Caller |-> 0]

-----------------------------------------------------------------------------
(* What checkpoint raises, None when nothing: the latch, then a stop, then *)
(* the clock.  The seconds of an optional extra may be over at any time.   *)
Checkpoint(c) ==
    CASE incomplete # None -> {incomplete}
      [] incomplete = None /\ c \in cancelled -> {"stopped"}
      [] incomplete = None /\ c \notin cancelled /\ expired -> {"time"}
      [] OTHER -> IF c \in Optional THEN {None, "optional"} ELSE {None}

To(c, where) == pc' = [pc EXCEPT ![c] = where]
Ends(c, e) == pc' = [pc EXCEPT ![c] = "raised"] /\ result' = [result EXCEPT ![c] = e]
Fails(c, e) == pc' = [pc EXCEPT ![c] = "failing"] /\ result' = [result EXCEPT ![c] = e]

OutputOf(c) == IF c \in Fixed THEN Min({FixedOutput, prev[c].output}) ELSE prev[c].output
Reserved(c) == IF Mode[c] = "external" THEN Size[c] ELSE Size[c] + OutputOf(c)

(* expanded: an output that suffices does not grow.                        *)
Expanded(l, reason) ==
    [context |-> Min({2 * l.context, MaxContext}),
     output |-> IF reason = "large" THEN l.output ELSE Min({2 * l.output, MaxOutput})]

-----------------------------------------------------------------------------
Call(c) ==
    /\ pc[c] = "idle"
    /\ prev' = [prev EXCEPT ![c] = limits]
    /\ tries' = [tries EXCEPT ![c] = 1] /\ result' = [result EXCEPT ![c] = None]
    /\ To(c, IF Mode[c] = "external" THEN "outside" ELSE "queued")
    /\ UNCHANGED <<shared, outside, req>>

(* A permit, and the first part of reserve, outside the lock: the tokens   *)
(* are counted against the limits the call began with, unless they cannot  *)
(* be, or an output limit or a timeout is not a number.                    *)
Acquire(c) ==
    /\ pc[c] = "queued" /\ permits > 0
    /\ permits' = permits - 1 /\ req' = [req EXCEPT ![c] = 0]
    /\ \E e \in Checkpoint(c) :
         \/ e # None /\ Fails(c, e)
         \/ e = None /\ Fails(c, "invalid")
         \/ e = None /\ Reserved(c) > prev[c].context /\ Fails(c, "large")
         \/ e = None /\ Reserved(c) <= prev[c].context /\ To(c, "counted") /\ UNCHANGED result
    /\ UNCHANGED <<limits, attempts, charged, obs, incomplete, lock, wire, orphan, lost, outside, ask>>

(* Mutant: the queue has no limit of its own.                              *)
CheckQueueForever(c) ==
    /\ pc[c] = "queued" /\ permits = 0
    /\ \E e \in Checkpoint(c) : e # None /\ Ends(c, e)
    /\ UNCHANGED <<shared, outside, ask, req>>

(* A look at the clock while no permit is free; it sets the latch without  *)
(* the lock.                                                               *)
CheckQueue(c) ==
    /\ pc[c] = "queued" /\ permits = 0
    /\ \E e \in Checkpoint(c) :
         IF e # None THEN Ends(c, e) /\ UNCHANGED incomplete
         ELSE Ends(c, "queue") /\ incomplete' = "queue"
    /\ UNCHANGED <<limits, attempts, charged, obs, lock, permits, wire, orphan, lost, outside, ask, req>>

(* Mutant: what is reserved is not part of the comparison.                 *)
ExcessAfter(c) == IF attempts >= MaxRequests THEN "requests"
                  ELSE IF charged >= MaxTokens THEN "tokens" ELSE None

Excess(c) == CASE attempts >= MaxRequests -> "requests"
               [] charged + Reserved(c) > MaxTokens -> "tokens"
               [] c \in Optional /\ attempts >= Allowance -> "optional"
               [] OTHER -> None

(* Mutant: the checkpoint before the count is the only one.                *)
InspectUnchecked(c) ==
    /\ pc[c] = "counted" /\ lock = None
    /\ IF Excess(c) # None THEN Fails(c, Excess(c)) /\ UNCHANGED lock
       ELSE To(c, "inspected") /\ lock' = c /\ UNCHANGED result
    /\ UNCHANGED <<limits, attempts, charged, obs, incomplete, permits, wire, orphan, lost, outside, ask, req>>

(* The second part, under the lock: the checks, ...                        *)
Inspect(c) ==
    /\ pc[c] = "counted" /\ lock = None
    /\ \E e \in Checkpoint(c) :
         CASE e # None -> Fails(c, e) /\ UNCHANGED lock
           [] e = None /\ Excess(c) # None -> Fails(c, Excess(c)) /\ UNCHANGED lock
           [] OTHER -> To(c, "inspected") /\ lock' = c /\ UNCHANGED result
    /\ UNCHANGED <<limits, attempts, charged, obs, incomplete, permits, wire, orphan, lost, outside, ask, req>>

Observe(c) ==
    /\ attempts' = attempts + 1
    /\ charged' = charged + Reserved(c)
    /\ obs' = Append(obs, [by |-> c, reserved |-> Reserved(c), usage |-> None])
    /\ req' = [req EXCEPT ![c] = Len(obs) + 1]

(* ... and the observation, which is on disk before the lock is released   *)
(* and before the transport starts, or cannot be saved.                    *)
Admit(c) ==
    /\ pc[c] = "inspected" /\ Observe(c) /\ lock' = None
    /\ \/ wire' = wire \cup {req'[c]} /\ To(c, "waiting") /\ UNCHANGED result
       \/ Fails(c, "refused") /\ UNCHANGED wire
    /\ UNCHANGED <<limits, incomplete, permits, orphan, lost, outside, ask>>

Awaits(c, id) == pc[c] = "waiting" /\ req[c] = id

(* The transport ends.  Nobody may wait for it any more.                   *)
Answer(id) ==
    /\ id \in wire /\ wire' = wire \ {id}
    /\ \/ (\A c \in Caller : ~Awaits(c, id)) /\ UNCHANGED result
       \/ \E c \in Caller, o \in Outcome : Awaits(c, id) /\ result' = [result EXCEPT ![c] = o]
    /\ UNCHANGED <<limits, attempts, charged, obs, incomplete, lock, permits, orphan, lost, outside, ask, pc, req>>

(* release_when_done: the permit of a request nobody waits for.            *)
ReleaseOrphan(id) ==
    /\ id \in orphan \ wire
    /\ orphan' = orphan \ {id} /\ permits' = permits + 1
    /\ UNCHANGED <<limits, attempts, charged, obs, incomplete, lock, wire, lost, outside, ask, pc, result, req>>

TimesOut(c) == \E e \in {"timeout"} \cup (IF c \in Optional THEN {"optional"} ELSE {}) : Fails(c, e)

(* The wait ends before the transport does, by the latch, by a stop or by  *)
(* the clock.  An async caller only has the clock, and takes its transport *)
(* along.  A smaller allowance of an optional request degrades it alone.   *)
GiveUp(c) ==
    /\ pc[c] = "waiting" /\ req[c] \in wire
    /\ CASE Mode[c] = "async" -> Fails(c, "unknown") /\ wire' = wire \ {req[c]}
         [] OTHER -> /\ \E e \in Checkpoint(c) : IF e # None THEN Fails(c, e) ELSE TimesOut(c)
                     /\ UNCHANGED wire
    /\ UNCHANGED <<limits, attempts, charged, obs, incomplete, lock, permits, orphan, lost, outside, ask, req>>

(* The answer is there.  It may be late all the same.                      *)
Read(c) ==
    /\ pc[c] = "waiting" /\ req[c] \notin wire
    /\ \/ Mode[c] = "sync" /\ \E e \in Checkpoint(c) : IF e # None THEN Fails(c, e) ELSE TimesOut(c)
       \/ /\ Mode[c] = "sync" => None \in Checkpoint(c)
          /\ IF result[c] \in {"stop", "length"} THEN To(c, "answered") /\ UNCHANGED result
             ELSE Fails(c, result[c])
    /\ UNCHANGED <<shared, outside, ask, req>>

(* settle, under the lock: what was used replaces what was reserved.       *)
Settle(c) == \E n \in Usage \cup {None} :
    /\ pc[c] = "answered" /\ lock = None
    /\ charged' = IF n = None THEN charged ELSE charged - obs[req[c]].reserved + n
    /\ obs' = [obs EXCEPT ![req[c]].usage = n]
    /\ To(c, "settled")
    /\ UNCHANGED <<limits, attempts, incomplete, lock, permits, wire, orphan, lost, outside, ask, result, req>>

Release(c) == permits' = permits + 1

Conclude(c) ==
    /\ pc[c] = "settled"
    /\ \E e \in Checkpoint(c) :
         CASE e # None -> Fails(c, e) /\ UNCHANGED permits
           [] e = None /\ charged > MaxTokens -> Fails(c, "tokens") /\ UNCHANGED permits
           [] e = None /\ charged <= MaxTokens /\ result[c] = "length" ->
                Fails(c, "truncated") /\ UNCHANGED permits
           [] OTHER -> Release(c) /\ To(c, "returned") /\ UNCHANGED result
    /\ UNCHANGED <<limits, attempts, charged, obs, incomplete, lock, wire, orphan, lost, outside, ask, req>>

(* Mutant: a request that nobody waits for has no permit.                  *)
SurrenderAlways(c) == Release(c) /\ UNCHANGED orphan

(* The permit stays with a transport that is still under way.              *)
Surrender(c) ==
    IF req[c] \in wire
    THEN orphan' = orphan \cup {req[c]} /\ UNCHANGED permits
    ELSE Release(c) /\ UNCHANGED orphan

(* The handlers, and finally: a reason sets the latch, under the lock.  A  *)
(* temporary failure is tried again, a length may be.                      *)
Leave(c) ==
    /\ pc[c] = "failing" /\ (result[c] \in Reason => lock = None)
    /\ incomplete' = IF result[c] \in Reason THEN result[c] ELSE incomplete
    /\ Surrender(c)
    /\ To(c, CASE result[c] = "busy" /\ tries[c] < MaxAttempts -> "backoff"
               [] result[c] \in {"truncated", "large"} -> "expanding"
               [] OTHER -> "raised")
    /\ UNCHANGED <<limits, attempts, charged, obs, lock, wire, lost, outside, ask, result, req>>

BackOff(c) ==
    /\ pc[c] = "backoff"
    /\ \E e \in Checkpoint(c) :
         IF e # None THEN Ends(c, e) /\ UNCHANGED tries
         ELSE To(c, "queued") /\ tries' = [tries EXCEPT ![c] = @ + 1] /\ result' = [result EXCEPT ![c] = None]
    /\ UNCHANGED <<shared, outside, prev, req>>

Grown(c, next) == IF limits = prev[c] THEN next ELSE limits

(* expand: only who still holds the limits that were too small doubles     *)
(* them; everybody else tries again with what is there.                    *)
Expand(c) ==
    LET next == Expanded(prev[c], result[c])
        final == \/ c \in Fixed
                 \/ result[c] = "truncated" /\ prev[c].output = MaxOutput
                 \/ result[c] = "large" /\ prev[c].context = MaxContext
    IN  /\ pc[c] = "expanding" /\ (final \/ lock = None)
        /\ \E e \in Checkpoint(c) :
             CASE final -> To(c, "raised") /\ UNCHANGED <<result, limits, prev, tries>>
               [] ~final /\ e # None -> Ends(c, e) /\ UNCHANGED <<limits, prev, tries>>
               [] OTHER -> /\ limits' = Grown(c, next)
                           /\ prev' = [prev EXCEPT ![c] = limits'] /\ tries' = [tries EXCEPT ![c] = 1]
                           /\ To(c, "queued") /\ result' = [result EXCEPT ![c] = None]
        /\ UNCHANGED <<attempts, charged, obs, incomplete, lock, permits, wire, orphan, lost, outside, req>>

-----------------------------------------------------------------------------
(* external_request_usage: without a permit.                               *)
Outside(c) ==
    /\ pc[c] = "outside"
    /\ \E e \in Checkpoint(c) : IF e # None THEN Ends(c, e) ELSE To(c, "entering") /\ UNCHANGED result
    /\ UNCHANGED <<shared, outside, ask, req>>

ExcessOutside(c) == IF attempts >= MaxRequests THEN "requests"
                    ELSE IF charged + Reserved(c) > MaxTokens THEN "tokens" ELSE None

(* The charge comes before the last check: what it refuses stays charged.  *)
Enter(c) ==
    /\ pc[c] = "entering" /\ lock = None
    /\ \/ /\ ExcessOutside(c) # None
          /\ Ends(c, ExcessOutside(c)) /\ incomplete' = ExcessOutside(c)
          /\ UNCHANGED <<attempts, charged, lost, obs, req, wire>>
       \/ /\ ExcessOutside(c) = None
          /\ \E e \in Checkpoint(c) \ {None} : Ends(c, e)
          /\ attempts' = attempts + 1 /\ charged' = charged + Reserved(c)
          /\ lost' = lost + Reserved(c) /\ UNCHANGED <<obs, req, wire, incomplete>>
       \/ /\ ExcessOutside(c) = None /\ None \in Checkpoint(c)
          /\ Observe(c) /\ wire' = wire \cup {req'[c]}
          /\ To(c, "waiting") /\ UNCHANGED <<result, incomplete, lost>>
    /\ UNCHANGED <<limits, lock, permits, orphan, outside, ask>>

ReadOutside(c) ==
    /\ pc[c] = "waiting" /\ Mode[c] = "external" /\ req[c] \notin wire
    /\ To(c, "answered") /\ UNCHANGED <<shared, outside, ask, result, req>>

ConcludeOutside(c) ==
    /\ pc[c] = "settled"
    /\ \E e \in Checkpoint(c) :
         CASE e # None -> Ends(c, e) /\ UNCHANGED incomplete
           [] e = None /\ charged > MaxTokens -> Ends(c, "tokens") /\ incomplete' = "tokens"
           [] OTHER -> To(c, "returned") /\ UNCHANGED <<result, incomplete>>
    /\ UNCHANGED <<limits, attempts, charged, obs, lock, permits, wire, orphan, lost, outside, ask, req>>

-----------------------------------------------------------------------------
Stops == Cardinality(cancelled) + IF expired THEN 1 ELSE 0

Cancel(c) ==
    /\ Stops < MaxStops /\ pc[c] \notin {"returned", "raised"}
    /\ cancelled' = cancelled \cup {c}
    /\ UNCHANGED <<shared, expired, ask, pc, result, req>>

Expire ==
    /\ Stops < MaxStops /\ expired' = TRUE
    /\ UNCHANGED <<shared, cancelled, ask, pc, result, req>>

Step(c) ==
    \/ Mode[c] # "external" /\
         \/ Acquire(c) \/ CheckQueue(c) \/ Inspect(c) \/ Admit(c)
         \/ GiveUp(c) \/ Read(c) \/ Settle(c) \/ Conclude(c) \/ Leave(c)
         \/ BackOff(c) \/ Expand(c)
    \/ Mode[c] = "external" /\
         (Outside(c) \/ Enter(c) \/ ReadOutside(c) \/ Settle(c) \/ ConcludeOutside(c))

Service == \E id \in wire \cup orphan : Answer(id) \/ ReleaseOrphan(id)

Next == \/ \E c \in Caller : Call(c) \/ Step(c) \/ Cancel(c)
        \/ Service
        \/ Expire

Spec == Init /\ [][Next]_vars
(* A thread goes on, and the deadlines it looks at pass.  No transport has *)
(* to end.                                                                 *)
FairSpec == Spec /\ \A c \in Caller : Mode[c] # "external" => WF_vars(Step(c))

-----------------------------------------------------------------------------
Holding == {"counted", "inspected", "waiting", "answered", "settled", "failing"}
Holders == {c \in Caller : Mode[c] # "external" /\ pc[c] \in Holding}

Observation == [by : Caller, reserved : Nat, usage : Nat \cup {None}]
Place == Holding \cup {"idle", "queued", "backoff", "expanding", "outside", "entering",
                      "returned", "raised"}

TypeOK ==
    /\ limits \in Limits /\ attempts \in 0..MaxRequests /\ charged \in Int /\ lost \in Nat
    /\ obs \in Seq(Observation)
    /\ incomplete \in Reason \cup {None} /\ lock \in Caller \cup {None} /\ permits \in Nat
    /\ wire \subseteq 1..Len(obs) /\ orphan \subseteq 1..Len(obs)
    /\ cancelled \subseteq Caller /\ expired \in BOOLEAN
    /\ pc \in [Caller -> Place] /\ result \in [Caller -> Error \cup Outcome \cup {None}]
    /\ prev \in [Caller -> Limits] /\ tries \in [Caller -> 0..MaxAttempts]
    /\ req \in [Caller -> 0..Len(obs)]

(* Permits are neither lost nor made: each is free, or with a caller that  *)
(* is inside a request, or with a transport that outlived its caller; and  *)
(* no request is under way without one, so that the service never sees     *)
(* more of them at once than the profile allows.                           *)
PermitsConserved ==
    /\ permits + Cardinality(Holders) + Cardinality(orphan) = Concurrency
    /\ \A id \in wire :
         \/ Mode[obs[id].by] = "external"
         \/ id \in orphan
         \/ obs[id].by \in Holders /\ req[obs[id].by] = id

Amount(o) == IF o.usage = None THEN o.reserved ELSE o.usage
Accounted == charged = lost + MapThenSumSet(LAMBDA i : Amount(obs[i]), 1..Len(obs))

WithinLimit ==
    (\A i \in 1..Len(obs) : Amount(obs[i]) <= obs[i].reserved) => charged <= MaxTokens

(* Every observation counts, with what the service reported or with all    *)
(* that was reserved for it; and as long as no service reports more than   *)
(* that, callers that count, check, charge and settle at the same time     *)
(* never take more than the document may use.                              *)
BudgetKept == Accounted /\ WithinLimit

(* Once the latch is set, nobody begins or completes an admission, however *)
(* long ago its tokens were counted; only who is inside the lock at that   *)
(* moment finishes.  ("Admission and the stop latch share the same lock".) *)
AdmissionStops ==
    [][incomplete # None /\ lock = None => lock' = None /\ Len(obs') = Len(obs)]_vars

(* The limits grow within their ceilings, and one size that was too small  *)
(* doubles them once, however many callers met it.                         *)
LimitsGrow ==
    [][limits' # limits =>
        /\ limits.context <= limits'.context /\ limits'.context <= MaxContext
        /\ limits.output <= limits'.output /\ limits'.output <= MaxOutput
        /\ limits'.output < limits'.context
        /\ \E c \in Caller : prev[c] = limits /\ prev'[c] = limits']_vars

(* Every call ends, although transports may hang with their permits.       *)
CallEnds == \A c \in Caller : Mode[c] # "external" =>
                (pc[c] = "queued" ~> pc[c] \in {"returned", "raised"})
=============================================================================
