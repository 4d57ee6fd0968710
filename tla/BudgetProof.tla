----------------------------- MODULE BudgetProof -----------------------------
(***************************************************************************)
(* Safety of the allowance of a document, for any number of callers and    *)
(* any limits.                                                             *)
(*                                                                         *)
(* What the properties rest on: the lock is held by who has been inspected *)
(* and not yet observed, so the room that was seen is still there          *)
(* (LockInv); external callers never touch permits (ModeInv); an           *)
(* observation belongs to the caller whose request it is, so that a        *)
(* request is either waited for or an orphan (RequestInv); a request that  *)
(* was read is not under way any more (ReadInv).                           *)
(*                                                                         *)
(* What is charged to the document is a sum over its requests, of what was *)
(* reserved until the usage is known; nothing is known before the answer   *)
(* is read (UnsettledInv), and who was inspected still has the room that   *)
(* it saw (RoomInv).  What is claimed of all partial sums is shown by the  *)
(* least exception.                                                        *)
(***************************************************************************)
EXTENDS Budget, FiniteSetTheorems, WellFoundedInduction, TLAPS

LockInv ==
    /\ \A c \in Caller : lock = c <=> pc[c] = "inspected"
    /\ lock # None => attempts < MaxRequests

OutsidePlace == {"idle", "outside", "entering", "waiting", "answered", "settled", "returned", "raised"}

ModeInv ==
    \A c \in Caller :
        /\ Mode[c] = "external" => pc[c] \in OutsidePlace
        /\ Mode[c] # "external" => pc[c] \notin {"outside", "entering"}
        /\ pc[c] = "backoff" => tries[c] < MaxAttempts

RequestInv ==
    \A c \in Caller :
        /\ pc[c] \in {"waiting", "answered", "settled"} => req[c] # 0
        /\ req[c] # 0 => obs[req[c]].by = c
        /\ c \in Holders => req[c] \notin orphan
        /\ pc[c] \in {"counted", "inspected"} => req[c] = 0

ReadInv ==
    \A c \in Caller : pc[c] \in {"answered", "settled"} => req[c] \notin wire

CoverInv ==
    \A id \in wire :
        \/ Mode[obs[id].by] = "external"
        \/ id \in orphan
        \/ obs[id].by \in Holders /\ req[obs[id].by] = id

LimitsInv ==
    /\ limits.context <= MaxContext /\ limits.output <= MaxOutput
    /\ limits.output < limits.context

CountInv == permits + Cardinality(Holders) + Cardinality(orphan) = Concurrency

IInv == TypeOK /\ LockInv /\ ModeInv /\ RequestInv /\ ReadInv /\ CoverInv /\ CountInv /\ LimitsInv

-----------------------------------------------------------------------------
(* The smaller of two numbers is one of them and bounds the other.         *)
LEMMA MinOfTwo ==
    ASSUME NEW m \in Nat, NEW n \in Nat
    PROVE  Min({m, n}) \in Nat /\ Min({m, n}) = IF m <= n THEN m ELSE n
  <1> DEFINE x == IF m <= n THEN m ELSE n
  <1>1. x \in {m, n} /\ \A y \in {m, n} : x <= y
    OBVIOUS
  <1>2. \A z \in {m, n} : (\A y \in {m, n} : z <= y) => z = x
    OBVIOUS
  <1>3. Min({m, n}) = x
    BY <1>1, <1>2 DEF Min
  <1> QED
    BY <1>3

(* What a request reserves is a number.                                    *)
LEMMA ReservedTyped ==
    ASSUME NEW c \in Caller, prev \in [Caller -> Limits]
    PROVE  Reserved(c) \in Nat
  <1>1. prev[c].output \in Nat /\ Size[c] \in Nat /\ FixedOutput \in Nat
    BY BudgetAssumption DEF Limits
  <1>2. OutputOf(c) \in Nat
    BY <1>1, MinOfTwo DEF OutputOf
  <1> QED
    BY <1>1, <1>2 DEF Reserved

LEMMA ExpandedTyped ==
    ASSUME NEW l \in Limits, NEW r
    PROVE  Expanded(l, r) \in Limits
  <1>1. l.context \in Nat /\ l.output \in Nat /\ MaxContext \in Nat /\ MaxOutput \in Nat
    BY BudgetAssumption DEF Limits
  <1>2. Min({2 * l.context, MaxContext}) \in Nat /\ Min({2 * l.output, MaxOutput}) \in Nat
    BY <1>1, MinOfTwo
  <1> QED
    BY <1>1, <1>2 DEF Expanded, Limits

LEMMA InitInv == Init => IInv
  <1> SUFFICES ASSUME Init PROVE IInv
    OBVIOUS
  <1> USE BudgetAssumption DEF Init
  <1>1. TypeOK
    <2>1. limits \in Limits /\ attempts \in 0..MaxRequests /\ charged \in Int /\ lost \in Nat
      BY DEF Limits
    <2>2. obs \in Seq(Observation) /\ Len(obs) = 0
      OBVIOUS
    <2>3. prev \in [Caller -> Limits] /\ tries \in [Caller -> 0..MaxAttempts]
      BY <2>1
    <2>4. req \in [Caller -> 0..Len(obs)] /\ pc \in [Caller -> Place]
      BY <2>2 DEF Place
    <2>5. wire \subseteq 1..Len(obs) /\ orphan \subseteq 1..Len(obs)
      OBVIOUS
    <2> QED
      BY <2>1, <2>2, <2>3, <2>4, <2>5 DEF TypeOK
  <1>2. Holders = {}
    BY DEF Holders, Holding
  <1>3. CountInv
    BY <1>2, FS_EmptySet DEF CountInv
  <1>4. LockInv /\ ModeInv
    BY DEF LockInv, ModeInv, OutsidePlace
  <1>5. RequestInv /\ ReadInv /\ CoverInv
    BY <1>2 DEF RequestInv, ReadInv, CoverInv
  <1>6. LimitsInv
    BY DEF LimitsInv
  <1> QED
    BY <1>1, <1>3, <1>4, <1>5, <1>6 DEF IInv

-----------------------------------------------------------------------------
LEMMA ObservationTyped ==
    ASSUME TypeOK, NEW c \in Caller, Observe(c)
    PROVE  /\ obs' \in Seq(Observation) /\ Len(obs') = Len(obs) + 1
           /\ \A i \in 1..Len(obs) : obs'[i] = obs[i]
           /\ obs'[Len(obs) + 1].by = c
           /\ charged' \in Int /\ req' \in [Caller -> 0..Len(obs')]
           /\ req'[c] = Len(obs) + 1
  <1> DEFINE o == [by |-> c, reserved |-> Reserved(c), usage |-> None]
  <1>1. Reserved(c) \in Nat
    BY ReservedTyped DEF TypeOK
  <1>2. o \in Observation
    BY <1>1 DEF Observation
  <1>3. obs \in Seq(Observation) /\ obs' = Append(obs, o)
    BY DEF Observe, TypeOK
  <1>4. /\ obs' \in Seq(Observation) /\ Len(obs') = Len(obs) + 1
        /\ \A i \in 1..Len(obs) : obs'[i] = obs[i]
        /\ obs'[Len(obs) + 1] = o
    <2> HIDE DEF o
    <2> QED
      BY <1>2, <1>3
  <1> QED
    BY <1>1, <1>4 DEF Observe, TypeOK

(* What an observation changes, when it is made and when it is settled.    *)
LEMMA SettledTyped ==
    ASSUME TypeOK, RequestInv, NEW c \in Caller, Settle(c)
    PROVE  /\ obs' \in Seq(Observation) /\ Len(obs') = Len(obs)
           /\ \A i \in 1..Len(obs) : obs'[i].by = obs[i].by
           /\ charged' \in Int
  <1>1. PICK n \in Usage \cup {None} :
            /\ charged' = IF n = None THEN charged ELSE charged - obs[req[c]].reserved + n
            /\ obs' = [obs EXCEPT ![req[c]].usage = n]
    BY DEF Settle
  <1>2. req[c] \in 1..Len(obs) /\ obs \in Seq(Observation) /\ n \in Nat \cup {None}
    BY <1>1, BudgetAssumption DEF Settle, RequestInv, TypeOK
  <1>3. obs[req[c]] \in Observation
    BY <1>2
  <1>4. [obs[req[c]] EXCEPT !.usage = n] \in Observation
    BY <1>2, <1>3 DEF Observation
  <1>5. obs' = [obs EXCEPT ![req[c]] = [obs[req[c]] EXCEPT !.usage = n]]
    BY <1>1
  <1>6. obs' \in Seq(Observation) /\ Len(obs') = Len(obs)
    BY <1>2, <1>4, <1>5
  <1>7. \A i \in 1..Len(obs) : obs'[i].by = obs[i].by
    BY <1>2, <1>3, <1>5 DEF Observation
  <1>8. charged' \in Int
    BY <1>1, <1>2, <1>3 DEF Observation, TypeOK
  <1> QED
    BY <1>6, <1>7, <1>8

(* A checkpoint raises errors only.                                        *)
LEMMA CheckpointTyped ==
    ASSUME TypeOK, NEW c \in Caller, NEW e \in Checkpoint(c)
    PROVE  e \in Error \cup {None}
  BY DEF TypeOK, Checkpoint, Error, Reason

CallerTyped ==
    /\ pc \in [Caller -> Place] /\ result \in [Caller -> Error \cup Outcome \cup {None}]
    /\ prev \in [Caller -> Limits] /\ tries \in [Caller -> 0..MaxAttempts]

SharedTyped ==
    /\ limits \in Limits /\ attempts \in 0..MaxRequests /\ charged \in Int /\ lost \in Nat
    /\ incomplete \in Reason \cup {None} /\ lock \in Caller \cup {None} /\ permits \in Nat
    /\ cancelled \subseteq Caller /\ expired \in BOOLEAN

RequestsTyped ==
    /\ obs \in Seq(Observation)
    /\ wire \subseteq 1..Len(obs) /\ orphan \subseteq 1..Len(obs)
    /\ req \in [Caller -> 0..Len(obs)]

(* Every step keeps the types.                                             *)
LEMMA TypeStep ==
    ASSUME TypeOK, LockInv, ModeInv, RequestInv, [Next]_vars
    PROVE  TypeOK'
  <1> USE BudgetAssumption DEF shared, outside, ask
  <1> DEFINE Typed == CallerTyped /\ SharedTyped /\ RequestsTyped
  <1>0. Typed
    BY DEF TypeOK, CallerTyped, SharedTyped, RequestsTyped
  <1>1. ASSUME NEW c \in Caller, Call(c) PROVE Typed'
    <2>1. CallerTyped'
      BY <1>0, <1>1 DEF CallerTyped, SharedTyped, Call, To, Place, Holding, Error, Outcome, Reason
    <2>2. SharedTyped'
      BY <1>0, <1>1 DEF SharedTyped, CallerTyped, Call, To, Reason, LockInv
    <2>3. RequestsTyped'
      BY <1>0, <1>1 DEF RequestsTyped, Call, To
    <2> QED
      BY <2>1, <2>2, <2>3
  <1>2. ASSUME NEW c \in Caller, Acquire(c) PROVE Typed'
    <2>1. CallerTyped'
      BY <1>0, <1>2, CheckpointTyped DEF CallerTyped, SharedTyped, Acquire, To, Fails, Place, Holding, Error, Outcome, Reason
    <2>2. SharedTyped'
      BY <1>0, <1>2, CheckpointTyped DEF SharedTyped, CallerTyped, Acquire, To, Fails, Reason, LockInv
    <2>3. RequestsTyped'
      BY <1>0, <1>2 DEF RequestsTyped, Acquire, To, Fails
    <2> QED
      BY <2>1, <2>2, <2>3
  <1>3. ASSUME NEW c \in Caller, CheckQueue(c) PROVE Typed'
    <2>1. CallerTyped'
      BY <1>0, <1>3, CheckpointTyped DEF CallerTyped, SharedTyped, CheckQueue, Ends, Place, Holding, Error, Outcome, Reason
    <2>2. SharedTyped'
      BY <1>0, <1>3, CheckpointTyped DEF SharedTyped, CallerTyped, CheckQueue, Ends, Reason, LockInv
    <2>3. RequestsTyped'
      BY <1>0, <1>3 DEF RequestsTyped, CheckQueue, Ends
    <2> QED
      BY <2>1, <2>2, <2>3
  <1>4. ASSUME NEW c \in Caller, Inspect(c) PROVE Typed'
    <2>1. CallerTyped'
      BY <1>0, <1>4, CheckpointTyped DEF CallerTyped, SharedTyped, Inspect, Excess, To, Fails, Place, Holding, Error, Outcome, Reason
    <2>2. SharedTyped'
      BY <1>0, <1>4, CheckpointTyped DEF SharedTyped, CallerTyped, Inspect, Excess, To, Fails, Reason, LockInv
    <2>3. RequestsTyped'
      BY <1>0, <1>4 DEF RequestsTyped, Inspect, Excess, To, Fails
    <2> QED
      BY <2>1, <2>2, <2>3
  <1>5. ASSUME NEW c \in Caller, Admit(c) PROVE Typed'
    <2>1. CallerTyped'
      BY <1>0, <1>5 DEF CallerTyped, SharedTyped, Admit, Observe, To, Fails, Place, Holding, Error, Outcome, Reason
    <2>2. SharedTyped'
      BY <1>0, <1>5, ObservationTyped DEF SharedTyped, CallerTyped, Admit, Observe, To, Fails, Reason, LockInv
    <2>3. RequestsTyped'
      <3>1. Observe(c) /\ (wire' = wire \cup {req'[c]} \/ wire' = wire) /\ orphan' = orphan
        BY <1>5 DEF Admit
      <3> QED
        BY <1>0, <3>1, ObservationTyped DEF RequestsTyped
    <2> QED
      BY <2>1, <2>2, <2>3
  <1>6. ASSUME NEW c \in Caller, GiveUp(c) PROVE Typed'
    <2>1. CallerTyped'
      BY <1>0, <1>6, CheckpointTyped DEF CallerTyped, SharedTyped, GiveUp, TimesOut, Fails, Place, Holding, Error, Outcome, Reason
    <2>2. SharedTyped'
      BY <1>0, <1>6, CheckpointTyped DEF SharedTyped, CallerTyped, GiveUp, TimesOut, Fails, Reason, LockInv
    <2>3. RequestsTyped'
      BY <1>0, <1>6 DEF RequestsTyped, GiveUp, TimesOut, Fails
    <2> QED
      BY <2>1, <2>2, <2>3
  <1>7. ASSUME NEW c \in Caller, Read(c) PROVE Typed'
    <2>1. CallerTyped'
      BY <1>0, <1>7, CheckpointTyped DEF CallerTyped, SharedTyped, Read, TimesOut, To, Fails, Place, Holding, Error, Outcome, Reason
    <2>2. SharedTyped'
      BY <1>0, <1>7, CheckpointTyped DEF SharedTyped, CallerTyped, Read, TimesOut, To, Fails, Reason, LockInv
    <2>3. RequestsTyped'
      BY <1>0, <1>7 DEF RequestsTyped, Read, TimesOut, To, Fails
    <2> QED
      BY <2>1, <2>2, <2>3
  <1>8. ASSUME NEW c \in Caller, Settle(c) PROVE Typed'
    <2>1. CallerTyped'
      BY <1>0, <1>8 DEF CallerTyped, SharedTyped, Settle, To, Place, Holding, Error, Outcome, Reason
    <2>2. SharedTyped'
      BY <1>0, <1>8, SettledTyped DEF SharedTyped, CallerTyped, Settle, To, Reason, LockInv
    <2>3. RequestsTyped'
      BY <1>0, <1>8, SettledTyped DEF RequestsTyped, Settle, To
    <2> QED
      BY <2>1, <2>2, <2>3
  <1>9. ASSUME NEW c \in Caller, Conclude(c) PROVE Typed'
    <2>1. CallerTyped'
      BY <1>0, <1>9, CheckpointTyped DEF CallerTyped, SharedTyped, Conclude, Release, To, Fails, Place, Holding, Error, Outcome, Reason
    <2>2. SharedTyped'
      BY <1>0, <1>9, CheckpointTyped DEF SharedTyped, CallerTyped, Conclude, Release, To, Fails, Reason, LockInv
    <2>3. RequestsTyped'
      BY <1>0, <1>9 DEF RequestsTyped, Conclude, Release, To, Fails
    <2> QED
      BY <2>1, <2>2, <2>3
  <1>10. ASSUME NEW c \in Caller, Leave(c) PROVE Typed'
    <2>1. CallerTyped'
      BY <1>0, <1>10 DEF CallerTyped, SharedTyped, Leave, Surrender, Release, To, Place, Holding, Error, Outcome, Reason
    <2>2. SharedTyped'
      BY <1>0, <1>10 DEF SharedTyped, CallerTyped, Leave, Surrender, Release, To, Reason, LockInv
    <2>3. RequestsTyped'
      BY <1>0, <1>10 DEF RequestsTyped, Leave, Surrender, Release, To
    <2> QED
      BY <2>1, <2>2, <2>3
  <1>11. ASSUME NEW c \in Caller, BackOff(c) PROVE Typed'
    <2>1. CallerTyped'
      BY <1>0, <1>11, CheckpointTyped DEF CallerTyped, SharedTyped, BackOff, To, Ends, ModeInv, Place, Holding, Error, Outcome, Reason
    <2>2. SharedTyped'
      BY <1>0, <1>11, CheckpointTyped DEF SharedTyped, CallerTyped, BackOff, To, Ends, Reason, LockInv
    <2>3. RequestsTyped'
      BY <1>0, <1>11 DEF RequestsTyped, BackOff, To, Ends
    <2> QED
      BY <2>1, <2>2, <2>3
  <1>12. ASSUME NEW c \in Caller, Expand(c) PROVE Typed'
    <2>1. CallerTyped'
      BY <1>0, <1>12, CheckpointTyped, ExpandedTyped DEF CallerTyped, SharedTyped, Expand, Grown, To, Ends, Place, Holding, Error, Outcome, Reason
    <2>2. SharedTyped'
      BY <1>0, <1>12, CheckpointTyped, ExpandedTyped DEF SharedTyped, CallerTyped, Expand, Grown, To, Ends, Reason, LockInv
    <2>3. RequestsTyped'
      BY <1>0, <1>12 DEF RequestsTyped, Expand, Grown, To, Ends
    <2> QED
      BY <2>1, <2>2, <2>3
  <1>13. ASSUME NEW c \in Caller, Outside(c) PROVE Typed'
    <2>1. CallerTyped'
      BY <1>0, <1>13, CheckpointTyped DEF CallerTyped, SharedTyped, Outside, To, Ends, Place, Holding, Error, Outcome, Reason
    <2>2. SharedTyped'
      BY <1>0, <1>13, CheckpointTyped DEF SharedTyped, CallerTyped, Outside, To, Ends, Reason, LockInv
    <2>3. RequestsTyped'
      BY <1>0, <1>13 DEF RequestsTyped, Outside, To, Ends
    <2> QED
      BY <2>1, <2>2, <2>3
  <1>14. ASSUME NEW c \in Caller, Enter(c) PROVE Typed'
    <2>a. UNCHANGED <<limits, lock, permits, orphan, outside, ask>> /\ Reserved(c) \in Nat
      BY <1>0, <1>14, ReservedTyped DEF Enter, CallerTyped
    <2>b. /\ attempts \in Nat /\ MaxRequests \in Nat /\ MaxTokens \in Nat /\ charged \in Int /\ lost \in Nat
          /\ attempts <= MaxRequests
      BY <1>0 DEF SharedTyped
    <2>c. ASSUME ExcessOutside(c) # None PROVE CallerTyped' /\ SharedTyped'
      <3>1. /\ Ends(c, ExcessOutside(c)) /\ incomplete' = ExcessOutside(c)
            /\ UNCHANGED <<attempts, charged, lost, obs, req, wire>>
        BY <1>14, <2>c DEF Enter
      <3>2. ExcessOutside(c) \in {"requests", "tokens"}
        BY <2>c DEF ExcessOutside
      <3>3. CallerTyped'
        BY <1>0, <2>a, <3>1, <3>2 DEF CallerTyped, Ends, Place, Error, Reason
      <3>4. SharedTyped'
        BY <1>0, <2>a, <3>1, <3>2 DEF SharedTyped, Reason
      <3> QED
        BY <3>3, <3>4
    <2>d. ASSUME ExcessOutside(c) = None PROVE CallerTyped' /\ SharedTyped'
      <3>1. attempts < MaxRequests
        BY <2>b, <2>d DEF ExcessOutside, Error, Reason
      <3>2. /\ attempts' = attempts + 1 /\ charged' = charged + Reserved(c)
            /\ lost' = lost \/ lost' = lost + Reserved(c)
            /\ incomplete' = incomplete
        BY <1>14, <2>d DEF Enter, Observe
      <3>3. SharedTyped'
        BY <1>0, <2>a, <2>b, <3>1, <3>2 DEF SharedTyped
      <3>4. (\E e \in Checkpoint(c) : Ends(c, e)) \/ (To(c, "waiting") /\ UNCHANGED result)
        BY <1>14, <2>d DEF Enter
      <3>5. CallerTyped'
        BY <1>0, <2>a, <3>4, CheckpointTyped DEF CallerTyped, To, Ends, Place, Holding
      <3> QED
        BY <3>3, <3>5
    <2>1. CallerTyped' /\ SharedTyped'
      BY <2>c, <2>d
    <2>3. RequestsTyped'
      <3>1. CASE Observe(c) /\ wire' = wire \cup {req'[c]}
        <4>1. wire \subseteq 1..Len(obs) /\ orphan \subseteq 1..Len(obs) /\ orphan' = orphan /\ Len(obs) \in Nat
          BY <1>0, <2>a DEF RequestsTyped
        <4>2. /\ obs' \in Seq(Observation) /\ Len(obs') = Len(obs) + 1
              /\ req' \in [Caller -> 0..Len(obs')] /\ req'[c] = Len(obs) + 1
          BY <3>1, ObservationTyped
        <4>3. wire' \subseteq 1..Len(obs') /\ orphan' \subseteq 1..Len(obs')
          <5>1. req'[c] \in 1..Len(obs')
            BY <4>1, <4>2
          <5>2. 1..Len(obs) \subseteq 1..Len(obs')
            BY <4>1, <4>2
          <5> QED
            BY <3>1, <4>1, <5>1, <5>2
        <4> QED
          BY <4>2, <4>3 DEF RequestsTyped
      <3>2. CASE UNCHANGED <<obs, req, wire>>
        BY <1>0, <2>a, <3>2 DEF RequestsTyped
      <3>3. \/ Observe(c) /\ wire' = wire \cup {req'[c]}
            \/ UNCHANGED <<obs, req, wire>>
        BY <1>14 DEF Enter
      <3> QED
        BY <3>1, <3>2, <3>3
    <2> QED
      BY <2>1, <2>3
  <1>15. ASSUME NEW c \in Caller, ReadOutside(c) PROVE Typed'
    <2>1. CallerTyped'
      BY <1>0, <1>15 DEF CallerTyped, SharedTyped, ReadOutside, To, Place, Holding, Error, Outcome, Reason
    <2>2. SharedTyped'
      BY <1>0, <1>15 DEF SharedTyped, CallerTyped, ReadOutside, To, Reason, LockInv
    <2>3. RequestsTyped'
      BY <1>0, <1>15 DEF RequestsTyped, ReadOutside, To
    <2> QED
      BY <2>1, <2>2, <2>3
  <1>16. ASSUME NEW c \in Caller, ConcludeOutside(c) PROVE Typed'
    <2>1. CallerTyped'
      BY <1>0, <1>16, CheckpointTyped DEF CallerTyped, SharedTyped, ConcludeOutside, To, Ends, Place, Holding, Error, Outcome, Reason
    <2>2. SharedTyped'
      BY <1>0, <1>16, CheckpointTyped DEF SharedTyped, CallerTyped, ConcludeOutside, To, Ends, Reason, LockInv
    <2>3. RequestsTyped'
      BY <1>0, <1>16 DEF RequestsTyped, ConcludeOutside, To, Ends
    <2> QED
      BY <2>1, <2>2, <2>3
  <1>17. ASSUME NEW c \in Caller, Cancel(c) PROVE Typed'
    <2>1. CallerTyped'
      BY <1>0, <1>17 DEF CallerTyped, SharedTyped, Cancel, Place, Holding, Error, Outcome, Reason
    <2>2. SharedTyped'
      BY <1>0, <1>17 DEF SharedTyped, CallerTyped, Cancel, Reason, LockInv
    <2>3. RequestsTyped'
      BY <1>0, <1>17 DEF RequestsTyped, Cancel
    <2> QED
      BY <2>1, <2>2, <2>3
  <1>18. ASSUME Expire PROVE Typed'
    <2>1. CallerTyped'
      BY <1>0, <1>18 DEF Expire, CallerTyped, Outcome
    <2>2. SharedTyped'
      BY <1>0, <1>18 DEF Expire, SharedTyped, Outcome
    <2>3. RequestsTyped'
      BY <1>0, <1>18 DEF Expire, RequestsTyped, Outcome
    <2> QED
      BY <2>1, <2>2, <2>3
  <1>19. ASSUME NEW id \in wire \cup orphan, Answer(id) PROVE Typed'
    <2>1. CallerTyped'
      BY <1>0, <1>19 DEF Answer, CallerTyped, Outcome
    <2>2. SharedTyped'
      BY <1>0, <1>19 DEF Answer, SharedTyped, Outcome
    <2>3. RequestsTyped'
      BY <1>0, <1>19 DEF Answer, RequestsTyped, Outcome
    <2> QED
      BY <2>1, <2>2, <2>3
  <1>20. ASSUME NEW id \in wire \cup orphan, ReleaseOrphan(id) PROVE Typed'
    <2>1. CallerTyped'
      BY <1>0, <1>20 DEF ReleaseOrphan, CallerTyped, Outcome
    <2>2. SharedTyped'
      BY <1>0, <1>20 DEF ReleaseOrphan, SharedTyped, Outcome
    <2>3. RequestsTyped'
      BY <1>0, <1>20 DEF ReleaseOrphan, RequestsTyped, Outcome
    <2> QED
      BY <2>1, <2>2, <2>3
  <1>21. ASSUME UNCHANGED vars PROVE Typed'
    <2>1. CallerTyped'
      BY <1>0, <1>21 DEF vars, CallerTyped
    <2>2. SharedTyped'
      BY <1>0, <1>21 DEF vars, SharedTyped
    <2>3. RequestsTyped'
      BY <1>0, <1>21 DEF vars, RequestsTyped
    <2> QED
      BY <2>1, <2>2, <2>3
  <1>22. ASSUME Next PROVE Typed'
    <2> HIDE DEF Typed
    <2>1. ASSUME \E c \in Caller : Call(c) \/ Step(c) \/ Cancel(c) PROVE Typed'
      BY <2>1, <1>1, <1>2, <1>3, <1>4, <1>5, <1>6, <1>7, <1>8, <1>9, <1>10, <1>11, <1>12,
         <1>13, <1>14, <1>15, <1>16, <1>17 DEF Step
    <2>2. ASSUME Service PROVE Typed'
      BY <2>2, <1>19, <1>20 DEF Service
    <2> QED
      BY <1>22, <2>1, <2>2, <1>18 DEF Next
  <1>23. Typed'
    BY <1>21, <1>22
  <1> QED
    BY <1>23 DEF TypeOK, CallerTyped, SharedTyped, RequestsTyped

-----------------------------------------------------------------------------
(* What a permit, the end of a wait, an answer and a retry change.         *)
LEMMA AcquireMoves ==
    ASSUME NEW c \in Caller, Acquire(c)
    PROVE  /\ pc[c] = "queued" /\ permits > 0 /\ permits' = permits - 1
           /\ \E w \in {"counted", "failing"} : pc' = [pc EXCEPT ![c] = w]
           /\ req' = [req EXCEPT ![c] = 0]
           /\ UNCHANGED <<attempts, obs, lock, wire, orphan, tries>>
  BY DEF Acquire, To, Fails, ask

LEMMA GiveUpMoves ==
    ASSUME NEW c \in Caller, GiveUp(c)
    PROVE  /\ pc[c] = "waiting" /\ pc' = [pc EXCEPT ![c] = "failing"]
           /\ wire' \subseteq wire
           /\ UNCHANGED <<attempts, obs, lock, permits, orphan, tries, req>>
  BY DEF GiveUp, TimesOut, Fails, ask

LEMMA ConcludeMoves ==
    ASSUME NEW c \in Caller, Conclude(c)
    PROVE  /\ pc[c] = "settled"
           /\ \/ pc' = [pc EXCEPT ![c] = "failing"] /\ UNCHANGED permits
              \/ pc' = [pc EXCEPT ![c] = "returned"] /\ permits' = permits + 1
           /\ UNCHANGED <<attempts, obs, lock, wire, orphan, tries, req>>
  BY DEF Conclude, Release, To, Fails, ask

LEMMA BackOffMoves ==
    ASSUME NEW c \in Caller, BackOff(c)
    PROVE  /\ pc[c] = "backoff"
           /\ \E w \in {"raised", "queued"} : pc' = [pc EXCEPT ![c] = w]
           /\ tries' = tries \/ tries' = [tries EXCEPT ![c] = @ + 1]
           /\ UNCHANGED <<attempts, obs, lock, permits, wire, orphan, req>>
  BY DEF BackOff, To, Ends, shared, ask

LEMMA LeaveMoves ==
    ASSUME NEW c \in Caller, Leave(c)
    PROVE  /\ pc[c] = "failing"
           /\ \E w \in {"backoff", "expanding", "raised"} :
                  pc' = [pc EXCEPT ![c] = w] /\ (w = "backoff" => tries[c] < MaxAttempts)
           /\ \/ req[c] \in wire /\ orphan' = orphan \cup {req[c]} /\ UNCHANGED permits
              \/ req[c] \notin wire /\ permits' = permits + 1 /\ UNCHANGED orphan
           /\ UNCHANGED <<attempts, obs, lock, wire, tries, req>>
  <1>1. \E w \in {"backoff", "expanding", "raised"} :
            pc' = [pc EXCEPT ![c] = w] /\ (w = "backoff" => tries[c] < MaxAttempts)
    <2>1. CASE result[c] = "busy" /\ tries[c] < MaxAttempts
      BY <2>1 DEF Leave, To
    <2>2. CASE ~(result[c] = "busy" /\ tries[c] < MaxAttempts) /\ result[c] \in {"truncated", "large"}
      BY <2>2 DEF Leave, To
    <2>3. CASE ~(result[c] = "busy" /\ tries[c] < MaxAttempts) /\ result[c] \notin {"truncated", "large"}
      BY <2>3 DEF Leave, To
    <2> QED
      BY <2>1, <2>2, <2>3
  <1> QED
    BY <1>1 DEF Leave, Surrender, Release, ask

LEMMA AdmitMoves ==
    ASSUME TypeOK, LockInv, NEW c \in Caller, Admit(c)
    PROVE  /\ pc[c] = "inspected" /\ lock = c /\ lock' = None
           /\ obs' \in Seq(Observation) /\ Len(obs') = Len(obs) + 1
           /\ \A i \in 1..Len(obs) : obs'[i].by = obs[i].by
           /\ obs'[Len(obs) + 1].by = c
           /\ req' = [req EXCEPT ![c] = Len(obs) + 1]
           /\ \/ wire' = wire \cup {Len(obs) + 1} /\ pc' = [pc EXCEPT ![c] = "waiting"]
              \/ wire' = wire /\ pc' = [pc EXCEPT ![c] = "failing"]
           /\ UNCHANGED <<permits, orphan, tries>>
  BY ObservationTyped DEF Admit, Observe, To, Fails, LockInv, ask

LEMMA EnterMoves ==
    ASSUME TypeOK, NEW c \in Caller, Enter(c)
    PROVE  /\ pc[c] = "entering" /\ lock = None
           /\ \/ /\ pc' = [pc EXCEPT ![c] = "raised"]
                 /\ UNCHANGED <<obs, req, wire>>
              \/ /\ pc' = [pc EXCEPT ![c] = "waiting"]
                 /\ obs' \in Seq(Observation) /\ Len(obs') = Len(obs) + 1
                 /\ \A i \in 1..Len(obs) : obs'[i].by = obs[i].by
                 /\ obs'[Len(obs) + 1].by = c
                 /\ req' = [req EXCEPT ![c] = Len(obs) + 1]
                 /\ wire' = wire \cup {Len(obs) + 1}
           /\ UNCHANGED <<lock, permits, orphan, tries>>
  BY ObservationTyped DEF Enter, Observe, To, Ends, ask

(* The lock is held by who has been inspected and not yet observed.        *)
LEMMA LockStep ==
    ASSUME TypeOK, ModeInv, LockInv, [Next]_vars
    PROVE  LockInv'
  <1> USE DEF shared, outside, ask
  <1>0. pc \in [Caller -> Place] /\ lock \in Caller \cup {None} /\ attempts \in Nat /\ None \notin Caller
    BY BudgetAssumption DEF TypeOK
  <1>1. ASSUME NEW c \in Caller, Call(c) PROVE LockInv'
    BY <1>0, <1>1 DEF Call, To, LockInv, ModeInv, OutsidePlace
  <1>2. ASSUME NEW c \in Caller, Acquire(c), Mode[c] # "external" PROVE LockInv'
    BY <1>0, <1>2, AcquireMoves DEF LockInv, ModeInv, OutsidePlace
  <1>3. ASSUME NEW c \in Caller, CheckQueue(c), Mode[c] # "external" PROVE LockInv'
    BY <1>0, <1>3 DEF CheckQueue, Ends, LockInv, ModeInv, OutsidePlace
  <1>4. ASSUME NEW c \in Caller, Inspect(c), Mode[c] # "external" PROVE LockInv'
    <2>1. lock' # None => attempts < MaxRequests
      BY <1>0, <1>4, BudgetAssumption DEF Inspect, Excess, To, Fails, LockInv, TypeOK, Error, Reason
    <2> QED
      BY <1>0, <1>4, <2>1 DEF Inspect, To, Fails, LockInv
  <1>5. ASSUME NEW c \in Caller, Admit(c), Mode[c] # "external" PROVE LockInv'
    BY <1>0, <1>5, AdmitMoves DEF LockInv, ModeInv, OutsidePlace
  <1>6. ASSUME NEW c \in Caller, GiveUp(c), Mode[c] # "external" PROVE LockInv'
    BY <1>0, <1>6, GiveUpMoves DEF LockInv, ModeInv, OutsidePlace
  <1>7. ASSUME NEW c \in Caller, Read(c), Mode[c] # "external" PROVE LockInv'
    BY <1>0, <1>7 DEF Read, TimesOut, To, Fails, LockInv, ModeInv, OutsidePlace
  <1>8. ASSUME NEW c \in Caller, Settle(c) PROVE LockInv'
    BY <1>0, <1>8 DEF Settle, To, LockInv, ModeInv, OutsidePlace
  <1>9. ASSUME NEW c \in Caller, Conclude(c), Mode[c] # "external" PROVE LockInv'
    BY <1>0, <1>9, ConcludeMoves DEF LockInv, ModeInv, OutsidePlace
  <1>10. ASSUME NEW c \in Caller, Leave(c), Mode[c] # "external" PROVE LockInv'
    BY <1>0, <1>10, LeaveMoves DEF LockInv, ModeInv, OutsidePlace
  <1>11. ASSUME NEW c \in Caller, BackOff(c), Mode[c] # "external" PROVE LockInv'
    BY <1>0, <1>11, BackOffMoves DEF LockInv, ModeInv, OutsidePlace
  <1>12. ASSUME NEW c \in Caller, Expand(c), Mode[c] # "external" PROVE LockInv'
    BY <1>0, <1>12 DEF Expand, To, Ends, LockInv, ModeInv, OutsidePlace
  <1>13. ASSUME NEW c \in Caller, Outside(c), Mode[c] = "external" PROVE LockInv'
    BY <1>0, <1>13 DEF Outside, To, Ends, LockInv, ModeInv, OutsidePlace
  <1>14. ASSUME NEW c \in Caller, Enter(c), Mode[c] = "external" PROVE LockInv'
    BY <1>0, <1>14 DEF Enter, To, Ends, LockInv
  <1>15. ASSUME NEW c \in Caller, ReadOutside(c), Mode[c] = "external" PROVE LockInv'
    BY <1>0, <1>15 DEF ReadOutside, To, LockInv, ModeInv, OutsidePlace
  <1>16. ASSUME NEW c \in Caller, ConcludeOutside(c), Mode[c] = "external" PROVE LockInv'
    BY <1>0, <1>16 DEF ConcludeOutside, To, Ends, LockInv, ModeInv, OutsidePlace
  <1>17. ASSUME NEW c \in Caller, Cancel(c) PROVE LockInv'
    BY <1>0, <1>17 DEF Cancel, LockInv, ModeInv, OutsidePlace
  <1>18. ASSUME NEW id \in wire \cup orphan, Answer(id) PROVE LockInv'
    BY <1>0, <1>18 DEF Answer, LockInv, ModeInv, OutsidePlace
  <1>19. ASSUME NEW id \in wire \cup orphan, ReleaseOrphan(id) PROVE LockInv'
    BY <1>0, <1>19 DEF ReleaseOrphan, LockInv, ModeInv, OutsidePlace
  <1>20. ASSUME Expire PROVE LockInv'
    BY <1>0, <1>20 DEF Expire, LockInv, ModeInv, OutsidePlace
  <1>21. ASSUME UNCHANGED vars PROVE LockInv'
    BY <1>0, <1>21 DEF vars, LockInv, ModeInv, OutsidePlace
  <1>22. ASSUME Next PROVE LockInv'
    <2>1. ASSUME NEW c \in Caller, Call(c) \/ Step(c) \/ Cancel(c) PROVE LockInv'
      BY <2>1, <1>1, <1>2, <1>3, <1>4, <1>5, <1>6, <1>7, <1>8, <1>9, <1>10, <1>11, <1>12, <1>13, <1>14, <1>15, <1>16, <1>17 DEF Step
    <2> QED
      BY <1>22, <2>1, <1>18, <1>19, <1>20 DEF Next, Service
  <1> QED
    BY <1>21, <1>22

(* Each way of asking keeps to its own places.                             *)
LEMMA ModeStep ==
    ASSUME TypeOK, LockInv, ModeInv, RequestInv, [Next]_vars
    PROVE  ModeInv'
  <1> USE DEF shared, outside, ask
  <1>0. pc \in [Caller -> Place] /\ tries \in [Caller -> 0..MaxAttempts]
    BY BudgetAssumption DEF TypeOK
  <1>1. ASSUME NEW c \in Caller, Call(c) PROVE ModeInv'
    BY <1>0, <1>1 DEF Call, To, ModeInv, OutsidePlace
  <1>2. ASSUME NEW c \in Caller, Acquire(c), Mode[c] # "external" PROVE ModeInv'
    BY <1>0, <1>2, AcquireMoves DEF ModeInv, OutsidePlace
  <1>3. ASSUME NEW c \in Caller, CheckQueue(c), Mode[c] # "external" PROVE ModeInv'
    BY <1>0, <1>3 DEF CheckQueue, Ends, ModeInv, OutsidePlace
  <1>4. ASSUME NEW c \in Caller, Inspect(c), Mode[c] # "external" PROVE ModeInv'
    BY <1>0, <1>4 DEF Inspect, To, Fails, ModeInv, OutsidePlace
  <1>5. ASSUME NEW c \in Caller, Admit(c), Mode[c] # "external" PROVE ModeInv'
    BY <1>0, <1>5, AdmitMoves DEF ModeInv, OutsidePlace
  <1>6. ASSUME NEW c \in Caller, GiveUp(c), Mode[c] # "external" PROVE ModeInv'
    BY <1>0, <1>6, GiveUpMoves DEF ModeInv, OutsidePlace
  <1>7. ASSUME NEW c \in Caller, Read(c), Mode[c] # "external" PROVE ModeInv'
    BY <1>0, <1>7 DEF Read, TimesOut, To, Fails, ModeInv, OutsidePlace
  <1>8. ASSUME NEW c \in Caller, Settle(c) PROVE ModeInv'
    BY <1>0, <1>8 DEF Settle, To, ModeInv, OutsidePlace
  <1>9. ASSUME NEW c \in Caller, Conclude(c), Mode[c] # "external" PROVE ModeInv'
    BY <1>0, <1>9, ConcludeMoves DEF ModeInv, OutsidePlace
  <1>10. ASSUME NEW c \in Caller, Leave(c), Mode[c] # "external" PROVE ModeInv'
    BY <1>0, <1>10, LeaveMoves DEF ModeInv, OutsidePlace
  <1>11. ASSUME NEW c \in Caller, BackOff(c), Mode[c] # "external" PROVE ModeInv'
    BY <1>0, <1>11, BackOffMoves DEF ModeInv, OutsidePlace
  <1>12. ASSUME NEW c \in Caller, Expand(c), Mode[c] # "external" PROVE ModeInv'
    BY <1>0, <1>12 DEF Expand, To, Ends, ModeInv, OutsidePlace
  <1>13. ASSUME NEW c \in Caller, Outside(c), Mode[c] = "external" PROVE ModeInv'
    BY <1>0, <1>13 DEF Outside, To, Ends, ModeInv, OutsidePlace
  <1>14. ASSUME NEW c \in Caller, Enter(c), Mode[c] = "external" PROVE ModeInv'
    BY <1>0, <1>14, EnterMoves DEF ModeInv, OutsidePlace
  <1>15. ASSUME NEW c \in Caller, ReadOutside(c), Mode[c] = "external" PROVE ModeInv'
    BY <1>0, <1>15 DEF ReadOutside, To, ModeInv, OutsidePlace
  <1>16. ASSUME NEW c \in Caller, ConcludeOutside(c), Mode[c] = "external" PROVE ModeInv'
    BY <1>0, <1>16 DEF ConcludeOutside, To, Ends, ModeInv, OutsidePlace
  <1>17. ASSUME NEW c \in Caller, Cancel(c) PROVE ModeInv'
    BY <1>0, <1>17 DEF Cancel, ModeInv, OutsidePlace
  <1>18. ASSUME NEW id \in wire \cup orphan, Answer(id) PROVE ModeInv'
    BY <1>0, <1>18 DEF Answer, ModeInv, OutsidePlace
  <1>19. ASSUME NEW id \in wire \cup orphan, ReleaseOrphan(id) PROVE ModeInv'
    BY <1>0, <1>19 DEF ReleaseOrphan, ModeInv, OutsidePlace
  <1>20. ASSUME Expire PROVE ModeInv'
    BY <1>0, <1>20 DEF Expire, ModeInv, OutsidePlace
  <1>21. ASSUME UNCHANGED vars PROVE ModeInv'
    BY <1>0, <1>21 DEF vars, ModeInv, OutsidePlace
  <1>22. ASSUME Next PROVE ModeInv'
    <2>1. ASSUME NEW c \in Caller, Call(c) \/ Step(c) \/ Cancel(c) PROVE ModeInv'
      BY <2>1, <1>1, <1>2, <1>3, <1>4, <1>5, <1>6, <1>7, <1>8, <1>9, <1>10, <1>11, <1>12, <1>13, <1>14, <1>15, <1>16, <1>17 DEF Step
    <2> QED
      BY <1>22, <2>1, <1>18, <1>19, <1>20 DEF Next, Service
  <1> QED
    BY <1>21, <1>22

(* A request belongs to the caller that waits for it.                      *)
LEMMA RequestStep ==
    ASSUME TypeOK, LockInv, ModeInv, RequestInv, [Next]_vars
    PROVE  RequestInv'
  <1> USE DEF shared, outside, ask
  <1>0. pc \in [Caller -> Place] /\ req \in [Caller -> 0..Len(obs)] /\ wire \subseteq 1..Len(obs) /\ orphan \subseteq 1..Len(obs)
           /\ Len(obs) \in Nat
    BY BudgetAssumption DEF TypeOK
  <1>1. ASSUME NEW c \in Caller, Call(c) PROVE RequestInv'
    BY <1>0, <1>1 DEF Call, To, RequestInv, Holders, Holding
  <1>2. ASSUME NEW c \in Caller, Acquire(c), Mode[c] # "external" PROVE RequestInv'
    BY <1>0, <1>2, AcquireMoves DEF RequestInv, Holders, Holding
  <1>3. ASSUME NEW c \in Caller, CheckQueue(c), Mode[c] # "external" PROVE RequestInv'
    BY <1>0, <1>3 DEF CheckQueue, Ends, RequestInv, Holders, Holding
  <1>4. ASSUME NEW c \in Caller, Inspect(c), Mode[c] # "external" PROVE RequestInv'
    BY <1>0, <1>4 DEF Inspect, To, Fails, RequestInv, Holders, Holding
  <1>5. ASSUME NEW c \in Caller, Admit(c), Mode[c] # "external" PROVE RequestInv'
    BY <1>0, <1>5, AdmitMoves DEF RequestInv, Holders, Holding
  <1>6. ASSUME NEW c \in Caller, GiveUp(c), Mode[c] # "external" PROVE RequestInv'
    BY <1>0, <1>6, GiveUpMoves DEF RequestInv, Holders, Holding
  <1>7. ASSUME NEW c \in Caller, Read(c), Mode[c] # "external" PROVE RequestInv'
    BY <1>0, <1>7 DEF Read, TimesOut, To, Fails, RequestInv, Holders, Holding
  <1>8. ASSUME NEW c \in Caller, Settle(c) PROVE RequestInv'
    BY <1>0, <1>8, SettledTyped DEF Settle, To, RequestInv, Holders, Holding
  <1>9. ASSUME NEW c \in Caller, Conclude(c), Mode[c] # "external" PROVE RequestInv'
    BY <1>0, <1>9, ConcludeMoves DEF RequestInv, Holders, Holding
  <1>10. ASSUME NEW c \in Caller, Leave(c), Mode[c] # "external" PROVE RequestInv'
    BY <1>0, <1>10, LeaveMoves DEF RequestInv, Holders, Holding
  <1>11. ASSUME NEW c \in Caller, BackOff(c), Mode[c] # "external" PROVE RequestInv'
    BY <1>0, <1>11, BackOffMoves DEF RequestInv, Holders, Holding
  <1>12. ASSUME NEW c \in Caller, Expand(c), Mode[c] # "external" PROVE RequestInv'
    BY <1>0, <1>12 DEF Expand, To, Ends, RequestInv, Holders, Holding
  <1>13. ASSUME NEW c \in Caller, Outside(c), Mode[c] = "external" PROVE RequestInv'
    BY <1>0, <1>13 DEF Outside, To, Ends, RequestInv, Holders, Holding
  <1>14. ASSUME NEW c \in Caller, Enter(c), Mode[c] = "external" PROVE RequestInv'
    BY <1>0, <1>14, EnterMoves DEF RequestInv, Holders, Holding
  <1>15. ASSUME NEW c \in Caller, ReadOutside(c), Mode[c] = "external" PROVE RequestInv'
    BY <1>0, <1>15 DEF ReadOutside, To, RequestInv, Holders, Holding
  <1>16. ASSUME NEW c \in Caller, ConcludeOutside(c), Mode[c] = "external" PROVE RequestInv'
    BY <1>0, <1>16 DEF ConcludeOutside, To, Ends, RequestInv, Holders, Holding
  <1>17. ASSUME NEW c \in Caller, Cancel(c) PROVE RequestInv'
    BY <1>0, <1>17 DEF Cancel, RequestInv, Holders, Holding
  <1>18. ASSUME NEW id \in wire \cup orphan, Answer(id) PROVE RequestInv'
    BY <1>0, <1>18 DEF Answer, RequestInv, Holders, Holding
  <1>19. ASSUME NEW id \in wire \cup orphan, ReleaseOrphan(id) PROVE RequestInv'
    BY <1>0, <1>19 DEF ReleaseOrphan, RequestInv, Holders, Holding
  <1>20. ASSUME Expire PROVE RequestInv'
    BY <1>0, <1>20 DEF Expire, RequestInv, Holders, Holding
  <1>21. ASSUME UNCHANGED vars PROVE RequestInv'
    BY <1>0, <1>21 DEF vars, RequestInv, Holders, Holding
  <1>22. ASSUME Next PROVE RequestInv'
    <2>1. ASSUME NEW c \in Caller, Call(c) \/ Step(c) \/ Cancel(c) PROVE RequestInv'
      BY <2>1, <1>1, <1>2, <1>3, <1>4, <1>5, <1>6, <1>7, <1>8, <1>9, <1>10, <1>11, <1>12, <1>13, <1>14, <1>15, <1>16, <1>17 DEF Step
    <2> QED
      BY <1>22, <2>1, <1>18, <1>19, <1>20 DEF Next, Service
  <1> QED
    BY <1>21, <1>22

(* A request that was read has ended.                                      *)
LEMMA ReadStep ==
    ASSUME TypeOK, LockInv, ModeInv, RequestInv, ReadInv, [Next]_vars
    PROVE  ReadInv'
  <1> USE DEF shared, outside, ask
  <1>0. pc \in [Caller -> Place] /\ req \in [Caller -> 0..Len(obs)] /\ wire \subseteq 1..Len(obs) /\ orphan \subseteq 1..Len(obs)
           /\ Len(obs) \in Nat
    BY BudgetAssumption DEF TypeOK
  <1>1. ASSUME NEW c \in Caller, Call(c) PROVE ReadInv'
    BY <1>0, <1>1 DEF Call, To, ReadInv
  <1>2. ASSUME NEW c \in Caller, Acquire(c), Mode[c] # "external" PROVE ReadInv'
    BY <1>0, <1>2, AcquireMoves DEF ReadInv
  <1>3. ASSUME NEW c \in Caller, CheckQueue(c), Mode[c] # "external" PROVE ReadInv'
    BY <1>0, <1>3 DEF CheckQueue, Ends, ReadInv
  <1>4. ASSUME NEW c \in Caller, Inspect(c), Mode[c] # "external" PROVE ReadInv'
    BY <1>0, <1>4 DEF Inspect, To, Fails, ReadInv
  <1>5. ASSUME NEW c \in Caller, Admit(c), Mode[c] # "external" PROVE ReadInv'
    BY <1>0, <1>5, AdmitMoves DEF ReadInv
  <1>6. ASSUME NEW c \in Caller, GiveUp(c), Mode[c] # "external" PROVE ReadInv'
    BY <1>0, <1>6, GiveUpMoves DEF ReadInv
  <1>7. ASSUME NEW c \in Caller, Read(c), Mode[c] # "external" PROVE ReadInv'
    BY <1>0, <1>7 DEF Read, TimesOut, To, Fails, ReadInv
  <1>8. ASSUME NEW c \in Caller, Settle(c) PROVE ReadInv'
    BY <1>0, <1>8, SettledTyped DEF Settle, To, ReadInv
  <1>9. ASSUME NEW c \in Caller, Conclude(c), Mode[c] # "external" PROVE ReadInv'
    BY <1>0, <1>9, ConcludeMoves DEF ReadInv
  <1>10. ASSUME NEW c \in Caller, Leave(c), Mode[c] # "external" PROVE ReadInv'
    BY <1>0, <1>10, LeaveMoves DEF ReadInv
  <1>11. ASSUME NEW c \in Caller, BackOff(c), Mode[c] # "external" PROVE ReadInv'
    BY <1>0, <1>11, BackOffMoves DEF ReadInv
  <1>12. ASSUME NEW c \in Caller, Expand(c), Mode[c] # "external" PROVE ReadInv'
    BY <1>0, <1>12 DEF Expand, To, Ends, ReadInv
  <1>13. ASSUME NEW c \in Caller, Outside(c), Mode[c] = "external" PROVE ReadInv'
    BY <1>0, <1>13 DEF Outside, To, Ends, ReadInv
  <1>14. ASSUME NEW c \in Caller, Enter(c), Mode[c] = "external" PROVE ReadInv'
    BY <1>0, <1>14, EnterMoves DEF ReadInv
  <1>15. ASSUME NEW c \in Caller, ReadOutside(c), Mode[c] = "external" PROVE ReadInv'
    BY <1>0, <1>15 DEF ReadOutside, To, ReadInv
  <1>16. ASSUME NEW c \in Caller, ConcludeOutside(c), Mode[c] = "external" PROVE ReadInv'
    BY <1>0, <1>16 DEF ConcludeOutside, To, Ends, ReadInv
  <1>17. ASSUME NEW c \in Caller, Cancel(c) PROVE ReadInv'
    BY <1>0, <1>17 DEF Cancel, ReadInv
  <1>18. ASSUME NEW id \in wire \cup orphan, Answer(id) PROVE ReadInv'
    BY <1>0, <1>18 DEF Answer, ReadInv
  <1>19. ASSUME NEW id \in wire \cup orphan, ReleaseOrphan(id) PROVE ReadInv'
    BY <1>0, <1>19 DEF ReleaseOrphan, ReadInv
  <1>20. ASSUME Expire PROVE ReadInv'
    BY <1>0, <1>20 DEF Expire, ReadInv
  <1>21. ASSUME UNCHANGED vars PROVE ReadInv'
    BY <1>0, <1>21 DEF vars, ReadInv
  <1>22. ASSUME Next PROVE ReadInv'
    <2>1. ASSUME NEW c \in Caller, Call(c) \/ Step(c) \/ Cancel(c) PROVE ReadInv'
      BY <2>1, <1>1, <1>2, <1>3, <1>4, <1>5, <1>6, <1>7, <1>8, <1>9, <1>10, <1>11, <1>12, <1>13, <1>14, <1>15, <1>16, <1>17 DEF Step
    <2> QED
      BY <1>22, <2>1, <1>18, <1>19, <1>20 DEF Next, Service
  <1> QED
    BY <1>21, <1>22

(* A request under way has a permit.                                       *)
LEMMA CoverStep ==
    ASSUME TypeOK, LockInv, ModeInv, RequestInv, ReadInv, CoverInv, [Next]_vars
    PROVE  CoverInv'
  <1> USE DEF shared, outside, ask
  <1>0. pc \in [Caller -> Place] /\ req \in [Caller -> 0..Len(obs)] /\ wire \subseteq 1..Len(obs) /\ orphan \subseteq 1..Len(obs)
           /\ Len(obs) \in Nat
    BY BudgetAssumption DEF TypeOK
  <1>1. ASSUME NEW c \in Caller, Call(c) PROVE CoverInv'
    BY <1>0, <1>1 DEF Call, To, CoverInv, RequestInv, Holders, Holding
  <1>2. ASSUME NEW c \in Caller, Acquire(c), Mode[c] # "external" PROVE CoverInv'
    <2>1. Holders' = Holders \cup {c} /\ c \notin Holders
      BY <1>0, <1>2, AcquireMoves DEF Holders, Holding
    <2>2. ASSUME NEW id \in wire', id \in wire
          PROVE  \/ Mode[obs'[id].by] = "external"
                 \/ id \in orphan'
                 \/ obs'[id].by \in Holders' /\ req'[obs'[id].by] = id
      <3>1. obs'[id].by = obs[id].by
        BY <1>0, <1>2, <2>2, AcquireMoves
      <3>2. CASE Mode[obs[id].by] = "external" \/ id \in orphan
        BY <1>2, <3>1, <3>2, AcquireMoves
      <3>3. CASE obs[id].by \in Holders /\ req[obs[id].by] = id
        <4>1. obs[id].by \in Caller
          BY <3>3 DEF Holders
        <4>2. CASE obs[id].by # c
          BY <1>0, <1>2, <2>1, <3>1, <3>3, <4>1, <4>2, AcquireMoves
        <4>3. CASE obs[id].by = c
          BY <1>0, <1>2, <2>1, <2>2, <3>1, <3>3, <4>3, AcquireMoves DEF RequestInv, ReadInv
        <4> QED
          BY <4>2, <4>3
      <3> QED
        BY <2>2, <3>2, <3>3 DEF CoverInv
    <2> QED
      BY <1>0, <1>2, <2>1, <2>2, AcquireMoves DEF CoverInv
  <1>3. ASSUME NEW c \in Caller, CheckQueue(c), Mode[c] # "external" PROVE CoverInv'
    BY <1>0, <1>3 DEF CheckQueue, Ends, CoverInv, RequestInv, Holders, Holding
  <1>4. ASSUME NEW c \in Caller, Inspect(c), Mode[c] # "external" PROVE CoverInv'
    BY <1>0, <1>4 DEF Inspect, To, Fails, CoverInv, RequestInv, Holders, Holding
  <1>5. ASSUME NEW c \in Caller, Admit(c), Mode[c] # "external" PROVE CoverInv'
    <2>1. Holders' = Holders /\ c \in Holders
      BY <1>0, <1>5, AdmitMoves DEF Holders, Holding
    <2>2. ASSUME NEW id \in wire', id \in wire
          PROVE  \/ Mode[obs'[id].by] = "external"
                 \/ id \in orphan'
                 \/ obs'[id].by \in Holders' /\ req'[obs'[id].by] = id
      <3>1. obs'[id].by = obs[id].by
        BY <1>0, <1>5, <2>2, AdmitMoves
      <3>2. CASE Mode[obs[id].by] = "external" \/ id \in orphan
        BY <1>5, <3>1, <3>2, AdmitMoves
      <3>3. CASE obs[id].by \in Holders /\ req[obs[id].by] = id
        <4>1. obs[id].by \in Caller
          BY <3>3 DEF Holders
        <4>2. CASE obs[id].by # c
          BY <1>0, <1>5, <2>1, <3>1, <3>3, <4>1, <4>2, AdmitMoves
        <4>3. CASE obs[id].by = c
          BY <1>0, <1>5, <2>1, <2>2, <3>1, <3>3, <4>3, AdmitMoves DEF RequestInv, ReadInv
        <4> QED
          BY <4>2, <4>3
      <3> QED
        BY <2>2, <3>2, <3>3 DEF CoverInv
    <2> QED
      BY <1>0, <1>5, <2>1, <2>2, AdmitMoves DEF CoverInv
  <1>6. ASSUME NEW c \in Caller, GiveUp(c), Mode[c] # "external" PROVE CoverInv'
    <2>1. Holders' = Holders
      BY <1>0, <1>6, GiveUpMoves DEF Holders, Holding
    <2>2. ASSUME NEW id \in wire', id \in wire
          PROVE  \/ Mode[obs'[id].by] = "external"
                 \/ id \in orphan'
                 \/ obs'[id].by \in Holders' /\ req'[obs'[id].by] = id
      <3>1. obs'[id].by = obs[id].by
        BY <1>0, <1>6, <2>2, GiveUpMoves
      <3>2. CASE Mode[obs[id].by] = "external" \/ id \in orphan
        BY <1>6, <3>1, <3>2, GiveUpMoves
      <3>3. CASE obs[id].by \in Holders /\ req[obs[id].by] = id
        <4>1. obs[id].by \in Caller
          BY <3>3 DEF Holders
        <4>2. CASE obs[id].by # c
          BY <1>0, <1>6, <2>1, <3>1, <3>3, <4>1, <4>2, GiveUpMoves
        <4>3. CASE obs[id].by = c
          BY <1>0, <1>6, <2>1, <2>2, <3>1, <3>3, <4>3, GiveUpMoves DEF RequestInv, ReadInv
        <4> QED
          BY <4>2, <4>3
      <3> QED
        BY <2>2, <3>2, <3>3 DEF CoverInv
    <2> QED
      BY <1>0, <1>6, <2>1, <2>2, GiveUpMoves DEF CoverInv
  <1>7. ASSUME NEW c \in Caller, Read(c), Mode[c] # "external" PROVE CoverInv'
    BY <1>0, <1>7 DEF Read, TimesOut, To, Fails, CoverInv, RequestInv, Holders, Holding
  <1>8. ASSUME NEW c \in Caller, Settle(c) PROVE CoverInv'
    BY <1>0, <1>8, SettledTyped DEF Settle, To, CoverInv, RequestInv, Holders, Holding
  <1>9. ASSUME NEW c \in Caller, Conclude(c), Mode[c] # "external" PROVE CoverInv'
    <2>1. Holders' = Holders \/ Holders' = Holders \ {c}
      BY <1>0, <1>9, ConcludeMoves DEF Holders, Holding
    <2>2. ASSUME NEW id \in wire', id \in wire
          PROVE  \/ Mode[obs'[id].by] = "external"
                 \/ id \in orphan'
                 \/ obs'[id].by \in Holders' /\ req'[obs'[id].by] = id
      <3>1. obs'[id].by = obs[id].by
        BY <1>0, <1>9, <2>2, ConcludeMoves
      <3>2. CASE Mode[obs[id].by] = "external" \/ id \in orphan
        BY <1>9, <3>1, <3>2, ConcludeMoves
      <3>3. CASE obs[id].by \in Holders /\ req[obs[id].by] = id
        <4>1. obs[id].by \in Caller
          BY <3>3 DEF Holders
        <4>2. CASE obs[id].by # c
          BY <1>0, <1>9, <2>1, <3>1, <3>3, <4>1, <4>2, ConcludeMoves
        <4>3. CASE obs[id].by = c
          BY <1>0, <1>9, <2>1, <2>2, <3>1, <3>3, <4>3, ConcludeMoves DEF RequestInv, ReadInv
        <4> QED
          BY <4>2, <4>3
      <3> QED
        BY <2>2, <3>2, <3>3 DEF CoverInv
    <2> QED
      BY <1>0, <1>9, <2>1, <2>2, ConcludeMoves DEF CoverInv
  <1>10. ASSUME NEW c \in Caller, Leave(c), Mode[c] # "external" PROVE CoverInv'
    <2>1. Holders' = Holders \ {c} /\ c \in Holders
      BY <1>0, <1>10, LeaveMoves DEF Holders, Holding
    <2>2. ASSUME NEW id \in wire', id \in wire
          PROVE  \/ Mode[obs'[id].by] = "external"
                 \/ id \in orphan'
                 \/ obs'[id].by \in Holders' /\ req'[obs'[id].by] = id
      <3>1. obs'[id].by = obs[id].by
        BY <1>0, <1>10, <2>2, LeaveMoves
      <3>2. CASE Mode[obs[id].by] = "external" \/ id \in orphan
        BY <1>10, <3>1, <3>2, LeaveMoves
      <3>3. CASE obs[id].by \in Holders /\ req[obs[id].by] = id
        <4>1. obs[id].by \in Caller
          BY <3>3 DEF Holders
        <4>2. CASE obs[id].by # c
          BY <1>0, <1>10, <2>1, <3>1, <3>3, <4>1, <4>2, LeaveMoves
        <4>3. CASE obs[id].by = c
          BY <1>0, <1>10, <2>1, <2>2, <3>1, <3>3, <4>3, LeaveMoves DEF RequestInv, ReadInv
        <4> QED
          BY <4>2, <4>3
      <3> QED
        BY <2>2, <3>2, <3>3 DEF CoverInv
    <2> QED
      BY <1>0, <1>10, <2>1, <2>2, LeaveMoves DEF CoverInv
  <1>11. ASSUME NEW c \in Caller, BackOff(c), Mode[c] # "external" PROVE CoverInv'
    <2>1. Holders' = Holders /\ c \notin Holders
      BY <1>0, <1>11, BackOffMoves DEF Holders, Holding
    <2>2. ASSUME NEW id \in wire', id \in wire
          PROVE  \/ Mode[obs'[id].by] = "external"
                 \/ id \in orphan'
                 \/ obs'[id].by \in Holders' /\ req'[obs'[id].by] = id
      <3>1. obs'[id].by = obs[id].by
        BY <1>0, <1>11, <2>2, BackOffMoves
      <3>2. CASE Mode[obs[id].by] = "external" \/ id \in orphan
        BY <1>11, <3>1, <3>2, BackOffMoves
      <3>3. CASE obs[id].by \in Holders /\ req[obs[id].by] = id
        <4>1. obs[id].by \in Caller
          BY <3>3 DEF Holders
        <4>2. CASE obs[id].by # c
          BY <1>0, <1>11, <2>1, <3>1, <3>3, <4>1, <4>2, BackOffMoves
        <4>3. CASE obs[id].by = c
          BY <1>0, <1>11, <2>1, <2>2, <3>1, <3>3, <4>3, BackOffMoves DEF RequestInv, ReadInv
        <4> QED
          BY <4>2, <4>3
      <3> QED
        BY <2>2, <3>2, <3>3 DEF CoverInv
    <2> QED
      BY <1>0, <1>11, <2>1, <2>2, BackOffMoves DEF CoverInv
  <1>12. ASSUME NEW c \in Caller, Expand(c), Mode[c] # "external" PROVE CoverInv'
    BY <1>0, <1>12 DEF Expand, To, Ends, CoverInv, RequestInv, Holders, Holding
  <1>13. ASSUME NEW c \in Caller, Outside(c), Mode[c] = "external" PROVE CoverInv'
    BY <1>0, <1>13 DEF Outside, To, Ends, CoverInv, RequestInv, Holders, Holding
  <1>14. ASSUME NEW c \in Caller, Enter(c), Mode[c] = "external" PROVE CoverInv'
    BY <1>0, <1>14, EnterMoves DEF CoverInv, RequestInv, Holders, Holding
  <1>15. ASSUME NEW c \in Caller, ReadOutside(c), Mode[c] = "external" PROVE CoverInv'
    BY <1>0, <1>15 DEF ReadOutside, To, CoverInv, RequestInv, Holders, Holding
  <1>16. ASSUME NEW c \in Caller, ConcludeOutside(c), Mode[c] = "external" PROVE CoverInv'
    BY <1>0, <1>16 DEF ConcludeOutside, To, Ends, CoverInv, RequestInv, Holders, Holding
  <1>17. ASSUME NEW c \in Caller, Cancel(c) PROVE CoverInv'
    BY <1>0, <1>17 DEF Cancel, CoverInv, RequestInv, Holders, Holding
  <1>18. ASSUME NEW id \in wire \cup orphan, Answer(id) PROVE CoverInv'
    BY <1>0, <1>18 DEF Answer, CoverInv, RequestInv, Holders, Holding
  <1>19. ASSUME NEW id \in wire \cup orphan, ReleaseOrphan(id) PROVE CoverInv'
    BY <1>0, <1>19 DEF ReleaseOrphan, CoverInv, RequestInv, Holders, Holding
  <1>20. ASSUME Expire PROVE CoverInv'
    BY <1>0, <1>20 DEF Expire, CoverInv, RequestInv, Holders, Holding
  <1>21. ASSUME UNCHANGED vars PROVE CoverInv'
    BY <1>0, <1>21 DEF vars, CoverInv, RequestInv, Holders, Holding
  <1>22. ASSUME Next PROVE CoverInv'
    <2>1. ASSUME NEW c \in Caller, Call(c) \/ Step(c) \/ Cancel(c) PROVE CoverInv'
      BY <2>1, <1>1, <1>2, <1>3, <1>4, <1>5, <1>6, <1>7, <1>8, <1>9, <1>10, <1>11, <1>12, <1>13, <1>14, <1>15, <1>16, <1>17 DEF Step
    <2> QED
      BY <1>22, <2>1, <1>18, <1>19, <1>20 DEF Next, Service
  <1> QED
    BY <1>21, <1>22

(* A step moves at most one permit.                                        *)
PermitMoves ==
    \/ UNCHANGED <<Holders, permits, orphan>>
    \/ \E c \in Caller \ Holders :
          Holders' = Holders \cup {c} /\ permits > 0 /\ permits' = permits - 1 /\ orphan' = orphan
    \/ \E c \in Holders :
          Holders' = Holders \ {c} /\ permits' = permits + 1 /\ orphan' = orphan
    \/ \E c \in Holders :
          Holders' = Holders \ {c} /\ permits' = permits
          /\ req[c] \notin orphan /\ orphan' = orphan \cup {req[c]}
    \/ \E id \in orphan :
          Holders' = Holders /\ permits' = permits + 1 /\ orphan' = orphan \ {id}

(* Who takes a permit, who gives it back, who leaves it with its transport.*)
LEMMA PermitStep ==
    ASSUME TypeOK, LockInv, ModeInv, RequestInv, [Next]_vars
    PROVE  PermitMoves
  <1> USE DEF shared, outside, ask
  <1>0. pc \in [Caller -> Place]
    BY BudgetAssumption DEF TypeOK
  <1>1. ASSUME NEW c \in Caller, Call(c) PROVE PermitMoves
    BY <1>0, <1>1 DEF Call, To, PermitMoves, Holders, Holding
  <1>2. ASSUME NEW c \in Caller, Acquire(c), Mode[c] # "external" PROVE PermitMoves
    <2>1. Holders' = Holders \cup {c} /\ c \notin Holders
      BY <1>0, <1>2, AcquireMoves DEF Holders, Holding
    <2> QED
      BY <1>2, <2>1, AcquireMoves DEF PermitMoves
  <1>3. ASSUME NEW c \in Caller, CheckQueue(c), Mode[c] # "external" PROVE PermitMoves
    BY <1>0, <1>3 DEF CheckQueue, Ends, PermitMoves, Holders, Holding
  <1>4. ASSUME NEW c \in Caller, Inspect(c), Mode[c] # "external" PROVE PermitMoves
    BY <1>0, <1>4 DEF Inspect, To, Fails, PermitMoves, Holders, Holding
  <1>5. ASSUME NEW c \in Caller, Admit(c), Mode[c] # "external" PROVE PermitMoves
    BY <1>0, <1>5, AdmitMoves DEF PermitMoves, Holders, Holding
  <1>6. ASSUME NEW c \in Caller, GiveUp(c), Mode[c] # "external" PROVE PermitMoves
    BY <1>0, <1>6, GiveUpMoves DEF PermitMoves, Holders, Holding
  <1>7. ASSUME NEW c \in Caller, Read(c), Mode[c] # "external" PROVE PermitMoves
    BY <1>0, <1>7 DEF Read, TimesOut, To, Fails, PermitMoves, Holders, Holding
  <1>8. ASSUME NEW c \in Caller, Settle(c) PROVE PermitMoves
    BY <1>0, <1>8, SettledTyped DEF Settle, To, PermitMoves, Holders, Holding
  <1>9. ASSUME NEW c \in Caller, Conclude(c), Mode[c] # "external" PROVE PermitMoves
    <2>0. c \in Holders
      BY <1>0, <1>9, ConcludeMoves DEF Holders, Holding
    <2>1. CASE pc' = [pc EXCEPT ![c] = "failing"] /\ UNCHANGED permits
      <3>1. Holders' = Holders
        BY <1>0, <2>0, <2>1 DEF Holders, Holding
      <3> QED
        BY <1>9, <2>1, <3>1, ConcludeMoves DEF PermitMoves
    <2>2. CASE pc' = [pc EXCEPT ![c] = "returned"] /\ permits' = permits + 1
      <3>1. Holders' = Holders \ {c}
        BY <1>0, <2>0, <2>2 DEF Holders, Holding
      <3> QED
        BY <1>9, <2>0, <2>2, <3>1, ConcludeMoves DEF PermitMoves
    <2> QED
      BY <1>9, <2>1, <2>2, ConcludeMoves
  <1>10. ASSUME NEW c \in Caller, Leave(c), Mode[c] # "external" PROVE PermitMoves
    <2>1. Holders' = Holders \ {c} /\ c \in Holders /\ req[c] \notin orphan
      BY <1>0, <1>10, LeaveMoves DEF Holders, Holding, RequestInv
    <2> QED
      BY <1>10, <2>1, LeaveMoves DEF PermitMoves
  <1>11. ASSUME NEW c \in Caller, BackOff(c), Mode[c] # "external" PROVE PermitMoves
    BY <1>0, <1>11, BackOffMoves DEF PermitMoves, Holders, Holding
  <1>12. ASSUME NEW c \in Caller, Expand(c), Mode[c] # "external" PROVE PermitMoves
    BY <1>0, <1>12 DEF Expand, To, Ends, PermitMoves, Holders, Holding
  <1>13. ASSUME NEW c \in Caller, Outside(c), Mode[c] = "external" PROVE PermitMoves
    BY <1>0, <1>13 DEF Outside, To, Ends, PermitMoves, Holders, Holding
  <1>14. ASSUME NEW c \in Caller, Enter(c), Mode[c] = "external" PROVE PermitMoves
    BY <1>0, <1>14, EnterMoves DEF PermitMoves, Holders, Holding
  <1>15. ASSUME NEW c \in Caller, ReadOutside(c), Mode[c] = "external" PROVE PermitMoves
    BY <1>0, <1>15 DEF ReadOutside, To, PermitMoves, Holders, Holding
  <1>16. ASSUME NEW c \in Caller, ConcludeOutside(c), Mode[c] = "external" PROVE PermitMoves
    BY <1>0, <1>16 DEF ConcludeOutside, To, Ends, PermitMoves, Holders, Holding
  <1>17. ASSUME NEW c \in Caller, Cancel(c) PROVE PermitMoves
    BY <1>0, <1>17 DEF Cancel, PermitMoves, Holders, Holding
  <1>18. ASSUME NEW id \in wire \cup orphan, Answer(id) PROVE PermitMoves
    BY <1>0, <1>18 DEF Answer, PermitMoves, Holders, Holding
  <1>19. ASSUME NEW id \in wire \cup orphan, ReleaseOrphan(id) PROVE PermitMoves
    BY <1>0, <1>19 DEF ReleaseOrphan, PermitMoves, Holders, Holding
  <1>20. ASSUME Expire PROVE PermitMoves
    BY <1>0, <1>20 DEF Expire, PermitMoves, Holders, Holding
  <1>21. ASSUME UNCHANGED vars PROVE PermitMoves
    BY <1>0, <1>21 DEF vars, PermitMoves, Holders, Holding
  <1>22. ASSUME Next PROVE PermitMoves
    <2>1. ASSUME NEW c \in Caller, Call(c) \/ Step(c) \/ Cancel(c) PROVE PermitMoves
      BY <2>1, <1>1, <1>2, <1>3, <1>4, <1>5, <1>6, <1>7, <1>8, <1>9, <1>10, <1>11, <1>12, <1>13, <1>14, <1>15, <1>16, <1>17 DEF Step
    <2> QED
      BY <1>22, <2>1, <1>18, <1>19, <1>20 DEF Next, Service
  <1> QED
    BY <1>21, <1>22

(* The permits that are free, held and left behind stay as many.           *)
LEMMA CountStep ==
    ASSUME TypeOK, LockInv, ModeInv, RequestInv, CountInv, [Next]_vars
    PROVE  CountInv'
  <1>0. /\ permits \in Nat /\ IsFiniteSet(Holders) /\ IsFiniteSet(orphan)
        /\ Cardinality(Holders) \in Nat /\ Cardinality(orphan) \in Nat
    <2>1. Holders \subseteq Caller /\ IsFiniteSet(Caller)
      BY BudgetAssumption DEF Holders
    <2>2. IsFiniteSet(Holders)
      BY <2>1, FS_Subset
    <2>3. orphan \subseteq 1..Len(obs) /\ Len(obs) \in Nat
      BY DEF TypeOK
    <2>4. IsFiniteSet(1..Len(obs))
      BY <2>3, FS_Interval
    <2>5. IsFiniteSet(orphan)
      BY <2>3, <2>4, FS_Subset
    <2> QED
      BY <2>2, <2>5, FS_CardinalityType DEF TypeOK
  <1>1. CASE UNCHANGED <<Holders, permits, orphan>>
    BY <1>1 DEF CountInv
  <1>2. ASSUME NEW c \in Caller \ Holders, Holders' = Holders \cup {c}, permits > 0,
               permits' = permits - 1, orphan' = orphan
        PROVE  CountInv'
    <2>1. Cardinality(Holders') = Cardinality(Holders) + 1
      BY <1>0, <1>2, FS_AddElement
    <2> QED
      BY <1>0, <1>2, <2>1 DEF CountInv
  <1>3. ASSUME NEW c \in Holders, Holders' = Holders \ {c}, permits' = permits + 1, orphan' = orphan
        PROVE  CountInv'
    <2>1. Cardinality(Holders') = Cardinality(Holders) - 1
      BY <1>0, <1>3, FS_RemoveElement
    <2> QED
      BY <1>0, <1>3, <2>1 DEF CountInv
  <1>4. ASSUME NEW c \in Holders, Holders' = Holders \ {c}, permits' = permits,
               req[c] \notin orphan, orphan' = orphan \cup {req[c]}
        PROVE  CountInv'
    <2>1. Cardinality(Holders') = Cardinality(Holders) - 1
      BY <1>0, <1>4, FS_RemoveElement
    <2>2. Cardinality(orphan') = Cardinality(orphan) + 1
      BY <1>0, <1>4, FS_AddElement
    <2> QED
      BY <1>0, <1>4, <2>1, <2>2 DEF CountInv
  <1>5. ASSUME NEW id \in orphan, Holders' = Holders, permits' = permits + 1, orphan' = orphan \ {id}
        PROVE  CountInv'
    <2>1. Cardinality(orphan') = Cardinality(orphan) - 1
      BY <1>0, <1>5, FS_RemoveElement
    <2> QED
      BY <1>0, <1>5, <2>1 DEF CountInv
  <1> QED
    BY PermitStep, <1>1, <1>2, <1>3, <1>4, <1>5 DEF PermitMoves

(* Doubling keeps the limits ordered and below their ceilings.             *)
LEMMA ExpandedGrows ==
    ASSUME TypeOK, LimitsInv, NEW r
    PROVE  LET next == Expanded(limits, r)
           IN  /\ limits.context <= next.context /\ next.context <= MaxContext
               /\ limits.output <= next.output /\ next.output <= MaxOutput
               /\ next.output < next.context
  <1> DEFINE next == Expanded(limits, r)
             l == limits
  <1>1. /\ l.context \in Nat /\ l.output \in Nat
        /\ MaxContext \in Nat /\ MaxOutput \in Nat /\ MaxOutput < MaxContext
    BY BudgetAssumption DEF TypeOK, Limits
  <1>2. next.context = Min({2 * l.context, MaxContext})
    BY DEF Expanded
  <1>3. next.output = l.output \/ next.output = Min({2 * l.output, MaxOutput})
    BY DEF Expanded
  <1>4. next.context = IF 2 * l.context <= MaxContext THEN 2 * l.context ELSE MaxContext
    BY <1>1, <1>2, MinOfTwo
  <1>5. \/ next.output = l.output
        \/ next.output = IF 2 * l.output <= MaxOutput THEN 2 * l.output ELSE MaxOutput
    BY <1>1, <1>3, MinOfTwo
  <1>6. l.context <= MaxContext /\ l.output <= MaxOutput /\ l.output < l.context
    BY DEF LimitsInv
  <1> HIDE DEF next, l
  <1>7. /\ l.context <= next.context /\ next.context <= MaxContext
        /\ l.output <= next.output /\ next.output <= MaxOutput
        /\ next.output < next.context
    BY <1>1, <1>4, <1>5, <1>6
  <1> QED
    BY <1>7 DEF next, l

(* What one step may do to the limits.                                     *)
GrowsOnce ==
    limits' # limits =>
        /\ limits.context <= limits'.context /\ limits'.context <= MaxContext
        /\ limits.output <= limits'.output /\ limits'.output <= MaxOutput
        /\ limits'.output < limits'.context
        /\ \E c \in Caller : prev[c] = limits /\ prev'[c] = limits'

(* The limits grow once for each size that was too small.                  *)
LEMMA GrowStep ==
    ASSUME TypeOK, LimitsInv, [Next]_vars
    PROVE  GrowsOnce
  <1> USE DEF shared, outside, ask
  <1>1. ASSUME NEW c \in Caller, Call(c) PROVE GrowsOnce
    BY <1>1 DEF Call, To, GrowsOnce
  <1>2. ASSUME NEW c \in Caller, Acquire(c), Mode[c] # "external" PROVE GrowsOnce
    BY <1>2 DEF Acquire, To, Fails, GrowsOnce
  <1>3. ASSUME NEW c \in Caller, CheckQueue(c), Mode[c] # "external" PROVE GrowsOnce
    BY <1>3 DEF CheckQueue, Ends, GrowsOnce
  <1>4. ASSUME NEW c \in Caller, Inspect(c), Mode[c] # "external" PROVE GrowsOnce
    BY <1>4 DEF Inspect, To, Fails, GrowsOnce
  <1>5. ASSUME NEW c \in Caller, Admit(c), Mode[c] # "external" PROVE GrowsOnce
    BY <1>5 DEF Admit, To, Fails, GrowsOnce
  <1>6. ASSUME NEW c \in Caller, GiveUp(c), Mode[c] # "external" PROVE GrowsOnce
    BY <1>6 DEF GiveUp, TimesOut, Fails, GrowsOnce
  <1>7. ASSUME NEW c \in Caller, Read(c), Mode[c] # "external" PROVE GrowsOnce
    BY <1>7 DEF Read, TimesOut, To, Fails, GrowsOnce
  <1>8. ASSUME NEW c \in Caller, Settle(c) PROVE GrowsOnce
    BY <1>8 DEF Settle, To, GrowsOnce
  <1>9. ASSUME NEW c \in Caller, Conclude(c), Mode[c] # "external" PROVE GrowsOnce
    BY <1>9 DEF Conclude, Release, To, Fails, GrowsOnce
  <1>10. ASSUME NEW c \in Caller, Leave(c), Mode[c] # "external" PROVE GrowsOnce
    BY <1>10 DEF Leave, Surrender, Release, To, GrowsOnce
  <1>11. ASSUME NEW c \in Caller, BackOff(c), Mode[c] # "external" PROVE GrowsOnce
    BY <1>11 DEF BackOff, To, Ends, GrowsOnce
  <1>12. ASSUME NEW c \in Caller, Expand(c), Mode[c] # "external" PROVE GrowsOnce
    <2>1. CASE limits' = limits
      BY <2>1 DEF GrowsOnce
    <2>2. CASE limits' # limits
      <3>1. /\ limits' = Grown(c, Expanded(prev[c], result[c]))
            /\ prev' = [prev EXCEPT ![c] = limits']
        BY <1>12, <2>2 DEF Expand, Ends
      <3>2. limits = prev[c] /\ limits' = Expanded(limits, result[c])
        BY <2>2, <3>1 DEF Grown
      <3>3. prev'[c] = limits'
        BY <3>1 DEF TypeOK
      <3> QED
        BY <3>2, <3>3, ExpandedGrows DEF GrowsOnce
    <2> QED
      BY <2>1, <2>2
  <1>13. ASSUME NEW c \in Caller, Outside(c), Mode[c] = "external" PROVE GrowsOnce
    BY <1>13 DEF Outside, To, Ends, GrowsOnce
  <1>14. ASSUME NEW c \in Caller, Enter(c), Mode[c] = "external" PROVE GrowsOnce
    BY <1>14 DEF Enter, To, Ends, GrowsOnce
  <1>15. ASSUME NEW c \in Caller, ReadOutside(c), Mode[c] = "external" PROVE GrowsOnce
    BY <1>15 DEF ReadOutside, To, GrowsOnce
  <1>16. ASSUME NEW c \in Caller, ConcludeOutside(c), Mode[c] = "external" PROVE GrowsOnce
    BY <1>16 DEF ConcludeOutside, To, Ends, GrowsOnce
  <1>17. ASSUME NEW c \in Caller, Cancel(c) PROVE GrowsOnce
    BY <1>17 DEF Cancel, GrowsOnce
  <1>18. ASSUME NEW id \in wire \cup orphan, Answer(id) PROVE GrowsOnce
    BY <1>18 DEF Answer, GrowsOnce
  <1>19. ASSUME NEW id \in wire \cup orphan, ReleaseOrphan(id) PROVE GrowsOnce
    BY <1>19 DEF ReleaseOrphan, GrowsOnce
  <1>20. ASSUME Expire PROVE GrowsOnce
    BY <1>20 DEF Expire, GrowsOnce
  <1>21. ASSUME UNCHANGED vars PROVE GrowsOnce
    BY <1>21 DEF vars, GrowsOnce
  <1>22. ASSUME Next PROVE GrowsOnce
    <2>1. ASSUME NEW c \in Caller, Call(c) \/ Step(c) \/ Cancel(c) PROVE GrowsOnce
      BY <2>1, <1>1, <1>2, <1>3, <1>4, <1>5, <1>6, <1>7, <1>8, <1>9, <1>10, <1>11, <1>12, <1>13, <1>14, <1>15, <1>16, <1>17 DEF Step
    <2> QED
      BY <1>22, <2>1, <1>18, <1>19, <1>20 DEF Next, Service
  <1> QED
    BY <1>21, <1>22

(* The limits stay ordered and below their ceilings.                       *)
LEMMA LimitsStep ==
    ASSUME TypeOK, LimitsInv, [Next]_vars
    PROVE  LimitsInv'
  <1>1. CASE limits' = limits
    BY <1>1 DEF LimitsInv
  <1>2. CASE limits' # limits
    BY <1>2, GrowStep DEF GrowsOnce, LimitsInv
  <1> QED
    BY <1>1, <1>2

(* What one step may do to an allowance that has stopped.                  *)
Stays == incomplete # None /\ lock = None => lock' = None /\ Len(obs') = Len(obs)

(* Nothing is admitted after the stop.                                     *)
LEMMA StopStep ==
    ASSUME TypeOK, LockInv, RequestInv, [Next]_vars
    PROVE  Stays
  <1> USE DEF shared, outside, ask
  <1>1. ASSUME NEW c \in Caller, Call(c) PROVE Stays
    BY <1>1 DEF Call, To, Stays
  <1>2. ASSUME NEW c \in Caller, Acquire(c), Mode[c] # "external" PROVE Stays
    BY <1>2 DEF Acquire, To, Fails, Stays
  <1>3. ASSUME NEW c \in Caller, CheckQueue(c), Mode[c] # "external" PROVE Stays
    BY <1>3 DEF CheckQueue, Ends, Stays
  <1>4. ASSUME NEW c \in Caller, Inspect(c), Mode[c] # "external" PROVE Stays
    BY <1>4 DEF Inspect, Checkpoint, To, Fails, Stays
  <1>5. ASSUME NEW c \in Caller, Admit(c), Mode[c] # "external" PROVE Stays
    BY <1>5, AdmitMoves, BudgetAssumption DEF Stays
  <1>6. ASSUME NEW c \in Caller, GiveUp(c), Mode[c] # "external" PROVE Stays
    BY <1>6 DEF GiveUp, TimesOut, Fails, Stays
  <1>7. ASSUME NEW c \in Caller, Read(c), Mode[c] # "external" PROVE Stays
    BY <1>7 DEF Read, TimesOut, To, Fails, Stays
  <1>8. ASSUME NEW c \in Caller, Settle(c) PROVE Stays
    BY <1>8, SettledTyped DEF Settle, Stays
  <1>9. ASSUME NEW c \in Caller, Conclude(c), Mode[c] # "external" PROVE Stays
    BY <1>9 DEF Conclude, Release, To, Fails, Stays
  <1>10. ASSUME NEW c \in Caller, Leave(c), Mode[c] # "external" PROVE Stays
    BY <1>10 DEF Leave, Surrender, Release, To, Stays
  <1>11. ASSUME NEW c \in Caller, BackOff(c), Mode[c] # "external" PROVE Stays
    BY <1>11 DEF BackOff, To, Ends, Stays
  <1>12. ASSUME NEW c \in Caller, Expand(c), Mode[c] # "external" PROVE Stays
    BY <1>12 DEF Expand, To, Ends, Stays
  <1>13. ASSUME NEW c \in Caller, Outside(c), Mode[c] = "external" PROVE Stays
    BY <1>13 DEF Outside, To, Ends, Stays
  <1>14. ASSUME NEW c \in Caller, Enter(c), Mode[c] = "external" PROVE Stays
    BY <1>14 DEF Enter, Checkpoint, Stays
  <1>15. ASSUME NEW c \in Caller, ReadOutside(c), Mode[c] = "external" PROVE Stays
    BY <1>15 DEF ReadOutside, To, Stays
  <1>16. ASSUME NEW c \in Caller, ConcludeOutside(c), Mode[c] = "external" PROVE Stays
    BY <1>16 DEF ConcludeOutside, To, Ends, Stays
  <1>17. ASSUME NEW c \in Caller, Cancel(c) PROVE Stays
    BY <1>17 DEF Cancel, Stays
  <1>18. ASSUME NEW id \in wire \cup orphan, Answer(id) PROVE Stays
    BY <1>18 DEF Answer, Stays
  <1>19. ASSUME NEW id \in wire \cup orphan, ReleaseOrphan(id) PROVE Stays
    BY <1>19 DEF ReleaseOrphan, Stays
  <1>20. ASSUME Expire PROVE Stays
    BY <1>20 DEF Expire, Stays
  <1>21. ASSUME UNCHANGED vars PROVE Stays
    BY <1>21 DEF vars, Stays
  <1>22. ASSUME Next PROVE Stays
    <2>1. ASSUME NEW c \in Caller, Call(c) \/ Step(c) \/ Cancel(c) PROVE Stays
      BY <2>1, <1>1, <1>2, <1>3, <1>4, <1>5, <1>6, <1>7, <1>8, <1>9, <1>10, <1>11, <1>12, <1>13, <1>14, <1>15, <1>16, <1>17 DEF Step
    <2> QED
      BY <1>22, <2>1, <1>18, <1>19, <1>20 DEF Next, Service
  <1> QED
    BY <1>21, <1>22

-----------------------------------------------------------------------------
(* The inductive invariant holds in every state.                           *)
THEOREM Invariance == Spec => []IInv
  <1>1. IInv /\ [Next]_vars => IInv'
    BY TypeStep, LockStep, ModeStep, RequestStep, ReadStep, CoverStep, CountStep, LimitsStep DEF IInv
  <1> QED
    BY InitInv, <1>1, PTL DEF Spec

(* Counters, observations, requests and callers keep their shapes: no more *)
(* requests than allowed, no retry beyond the configured attempts.         *)
THEOREM TypeCorrect == Spec => []TypeOK
  <1>1. IInv => TypeOK
    BY DEF IInv
  <1> QED
    BY Invariance, <1>1, PTL

(* The service never sees more requests at once than the profile allows,   *)
(* whatever hangs, stops or is tried again.                                *)
THEOREM PermitsAreConserved == Spec => []PermitsConserved
  <1>1. IInv => PermitsConserved
    BY DEF IInv, PermitsConserved, CountInv, CoverInv
  <1> QED
    BY Invariance, <1>1, PTL

(* Nobody is admitted once the latch is set.                               *)
THEOREM AdmissionStopsAlways == Spec => AdmissionStops
  <1>1. IInv /\ [Next]_vars => [incomplete # None /\ lock = None => lock' = None /\ Len(obs') = Len(obs)]_vars
    BY StopStep DEF IInv, Stays
  <1> QED
    BY Invariance, <1>1, PTL DEF Spec, AdmissionStops

(* One size that was too small grows the limits once, within the ceilings. *)
THEOREM LimitsGrowOnce == Spec => LimitsGrow
  <1>1. IInv /\ [Next]_vars =>
          [limits' # limits =>
            /\ limits.context <= limits'.context /\ limits'.context <= MaxContext
            /\ limits.output <= limits'.output /\ limits'.output <= MaxOutput
            /\ limits'.output < limits'.context
            /\ \E c \in Caller : prev[c] = limits /\ prev'[c] = limits']_vars
    BY GrowStep DEF IInv, GrowsOnce
  <1> QED
    BY Invariance, <1>1, PTL DEF Spec, LimitsGrow

-----------------------------------------------------------------------------
(* Sums.  A set of numbers that is not empty has a least one; with it, the *)
(* sum over the observations is the last of its partial sums, and those    *)
(* can be compared one by one.                                             *)
LEMMA LeastOf ==
    ASSUME NEW S \in SUBSET Nat, S # {}
    PROVE  \E m \in S : \A n \in S : m <= n
  <1>1. PICK m \in S : \A n \in S : ~(<<n, m>> \in OpToRel(<, Nat))
    BY NatLessThanWellFounded, WFMin
  <1>2. \A n \in S : m <= n
    <2> SUFFICES ASSUME NEW n \in S, n < m PROVE FALSE
      OBVIOUS
    <2>1. <<n, m>> \in OpToRel(<, Nat)
      BY DEF OpToRel
    <2> QED
      BY <1>1, <2>1
  <1> QED
    BY <1>2

Partial(n, a, f) ==
    /\ f \in [0..n -> Int] /\ f[0] = 0
    /\ \A i \in 1..n : f[i] = f[i - 1] + a[i]

LEMMA PartialExists ==
    ASSUME NEW n \in Nat, NEW a \in [1..n -> Int]
    PROVE  \E f : Partial(n, a, f)
  <1> DEFINE P(m) == \E f \in [0..m -> Int] :
                        f[0] = 0 /\ \A i \in 1..m : f[i] = f[i - 1] + a[i]
             bad == {m \in 0..n : ~P(m)}
  <1> SUFFICES P(n)
    BY DEF Partial
  <1>1. P(0)
    <2> DEFINE z == [i \in 0..0 |-> 0]
    <2>1. z \in [0..0 -> Int] /\ z[0] = 0 /\ \A i \in 1..0 : z[i] = z[i - 1] + a[i]
      OBVIOUS
    <2> HIDE DEF z
    <2> QED
      BY <2>1
  <1>2. ASSUME NEW m \in 0..n, m # 0, P(m - 1) PROVE P(m)
    <2>1. PICK f \in [0..(m - 1) -> Int] :
               f[0] = 0 /\ \A i \in 1..(m - 1) : f[i] = f[i - 1] + a[i]
      BY <1>2
    <2> DEFINE g == [i \in 0..m |-> IF i = m THEN f[m - 1] + a[m] ELSE f[i]]
    <2>2. m \in 1..n /\ a[m] \in Int /\ f[m - 1] \in Int
      BY <1>2, <2>1
    <2>3. g \in [0..m -> Int]
      BY <2>1, <2>2
    <2>4. g[0] = 0
      BY <1>2, <2>1
    <2>5. ASSUME NEW i \in 1..m PROVE g[i] = g[i - 1] + a[i]
      <3>1. CASE i = m
        BY <2>2, <3>1
      <3>2. CASE i # m
        <4>1. i \in 1..(m - 1) /\ i \in 0..m /\ i - 1 \in 0..m /\ i - 1 # m
          BY <1>2, <3>2
        <4> QED
          BY <2>1, <3>2, <4>1
      <3> QED
        BY <3>1, <3>2
    <2> HIDE DEF g
    <2> QED
      BY <2>3, <2>4, <2>5
  <1> HIDE DEF P
  <1>3. CASE bad = {}
    BY <1>3
  <1>4. CASE bad # {}
    <2>1. PICK m \in bad : \A k \in bad : m <= k
      <3>1. bad \subseteq Nat
        OBVIOUS
      <3> QED
        BY <1>4, <3>1, LeastOf
    <2>2. m # 0
      BY <1>1
    <2>3. m \in 0..n /\ m - 1 \in 0..n /\ ~(m <= m - 1)
      BY <2>1, <2>2
    <2>4. P(m - 1)
      BY <2>1, <2>3
    <2> QED
      BY <1>2, <2>1, <2>2, <2>3, <2>4
  <1> QED
    BY <1>3, <1>4

LEMMA PartialUnique ==
    ASSUME NEW n \in Nat, NEW a, NEW b, NEW f, NEW g,
           Partial(n, a, f), Partial(n, b, g), \A i \in 1..n : a[i] = b[i]
    PROVE  f = g
  <1> DEFINE bad == {m \in 0..n : f[m] # g[m]}
  <1>1. CASE bad # {}
    <2>1. PICK m \in bad : \A k \in bad : m <= k
      <3>1. bad \subseteq Nat
        OBVIOUS
      <3> QED
        BY <1>1, <3>1, LeastOf
    <2>2. m # 0
      BY DEF Partial
    <2>3. m \in 1..n /\ m - 1 \in 0..n /\ m - 1 \notin bad
      BY <2>1, <2>2
    <2> QED
      BY <2>1, <2>3 DEF Partial
  <1>2. CASE bad = {}
    BY <1>2 DEF Partial
  <1> QED
    BY <1>1, <1>2

Total(n, a) == (CHOOSE f : Partial(n, a, f))[n]

LEMMA TotalIs ==
    ASSUME NEW n \in Nat, NEW a \in [1..n -> Int], NEW f, Partial(n, a, f)
    PROVE  Total(n, a) = f[n] /\ Total(n, a) \in Int
  <1>1. Partial(n, a, CHOOSE g : Partial(n, a, g))
    OBVIOUS
  <1>2. (CHOOSE g : Partial(n, a, g)) = f
    BY <1>1, PartialUnique
  <1>3. f[n] \in Int
    BY DEF Partial
  <1> QED
    BY <1>2, <1>3 DEF Total

(* One amount more, *)
LEMMA TotalAppend ==
    ASSUME NEW n \in Nat, NEW a \in [1..n -> Int], NEW b \in [1..(n + 1) -> Int],
           \A i \in 1..n : a[i] = b[i]
    PROVE  Total(n + 1, b) = Total(n, a) + b[n + 1] /\ Total(n, a) \in Int
  <1>1. PICK f : Partial(n, a, f)
    BY PartialExists
  <1> DEFINE g == [i \in 0..(n + 1) |-> IF i = n + 1 THEN f[n] + b[n + 1] ELSE f[i]]
  <1>2. b[n + 1] \in Int /\ f[n] \in Int
    BY <1>1 DEF Partial
  <1>3. Partial(n + 1, b, g)
    <2>1. g \in [0..(n + 1) -> Int]
      BY <1>1, <1>2 DEF Partial
    <2>2. g[0] = 0 /\ \A i \in 1..(n + 1) : g[i] = g[i - 1] + b[i]
      BY <1>1 DEF Partial
    <2> QED
      BY <2>1, <2>2 DEF Partial
  <1>4. Total(n + 1, b) = g[n + 1]
    BY <1>3, TotalIs
  <1>5. Total(n, a) = f[n]
    BY <1>1, TotalIs
  <1> QED
    BY <1>2, <1>4, <1>5

(* and one amount that changes.                                            *)
LEMMA TotalChange ==
    ASSUME NEW n \in Nat, NEW a \in [1..n -> Int], NEW b \in [1..n -> Int],
           NEW k \in 1..n, \A i \in 1..n : i # k => a[i] = b[i]
    PROVE  Total(n, b) = Total(n, a) + b[k] - a[k] /\ Total(n, a) \in Int
  <1>1. PICK f : Partial(n, a, f)
    BY PartialExists
  <1> DEFINE d == b[k] - a[k]
             g == [i \in 0..n |-> IF i < k THEN f[i] ELSE f[i] + d]
  <1>2. d \in Int /\ b[k] = a[k] + d
    OBVIOUS
  <1>3. Partial(n, b, g)
    <2> HIDE DEF d
    <2>1. g \in [0..n -> Int]
      BY <1>1, <1>2 DEF Partial
    <2>2. g[0] = 0
      BY <1>1 DEF Partial
    <2>3. ASSUME NEW i \in 1..n PROVE g[i] = g[i - 1] + b[i]
      <3>1. /\ f[i] = f[i - 1] + a[i] /\ f[i - 1] \in Int /\ a[i] \in Int /\ i - 1 \in 0..n
        BY <1>1 DEF Partial
      <3>2. CASE i = k
        BY <1>2, <3>1, <3>2
      <3>3. CASE i # k
        BY <1>2, <3>1, <3>3
      <3> QED
        BY <3>2, <3>3
    <2> QED
      BY <2>1, <2>2, <2>3 DEF Partial
  <1>4. Total(n, b) = g[n]
    BY <1>3, TotalIs
  <1>5. Total(n, a) = f[n] /\ f[n] \in Int
    BY <1>1, TotalIs
  <1> QED
    BY <1>2, <1>4, <1>5

LEMMA TotalZero ==
    ASSUME NEW n \in Nat, NEW a \in [1..n -> Int], \A i \in 1..n : a[i] = 0
    PROVE  Total(n, a) = 0
  <1> DEFINE z == [i \in 0..n |-> 0]
  <1>1. Partial(n, a, z)
    BY DEF Partial
  <1>2. Total(n, a) = z[n]
    BY <1>1, TotalIs
  <1> QED
    BY <1>2

(* The community modules sum over a set, in an order nobody names.  The    *)
(* sums over its subsets are the totals in which the others count nothing. *)
Amounts(o) == [i \in 1..Len(o) |-> Amount(o[i])]

Sums(o, it) ==
    it = [s \in SUBSET (1..Len(o)) |->
             IF s = {} THEN 0
             ELSE Amount(o[CHOOSE x \in s : TRUE]) + it[s \ {CHOOSE x \in s : TRUE}]]

Only(o, s) == [i \in 1..Len(o) |-> IF i \in s THEN Amount(o[i]) ELSE 0]

LEMMA SumsExist ==
    ASSUME NEW o, Len(o) \in Nat, Amounts(o) \in [1..Len(o) -> Int]
    PROVE  Sums(o, [s \in SUBSET (1..Len(o)) |-> Total(Len(o), Only(o, s))])
  <1> DEFINE n == Len(o)
             G == [s \in SUBSET (1..n) |-> Total(n, Only(o, s))]
  <1>1. \A i \in 1..n : Amount(o[i]) \in Int
    BY DEF Amounts
  <1>2. \A s \in SUBSET (1..n) : Only(o, s) \in [1..n -> Int]
    BY <1>1 DEF Only
  <1>3. G[{}] = 0
    <2>1. Total(n, Only(o, {})) = 0
      BY <1>2, TotalZero DEF Only
    <2> QED
      BY <2>1
  <1>4. ASSUME NEW s \in SUBSET (1..n), NEW x \in s
        PROVE  G[s] = Amount(o[x]) + G[s \ {x}]
    <2>1. /\ Only(o, s)[x] = Amount(o[x]) /\ Only(o, s \ {x})[x] = 0
          /\ \A i \in 1..n : i # x => Only(o, s)[i] = Only(o, s \ {x})[i]
      BY DEF Only
    <2>2. Amount(o[x]) \in Int /\ Only(o, s) \in [1..n -> Int] /\ Only(o, s \ {x}) \in [1..n -> Int]
      BY <1>1, <1>2
    <2>3. /\ Total(n, Only(o, s \ {x})) = Total(n, Only(o, s)) + 0 - Amount(o[x])
          /\ Total(n, Only(o, s)) \in Int
      <3> DEFINE a == Only(o, s)
                 b == Only(o, s \ {x})
      <3>1. /\ a \in [1..n -> Int] /\ b \in [1..n -> Int] /\ n \in Nat /\ x \in 1..n
            /\ \A i \in 1..n : i # x => a[i] = b[i]
        BY <2>1, <2>2
      <3>2. a[x] = Amount(o[x]) /\ b[x] = 0
        BY <2>1
      <3> HIDE DEF a, b, n
      <3>3. Total(n, b) = Total(n, a) + b[x] - a[x] /\ Total(n, a) \in Int
        BY <3>1, TotalChange
      <3> QED
        BY <3>2, <3>3 DEF a, b
    <2>4. s \ {x} \in SUBSET (1..n)
      OBVIOUS
    <2> QED
      BY <2>2, <2>3, <2>4
  <1>5. \A s \in SUBSET (1..n) : s # {} => (CHOOSE x \in s : TRUE) \in s
    OBVIOUS
  <1> HIDE DEF G
  <1>6. G = [s \in SUBSET (1..n) |-> G[s]]
    BY DEF G
  <1>7. \A s \in SUBSET (1..n) :
           G[s] = IF s = {} THEN 0
                  ELSE Amount(o[CHOOSE x \in s : TRUE]) + G[s \ {CHOOSE x \in s : TRUE}]
    BY <1>3, <1>4, <1>5
  <1>8. Sums(o, G)
    BY <1>6, <1>7 DEF Sums
  <1> QED
    BY <1>8 DEF G

LEMMA SumsUnique ==
    ASSUME NEW o, Len(o) \in Nat, NEW f, NEW g, Sums(o, f), Sums(o, g)
    PROVE  f = g
  <1> DEFINE n == Len(o)
             bad == {s \in SUBSET (1..n) : f[s] # g[s]}
             sizes == {Cardinality(s) : s \in bad}
  <1>1. \A s \in SUBSET (1..n) : IsFiniteSet(s) /\ Cardinality(s) \in Nat
    <2>1. IsFiniteSet(1..n)
      BY FS_Interval
    <2> QED
      BY <2>1, FS_Subset, FS_CardinalityType
  <1>2. CASE bad # {}
    <2>1. sizes \in SUBSET Nat /\ sizes # {}
      BY <1>1, <1>2
    <2>2. PICK m \in sizes : \A k \in sizes : m <= k
      BY <2>1, LeastOf
    <2>3. PICK s \in bad : Cardinality(s) = m
      BY <2>2
    <2>4. s # {}
      BY <2>3 DEF Sums
    <2> DEFINE x == CHOOSE y \in s : TRUE
    <2>5. x \in s
      BY <2>4
    <2>6. Cardinality(s \ {x}) = m - 1 /\ m \in Nat /\ s \ {x} \in SUBSET (1..n)
      BY <1>1, <2>3, <2>5, FS_RemoveElement
    <2>7. s \ {x} \notin bad
      BY <2>2, <2>6
    <2>8. f[s \ {x}] = g[s \ {x}]
      BY <2>6, <2>7
    <2>9. f[s] = Amount(o[x]) + f[s \ {x}] /\ g[s] = Amount(o[x]) + g[s \ {x}]
      BY <2>3, <2>4 DEF Sums
    <2> QED
      BY <2>3, <2>8, <2>9
  <1>3. CASE bad = {}
    <2>1. f = [s \in SUBSET (1..n) |-> f[s]] /\ g = [s \in SUBSET (1..n) |-> g[s]]
      BY DEF Sums
    <2> QED
      BY <1>3, <2>1
  <1> QED
    BY <1>2, <1>3

(* Whatever order it is made in, the sum over the observations is their    *)
(* total.                                                                  *)
Spent(o) == MapThenSumSet(LAMBDA i : Amount(o[i]), 1..Len(o))

LEMMA SpentIsTotal ==
    ASSUME NEW o, Len(o) \in Nat, Amounts(o) \in [1..Len(o) -> Int]
    PROVE  Spent(o) = Total(Len(o), Amounts(o))
  <1> DEFINE G == [s \in SUBSET (1..Len(o)) |-> Total(Len(o), Only(o, s))]
  <1>1. Sums(o, G)
    BY SumsExist
  <1>2. (CHOOSE it : Sums(o, it)) = G
    BY <1>1, SumsUnique
  <1>3. Spent(o) = (CHOOSE it : Sums(o, it))[1..Len(o)]
    BY DEF Spent, MapThenSumSet, MapThenFoldSet, Sums
  <1>4. G[1..Len(o)] = Total(Len(o), Amounts(o))
    <2>1. Only(o, 1..Len(o)) = Amounts(o)
      BY DEF Only, Amounts
    <2> QED
      BY <2>1
  <1> HIDE DEF G
  <1> QED
    BY <1>2, <1>3, <1>4

LEMMA AccountedIsTotal == Accounted <=> charged = lost + Spent(obs)
  BY DEF Accounted, Spent, MapThenSumSet, MapThenFoldSet

LEMMA AmountsTyped ==
    ASSUME NEW o \in Seq(Observation)
    PROVE  Len(o) \in Nat /\ Amounts(o) \in [1..Len(o) -> Int]
  <1>1. \A i \in 1..Len(o) : o[i] \in Observation
    OBVIOUS
  <1>2. \A i \in 1..Len(o) : Amount(o[i]) \in Int
    BY <1>1 DEF Observation, Amount
  <1> QED
    BY <1>2 DEF Amounts

(* One observation more, *)
LEMMA SpentMore ==
    ASSUME NEW o \in Seq(Observation), NEW x \in Observation
    PROVE  Spent(Append(o, x)) = Spent(o) + Amount(x) /\ Spent(o) \in Int
  <1> DEFINE p == Append(o, x)
  <1>1. /\ p \in Seq(Observation) /\ Len(p) = Len(o) + 1 /\ p[Len(o) + 1] = x
        /\ \A i \in 1..Len(o) : p[i] = o[i]
    OBVIOUS
  <1> HIDE DEF p
  <1>2. /\ Len(o) \in Nat /\ Amounts(o) \in [1..Len(o) -> Int]
        /\ Amounts(p) \in [1..Len(p) -> Int]
    BY <1>1, AmountsTyped
  <1>3. Spent(o) = Total(Len(o), Amounts(o)) /\ Spent(p) = Total(Len(p), Amounts(p))
    BY <1>1, <1>2, SpentIsTotal
  <1>4. /\ \A i \in 1..Len(o) : Amounts(o)[i] = Amounts(p)[i]
        /\ Amounts(p)[Len(o) + 1] = Amount(x)
    BY <1>1, <1>2 DEF Amounts
  <1> QED
    BY <1>1, <1>2, <1>3, <1>4, TotalAppend DEF p

(* and one that changes.                                                   *)
LEMMA SpentOtherwise ==
    ASSUME NEW o \in Seq(Observation), NEW p \in Seq(Observation), Len(p) = Len(o),
           NEW k \in 1..Len(o), \A i \in 1..Len(o) : i # k => p[i] = o[i]
    PROVE  Spent(p) = Spent(o) + Amount(p[k]) - Amount(o[k]) /\ Spent(o) \in Int
  <1>1. /\ Len(o) \in Nat /\ Amounts(o) \in [1..Len(o) -> Int]
        /\ Amounts(p) \in [1..Len(o) -> Int]
    BY AmountsTyped
  <1>2. Spent(o) = Total(Len(o), Amounts(o)) /\ Spent(p) = Total(Len(o), Amounts(p))
    BY <1>1, SpentIsTotal
  <1>3. /\ \A i \in 1..Len(o) : i # k => Amounts(o)[i] = Amounts(p)[i]
        /\ Amounts(o)[k] = Amount(o[k]) /\ Amounts(p)[k] = Amount(p[k])
    BY DEF Amounts
  <1> QED
    BY <1>1, <1>2, <1>3, TotalChange

-----------------------------------------------------------------------------
(* Accounting.  A request that is not read has nothing settled; and who is *)
(* in the lock has seen the room that is still there.                      *)
UnsettledInv ==
    \A c \in Caller : pc[c] \in {"waiting", "answered"} => obs[req[c]].usage = None

RoomInv == lock # None => charged + Reserved(lock) <= MaxTokens

BInv == IInv /\ Accounted /\ WithinLimit /\ UnsettledInv /\ RoomInv

LEMMA InitBInv == Init => BInv
  <1> SUFFICES ASSUME Init PROVE BInv
    OBVIOUS
  <1> USE BudgetAssumption DEF Init
  <1>1. obs \in Seq(Observation) /\ Len(obs) = 0
    OBVIOUS
  <1>2. Spent(obs) = 0
    <2>1. Amounts(obs) \in [1..0 -> Int] /\ Len(obs) \in Nat
      BY <1>1, AmountsTyped
    <2>2. Spent(obs) = Total(0, Amounts(obs))
      BY <1>1, <2>1, SpentIsTotal
    <2>3. 0 \in Nat /\ \A i \in 1..0 : Amounts(obs)[i] = 0
      OBVIOUS
    <2> QED
      BY <2>1, <2>2, <2>3, TotalZero
  <1>3. Accounted
    BY <1>2, AccountedIsTotal
  <1>4. WithinLimit /\ UnsettledInv /\ RoomInv
    BY DEF WithinLimit, UnsettledInv, RoomInv
  <1> QED
    BY <1>3, <1>4, InitInv DEF BInv

(* A step that neither charges nor observes. *)
Uncharged ==
    /\ UNCHANGED <<charged, lost, obs>>
    /\ \A d \in Caller : pc'[d] \in {"waiting", "answered"}
          => pc[d] \in {"waiting", "answered"} /\ req'[d] = req[d]
    /\ lock' # None => charged + Reserved(lock)' <= MaxTokens

LEMMA UnchargedStep ==
    ASSUME BInv, Uncharged
    PROVE  (Accounted /\ WithinLimit /\ UnsettledInv /\ RoomInv)'
  <1>1. Accounted'
    <2>1. charged = lost + Spent(obs)
      BY AccountedIsTotal DEF BInv
    <2>2. Accounted' <=> charged' = lost' + Spent(obs')
      BY DEF Accounted, Spent, MapThenSumSet, MapThenFoldSet
    <2> QED
      BY <2>1, <2>2 DEF Uncharged
  <1>2. WithinLimit' /\ UnsettledInv' /\ RoomInv'
    BY DEF BInv, WithinLimit, UnsettledInv, RoomInv, Uncharged
  <1> QED
    BY <1>1, <1>2

(* The room of the lock's holder does not depend on what others do. *)
LEMMA RoomKept ==
    ASSUME RoomInv, UNCHANGED <<charged, lock>>, lock # None => prev'[lock] = prev[lock]
    PROVE  lock' # None => charged + Reserved(lock)' <= MaxTokens
  BY DEF RoomInv, Reserved, OutputOf

LEMMA ReservedNext ==
    ASSUME NEW c \in Caller, prev'[c] = prev[c]
    PROVE  Reserved(c)' = Reserved(c)
  BY DEF Reserved, OutputOf

(* Nobody but these three charges or observes anything.                    *)
LEMMA UnchargedSteps ==
    ASSUME BInv, [Next]_vars,
           ~ \E c \in Caller : Admit(c) \/ Settle(c) \/ Enter(c)
    PROVE  Uncharged
  <1> USE BudgetAssumption DEF shared, outside, ask
  <1>0. /\ pc \in [Caller -> Place] /\ req \in [Caller -> 0..Len(obs)] /\ prev \in [Caller -> Limits]
        /\ lock \in Caller \cup {None} /\ \A c \in Caller : lock = c <=> pc[c] = "inspected"
        /\ RoomInv
    BY DEF BInv, IInv, TypeOK, LockInv
  <1> DEFINE Moves(c) ==
               /\ UNCHANGED <<charged, lost, obs>>
               /\ \E w \in Place :
                     /\ pc' = [pc EXCEPT ![c] = w]
                     /\ w \in {"waiting", "answered"} => pc[c] = "waiting" /\ req' = req
               /\ \A d \in Caller : d # c => req'[d] = req[d] /\ prev'[d] = prev[d]
               /\ pc[c] = "inspected" => prev'[c] = prev[c]
  <1>1. ASSUME NEW c \in Caller, Moves(c), lock' = lock PROVE Uncharged
    <2>1. lock # None => prev'[lock] = prev[lock]
      BY <1>0, <1>1
    <2>2. ASSUME NEW d \in Caller, pc'[d] \in {"waiting", "answered"}
          PROVE  pc[d] \in {"waiting", "answered"} /\ req'[d] = req[d]
      <3>1. PICK w \in Place : /\ pc' = [pc EXCEPT ![c] = w]
                               /\ w \in {"waiting", "answered"} => pc[c] = "waiting" /\ req' = req
        BY <1>1
      <3>2. CASE d = c
        BY <1>0, <2>2, <3>1, <3>2
      <3>3. CASE d # c
        BY <1>0, <1>1, <2>2, <3>1, <3>3
      <3> QED
        BY <3>2, <3>3
    <2> QED
      BY <1>0, <1>1, <2>1, <2>2, RoomKept DEF Uncharged
  <1>2. ASSUME NEW c \in Caller, Call(c) PROVE Uncharged
    <2>1. Moves(c) /\ lock' = lock
      <3>1. /\ UNCHANGED <<charged, lost, obs, req, lock>> /\ pc[c] = "idle"
            /\ prev' = [prev EXCEPT ![c] = limits]
        BY <1>2 DEF Call
      <3>2. \E w \in {"outside", "queued"} : pc' = [pc EXCEPT ![c] = w]
        BY <1>2 DEF Call, To
      <3>3. \A d \in Caller : d # c => prev'[d] = prev[d]
        BY <1>0, <3>1
      <3> QED
        BY <3>1, <3>2, <3>3 DEF Place
    <2> QED
      BY <1>1, <2>1
  <1>3. ASSUME NEW c \in Caller, Acquire(c) \/ CheckQueue(c) PROVE Uncharged
    <2>1. Moves(c) /\ lock' = lock
      BY <1>0, <1>3 DEF Acquire, CheckQueue, To, Fails, Ends, Place, Holding
    <2> QED
      BY <1>1, <2>1
  <1>4. ASSUME NEW c \in Caller, Inspect(c) PROVE Uncharged
    <2>1. UNCHANGED <<charged, lost, obs, req, prev>> /\ lock = None
      BY <1>4 DEF Inspect
    <2>2. \A d \in Caller : pc'[d] \in {"waiting", "answered"} => pc[d] \in {"waiting", "answered"}
      BY <1>0, <1>4 DEF Inspect, To, Fails
    <2>3. lock' # None => lock' = c /\ Excess(c) = None
      BY <1>4 DEF Inspect
    <2>4. Excess(c) = None => charged + Reserved(c) <= MaxTokens
      <3>1. charged \in Int /\ Reserved(c) \in Nat
        BY <1>0, ReservedTyped DEF BInv, IInv, TypeOK
      <3>2. None # "requests" /\ None # "tokens" /\ None # "optional"
        BY DEF Error, Reason
      <3>3. CASE attempts >= MaxRequests
        BY <3>2, <3>3 DEF Excess
      <3>4. CASE ~(attempts >= MaxRequests)
        BY <3>1, <3>2, <3>4 DEF Excess
      <3> QED
        BY <3>3, <3>4
    <2>5. Reserved(c)' = Reserved(c)
      BY <2>1, ReservedNext
    <2>6. lock' # None => Reserved(lock)' = Reserved(c)
      BY <2>1, <2>3 DEF Reserved, OutputOf
    <2> QED
      BY <2>1, <2>2, <2>3, <2>4, <2>6 DEF Uncharged
  <1>5. ASSUME NEW c \in Caller, GiveUp(c) \/ Read(c) PROVE Uncharged
    <2>1. Moves(c) /\ lock' = lock
      BY <1>0, <1>5 DEF GiveUp, Read, TimesOut, To, Fails, Place, Holding
    <2> QED
      BY <1>1, <2>1
  <1>6. ASSUME NEW c \in Caller, Conclude(c) \/ ConcludeOutside(c) PROVE Uncharged
    <2>1. Moves(c) /\ lock' = lock
      BY <1>0, <1>6 DEF Conclude, ConcludeOutside, Release, To, Fails, Ends, Place, Holding
    <2> QED
      BY <1>1, <2>1
  <1>7. ASSUME NEW c \in Caller, Leave(c) PROVE Uncharged
    <2>1. Moves(c) /\ lock' = lock
      <3>1. UNCHANGED <<charged, lost, prev, req, obs, lock>>
        BY <1>7 DEF Leave
      <3>2. \E w \in {"backoff", "expanding", "raised"} : pc' = [pc EXCEPT ![c] = w]
        BY <1>7, LeaveMoves
      <3> QED
        BY <3>1, <3>2 DEF Place
    <2> QED
      BY <1>1, <2>1
  <1>8. ASSUME NEW c \in Caller, BackOff(c) PROVE Uncharged
    <2>1. Moves(c) /\ lock' = lock
      BY <1>0, <1>8 DEF BackOff, To, Ends, Place, Holding
    <2> QED
      BY <1>1, <2>1
  <1>9. ASSUME NEW c \in Caller, Expand(c) PROVE Uncharged
    <2>1. Moves(c) /\ lock' = lock
      BY <1>0, <1>9 DEF Expand, To, Ends, Place, Holding
    <2> QED
      BY <1>1, <2>1
  <1>10. ASSUME NEW c \in Caller, Outside(c) \/ ReadOutside(c) PROVE Uncharged
    <2>1. Moves(c) /\ lock' = lock
      BY <1>0, <1>10 DEF Outside, ReadOutside, To, Ends, Place, Holding
    <2> QED
      BY <1>1, <2>1
  <1>11. CASE UNCHANGED <<charged, lost, obs, lock, prev, pc, req>>
    <2>1. lock' # None => charged + Reserved(lock)' <= MaxTokens
      BY <1>0, <1>11, RoomKept
    <2> QED
      BY <1>11, <2>1 DEF Uncharged
  <1>12. CASE (\E c \in Caller : Cancel(c)) \/ Service \/ Expire \/ UNCHANGED vars
    BY <1>11, <1>12 DEF Cancel, Service, Answer, ReleaseOrphan, Expire, vars
  <1> QED
    BY <1>2, <1>3, <1>4, <1>5, <1>6, <1>7, <1>8, <1>9, <1>10, <1>12 DEF Next, Step

(* A new observation counts what it reserved, for which there was room.    *)
LEMMA ObservedStep ==
    ASSUME BInv, NEW c \in Caller, Observe(c), lost' = lost,
           charged + Reserved(c) <= MaxTokens
    PROVE  /\ (Accounted /\ WithinLimit)'
           /\ obs'[req'[c]].usage = None
           /\ \A i \in 1..Len(obs) : obs'[i] = obs[i]
  <1> DEFINE x == [by |-> c, reserved |-> Reserved(c), usage |-> None]
  <1>1. /\ obs \in Seq(Observation) /\ charged \in Int /\ lost \in Nat
        /\ req \in [Caller -> 0..Len(obs)] /\ Reserved(c) \in Nat
    BY ReservedTyped DEF BInv, IInv, TypeOK
  <1>2. x \in Observation /\ Amount(x) = Reserved(c) /\ x.usage = None /\ x.reserved = Reserved(c)
    BY <1>1 DEF Observation, Amount
  <1>3. obs' = Append(obs, x) /\ charged' = charged + Reserved(c) /\ req'[c] = Len(obs) + 1
    BY <1>1 DEF Observe
  <1> HIDE DEF x
  <1>4. /\ \A i \in 1..Len(obs) : obs'[i] = obs[i]
        /\ Len(obs') = Len(obs) + 1 /\ obs'[Len(obs) + 1] = x
    BY <1>1, <1>2, <1>3
  <1>5. Accounted'
    <2>1. charged = lost + Spent(obs)
      BY AccountedIsTotal DEF BInv
    <2>2. Accounted' <=> charged' = lost' + Spent(obs')
      BY DEF Accounted, Spent, MapThenSumSet, MapThenFoldSet
    <2>3. Spent(obs') = Spent(obs) + Reserved(c) /\ Spent(obs) \in Int
      BY <1>1, <1>2, <1>3, SpentMore
    <2> QED
      BY <1>1, <1>3, <2>1, <2>2, <2>3
  <1>6. WithinLimit'
    BY <1>1, <1>3 DEF WithinLimit
  <1> QED
    BY <1>2, <1>3, <1>4, <1>5, <1>6

LEMMA AdmitBudget ==
    ASSUME BInv, IInv', NEW c \in Caller, Admit(c)
    PROVE  BInv'
  <1>1. /\ pc[c] = "inspected" /\ lock = c /\ lock' = None /\ Observe(c) /\ lost' = lost
        /\ c # None /\ pc \in [Caller -> Place] /\ req \in [Caller -> 0..Len(obs)]
        /\ \E w \in {"waiting", "failing"} : pc' = [pc EXCEPT ![c] = w]
        /\ req' = [req EXCEPT ![c] = Len(obs) + 1]
    BY BudgetAssumption, AdmitMoves DEF Admit, BInv, IInv, TypeOK
  <1>2. charged + Reserved(c) <= MaxTokens
    BY <1>1 DEF BInv, RoomInv
  <1>3. /\ (Accounted /\ WithinLimit)' /\ obs'[req'[c]].usage = None
        /\ \A i \in 1..Len(obs) : obs'[i] = obs[i]
    BY <1>1, <1>2, ObservedStep
  <1>4. UnsettledInv'
    <2> SUFFICES ASSUME NEW d \in Caller, pc'[d] \in {"waiting", "answered"}
                 PROVE  obs'[req'[d]].usage = None
      BY DEF UnsettledInv
    <2>1. CASE d = c
      BY <1>3, <2>1
    <2>2. CASE d # c
      <3>1. pc[d] \in {"waiting", "answered"} /\ req'[d] = req[d]
        BY <1>1, <2>2
      <3>2. req[d] \in 1..Len(obs) /\ obs[req[d]].usage = None
        BY <1>1, <3>1 DEF BInv, IInv, RequestInv, UnsettledInv, TypeOK
      <3> QED
        BY <1>3, <3>1, <3>2
    <2> QED
      BY <2>1, <2>2
  <1>5. RoomInv'
    BY <1>1 DEF RoomInv
  <1> QED
    BY <1>3, <1>4, <1>5 DEF BInv

LEMMA EnterBudget ==
    ASSUME BInv, IInv', NEW c \in Caller, Enter(c)
    PROVE  BInv'
  <1>1. /\ pc[c] = "entering" /\ lock = None /\ lock' = None
        /\ pc \in [Caller -> Place] /\ req \in [Caller -> 0..Len(obs)]
        /\ charged \in Int /\ lost \in Nat /\ obs \in Seq(Observation) /\ Reserved(c) \in Nat
    BY EnterMoves, ReservedTyped DEF Enter, BInv, IInv, TypeOK
  <1>2. RoomInv'
    BY <1>1 DEF RoomInv
  <1>3. ExcessOutside(c) = None => charged + Reserved(c) <= MaxTokens
    BY <1>1, BudgetAssumption DEF ExcessOutside, Error, Reason
  <1>4. \/ UNCHANGED <<charged, lost, obs, req>> /\ pc' = [pc EXCEPT ![c] = "raised"]
        \/ /\ charged' = charged + Reserved(c) /\ lost' = lost + Reserved(c)
           /\ charged + Reserved(c) <= MaxTokens
           /\ UNCHANGED <<obs, req>> /\ pc' = [pc EXCEPT ![c] = "raised"]
        \/ /\ Observe(c) /\ lost' = lost /\ charged + Reserved(c) <= MaxTokens
           /\ pc' = [pc EXCEPT ![c] = "waiting"]
    BY <1>3 DEF Enter, Ends, To
  <1>5. CASE UNCHANGED <<charged, lost, obs, req>> /\ pc' = [pc EXCEPT ![c] = "raised"]
    <2>1. Uncharged
      BY <1>1, <1>5 DEF Uncharged
    <2> QED
      BY <2>1, UnchargedStep DEF BInv
  <1>6. CASE /\ charged' = charged + Reserved(c) /\ lost' = lost + Reserved(c)
             /\ charged + Reserved(c) <= MaxTokens
             /\ UNCHANGED <<obs, req>> /\ pc' = [pc EXCEPT ![c] = "raised"]
    <2>1. Accounted'
      <3>1. charged = lost + Spent(obs) /\ Spent(obs) \in Int
        <4>1. Spent(obs) = Total(Len(obs), Amounts(obs))
          BY <1>1, AmountsTyped, SpentIsTotal
        <4>2. Total(Len(obs), Amounts(obs)) \in Int
          BY <1>1, AmountsTyped, PartialExists, TotalIs
        <4> QED
          BY <4>1, <4>2, AccountedIsTotal DEF BInv
      <3>2. Accounted' <=> charged' = lost' + Spent(obs')
        BY DEF Accounted, Spent, MapThenSumSet, MapThenFoldSet
      <3> QED
        BY <1>1, <1>6, <3>1, <3>2
    <2>2. WithinLimit'
      BY <1>1, <1>6 DEF WithinLimit
    <2>3. UnsettledInv'
      BY <1>1, <1>6 DEF BInv, UnsettledInv
    <2> QED
      BY <1>2, <2>1, <2>2, <2>3 DEF BInv
  <1>7. CASE /\ Observe(c) /\ lost' = lost /\ charged + Reserved(c) <= MaxTokens
             /\ pc' = [pc EXCEPT ![c] = "waiting"]
    <2>1. /\ (Accounted /\ WithinLimit)' /\ obs'[req'[c]].usage = None
          /\ \A i \in 1..Len(obs) : obs'[i] = obs[i]
      BY <1>7, ObservedStep
    <2>2. UnsettledInv'
      <3> SUFFICES ASSUME NEW d \in Caller, pc'[d] \in {"waiting", "answered"}
                   PROVE  obs'[req'[d]].usage = None
        BY DEF UnsettledInv
      <3>1. CASE d = c
        BY <2>1, <3>1
      <3>2. CASE d # c
        <4>1. pc[d] \in {"waiting", "answered"} /\ req'[d] = req[d]
          BY <1>1, <1>7, <3>2 DEF Observe
        <4>2. req[d] \in 1..Len(obs) /\ obs[req[d]].usage = None
          BY <1>1, <4>1 DEF BInv, IInv, RequestInv, UnsettledInv, TypeOK
        <4> QED
          BY <2>1, <4>1, <4>2
      <3> QED
        BY <3>1, <3>2
    <2> QED
      BY <1>2, <2>1, <2>2 DEF BInv
  <1> QED
    BY <1>4, <1>5, <1>6, <1>7

(* What was used takes the place of what was reserved, once.               *)
LEMMA SettleBudget ==
    ASSUME BInv, IInv', NEW c \in Caller, Settle(c)
    PROVE  BInv'
  <1>1. PICK n \in Usage \cup {None} :
           /\ pc[c] = "answered" /\ lock = None /\ lock' = None
           /\ charged' = IF n = None THEN charged ELSE charged - obs[req[c]].reserved + n
           /\ obs' = [obs EXCEPT ![req[c]].usage = n]
           /\ pc' = [pc EXCEPT ![c] = "settled"]
           /\ UNCHANGED <<lost, req>>
    BY DEF Settle, To
  <1> DEFINE k == req[c]
  <1>2. /\ k \in 1..Len(obs) /\ obs[k].usage = None /\ obs \in Seq(Observation)
        /\ obs' \in Seq(Observation) /\ Len(obs') = Len(obs)
        /\ charged \in Int /\ lost \in Nat /\ n \in Nat \cup {None} /\ None \notin Nat
        /\ pc \in [Caller -> Place] /\ req \in [Caller -> 0..Len(obs)]
    <2>1. /\ obs \in Seq(Observation) /\ charged \in Int /\ lost \in Nat
          /\ pc \in [Caller -> Place] /\ req \in [Caller -> 0..Len(obs)]
      BY DEF BInv, IInv, TypeOK
    <2>2. obs' \in Seq(Observation) /\ Len(obs') = Len(obs)
      BY SettledTyped DEF BInv, IInv
    <2>3. k \in 1..Len(obs)
      BY <1>1, <2>1 DEF BInv, IInv, RequestInv
    <2>4. obs[k].usage = None
      BY <1>1 DEF BInv, UnsettledInv
    <2> QED
      BY <2>1, <2>2, <2>3, <2>4, BudgetAssumption
  <1>3. /\ obs[k] \in Observation /\ obs'[k].usage = n /\ obs'[k].reserved = obs[k].reserved
        /\ obs[k].reserved \in Nat
        /\ \A i \in 1..Len(obs) : i # k => obs'[i] = obs[i]
    <2>1. obs[k] \in Observation
      BY <1>2
    <2> DEFINE x == [obs[k] EXCEPT !.usage = n]
    <2>2. x.usage = n /\ x.reserved = obs[k].reserved /\ obs[k].reserved \in Nat
      BY <2>1 DEF Observation
    <2>3. obs' = [obs EXCEPT ![k] = x]
      BY <1>1
    <2> HIDE DEF x
    <2>4. obs'[k] = x /\ \A i \in 1..Len(obs) : i # k => obs'[i] = obs[i]
      BY <1>2, <2>3
    <2> QED
      BY <2>1, <2>2, <2>4
  <1>4. /\ Amount(obs[k]) = obs[k].reserved
        /\ Amount(obs'[k]) = IF n = None THEN obs[k].reserved ELSE n
    BY <1>2, <1>3 DEF Amount
  <1>5. Accounted'
    <2>1. charged = lost + Spent(obs)
      BY AccountedIsTotal DEF BInv
    <2>2. Accounted' <=> charged' = lost' + Spent(obs')
      BY DEF Accounted, Spent, MapThenSumSet, MapThenFoldSet
    <2>3. Spent(obs') = Spent(obs) + Amount(obs'[k]) - Amount(obs[k]) /\ Spent(obs) \in Int
      BY <1>2, <1>3, SpentOtherwise
    <2>4. charged' = charged + Amount(obs'[k]) - Amount(obs[k])
      BY <1>1, <1>2, <1>3, <1>4
    <2> QED
      BY <1>1, <1>2, <1>3, <1>4, <2>1, <2>2, <2>3, <2>4
  <1>6. WithinLimit'
    <2> SUFFICES ASSUME \A i \in 1..Len(obs') : Amount(obs'[i]) <= obs'[i].reserved
                 PROVE  charged' <= MaxTokens
      BY DEF WithinLimit
    <2>1. \A i \in 1..Len(obs) : Amount(obs[i]) <= obs[i].reserved
      BY <1>2, <1>3, <1>4
    <2>2. charged <= MaxTokens
      BY <2>1 DEF BInv, WithinLimit
    <2>3. Amount(obs'[k]) <= obs[k].reserved
      BY <1>2, <1>3
    <2>4. charged' <= charged
      BY <1>1, <1>2, <1>3, <1>4, <2>3
    <2> QED
      BY <1>1, <1>2, <1>3, <2>2, <2>4, BudgetAssumption
  <1>7. UnsettledInv'
    <2> SUFFICES ASSUME NEW d \in Caller, pc'[d] \in {"waiting", "answered"}
                 PROVE  obs'[req'[d]].usage = None
      BY DEF UnsettledInv
    <2>1. d # c /\ pc[d] \in {"waiting", "answered"} /\ req'[d] = req[d]
      BY <1>1, <1>2
    <2>2. req[d] \in 1..Len(obs) /\ obs[req[d]].usage = None /\ req[d] # k
      <3>1. obs[req[d]].usage = None
        BY <2>1 DEF BInv, UnsettledInv
      <3>2. req[d] # 0 /\ obs[req[d]].by = d /\ obs[k].by = c
        BY <1>2, <2>1 DEF BInv, IInv, RequestInv
      <3> QED
        BY <1>2, <2>1, <3>1, <3>2
    <2> QED
      BY <1>3, <2>1, <2>2
  <1>8. RoomInv'
    BY <1>1 DEF RoomInv
  <1> QED
    BY <1>5, <1>6, <1>7, <1>8 DEF BInv

(* The budget is kept, for any callers, limits, sizes and reported usages:  *)
(* every observation counts once, and as long as no service reports more    *)
(* than was reserved the document stays within its tokens (processing.py,   *)
(* reserve and settle).                                                     *)
THEOREM BudgetIsKept == Spec => []BudgetKept
  <1>1. BInv /\ [Next]_vars => BInv'
    <2> SUFFICES ASSUME BInv, [Next]_vars PROVE BInv'
      OBVIOUS
    <2>1. IInv'
      BY TypeStep, LockStep, ModeStep, RequestStep, ReadStep, CoverStep, CountStep, LimitsStep
      DEF BInv, IInv
    <2>2. CASE \E c \in Caller : Admit(c) \/ Settle(c) \/ Enter(c)
      BY <2>1, <2>2, AdmitBudget, SettleBudget, EnterBudget
    <2>3. CASE ~ \E c \in Caller : Admit(c) \/ Settle(c) \/ Enter(c)
      BY <2>1, <2>3, UnchargedSteps, UnchargedStep DEF BInv
    <2> QED
      BY <2>2, <2>3
  <1>2. BInv => BudgetKept
    BY DEF BInv, BudgetKept
  <1> QED
    BY <1>1, <1>2, InitBInv, PTL DEF Spec
=============================================================================
