------------------------------ MODULE FactsProof ------------------------------
(***************************************************************************)
(* Equal requests of one extraction have one executor, nothing is asked    *)
(* again that has its row, and the text of the source is covered, for any  *)
(* number of workers, any source and any answers.                          *)
(*                                                                         *)
(* Three invariants, each saying more than its property.  IInv: a flight   *)
(* is there exactly as long as somebody owns it, also between the claim    *)
(* and the dispatch and between the answer and the end, and no two are for *)
(* the same request.  UInv follows the units: a worker only has parts of a *)
(* batch of the source that is its own, so that no other worker can write  *)
(* a row between its last look and its request.  CInv follows the text:    *)
(* what a batch has completed comes before what is on the stack of its     *)
(* worker, the next part on top, and every unit of a batch that was begun  *)
(* is completed, on a stack, reported, or of a worker that failed.         *)
(*                                                                         *)
(* The recursion of Without is unfolded one unit at a time, and what holds *)
(* of every prefix is shown by its least exception (LeastOf).              *)
(***************************************************************************)
EXTENDS Facts, WellFoundedInduction, TLAPS

Flying == {"owning", "asking", "finishing"}

DomainOK == DOMAIN pc = Worker /\ DOMAIN pending = Worker /\ DOMAIN owner = Worker
FlightOwned == flight = {v \in Worker : pc[v] \in Flying}
FlightsDiffer ==
    \A v, w \in Worker :
        pc[v] \in Flying /\ pc[w] \in Flying /\ v # w => FactInput(pending[v]) # FactInput(pending[w])
OwnerFlies == \A w \in Worker : pc[w] = "waiting" => owner[w] \in Worker /\ pc[owner[w]] \in Flying

IInv == DomainOK /\ FlightOwned /\ FlightsDiffer /\ OwnerFlies

-----------------------------------------------------------------------------
(* A step of a worker without a flight, to a place without one, disturbs   *)
(* nobody: what it forgets of its own request is no longer compared.       *)
LEMMA Apart ==
    ASSUME IInv, NEW w \in Worker, NEW to,
           pc[w] \notin Flying, to \notin Flying \cup {"waiting"},
           pc' = [pc EXCEPT ![w] = to], flight' = flight,
           DOMAIN pending' = Worker, DOMAIN owner' = Worker,
           \A v \in Worker \ {w} : pending'[v] = pending[v] /\ owner'[v] = owner[v]
    PROVE  IInv'
<1> USE DEF IInv, DomainOK
<1>1. DomainOK'
  OBVIOUS
<1>2. \A v \in Worker : pc'[v] = IF v = w THEN to ELSE pc[v]
  OBVIOUS
<1>3. FlightOwned'
  BY <1>2 DEF FlightOwned
<1>4. FlightsDiffer'
  <2> SUFFICES ASSUME NEW u \in Worker, NEW v \in Worker,
                      pc'[u] \in Flying, pc'[v] \in Flying, u # v
               PROVE  FactInput(pending[u])' # FactInput(pending[v])'
    BY DEF FlightsDiffer
  <2>1. u # w /\ v # w
    BY <1>2
  <2>2. pending'[u] = pending[u] /\ pending'[v] = pending[v]
    BY <2>1
  <2>3. FactInput(pending[u]) # FactInput(pending[v])
    BY <1>2, <2>1 DEF FlightsDiffer
  <2> QED
    BY <2>2, <2>3 DEF FactInput
<1>5. OwnerFlies'
  BY <1>2 DEF OwnerFlies
<1> QED
  BY <1>1, <1>3, <1>4, <1>5

(* A step within a flight.                                                 *)
LEMMA Within ==
    ASSUME IInv, NEW w \in Worker, NEW to \in Flying,
           pc[w] \in Flying, pc' = [pc EXCEPT ![w] = to],
           UNCHANGED <<flight, pending, owner>>
    PROVE  IInv'
<1> USE DEF IInv, DomainOK
<1>1. DomainOK'
  OBVIOUS
<1>2. \A v \in Worker : pc'[v] \in Flying <=> pc[v] \in Flying
  OBVIOUS
<1>3. \A v \in Worker : pc'[v] = "waiting" => pc[v] = "waiting"
  BY DEF Flying
<1>4. FlightOwned'
  BY <1>2 DEF FlightOwned
<1>5. FlightsDiffer'
  BY <1>2 DEF FlightsDiffer, FactInput
<1>6. OwnerFlies'
  BY <1>2, <1>3 DEF OwnerFlies
<1> QED
  BY <1>1, <1>4, <1>5, <1>6

(* The one step that adds a flight looks for an equal one first.           *)
LEMMA ClaimKeeps ==
    ASSUME IInv, NEW w \in Worker, Claim(w)
    PROVE  IInv'
<1> USE DEF IInv, DomainOK
<1> DEFINE others == {v \in flight : FactInput(pending[v]) = FactInput(pending[w])}
<1>1. pc[w] = "claiming" /\ UNCHANGED pending
  BY DEF Claim
<1>2. CASE others = {}
  <2>1. flight' = flight \cup {w} /\ pc' = [pc EXCEPT ![w] = "owning"] /\ owner' = owner
    BY <1>2 DEF Claim, To
  <2>2. \A v \in Worker : pc'[v] = IF v = w THEN "owning" ELSE pc[v]
    BY <2>1
  <2>3. FlightOwned'
    BY <2>1, <2>2 DEF FlightOwned, Flying
  <2>4. FlightsDiffer'
    <3>1. \A v \in Worker : pc[v] \in Flying => FactInput(pending[v]) # FactInput(pending[w])
      BY <1>2 DEF FlightOwned
    <3>2. \A v \in Worker : pc'[v] \in Flying => v = w \/ pc[v] \in Flying
      BY <2>2
    <3> QED
      BY <3>1, <3>2, <1>1 DEF FlightsDiffer, FactInput
  <2>5. OwnerFlies'
    BY <2>1, <2>2 DEF OwnerFlies, Flying
  <2> QED
    BY <1>1, <2>1, <2>3, <2>4, <2>5
<1>3. CASE others # {}
  <2> DEFINE chosen == CHOOSE v \in others : TRUE
  <2>1. owner' = [owner EXCEPT ![w] = chosen] /\ pc' = [pc EXCEPT ![w] = "waiting"] /\ flight' = flight
    BY <1>3 DEF Claim, To
  <2>2. chosen \in Worker /\ pc[chosen] \in Flying
    BY <1>3 DEF FlightOwned
  <2> HIDE DEF chosen
  <2>3. \A v \in Worker : pc'[v] = IF v = w THEN "waiting" ELSE pc[v]
    BY <2>1
  <2>4. \A v \in Worker : pc'[v] \in Flying <=> pc[v] \in Flying
    BY <2>3, <1>1 DEF Flying
  <2>5. FlightOwned'
    BY <2>1, <2>4 DEF FlightOwned
  <2>6. FlightsDiffer'
    BY <2>4, <1>1 DEF FlightsDiffer, FactInput
  <2>7. OwnerFlies'
    BY <2>1, <2>2, <2>3, <2>4 DEF OwnerFlies
  <2> QED
    BY <1>1, <2>1, <2>5, <2>6, <2>7
<1> QED
  BY <1>2, <1>3

(* The one step that removes a flight wakes who waits for it.              *)
LEMMA FinishKeeps ==
    ASSUME IInv, NEW w \in Worker, Finish(w)
    PROVE  IInv'
<1> USE DEF IInv, DomainOK
<1>1. pc[w] = "finishing" /\ flight' = flight \ {w} /\ UNCHANGED <<pending, owner>>
  BY DEF Finish
<1>2. \A v \in Worker : pc'[v] = CASE v = w -> IF error[w] = None THEN "verifying" ELSE "raising"
                                   [] v \in Waiters(w) -> "woken"
                                   [] OTHER -> pc[v]
  BY DEF Finish
<1>3. DOMAIN pc' = Worker
  BY DEF Finish
<1>4. \A v \in Worker : pc'[v] \in Flying <=> pc[v] \in Flying /\ v # w
  BY <1>1, <1>2 DEF Flying, Waiters
<1>5. \A v \in Worker : pc'[v] = "waiting" => pc[v] = "waiting" /\ owner[v] # w
  BY <1>2 DEF Waiters
<1>6. FlightOwned'
  BY <1>1, <1>4 DEF FlightOwned
<1>7. FlightsDiffer'
  BY <1>1, <1>4 DEF FlightsDiffer, FactInput
<1>8. OwnerFlies'
  BY <1>1, <1>4, <1>5 DEF OwnerFlies
<1> QED
  BY <1>1, <1>3, <1>6, <1>7, <1>8

-----------------------------------------------------------------------------
(* What an attempt leaves concerns its worker only.                        *)
LEMMA LeftApart ==
    ASSUME DomainOK, NEW w \in Worker, Left(w)
    PROVE  /\ DOMAIN pending' = Worker /\ DOMAIN owner' = Worker
           /\ \A v \in Worker \ {w} : pending'[v] = pending[v] /\ owner'[v] = owner[v]
BY DEF Left, DomainOK

(* Every step of a worker keeps the invariant.                             *)
LEMMA StepKeeps ==
    ASSUME IInv, NEW w \in Worker, Step(w) \/ WaitTooLong(w)
    PROVE  IInv'
<1>0. DomainOK
  BY DEF IInv
<1>1. CASE Submit(w)
  <2>1. pc[w] \notin Flying /\ pc' = [pc EXCEPT ![w] = "popping"] /\ UNCHANGED <<flight, pending, owner>>
    BY <1>1 DEF Submit, To, Flying
  <2> QED
    BY <2>1, <1>0, Apart DEF DomainOK, Flying
<1>2. CASE Pop(w)
  <2>1. pc[w] = "popping" /\ UNCHANGED <<flight, pending, owner>>
    BY <1>2 DEF Pop
  <2>2. CASE \E to \in {"idle", "failed", "looking"} : pc' = [pc EXCEPT ![w] = to]
    BY <2>1, <2>2, <1>0, Apart DEF DomainOK, Flying
  <2>3. CASE UNCHANGED pc
    BY <2>1, <2>3 DEF IInv, DomainOK, FlightOwned, FlightsDiffer, OwnerFlies, FactInput
  <2> QED
    BY <1>2, <2>2, <2>3, Zenon DEF Pop, To
<1>3. CASE Look(w)
  <2>1. pc[w] = "looking" /\ UNCHANGED <<flight, owner>>
    BY <1>3 DEF Look
  <2>2. \E to \in {"raising", "verifying", "claiming", "narrowing"} : pc' = [pc EXCEPT ![w] = to]
    BY <1>3, Zenon DEF Look, To, After
  <2>3. UNCHANGED pending \/ \E left : pending' = [pending EXCEPT ![w] = left]
    BY <1>3, Zenon DEF Look
  <2>4. DOMAIN pending' = Worker /\ \A v \in Worker \ {w} : pending'[v] = pending[v]
    BY <2>3, <1>0 DEF DomainOK
  <2> QED
    BY <2>1, <2>2, <2>4, <1>0, Apart DEF DomainOK, Flying
<1>4. CASE Narrow(w)
  <2>1. pc[w] = "narrowing" /\ UNCHANGED <<flight, owner>>
    BY <1>4 DEF Narrow
  <2>2. \E to \in {"verifying", "claiming", "narrowing"} : pc' = [pc EXCEPT ![w] = to]
    BY <1>4, Zenon DEF Narrow, To, After
  <2>3. \E left : pending' = [pending EXCEPT ![w] = left]
    BY <1>4, Zenon DEF Narrow
  <2>4. DOMAIN pending' = Worker /\ \A v \in Worker \ {w} : pending'[v] = pending[v]
    BY <2>3, <1>0 DEF DomainOK
  <2> QED
    BY <2>1, <2>2, <2>4, <1>0, Apart DEF DomainOK, Flying
<1>5. CASE Claim(w)
  BY <1>5, ClaimKeeps
<1>6. CASE Recheck(w)
  <2>1. pc[w] = "owning" /\ UNCHANGED <<flight, pending, owner>>
    BY <1>6 DEF Recheck
  <2>2. \E to \in {"finishing", "asking"} : pc' = [pc EXCEPT ![w] = to]
    BY <1>6, Zenon DEF Recheck, To
  <2> QED
    BY <2>1, <2>2, Within DEF Flying
<1>7. CASE Reply(w)
  <2>1. pc[w] = "asking" /\ pc' = [pc EXCEPT ![w] = "finishing"] /\ UNCHANGED <<flight, pending, owner>>
    BY <1>7, Zenon DEF Reply, To
  <2> QED
    BY <2>1, Within DEF Flying
<1>8. CASE Finish(w)
  BY <1>8, FinishKeeps
<1>9. CASE StopWaiting(w) \/ WaitTooLong(w)
  <2>1. pc[w] \in {"waiting", "woken"} /\ pc' = [pc EXCEPT ![w] = "raising"] /\ UNCHANGED <<flight, pending, owner>>
    BY <1>9 DEF StopWaiting, WaitTooLong, To
  <2> QED
    BY <2>1, <1>0, Apart DEF DomainOK, Flying
<1>10. CASE Verify(w)
  <2>1. pc[w] \in {"verifying", "woken"} /\ UNCHANGED flight
    BY <1>10 DEF Verify
  <2>2. \/ pc' = [pc EXCEPT ![w] = "popping"] /\ Left(w)
        \/ pc' = [pc EXCEPT ![w] = "raising"] /\ UNCHANGED <<pending, owner>>
    BY <1>10, Zenon DEF Verify, To
  <2>3. \E to \in {"popping", "raising"} : pc' = [pc EXCEPT ![w] = to]
    BY <2>2
  <2>4. /\ DOMAIN pending' = Worker /\ DOMAIN owner' = Worker
        /\ \A v \in Worker \ {w} : pending'[v] = pending[v] /\ owner'[v] = owner[v]
    BY <2>2, <1>0, LeftApart DEF DomainOK
  <2> QED
    BY <2>1, <2>3, <2>4, Apart DEF Flying
<1>11. CASE Handle(w)
  <2>1. pc[w] = "raising" /\ UNCHANGED flight /\ Left(w)
    BY <1>11 DEF Handle
  <2>2. \E to \in {"popping", "failed"} : pc' = [pc EXCEPT ![w] = to]
    BY <1>11, Zenon DEF Handle, Invalid, Capacity, Replace, Again, GiveUp, To
  <2> QED
    BY <2>1, <2>2, <1>0, LeftApart, Apart DEF Flying
<1> QED
  BY <1>1, <1>2, <1>3, <1>4, <1>5, <1>6, <1>7, <1>8, <1>9, <1>10, <1>11 DEF Step

-----------------------------------------------------------------------------
(* The invariant holds: every flight has an owner that is still in it, and *)
(* no two flights are for one request.                                     *)
THEOREM Invariance == Spec => []IInv
<1>1. Init => IInv
  BY DEF Init, IInv, DomainOK, FlightOwned, FlightsDiffer, OwnerFlies, Flying
<1>2. IInv /\ [Next]_vars => IInv'
  <2> SUFFICES ASSUME IInv, [Next]_vars PROVE IInv'
    OBVIOUS
  <2>1. CASE \E w \in Worker : Step(w) \/ WaitTooLong(w)
    BY <2>1, StepKeeps
  <2>2. CASE Fail \/ Conclude \/ Join \/ UNCHANGED vars
    <3>1. UNCHANGED <<pc, pending, owner, flight>>
      BY <2>2 DEF Fail, Conclude, Join, vars
    <3> QED
      BY <3>1 DEF IInv, DomainOK, FlightOwned, FlightsDiffer, OwnerFlies, FactInput
  <2>3. CASE Resume
    BY <2>3 DEF Resume, IInv, DomainOK, FlightOwned, FlightsDiffer, OwnerFlies, Flying
  <2> QED
    BY <2>1, <2>2, <2>3 DEF Next
<1> QED
  BY <1>1, <1>2, PTL DEF Spec

(* Equal requests are never with the service at the same time, and whoever *)
(* waits for one waits for a worker that is about to end it.               *)
THEOREM OneExecutorAlways == Spec => []OneExecutor
<1>1. IInv => OneExecutor
  BY DEF IInv, FlightsDiffer, OwnerFlies, OneExecutor, Flying
<1> QED
  BY <1>1, Invariance, PTL

-----------------------------------------------------------------------------
(* What remains of a batch.  A set of numbers that is not empty has a      *)
(* least one; the prefixes of a batch are compared with it.                *)
LEMMA LeastOf ==
    ASSUME NEW S \in SUBSET Nat, S # {}
    PROVE  \E m \in S : \A n \in S : m <= n
<1>1. PICK m \in S : \A n \in S : ~(<<n, m>> \in OpToRel(<, Nat))
  BY NatLessThanWellFounded, WFMin
<1>2. \A n \in S : m <= n
  <2> SUFFICES ASSUME NEW n \in S, n < m PROVE FALSE
    OBVIOUS
  <2>1. <<n, m>> \in OpToRel(<, Nat)
    BY DEF OpToRel
  <2> QED
    BY <1>1, <2>1
<1> QED
  BY <1>2

(* What remains of the first so many units.                                *)
Kept(batch, got, n, f) ==
    /\ f[0] = <<>>
    /\ \A i \in 1..n : f[i] = IF batch[i] \in got THEN f[i - 1] ELSE Append(f[i - 1], batch[i])

LEMMA KeptExists ==
    ASSUME NEW S, NEW batch \in Seq(S), NEW got
    PROVE  \E f \in [0..Len(batch) -> Seq(S)] : Kept(batch, got, Len(batch), f)
<1> DEFINE n == Len(batch)
           P(m) == \E f \in [0..m -> Seq(S)] : Kept(batch, got, m, f)
           bad == {m \in 0..n : ~P(m)}
<1> n \in Nat
  OBVIOUS
<1>1. P(0)
  <2> DEFINE z == [i \in 0..0 |-> <<>>]
  <2>1. <<>> \in Seq(S)
    OBVIOUS
  <2>2. z \in [0..0 -> Seq(S)]
    BY <2>1
  <2>3. Kept(batch, got, 0, z)
    BY DEF Kept
  <2> HIDE DEF z
  <2> QED
    BY <2>2, <2>3
<1>2. ASSUME NEW m \in 0..n, m # 0, P(m - 1) PROVE P(m)
  <2>1. PICK f \in [0..(m - 1) -> Seq(S)] : Kept(batch, got, m - 1, f)
    BY <1>2
  <2>2. m \in 1..n /\ m - 1 \in 0..(m - 1) /\ batch[m] \in S
    BY <1>2
  <2> DEFINE last == IF batch[m] \in got THEN f[m - 1] ELSE Append(f[m - 1], batch[m])
             g == [i \in 0..m |-> IF i = m THEN last ELSE f[i]]
  <2>3. last \in Seq(S)
    <3>1. f[m - 1] \in Seq(S)
      BY <2>1, <2>2
    <3> QED
      BY <2>2, <3>1
  <2>4. g[m] = last /\ \A i \in 0..(m - 1) : g[i] = f[i]
    BY <2>2
  <2>5. g \in [0..m -> Seq(S)]
    BY <2>1, <2>3
  <2> HIDE DEF g
  <2>6. g[0] = <<>>
    BY <2>1, <2>2, <2>4 DEF Kept
  <2>7. ASSUME NEW i \in 1..m
        PROVE  g[i] = IF batch[i] \in got THEN g[i - 1] ELSE Append(g[i - 1], batch[i])
    <3>1. CASE i = m
      BY <2>2, <2>4, <3>1
    <3>2. CASE i # m
      <4>1. i \in 1..(m - 1) /\ i \in 0..(m - 1) /\ i - 1 \in 0..(m - 1)
        BY <2>2, <3>2
      <4> QED
        BY <2>1, <2>4, <4>1 DEF Kept
    <3> QED
      BY <3>1, <3>2
  <2>8. Kept(batch, got, m, g)
    BY <2>6, <2>7 DEF Kept
  <2> QED
    BY <2>5, <2>8
<1> HIDE DEF P
<1>3. CASE bad = {}
  <2>1. P(n)
    BY <1>3
  <2> QED
    BY <2>1 DEF P
<1>4. CASE bad # {}
  <2>1. PICK m \in bad : \A k \in bad : m <= k
    <3>1. bad \subseteq Nat
      OBVIOUS
    <3> QED
      BY <1>4, <3>1, LeastOf
  <2>2. m # 0
    BY <1>1
  <2>3. m \in 0..n /\ m - 1 \in 0..n /\ ~(m <= m - 1)
    BY <2>1, <2>2
  <2>4. P(m - 1)
    BY <2>1, <2>3
  <2> QED
    BY <1>2, <2>1, <2>2, <2>3, <2>4
<1> QED
  BY <1>3, <1>4

(* They are units of the batch that are not among those that were found.   *)
LEMMA WithoutIs ==
    ASSUME NEW S, NEW batch \in Seq(S), NEW got
    PROVE  Without(batch, got) \in Seq({u \in Units(batch) : u \notin got})
<1> DEFINE n == Len(batch)
           T == {u \in Units(batch) : u \notin got}
           Rest(f) == [i \in 0..n |-> IF i = 0 THEN <<>>
                                      ELSE IF batch[i] \in got THEN f[i - 1]
                                      ELSE Append(f[i - 1], batch[i])]
           left == CHOOSE f : f = Rest(f)
<1> n \in Nat
  OBVIOUS
<1>1. Without(batch, got) = left[n]
  BY DEF Without
<1>2. left = Rest(left)
  <2>1. PICK f \in [0..n -> Seq(S)] : Kept(batch, got, n, f)
    BY KeptExists
  <2>2. f = Rest(f)
    <3>1. ASSUME NEW i \in 0..n PROVE f[i] = Rest(f)[i]
      <4>1. CASE i = 0
        BY <2>1, <4>1 DEF Kept
      <4>2. CASE i # 0
        <5>1. i \in 1..n
          BY <4>2
        <5>2. f[i] = IF batch[i] \in got THEN f[i - 1] ELSE Append(f[i - 1], batch[i])
          BY <2>1, <5>1 DEF Kept
        <5> QED
          BY <4>2, <5>2
      <4> QED
        BY <4>1, <4>2
    <3>2. f = [i \in 0..n |-> f[i]]
      BY <2>1
    <3> QED
      BY <3>1, <3>2
  <2> QED
    BY <2>2, Zenon
<1> HIDE DEF left
<1>3. left[0] = <<>> /\ \A i \in 1..n :
          left[i] = IF batch[i] \in got THEN left[i - 1] ELSE Append(left[i - 1], batch[i])
  <2>1. \A i \in 0..n : Rest(left)[i] = IF i = 0 THEN <<>>
                          ELSE IF batch[i] \in got THEN left[i - 1] ELSE Append(left[i - 1], batch[i])
    OBVIOUS
  <2> HIDE DEF Rest
  <2>2. \A i \in 0..n : left[i] = IF i = 0 THEN <<>>
                          ELSE IF batch[i] \in got THEN left[i - 1] ELSE Append(left[i - 1], batch[i])
    BY <1>2, <2>1, Zenon
  <2>3. 0 \in 0..n /\ \A i \in 1..n : i \in 0..n /\ i # 0
    OBVIOUS
  <2> HIDE DEF n
  <2> QED
    BY <2>2, <2>3, Zenon
<1> DEFINE bad == {m \in 0..n : left[m] \notin Seq(T)}
<1> HIDE DEF Rest
<1>4. CASE bad # {}
  <2>1. PICK m \in bad : \A k \in bad : m <= k
    <3>1. bad \subseteq Nat
      OBVIOUS
    <3> QED
      BY <1>4, <3>1, LeastOf
  <2>2. m # 0
    <3>1. <<>> \in Seq(T)
      OBVIOUS
    <3> QED
      BY <1>3, <2>1, <3>1
  <2>3. m \in 1..n /\ m - 1 \in 0..n /\ ~(m <= m - 1)
    BY <2>1, <2>2
  <2>4. left[m - 1] \in Seq(T)
    BY <2>1, <2>3
  <2>5. batch[m] \in Units(batch)
    BY <2>3 DEF Units
  <2>6. left[m] \in Seq(T)
    <3>1. CASE batch[m] \in got
      BY <1>3, <2>3, <2>4, <3>1
    <3>2. CASE batch[m] \notin got
      <4>1. batch[m] \in T
        BY <2>5, <3>2
      <4> HIDE DEF T
      <4>2. left[m] = Append(left[m - 1], batch[m])
        BY <1>3, <2>3, <3>2
      <4> QED
        BY <2>4, <4>1, <4>2
    <3> QED
      BY <3>1, <3>2
  <2> QED
    BY <2>1, <2>6
<1>5. CASE bad = {}
  BY <1>1, <1>5
<1> QED
  BY <1>4, <1>5

-----------------------------------------------------------------------------
(* Whose units are whose.  A worker has units of its own batch of the      *)
(* source only, no two workers have one batch, and so nobody else writes   *)
(* the rows of a request that is being prepared.                           *)
Unit == [block : Block, from : Nat, to : Nat]

(* u is a part of the batch i of the source.                               *)
Inside(u, i) ==
    /\ u \in Unit /\ u.from <= u.to
    /\ \E g \in Units(Source[i]) : u.block = g.block /\ g.from <= u.from /\ u.to <= g.to

Part(batch, i) == batch \in Seq(Unit) /\ batch # <<>> /\ \A u \in Units(batch) : Inside(u, i)

JobsDiffer ==
    /\ next \in Nat \ {0}
    /\ \A w \in Worker : job[w] \in 0..(next - 1)
    /\ \A v, w \in Worker : v # w /\ job[v] = job[w] => job[v] = 0

(* The stack of a worker, *)
Frame == [batch : Seq(Unit), attempt : Nat]
StackOf(s, j) ==
    /\ s \in Seq(Frame) /\ \A k \in 1..Len(s) : Part(s[k].batch, j)
    /\ s # <<>> => j \in DOMAIN Source

(* what it prepares or has under way, *)
Preparing == {"narrowing", "claiming", "owning"}
PendingOf(where, left, j) ==
    /\ where \in Preparing \cup {"asking"} =>
         left \in Seq(Unit) /\ \A u \in Units(left) : Inside(u, j)
    /\ where \in Preparing => Units(left) \cap row = {}

(* and all of a worker.                                                    *)
WorkerInv(w) ==
    /\ StackOf(stack[w], job[w])
    /\ stack[w] = <<>> => pc[w] \in {"idle", "popping", "failed"}
    /\ PendingOf(pc[w], pending[w], job[w])

Domains == DOMAIN pc = Worker /\ DOMAIN pending = Worker /\ DOMAIN stack = Worker /\ DOMAIN job = Worker

UInv == Domains /\ JobsDiffer /\ \A w \in Worker : WorkerInv(w)

LEMMA SourceTyped ==
    ASSUME NEW i \in DOMAIN Source
    PROVE  /\ Source[i] \in Seq(Unit) /\ Source[i] # <<>>
           /\ \A u \in Units(Source[i]) : u \in Unit /\ u.from \in Nat /\ u.to \in Nat
<1>1. Source \in Seq(Seq(Unit) \ {<<>>})
  BY SourceAssumption DEF Unit
<1>2. Source[i] \in Seq(Unit) /\ Source[i] # <<>>
  BY <1>1
<1>3. \A u \in Units(Source[i]) : u \in Unit
  BY <1>2 DEF Units
<1>4. \A u \in Unit : u.from \in Nat /\ u.to \in Nat
  BY DEF Unit
<1> QED
  BY <1>2, <1>3, <1>4

(* The units of an earlier batch come before those of a later one, and so  *)
(* do their parts: parts of two batches are not the same.                  *)
Before(s, t) == \A u \in Units(s), v \in Units(t) : u.block = v.block => u.to < v.from

LEMMA PartsInOrder ==
    ASSUME NEW i \in DOMAIN Source, NEW j \in DOMAIN Source, i < j,
           NEW u, NEW v, Inside(u, i), Inside(v, j), u.block = v.block
    PROVE  u.to < v.from
<1>1. PICK g \in Units(Source[i]) : u.block = g.block /\ g.from <= u.from /\ u.to <= g.to
  BY DEF Inside
<1>2. PICK h \in Units(Source[j]) : v.block = h.block /\ h.from <= v.from /\ v.to <= h.to
  BY DEF Inside
<1>3. g.to < h.from
  <2>1. PICK k \in DOMAIN Source[i], l \in DOMAIN Source[j] : g = Source[i][k] /\ h = Source[j][l]
    BY DEF Units
  <2>2. g.block = h.block
    BY <1>1, <1>2
  <2> QED
    BY <2>1, <2>2, SourceAssumption
<1>4. g.to \in Nat /\ h.from \in Nat
  BY SourceTyped
<1>5. u.to \in Nat /\ v.from \in Nat
  BY DEF Inside, Unit
<1> QED
  BY <1>1, <1>2, <1>3, <1>4, <1>5

LEMMA PartsDiffer ==
    ASSUME NEW i \in DOMAIN Source, NEW j \in DOMAIN Source, i # j,
           NEW u, Inside(u, i), Inside(u, j)
    PROVE  FALSE
<1>1. i \in Nat /\ j \in Nat
  <2>1. Source \in Seq(Seq(Unit) \ {<<>>})
    BY SourceAssumption DEF Unit
  <2> QED
    BY <2>1
<1>2. u.to < u.from
  BY <1>1, PartsInOrder
<1> QED
  BY <1>2 DEF Inside, Unit

(* The batches of the source are parts of themselves.                      *)
LEMMA SourceParts ==
    ASSUME NEW i \in DOMAIN Source
    PROVE  Part(Source[i], i)
<1>1. Source[i] \in Seq(Unit) /\ Source[i] # <<>>
  BY SourceTyped
<1>2. ASSUME NEW u \in Units(Source[i]) PROVE Inside(u, i)
  <2>1. u \in Unit /\ u.from \in Nat /\ u.to \in Nat
    BY SourceTyped
  <2>2. u.from <= u.to
    BY SourceAssumption DEF Given
  <2> QED
    BY <2>1, <2>2 DEF Inside
<1> QED
  BY <1>1, <1>2 DEF Part

(* Less of a batch, and the parts that a batch is split into.              *)
LEMMA LessIsInside ==
    ASSUME NEW batch \in Seq(Unit), NEW j, \A u \in Units(batch) : Inside(u, j), NEW got
    PROVE  /\ Without(batch, got) \in Seq(Unit)
           /\ \A u \in Units(Without(batch, got)) : Inside(u, j) /\ u \notin got
<1> DEFINE T == {u \in Units(batch) : u \notin got}
<1>1. Without(batch, got) \in Seq(T)
  BY WithoutIs
<1>2. T \subseteq Unit
  BY DEF Units
<1>3. \A u \in Units(Without(batch, got)) : u \in T
  <2> HIDE DEF T
  <2> QED
    BY <1>1 DEF Units
<1>4. Without(batch, got) \in Seq(Unit)
  <2> HIDE DEF T
  <2> QED
    BY <1>1, <1>2
<1> QED
  BY <1>3, <1>4

LEMMA HalvesAreParts ==
    ASSUME NEW batch, NEW j, Part(batch, j)
    PROVE  /\ Halves(batch) \in Seq(Seq(Unit))
           /\ \A k \in 1..Len(Halves(batch)) : Part(Halves(batch)[k], j)
<1>1. batch \in Seq(Unit) /\ Len(batch) \in Nat
  BY DEF Part
<1>2. CASE Len(batch) < 2
  BY <1>2 DEF Halves
<1>3. CASE ~(Len(batch) < 2)
  <2> DEFINE n == Len(batch)
             m == n \div 2
             a == SubSeq(batch, 1, m)
             b == SubSeq(batch, m + 1, n)
  <2>1. n \in Nat /\ m \in Nat /\ 1 <= m /\ m < n
    BY <1>1, <1>3
  <2> HIDE DEF m
  <2>2. a \in Seq(Unit) /\ Len(a) = m /\ \A i \in 1..m : a[i] = batch[i]
    BY <1>1, <2>1
  <2>3. b \in Seq(Unit) /\ Len(b) = n - m /\ \A i \in 1..(n - m) : b[i] = batch[m + i]
    BY <1>1, <2>1
  <2>4. Units(a) \subseteq Units(batch) /\ Units(b) \subseteq Units(batch)
    <3>1. ASSUME NEW i \in DOMAIN a PROVE a[i] \in Units(batch)
      BY <1>1, <2>1, <2>2 DEF Units
    <3>2. ASSUME NEW i \in DOMAIN b PROVE b[i] \in Units(batch)
      <4>1. i \in 1..(n - m) /\ m + i \in 1..n
        BY <2>1, <2>3
      <4> QED
        BY <1>1, <2>3, <4>1 DEF Units
    <3> HIDE DEF a, b
    <3> QED
      BY <3>1, <3>2 DEF Units
  <2>5. Halves(batch) = <<a, b>>
    BY <1>3 DEF Halves, m
  <2>6. a # <<>> /\ b # <<>>
    <3>1. Len(a) # 0 /\ Len(b) # 0
      BY <2>1, <2>2, <2>3
    <3> HIDE DEF a, b
    <3> QED
      BY <3>1
  <2> HIDE DEF a, b
  <2>7. Part(a, j) /\ Part(b, j)
    BY <2>2, <2>3, <2>4, <2>6 DEF Part
  <2> QED
    BY <2>2, <2>3, <2>5, <2>7
<1> QED
  BY <1>2, <1>3

LEMMA SpansAreParts ==
    ASSUME NEW u, NEW j \in DOMAIN Source, Inside(u, j)
    PROVE  /\ SplitSpan(u) \in Seq(Seq(Unit))
           /\ \A k \in 1..Len(SplitSpan(u)) : Part(SplitSpan(u)[k], j)
<1>1. u \in Unit /\ u.from \in Nat /\ u.to \in Nat /\ u.from <= u.to
  BY DEF Inside, Unit
<1>2. CASE u.from = u.to
  BY <1>2 DEF SplitSpan
<1>3. CASE u.from # u.to
  <2> DEFINE middle == (u.from + u.to) \div 2
             a == [u EXCEPT !.to = middle]
             b == [u EXCEPT !.from = middle + 1]
  <2>1. middle \in Nat /\ u.from <= middle /\ middle + 1 <= u.to
    BY <1>1, <1>3
  <2> HIDE DEF middle
  <2>2. a \in Unit /\ a.block = u.block /\ a.from = u.from /\ a.to = middle
    BY <1>1, <2>1 DEF Unit
  <2>3. b \in Unit /\ b.block = u.block /\ b.from = middle + 1 /\ b.to = u.to
    BY <1>1, <2>1 DEF Unit
  <2>4. PICK g \in Units(Source[j]) : u.block = g.block /\ g.from <= u.from /\ u.to <= g.to
    BY DEF Inside
  <2>5. SplitSpan(u) = << <<a>>, <<b>> >>
    BY <1>3 DEF SplitSpan, middle
  <2> HIDE DEF a, b
  <2>6. g.from \in Nat /\ g.to \in Nat
    BY SourceTyped
  <2>7. Inside(a, j) /\ Inside(b, j)
    BY <1>1, <2>1, <2>2, <2>3, <2>4, <2>6 DEF Inside
  <2>8. Part(<<a>>, j) /\ Part(<<b>>, j)
    BY <2>2, <2>3, <2>7 DEF Part, Units
  <2> QED
    BY <2>2, <2>3, <2>5, <2>8
<1> QED
  BY <1>2, <1>3

LEMMA SplitsAreParts ==
    ASSUME NEW batch, NEW j \in DOMAIN Source, Part(batch, j)
    PROVE  /\ SplitUnits(batch) \in Seq(Seq(Unit))
           /\ \A k \in 1..Len(SplitUnits(batch)) : Part(SplitUnits(batch)[k], j)
<1>1. CASE Len(batch) > 1
  BY <1>1, HalvesAreParts DEF SplitUnits
<1>2. CASE ~(Len(batch) > 1)
  <2>1. Inside(batch[1], j)
    BY DEF Part, Units
  <2> QED
    BY <1>2, <2>1, SpansAreParts DEF SplitUnits
<1> QED
  BY <1>1, <1>2

(* What happens to a stack.                                                *)
LEMMA PoppedStack ==
    ASSUME NEW s, NEW j, StackOf(s, j), s # <<>>
    PROVE  StackOf(SubSeq(s, 1, Len(s) - 1), j) /\ Part(s[Len(s)].batch, j) /\ j \in DOMAIN Source
<1> DEFINE n == Len(s) - 1
           r == SubSeq(s, 1, n)
<1>1. s \in Seq(Frame) /\ n \in Nat /\ Len(s) = n + 1
  BY DEF StackOf
<1> HIDE DEF n
<1>2. r \in Seq(Frame) /\ Len(r) = n /\ \A k \in 1..n : r[k] = s[k]
  <2>1. r = [k \in 1..n |-> s[k]]
    BY <1>1
  <2>2. \A k \in 1..n : s[k] \in Frame
    BY <1>1
  <2> HIDE DEF r
  <2> QED
    BY <1>1, <2>1, <2>2
<1> HIDE DEF r
<1>3. \A k \in 1..Len(r) : Part(r[k].batch, j)
  BY <1>1, <1>2 DEF StackOf
<1>4. StackOf(r, j)
  BY <1>2, <1>3 DEF StackOf
<1> QED
  BY <1>1, <1>4 DEF StackOf, r, n

LEMMA PushedStack ==
    ASSUME NEW s, NEW j, StackOf(s, j), s # <<>>,
           NEW parts \in Seq(Seq(Unit)), \A k \in 1..Len(parts) : Part(parts[k], j)
    PROVE  StackOf(SubSeq(s, 1, Len(s) - 1) \o
                   [i \in DOMAIN parts |-> [batch |-> parts[Len(parts) + 1 - i], attempt |-> 1]], j)
<1> DEFINE r == SubSeq(s, 1, Len(s) - 1)
           n == Len(parts)
           t == [i \in DOMAIN parts |-> [batch |-> parts[n + 1 - i], attempt |-> 1]]
<1>1. StackOf(r, j) /\ j \in DOMAIN Source
  BY PoppedStack
<1>2. n \in Nat /\ DOMAIN parts = 1..n /\ \A i \in 1..n : n + 1 - i \in 1..n
  OBVIOUS
<1>3. \A i \in 1..n : t[i] = [batch |-> parts[n + 1 - i], attempt |-> 1]
  BY <1>2
<1>4. \A i \in 1..n : t[i] \in Frame /\ t[i].batch = parts[n + 1 - i]
  <2>1. \A i \in 1..n : parts[n + 1 - i] \in Seq(Unit)
    BY <1>2
  <2> QED
    BY <1>3, <2>1 DEF Frame
<1>5. t \in Seq(Frame) /\ Len(t) = n
  BY <1>2, <1>4
<1>6. \A i \in 1..Len(t) : Part(t[i].batch, j)
  BY <1>2, <1>4, <1>5
<1>7. r \in Seq(Frame) /\ \A k \in 1..Len(r) : Part(r[k].batch, j)
  BY <1>1 DEF StackOf
<1> HIDE DEF r, t
<1>8. r \o t \in Seq(Frame) /\ Len(r \o t) = Len(r) + Len(t)
      /\ \A k \in 1..Len(r \o t) : (r \o t)[k] = IF k <= Len(r) THEN r[k] ELSE t[k - Len(r)]
  BY <1>5, <1>7
<1>9. ASSUME NEW k \in 1..Len(r \o t) PROVE Part((r \o t)[k].batch, j)
  <2>1. Len(r) \in Nat /\ Len(t) \in Nat
    BY <1>5, <1>7
  <2>2. CASE k <= Len(r)
    BY <1>7, <1>8, <2>1, <2>2
  <2>3. CASE ~(k <= Len(r))
    <3>1. k - Len(r) \in 1..Len(t)
      BY <1>8, <2>1, <2>3
    <3> QED
      BY <1>6, <1>8, <2>3, <3>1
  <2> QED
    BY <2>2, <2>3
<1>10. StackOf(r \o t, j)
  BY <1>1, <1>8, <1>9 DEF StackOf
<1> QED
  BY <1>10 DEF r, t

(* A step of one worker is of no concern to the others.                    *)
LEMMA OneWorker ==
    ASSUME UInv, NEW w \in Worker, Domains', JobsDiffer', WorkerInv(w)',
           \A v \in Worker \ {w} :
               /\ stack'[v] = stack[v] /\ job'[v] = job[v] /\ pending'[v] = pending[v]
               /\ pc'[v] = pc[v] \/ (pc[v] = "waiting" /\ pc'[v] = "woken"),
           row' = row \/ (pc[w] = "asking" /\ row' \subseteq row \cup Units(pending[w]))
    PROVE  UInv'
<1> SUFFICES ASSUME NEW v \in Worker \ {w} PROVE WorkerInv(v)'
  BY DEF UInv
<1>1. WorkerInv(v) /\ WorkerInv(w) /\ JobsDiffer
  BY DEF UInv
<1>2. StackOf(stack[v], job[v])' /\ (stack[v] = <<>> => pc[v] \in {"idle", "popping", "failed"})'
  BY <1>1 DEF WorkerInv, StackOf
<1>3. pc'[v] \in Preparing \cup {"asking"} => pc'[v] = pc[v]
  BY DEF Preparing
<1>4. (pc[v] \in Preparing \cup {"asking"} =>
          pending[v] \in Seq(Unit) /\ \A u \in Units(pending[v]) : Inside(u, job[v]))'
  BY <1>1, <1>3 DEF WorkerInv, PendingOf, Units, Inside
<1>5. ASSUME pc'[v] \in Preparing PROVE Units(pending'[v]) \cap row' = {}
  <2>1. pc[v] \in Preparing /\ pending'[v] = pending[v]
    BY <1>3, <1>5
  <2>2. Units(pending[v]) \cap row = {} /\ \A u \in Units(pending[v]) : Inside(u, job[v])
    BY <1>1, <2>1 DEF WorkerInv, PendingOf
  <2>3. CASE row' = row
    BY <2>1, <2>2, <2>3
  <2>4. CASE pc[w] = "asking" /\ row' \subseteq row \cup Units(pending[w])
    <3>1. \A u \in Units(pending[w]) : Inside(u, job[w])
      BY <1>1, <2>4 DEF WorkerInv, PendingOf
    <3>2. job[v] \in DOMAIN Source /\ job[w] \in DOMAIN Source
      BY <1>1, <2>1, <2>4 DEF WorkerInv, StackOf, Preparing
    <3>3. job[v] # job[w]
      <4>1. Source \in Seq(Seq(Unit) \ {<<>>})
        BY SourceAssumption DEF Unit
      <4>2. 0 \notin DOMAIN Source
        BY <4>1
      <4> QED
        BY <1>1, <3>2, <4>2 DEF JobsDiffer
    <3>4. Units(pending[v]) \cap Units(pending[w]) = {}
      BY <2>2, <3>1, <3>2, <3>3, PartsDiffer
    <3> QED
      BY <2>1, <2>2, <2>4, <3>4
  <2> QED
    BY <2>3, <2>4
<1>6. PendingOf(pc[v], pending[v], job[v])'
  BY <1>4, <1>5 DEF PendingOf, Units
<1> QED
  BY <1>2, <1>6 DEF WorkerInv

-----------------------------------------------------------------------------
(* The steps.  What does not change what a worker has to do, or its        *)
(* request, keeps it also when it ends the one or the other.               *)
LEMMA MoveKeeps ==
    ASSUME UInv, NEW w \in Worker, NEW to,
           pc' = [pc EXCEPT ![w] = to], UNCHANGED <<stack, job, next, pending>>,
           \/ to \notin Preparing \cup {"asking"}
           \/ to \in Preparing /\ pc[w] \in Preparing
           \/ to = "asking" /\ pc[w] \in Preparing,
           stack[w] # <<>> \/ to \in {"idle", "popping", "failed"},
           row' = row \/ (pc[w] = "asking" /\ row' \subseteq row \cup Units(pending[w])
                          /\ to \notin Preparing)
    PROVE  UInv'
<1>1. WorkerInv(w) /\ JobsDiffer /\ Domains
  BY DEF UInv
<1>2. \A v \in Worker : pc'[v] = IF v = w THEN to ELSE pc[v]
  BY <1>1 DEF Domains
<1>3. JobsDiffer' /\ Domains'
  BY <1>1 DEF JobsDiffer, Domains
<1>4. StackOf(stack[w], job[w])' /\ (stack[w] = <<>> => pc[w] \in {"idle", "popping", "failed"})'
  BY <1>1, <1>2 DEF WorkerInv, StackOf
<1>5. PendingOf(pc[w], pending[w], job[w])'
  BY <1>1, <1>2 DEF WorkerInv, PendingOf, Units, Inside, Preparing
<1>6. WorkerInv(w)'
  BY <1>4, <1>5 DEF WorkerInv
<1> QED
  BY <1>2, <1>3, <1>6, OneWorker

(* A new stack for the same batch of the source, at the next look for work.*)
LEMMA StackMoves ==
    ASSUME UInv, NEW w \in Worker, NEW s, NEW to \in {"idle", "popping", "failed"},
           stack' = [stack EXCEPT ![w] = s], StackOf(s, job[w]),
           DOMAIN pc' = Worker, \A v \in Worker : pc'[v] = IF v = w THEN to ELSE pc[v],
           UNCHANGED <<job, next, row>>,
           DOMAIN pending' = Worker, \A v \in Worker \ {w} : pending'[v] = pending[v]
    PROVE  UInv'
<1>1. WorkerInv(w) /\ JobsDiffer /\ Domains
  BY DEF UInv
<1>2. \A v \in Worker : stack'[v] = IF v = w THEN s ELSE stack[v]
  BY <1>1 DEF Domains
<1>3. JobsDiffer' /\ Domains'
  BY <1>1 DEF JobsDiffer, Domains
<1>4. StackOf(stack[w], job[w])'
  BY <1>2 DEF StackOf
<1>5. PendingOf(pc[w], pending[w], job[w])'
  BY DEF PendingOf, Preparing
<1>6. WorkerInv(w)'
  BY <1>4, <1>5 DEF WorkerInv
<1> QED
  BY <1>2, <1>3, <1>6, OneWorker

LEMMA EmptyStack == ASSUME NEW j PROVE StackOf(<<>>, j)
BY DEF StackOf

LEMMA SubmitUnits ==
    ASSUME UInv, NEW w \in Worker, Submit(w)
    PROVE  UInv'
<1>1. WorkerInv(w) /\ JobsDiffer /\ Domains
  BY DEF UInv
<1> DEFINE first == <<[batch |-> Source[next], attempt |-> 1]>>
<1>2. /\ next <= Len(Source) /\ next' = next + 1 /\ job' = [job EXCEPT ![w] = next]
      /\ stack' = [stack EXCEPT ![w] = first] /\ pc' = [pc EXCEPT ![w] = "popping"]
      /\ UNCHANGED <<pending, row>>
  BY DEF Submit, To, disk
<1>3. next \in DOMAIN Source /\ next \in Nat \ {0}
  <2>1. Source \in Seq(Seq(Unit) \ {<<>>})
    BY SourceAssumption DEF Unit
  <2> QED
    BY <1>1, <1>2, <2>1 DEF JobsDiffer
<1>4. StackOf(first, next)
  <2>1. Part(Source[next], next)
    BY <1>3, SourceParts
  <2>2. first \in Seq(Frame) /\ Len(first) = 1 /\ first[1].batch = Source[next]
    BY <2>1 DEF Part, Frame
  <2> QED
    BY <1>3, <2>1, <2>2 DEF StackOf
<1> HIDE DEF first
<1>5. \A v \in Worker : /\ pc'[v] = IF v = w THEN "popping" ELSE pc[v]
                        /\ job'[v] = IF v = w THEN next ELSE job[v]
                        /\ stack'[v] = IF v = w THEN first ELSE stack[v]
  BY <1>1, <1>2 DEF Domains
<1>6. JobsDiffer'
  <2>1. next' \in Nat \ {0}
    BY <1>2, <1>3
  <2>2. \A v \in Worker : job[v] \in 0..(next - 1) /\ job[v] # next
    BY <1>1, <1>3 DEF JobsDiffer
  <2>3. \A v \in Worker : job'[v] \in 0..(next' - 1)
    BY <1>2, <1>3, <1>5, <2>2
  <2>4. \A u, v \in Worker : u # v /\ job'[u] = job'[v] => job'[u] = 0
    BY <1>1, <1>5, <2>2 DEF JobsDiffer
  <2> QED
    BY <2>1, <2>3, <2>4 DEF JobsDiffer
<1>7. Domains'
  BY <1>1, <1>2 DEF Domains
<1>8. StackOf(stack[w], job[w])'
  BY <1>4, <1>5 DEF StackOf
<1>9. WorkerInv(w)'
  BY <1>5, <1>8 DEF WorkerInv, PendingOf, Preparing
<1> QED
  BY <1>2, <1>5, <1>6, <1>7, <1>9, OneWorker

LEMMA PopUnits ==
    ASSUME UInv, NEW w \in Worker, Pop(w)
    PROVE  UInv'
<1>1. WorkerInv(w) /\ JobsDiffer /\ Domains
  BY DEF UInv
<1>2. /\ UNCHANGED <<pending, row, next>>
      /\ job' = IF stack[w] = <<>> THEN [job EXCEPT ![w] = 0] ELSE job
  BY DEF Pop, disk, main
<1>3. CASE stack[w] = <<>>
  <2>1. pc' = [pc EXCEPT ![w] = "idle"] /\ stack' = stack /\ job' = [job EXCEPT ![w] = 0]
    BY <1>2, <1>3 DEF Pop, To
  <2>2. \A v \in Worker : /\ pc'[v] = IF v = w THEN "idle" ELSE pc[v]
                          /\ job'[v] = IF v = w THEN 0 ELSE job[v]
    BY <1>1, <2>1 DEF Domains
  <2>3. JobsDiffer'
    BY <1>1, <1>2, <2>2 DEF JobsDiffer
  <2>4. Domains'
    BY <1>1, <1>2, <2>1 DEF Domains
  <2>5. WorkerInv(w)'
    <3>1. stack'[w] = <<>> /\ pc'[w] = "idle"
      BY <1>3, <2>1, <2>2
    <3>2. StackOf(stack[w], job[w])'
      BY <3>1 DEF StackOf
    <3> QED
      BY <3>1, <3>2 DEF WorkerInv, PendingOf, Preparing
  <2> QED
    BY <1>2, <2>1, <2>2, <2>3, <2>4, <2>5, OneWorker
<1>4. CASE stack[w] # <<>> /\ Stopped
  <2>1. pc' = [pc EXCEPT ![w] = "failed"] /\ stack' = [stack EXCEPT ![w] = <<>>] /\ job' = job
    BY <1>2, <1>4 DEF Pop, To
  <2> QED
    BY <1>1, <1>2, <2>1, EmptyStack, StackMoves DEF Domains
<1>5. CASE stack[w] # <<>> /\ ~Stopped /\ Current(w) \in splits
  <2> DEFINE s == Pushed(w, SplitUnits(Current(w)))
  <2>1. pc[w] = "popping" /\ pc' = pc /\ stack' = [stack EXCEPT ![w] = s] /\ job' = job
    BY <1>2, <1>5 DEF Pop
  <2>2. Part(Current(w), job[w]) /\ job[w] \in DOMAIN Source
    BY <1>1, <1>5, PoppedStack DEF WorkerInv, Current
  <2>3. StackOf(s, job[w])
    BY <1>1, <1>5, <2>2, SplitsAreParts, PushedStack DEF WorkerInv, Pushed, Popped
  <2> HIDE DEF s
  <2> QED
    BY <1>1, <1>2, <2>1, <2>3, StackMoves DEF Domains
<1>6. CASE stack[w] # <<>> /\ ~Stopped /\ Current(w) \notin splits
  <2>1. pc' = [pc EXCEPT ![w] = "looking"] /\ stack' = stack /\ job' = job
    BY <1>2, <1>6 DEF Pop, To
  <2> QED
    BY <1>2, <1>6, <2>1, MoveKeeps DEF Preparing
<1> QED
  BY <1>3, <1>4, <1>5, <1>6

LEMMA LookUnits ==
    ASSUME UInv, NEW w \in Worker, Look(w) \/ Narrow(w)
    PROVE  UInv'
<1>1. WorkerInv(w) /\ JobsDiffer /\ Domains
  BY DEF UInv
<1>2. UNCHANGED <<row, next, job, stack>> /\ stack[w] # <<>>
  BY <1>1 DEF Look, Narrow, disk, main, WorkerInv
<1>3. CASE Look(w) /\ Stopped
  <2>1. pc' = [pc EXCEPT ![w] = "raising"] /\ pending' = pending
    BY <1>3 DEF Look, To
  <2> QED
    BY <1>2, <2>1, MoveKeeps DEF Preparing
<1>4. CASE ~(Look(w) /\ Stopped)
  <2> DEFINE batch == IF Look(w) THEN Current(w) ELSE pending[w]
             got == Got(batch)
             left == Without(batch, got)
             to == After(batch, left)
  <2>1. pc' = [pc EXCEPT ![w] = to] /\ pending' = [pending EXCEPT ![w] = left]
    <3>1. CASE Look(w)
      BY <1>4, <3>1 DEF Look, To
    <3>2. CASE ~Look(w)
      BY <3>2 DEF Narrow, To
    <3> QED
      BY <3>1, <3>2
  <2>2. batch \in Seq(Unit) /\ \A u \in Units(batch) : Inside(u, job[w])
    <3>1. CASE Look(w)
      BY <1>1, <1>2, <3>1, PoppedStack DEF WorkerInv, Current, Part
    <3>2. CASE ~Look(w)
      <4>1. pc[w] = "narrowing"
        BY <3>2 DEF Narrow
      <4> QED
        BY <1>1, <3>2, <4>1 DEF WorkerInv, PendingOf, Preparing
    <3> QED
      BY <3>1, <3>2
  <2>3. \A u \in Units(batch) : u \in row => u \in got
    BY DEF Got
  <2>4. to \in {"verifying", "claiming", "narrowing"}
    BY DEF After
  <2> HIDE DEF batch, got, to
  <2>5. left \in Seq(Unit) /\ \A u \in Units(left) : Inside(u, job[w]) /\ u \notin got
    BY <2>2, LessIsInside
  <2>6. Units(left) \cap row = {}
    <3>1. left \in Seq({u \in Units(batch) : u \notin got})
      BY <2>2, WithoutIs
    <3>2. \A u \in Units(left) : u \in Units(batch) /\ u \notin got
      <4> DEFINE T == {u \in Units(batch) : u \notin got}
      <4> HIDE DEF T, left
      <4>1. \A u \in Units(left) : u \in T
        BY <3>1 DEF Units, T
      <4> QED
        BY <4>1 DEF T
    <3> QED
      BY <2>3, <3>2
  <2> HIDE DEF left
  <2>7. \A v \in Worker : /\ pc'[v] = IF v = w THEN to ELSE pc[v]
                          /\ pending'[v] = IF v = w THEN left ELSE pending[v]
    BY <1>1, <2>1 DEF Domains
  <2>8. JobsDiffer' /\ Domains'
    BY <1>1, <1>2, <2>1 DEF JobsDiffer, Domains
  <2>9. PendingOf(pc[w], pending[w], job[w])'
    BY <1>2, <2>5, <2>6, <2>7 DEF PendingOf, Units, Inside
  <2>10. WorkerInv(w)'
    BY <1>1, <1>2, <2>9 DEF WorkerInv, StackOf
  <2> QED
    BY <1>2, <2>7, <2>8, <2>10, OneWorker
<1> QED
  BY <1>3, <1>4

LEMMA RequestUnits ==
    ASSUME UInv, NEW w \in Worker,
           Claim(w) \/ Recheck(w) \/ Reply(w) \/ StopWaiting(w) \/ WaitTooLong(w)
    PROVE  UInv'
<1>1. WorkerInv(w) /\ JobsDiffer /\ Domains
  BY DEF UInv
<1>2. UNCHANGED <<next, job, stack, pending>>
  BY DEF Claim, Recheck, Reply, StopWaiting, WaitTooLong, main
<1>3. stack[w] # <<>>
  BY <1>1 DEF Claim, Recheck, Reply, StopWaiting, WaitTooLong, WorkerInv
<1>4. CASE Claim(w)
  <2>1. pc[w] = "claiming" /\ row' = row
    BY <1>4 DEF Claim, disk
  <2>2. pc' = [pc EXCEPT ![w] = "owning"] \/ pc' = [pc EXCEPT ![w] = "waiting"]
    BY <1>4, Zenon DEF Claim, To
  <2>3. "owning" \in Preparing /\ "waiting" \notin Preparing \cup {"asking"} /\ pc[w] \in Preparing
    BY <2>1 DEF Preparing
  <2>4. CASE pc' = [pc EXCEPT ![w] = "owning"]
    BY <1>2, <1>3, <2>1, <2>3, <2>4, MoveKeeps
  <2>5. CASE pc' = [pc EXCEPT ![w] = "waiting"]
    BY <1>2, <1>3, <2>1, <2>3, <2>5, MoveKeeps
  <2> QED
    BY <2>2, <2>4, <2>5
<1>5. CASE Recheck(w)
  <2>1. pc[w] \in Preparing /\ row' = row
    BY <1>5 DEF Recheck, disk, Preparing
  <2>2. pc' = [pc EXCEPT ![w] = "finishing"] \/ pc' = [pc EXCEPT ![w] = "asking"]
    BY <1>5, Zenon DEF Recheck, To
  <2>3. CASE pc' = [pc EXCEPT ![w] = "finishing"]
    BY <1>2, <1>3, <2>1, <2>3, MoveKeeps DEF Preparing
  <2>4. CASE pc' = [pc EXCEPT ![w] = "asking"]
    BY <1>2, <1>3, <2>1, <2>4, MoveKeeps
  <2> QED
    BY <2>2, <2>3, <2>4
<1>6. CASE Reply(w)
  <2>1. pc[w] = "asking" /\ pc' = [pc EXCEPT ![w] = "finishing"]
    BY <1>6, Zenon DEF Reply, To
  <2>2. row' = row \/ \E good \in SUBSET Units(pending[w]) : row' = row \cup good
    BY <1>6, Zenon DEF Reply
  <2>3. row' \subseteq row \cup Units(pending[w])
    BY <2>2
  <2> QED
    BY <1>2, <1>3, <2>1, <2>3, MoveKeeps DEF Preparing
<1>7. CASE StopWaiting(w) \/ WaitTooLong(w)
  <2>1. pc' = [pc EXCEPT ![w] = "raising"] /\ row' = row
    BY <1>7 DEF StopWaiting, WaitTooLong, To, disk
  <2> QED
    BY <1>2, <1>3, <2>1, MoveKeeps DEF Preparing
<1> QED
  BY <1>4, <1>5, <1>6, <1>7

LEMMA FinishUnits ==
    ASSUME UInv, NEW w \in Worker, Finish(w)
    PROVE  UInv'
<1>1. WorkerInv(w) /\ JobsDiffer /\ Domains
  BY DEF UInv
<1>2. UNCHANGED <<next, job, stack, pending, row>> /\ pc[w] = "finishing"
  BY DEF Finish, main, disk
<1> DEFINE to == IF error[w] = None THEN "verifying" ELSE "raising"
<1>3. /\ DOMAIN pc' = Worker /\ pc'[w] = to
      /\ \A v \in Worker \ {w} : pc'[v] = pc[v] \/ (pc[v] = "waiting" /\ pc'[v] = "woken")
  BY <1>2 DEF Finish, Waiters
<1>4. JobsDiffer' /\ Domains'
  BY <1>1, <1>2, <1>3 DEF JobsDiffer, Domains
<1>5. WorkerInv(w)'
  <2>1. to \notin Preparing \cup {"asking"}
    BY DEF Preparing
  <2> HIDE DEF to
  <2>2. stack[w] # <<>>
    BY <1>1, <1>2 DEF WorkerInv
  <2>3. PendingOf(pc[w], pending[w], job[w])'
    BY <1>3, <2>1 DEF PendingOf
  <2> QED
    BY <1>1, <1>2, <2>2, <2>3 DEF WorkerInv, StackOf
<1> QED
  BY <1>2, <1>3, <1>4, <1>5, OneWorker

LEMMA LeftOthers ==
    ASSUME Domains, NEW w \in Worker, Left(w)
    PROVE  DOMAIN pending' = Worker /\ \A v \in Worker \ {w} : pending'[v] = pending[v]
BY DEF Left, Domains

LEMMA VerifyUnits ==
    ASSUME UInv, NEW w \in Worker, Verify(w)
    PROVE  UInv'
<1>1. WorkerInv(w) /\ JobsDiffer /\ Domains
  BY DEF UInv
<1>2. UNCHANGED <<next, job, row>> /\ stack[w] # <<>>
  BY <1>1 DEF Verify, main, disk, WorkerInv
<1>3. CASE \A u \in Units(Current(w)) : u \in row \cup mem'
  <2>1. stack' = [stack EXCEPT ![w] = Popped(w)] /\ pc' = [pc EXCEPT ![w] = "popping"] /\ Left(w)
    BY <1>3, Zenon DEF Verify, To
  <2>2. StackOf(Popped(w), job[w])
    BY <1>1, <1>2, PoppedStack DEF WorkerInv, Popped
  <2>3. DOMAIN pending' = Worker /\ \A v \in Worker \ {w} : pending'[v] = pending[v]
    BY <1>1, <2>1, LeftOthers
  <2>4. DOMAIN pc' = Worker /\ \A v \in Worker : pc'[v] = IF v = w THEN "popping" ELSE pc[v]
    BY <1>1, <2>1 DEF Domains
  <2> QED
    BY <1>2, <2>1, <2>2, <2>3, <2>4, StackMoves
<1>4. CASE ~\A u \in Units(Current(w)) : u \in row \cup mem'
  <2>1. pc' = [pc EXCEPT ![w] = "raising"] /\ UNCHANGED <<stack, pending>>
    BY <1>4, Zenon DEF Verify, To
  <2> QED
    BY <1>2, <2>1, MoveKeeps DEF Preparing
<1> QED
  BY <1>3, <1>4

LEMMA HandleUnits ==
    ASSUME UInv, NEW w \in Worker, Handle(w)
    PROVE  UInv'
<1>1. WorkerInv(w) /\ JobsDiffer /\ Domains
  BY DEF UInv
<1>2. UNCHANGED <<next, job, row>> /\ stack[w] # <<>> /\ Left(w)
  BY <1>1 DEF Handle, main, WorkerInv
<1>3. /\ StackOf(Popped(w), job[w]) /\ Part(Current(w), job[w]) /\ job[w] \in DOMAIN Source
      /\ StackOf(stack[w], job[w])
  BY <1>1, <1>2, PoppedStack DEF WorkerInv, Popped, Current
<1>4. \E to \in {"popping", "failed"} : pc' = [pc EXCEPT ![w] = to]
  BY Zenon DEF Handle, Invalid, Capacity, Replace, Again, GiveUp, To
<1> DEFINE more == [stack EXCEPT ![w][Len(stack[w])].attempt = @ + 1]
<1>5. \/ stack' = [stack EXCEPT ![w] = <<>>] \/ stack' = [stack EXCEPT ![w] = Popped(w)]
      \/ stack' = [stack EXCEPT ![w] = Pushed(w, Halves(Current(w)))]
      \/ stack' = [stack EXCEPT ![w] = Pushed(w, SplitUnits(Current(w)))]
      \/ stack' = more
  BY Zenon DEF Handle, Invalid, Capacity, Replace, Again, GiveUp
<1>6. \E s : stack' = [stack EXCEPT ![w] = s] /\ StackOf(s, job[w])
  <2>1. StackOf(Pushed(w, Halves(Current(w))), job[w])
    BY <1>2, <1>3, HalvesAreParts, PushedStack DEF Pushed, Popped
  <2>2. StackOf(Pushed(w, SplitUnits(Current(w))), job[w])
    BY <1>2, <1>3, SplitsAreParts, PushedStack DEF Pushed, Popped
  <2>3. \E s : more = [stack EXCEPT ![w] = s] /\ StackOf(s, job[w])
    <3> DEFINE n == Len(stack[w])
               s == [stack[w] EXCEPT ![n].attempt = @ + 1]
    <3>1. more = [stack EXCEPT ![w] = s]
      OBVIOUS
    <3>2. stack[w] \in Seq(Frame) /\ n \in 1..n /\ n \in Nat
      BY <1>2, <1>3 DEF StackOf
    <3>3. stack[w][n] \in Frame
      BY <3>2
    <3>4. s \in Seq(Frame) /\ Len(s) = n
      BY <3>2, <3>3 DEF Frame
    <3>5. \A k \in 1..n : s[k].batch = stack[w][k].batch
      BY <3>2, <3>3 DEF Frame
    <3> HIDE DEF s
    <3>6. StackOf(s, job[w])
      BY <1>3, <3>2, <3>4, <3>5 DEF StackOf
    <3> QED
      BY <3>1, <3>6
  <2> HIDE DEF more
  <2> QED
    BY <1>3, <1>5, <2>1, <2>2, <2>3, EmptyStack
<1>7. PICK s : stack' = [stack EXCEPT ![w] = s] /\ StackOf(s, job[w])
  BY <1>6
<1>8. PICK to \in {"popping", "failed"} : pc' = [pc EXCEPT ![w] = to]
  BY <1>4
<1>9. DOMAIN pending' = Worker /\ \A v \in Worker \ {w} : pending'[v] = pending[v]
  BY <1>1, <1>2, LeftOthers
<1>10. DOMAIN pc' = Worker /\ \A v \in Worker : pc'[v] = IF v = w THEN to ELSE pc[v]
  BY <1>1, <1>8 DEF Domains
<1> QED
  BY <1>2, <1>7, <1>9, <1>10, StackMoves

-----------------------------------------------------------------------------
LEMMA NextUnits ==
    ASSUME UInv, [Next]_vars
    PROVE  UInv'
<1>1. CASE \E w \in Worker : Step(w) \/ WaitTooLong(w)
  <2>1. PICK w \in Worker : Step(w) \/ WaitTooLong(w)
    BY <1>1
  <2> QED
    BY <2>1, SubmitUnits, PopUnits, LookUnits, RequestUnits, FinishUnits, VerifyUnits, HandleUnits DEF Step
<1>2. CASE Fail \/ Conclude \/ Join \/ UNCHANGED vars
  <2>1. UNCHANGED <<pc, pending, stack, job, next, row>>
    BY <1>2 DEF Fail, Conclude, Join, vars, disk, main
  <2>2. Domains' /\ JobsDiffer'
    BY <2>1 DEF UInv, Domains, JobsDiffer
  <2>3. ASSUME NEW w \in Worker PROVE WorkerInv(w)'
    <3>1. WorkerInv(w)
      BY DEF UInv
    <3>2. StackOf(stack[w], job[w])'
      BY <2>1, <3>1 DEF WorkerInv, StackOf
    <3>3. PendingOf(pc[w], pending[w], job[w])'
      BY <2>1, <3>1 DEF WorkerInv, PendingOf, Units, Inside
    <3> QED
      BY <2>1, <3>1, <3>2, <3>3 DEF WorkerInv
  <2> QED
    BY <2>2, <2>3 DEF UInv
<1>3. CASE Resume
  <2>1. Domains' /\ JobsDiffer'
    BY <1>3 DEF Resume, Domains, JobsDiffer
  <2>2. \A w \in Worker : stack'[w] = <<>> /\ pc'[w] = "idle"
    BY <1>3 DEF Resume
  <2>3. ASSUME NEW w \in Worker PROVE WorkerInv(w)'
    <3>1. StackOf(stack[w], job[w])'
      <4>1. stack'[w] = <<>>
        BY <2>2
      <4> QED
        BY <4>1 DEF StackOf
    <3> QED
      BY <2>2, <3>1 DEF WorkerInv, PendingOf, Preparing
  <2> QED
    BY <2>1, <2>3 DEF UInv
<1> QED
  BY <1>1, <1>2, <1>3 DEF Next

LEMMA InitUnits == Init => UInv
<1> SUFFICES ASSUME Init PROVE UInv
  OBVIOUS
<1>1. Domains /\ JobsDiffer
  BY DEF Init, Domains, JobsDiffer
<1>2. \A w \in Worker : stack[w] = <<>> /\ pc[w] = "idle"
  BY DEF Init
<1>3. ASSUME NEW w \in Worker PROVE WorkerInv(w)
  BY <1>2, EmptyStack DEF WorkerInv, PendingOf, Preparing
<1> QED
  BY <1>1, <1>3 DEF UInv

(* The invariant holds: what a worker splits, prepares or asks are parts   *)
(* of a batch of the source that nobody else has, and no unit of a request *)
(* in preparation has its row on disk yet.                                 *)
THEOREM UnitsInvariance == Spec => []UInv
BY InitUnits, NextUnits, PTL DEF Spec

(* Only an executor that has looked once more asks.                        *)
LEMMA AskingStarts ==
    ASSUME UInv, NEW w \in Worker, [Next]_vars, pc[w] # "asking", pc'[w] = "asking"
    PROVE  pc[w] = "owning"
<1>1. Domains
  BY DEF UInv
<1>2. CASE \E v \in Worker : Step(v) \/ WaitTooLong(v)
  <2>1. PICK v \in Worker : Step(v) \/ WaitTooLong(v)
    BY <1>2
  <2>2. CASE Recheck(v)
    <3>1. pc[v] = "owning" /\ (pc' = [pc EXCEPT ![v] = "finishing"] \/ pc' = [pc EXCEPT ![v] = "asking"])
      BY <2>2, Zenon DEF Recheck, To
    <3> QED
      BY <1>1, <3>1 DEF Domains
  <2>3. CASE Finish(v)
    BY <2>3 DEF Finish, Waiters
  <2>4. CASE ~Recheck(v) /\ ~Finish(v)
    <3> DEFINE Elsewhere == {"popping", "idle", "failed", "looking", "raising", "verifying",
                             "claiming", "narrowing", "owning", "waiting", "finishing"}
    <3>1. pc' = pc \/ \E to \in Elsewhere : pc' = [pc EXCEPT ![v] = to]
      <4>1. CASE Submit(v) \/ Pop(v) \/ Look(v) \/ Narrow(v)
        BY <4>1, Zenon DEF Submit, Pop, Look, Narrow, To, After
      <4>2. CASE Claim(v) \/ Reply(v) \/ StopWaiting(v) \/ WaitTooLong(v)
        BY <4>2, Zenon DEF Claim, Reply, StopWaiting, WaitTooLong, To
      <4>3. CASE Verify(v) \/ Handle(v)
        BY <4>3, Zenon DEF Verify, Handle, Invalid, Capacity, Replace, Again, GiveUp, To
      <4> QED
        BY <2>1, <2>4, <4>1, <4>2, <4>3 DEF Step
    <3> QED
      BY <1>1, <3>1 DEF Domains
  <2> QED
    BY <2>2, <2>3, <2>4
<1>3. CASE Fail \/ Conclude \/ Join \/ UNCHANGED vars
  BY <1>3 DEF Fail, Conclude, Join, vars
<1>4. CASE Resume
  BY <1>4 DEF Resume
<1> QED
  BY <1>2, <1>3, <1>4 DEF Next

(* A request only contains units that have no row on disk: what was paid   *)
(* for is never asked again, however workers, failures and resumptions     *)
(* interleave.                                                             *)
THEOREM NotAskedAgain == Spec => NeverAskedAgain
<1>1. ASSUME UInv, [Next]_vars, NEW w \in Worker, pc[w] # "asking", pc'[w] = "asking"
      PROVE  Units(pending[w]) \cap row = {}
  <2>1. pc[w] \in Preparing
    BY <1>1, AskingStarts DEF Preparing
  <2> QED
    BY <1>1, <2>1 DEF UInv, WorkerInv, PendingOf
<1>2. UInv /\ [Next]_vars =>
        [\A w \in Worker : pc[w] # "asking" /\ pc'[w] = "asking" => Units(pending[w]) \cap row = {}]_vars
  BY <1>1
<1> QED
  BY <1>2, UnitsInvariance, PTL DEF Spec, NeverAskedAgain

-----------------------------------------------------------------------------
(* What becomes of the text of a batch.  The units that a worker has       *)
(* completed come before those that it still has on its stack, the next    *)
(* ones on top, and whatever is not completed is on a stack, unless its    *)
(* block is reported or its worker has failed.                             *)
Increasing(s) == \A k, l \in 1..Len(s) : k < l /\ s[k].block = s[l].block => s[k].to < s[l].from

StackOrdered(s, done) ==
    /\ \A k \in 1..Len(s) : Increasing(s[k].batch) /\ Before(done, s[k].batch)
    /\ \A k, l \in 1..Len(s) : k < l => Before(s[l].batch, s[k].batch)

Has(batch, b, c) == \E u \in Units(batch) : u.block = b /\ c \in u.from..u.to
StackHas(s, b, c) == \E k \in 1..Len(s) : Has(s[k].batch, b, c)

(* Parts of a batch, in its order, that have all of its text.              *)
PartsOf(parts, batch) ==
    /\ parts \in Seq(Seq(Unit))
    /\ \A k \in 1..Len(parts) :
         /\ parts[k] # <<>> /\ Increasing(parts[k])
         /\ \A u \in Units(parts[k]) :
              /\ u.from <= u.to
              /\ \E g \in Units(batch) : u.block = g.block /\ g.from <= u.from /\ u.to <= g.to
    /\ \A k, l \in 1..Len(parts) : k < l => Before(parts[k], parts[l])
    /\ \A b, c : Has(batch, b, c) => \E k \in 1..Len(parts) : Has(parts[k], b, c)

LEMMA UnitsTyped ==
    ASSUME NEW batch \in Seq(Unit)
    PROVE  /\ \A u \in Units(batch) : u \in Unit /\ u.from \in Nat /\ u.to \in Nat
           /\ \A k \in 1..Len(batch) : batch[k] \in Units(batch) /\ batch[k] \in Unit
                /\ batch[k].from \in Nat /\ batch[k].to \in Nat
<1>1. \A k \in 1..Len(batch) : batch[k] \in Unit /\ batch[k] \in Units(batch)
  BY DEF Units
<1>2. \A u \in Units(batch) : u \in Unit
  BY DEF Units
<1>3. \A u \in Unit : u.from \in Nat /\ u.to \in Nat
  BY DEF Unit
<1> QED
  BY <1>1, <1>2, <1>3

LEMMA HalvesInOrder ==
    ASSUME NEW batch \in Seq(Unit), Increasing(batch), Len(batch) > 1,
           \A u \in Units(batch) : u.from <= u.to
    PROVE  PartsOf(Halves(batch), batch)
<1> DEFINE n == Len(batch)
           m == n \div 2
           a == SubSeq(batch, 1, m)
           b == SubSeq(batch, m + 1, n)
<1>1. n \in Nat /\ m \in Nat /\ 1 <= m /\ m < n
  OBVIOUS
<1> HIDE DEF m
<1>2. a \in Seq(Unit) /\ Len(a) = m /\ \A i \in 1..m : a[i] = batch[i]
  BY <1>1
<1>3. b \in Seq(Unit) /\ Len(b) = n - m /\ \A i \in 1..(n - m) : b[i] = batch[m + i]
  BY <1>1
<1>4. Halves(batch) = <<a, b>>
  BY <1>1 DEF Halves, m
<1> HIDE DEF a, b
<1>5. Len(a) # 0 /\ Len(b) # 0
  BY <1>1, <1>2, <1>3
<1>6. a # <<>> /\ b # <<>>
  BY <1>5
<1>7. Increasing(a)
  <2> SUFFICES ASSUME NEW k \in 1..m, NEW l \in 1..m, k < l, a[k].block = a[l].block
               PROVE  a[k].to < a[l].from
    BY <1>2 DEF Increasing
  <2>1. k \in 1..n /\ l \in 1..n
    BY <1>1
  <2> QED
    BY <1>2, <2>1 DEF Increasing
<1>8. Increasing(b)
  <2> SUFFICES ASSUME NEW k \in 1..(n - m), NEW l \in 1..(n - m), k < l, b[k].block = b[l].block
               PROVE  b[k].to < b[l].from
    BY <1>3 DEF Increasing
  <2>1. m + k \in 1..n /\ m + l \in 1..n /\ m + k < m + l
    BY <1>1
  <2>2. b[k] = batch[m + k] /\ b[l] = batch[m + l]
    BY <1>3
  <2> HIDE DEF n
  <2> QED
    BY <2>1, <2>2 DEF Increasing, n
<1>9. Before(a, b)
  <2> SUFFICES ASSUME NEW k \in 1..m, NEW l \in 1..(n - m), a[k].block = b[l].block
               PROVE  a[k].to < b[l].from
    <3>1. DOMAIN a = 1..m /\ DOMAIN b = 1..(n - m)
      BY <1>2, <1>3
    <3> HIDE DEF n
    <3> QED
      BY <3>1, Zenon DEF Before, Units
  <2>1. k \in 1..n /\ m + l \in 1..n /\ k < m + l
    BY <1>1
  <2>2. a[k] = batch[k] /\ b[l] = batch[m + l]
    BY <1>2, <1>3
  <2> HIDE DEF n
  <2> QED
    BY <2>1, <2>2 DEF Increasing, n
<1>10. \A u \in Units(a) : u \in Units(batch)
  <2>1. \A i \in 1..m : i \in 1..n
    BY <1>1
  <2> QED
    BY <1>2, <2>1 DEF Units
<1>11. \A u \in Units(b) : u \in Units(batch)
  <2>1. \A i \in 1..(n - m) : m + i \in 1..n
    BY <1>1
  <2>2. \A i \in 1..(n - m) : b[i] \in Units(batch)
    BY <1>3, <2>1 DEF Units
  <2> QED
    BY <1>3, <2>2 DEF Units
<1>12. \A u \in Units(batch) : u \in Units(a) \/ u \in Units(b)
  <2> SUFFICES ASSUME NEW i \in 1..n PROVE batch[i] \in Units(a) \/ batch[i] \in Units(b)
    BY DEF Units
  <2>1. CASE i <= m
    BY <1>1, <1>2, <2>1 DEF Units
  <2>2. CASE ~(i <= m)
    <3>1. i - m \in 1..(n - m) /\ m + (i - m) = i
      BY <1>1, <2>2
    <3>2. b[i - m] = batch[i]
      BY <1>3, <3>1
    <3>3. b[i - m] \in Units(b)
      BY <1>3, <3>1 DEF Units
    <3> QED
      BY <3>2, <3>3
  <2> QED
    BY <2>1, <2>2
<1>13. \A u \in Units(batch) : u.from \in Nat /\ u.to \in Nat
  BY UnitsTyped
<1> DEFINE p == <<a, b>>
<1>14. p \in Seq(Seq(Unit)) /\ Len(p) = 2 /\ p[1] = a /\ p[2] = b
  BY <1>2, <1>3
<1> HIDE DEF p
<1>15. \A k \in 1..Len(p) : k = 1 \/ k = 2
  BY <1>14
<1>16. \A k \in 1..Len(p) : \A u \in Units(p[k]) : u \in Units(batch)
  BY <1>10, <1>11, <1>14, <1>15
<1>17. \A k, l \in 1..Len(p) : k < l => k = 1 /\ l = 2
  BY <1>14
<1>18. \A c, d : Has(batch, c, d) => \E k \in 1..Len(p) : Has(p[k], c, d)
  <2>1. 1 \in 1..Len(p) /\ 2 \in 1..Len(p)
    BY <1>14
  <2> QED
    BY <1>12, <1>14, <2>1 DEF Has
<1>19. \A k \in 1..Len(p) : p[k] # <<>> /\ Increasing(p[k])
  BY <1>6, <1>7, <1>8, <1>14, <1>15
<1>20. \A k, l \in 1..Len(p) : k < l => Before(p[k], p[l])
  BY <1>9, <1>14, <1>17
<1>21. \A k \in 1..Len(p) : \A u \in Units(p[k]) :
          /\ u.from <= u.to
          /\ \E g \in Units(batch) : u.block = g.block /\ g.from <= u.from /\ u.to <= g.to
  BY <1>13, <1>16
<1>22. PartsOf(p, batch)
  BY <1>14, <1>18, <1>19, <1>20, <1>21 DEF PartsOf
<1> QED
  BY <1>4, <1>22 DEF p

LEMMA UnitsOfOne == ASSUME NEW x PROVE Units(<<x>>) = {x}
<1>1. DOMAIN <<x>> = {1} /\ <<x>>[1] = x
  OBVIOUS
<1> QED
  BY <1>1, Zenon DEF Units

LEMMA SpansInOrder ==
    ASSUME NEW u \in Unit, u.from <= u.to, SplitSpan(u) # <<>>
    PROVE  PartsOf(SplitSpan(u), <<u>>)
<1>1. u.from \in Nat /\ u.to \in Nat
  BY DEF Unit
<1>2. u.from # u.to
  BY DEF SplitSpan
<1> DEFINE middle == (u.from + u.to) \div 2
           a == [u EXCEPT !.to = middle]
           b == [u EXCEPT !.from = middle + 1]
<1>3. middle \in Nat /\ u.from <= middle /\ middle + 1 <= u.to
  BY <1>1, <1>2
<1> HIDE DEF middle
<1>4. a \in Unit /\ a.block = u.block /\ a.from = u.from /\ a.to = middle
  BY <1>1, <1>3 DEF Unit
<1>5. b \in Unit /\ b.block = u.block /\ b.from = middle + 1 /\ b.to = u.to
  BY <1>1, <1>3 DEF Unit
<1>6. SplitSpan(u) = << <<a>>, <<b>> >>
  BY <1>2 DEF SplitSpan, middle
<1> HIDE DEF a, b
<1>7. Units(<<a>>) = {a} /\ Units(<<b>>) = {b} /\ Units(<<u>>) = {u}
  BY UnitsOfOne
<1>8. Increasing(<<a>>) /\ Increasing(<<b>>)
  BY DEF Increasing
<1>9. Before(<<a>>, <<b>>)
  BY <1>3, <1>4, <1>5, <1>7 DEF Before
<1> DEFINE p == << <<a>>, <<b>> >>
<1>10. p \in Seq(Seq(Unit)) /\ Len(p) = 2 /\ p[1] = <<a>> /\ p[2] = <<b>>
  BY <1>4, <1>5
<1> HIDE DEF p
<1>11. (\A k \in 1..Len(p) : k = 1 \/ k = 2) /\ \A k, l \in 1..Len(p) : k < l => k = 1 /\ l = 2
  BY <1>10
<1>12. \A c, d : Has(<<u>>, c, d) => \E k \in 1..Len(p) : Has(p[k], c, d)
  <2> SUFFICES ASSUME NEW c, NEW d, Has(<<u>>, c, d)
               PROVE  Has(<<a>>, c, d) \/ Has(<<b>>, c, d)
    <3>1. 1 \in 1..Len(p) /\ 2 \in 1..Len(p)
      BY <1>10
    <3> QED
      BY <1>10, <3>1
  <2>1. u.block = c /\ d \in u.from..u.to
    BY <1>7 DEF Has
  <2>2. d \in u.from..middle \/ d \in (middle + 1)..u.to
    BY <1>1, <1>3, <2>1
  <2> QED
    BY <1>4, <1>5, <1>7, <2>1, <2>2 DEF Has
<1>13. \A k \in 1..Len(p) : p[k] # <<>> /\ Increasing(p[k])
  <2>1. <<a>> # <<>> /\ <<b>> # <<>>
    OBVIOUS
  <2> QED
    BY <1>8, <1>10, <1>11, <2>1
<1>14. \A k, l \in 1..Len(p) : k < l => Before(p[k], p[l])
  BY <1>9, <1>10, <1>11
<1>15. \A k \in 1..Len(p) : \A x \in Units(p[k]) :
          /\ x.from <= x.to
          /\ \E g \in Units(<<u>>) : x.block = g.block /\ g.from <= x.from /\ x.to <= g.to
  <2>1. a.from <= a.to /\ u.from <= a.from /\ a.to <= u.to
    BY <1>1, <1>3, <1>4
  <2>2. b.from <= b.to /\ u.from <= b.from /\ b.to <= u.to
    BY <1>1, <1>3, <1>5
  <2> QED
    BY <1>4, <1>5, <1>7, <1>10, <1>11, <2>1, <2>2
<1>16. PartsOf(p, <<u>>)
  BY <1>10, <1>12, <1>13, <1>14, <1>15 DEF PartsOf
<1> QED
  BY <1>6, <1>16 DEF p

(* Both ways to split a batch.                                             *)
LEMMA SplitsInOrder ==
    ASSUME NEW batch, NEW j, Part(batch, j), Increasing(batch), SplitUnits(batch) # <<>>
    PROVE  PartsOf(SplitUnits(batch), batch)
<1>1. batch \in Seq(Unit) /\ batch # <<>> /\ \A u \in Units(batch) : u.from <= u.to
  BY DEF Part, Inside
<1>2. CASE Len(batch) > 1
  BY <1>1, <1>2, HalvesInOrder DEF SplitUnits
<1>3. CASE ~(Len(batch) > 1)
  <2>1. Len(batch) = 1
    <3> DEFINE n == Len(batch)
    <3>1. n \in Nat /\ n # 0
      BY <1>1
    <3>2. ~(n > 1)
      BY <1>3
    <3> HIDE DEF n
    <3>3. n = 1
      BY <3>1, <3>2
    <3> QED
      BY <3>3 DEF n
  <2>2. batch = <<batch[1]>> /\ batch[1] \in Unit /\ batch[1] \in Units(batch)
    BY <1>1, <2>1 DEF Units
  <2>3. SplitUnits(batch) = SplitSpan(batch[1])
    BY <1>3 DEF SplitUnits
  <2> QED
    BY <1>1, <2>2, <2>3, SpansInOrder
<1> QED
  BY <1>2, <1>3

(* What a batch comes before or after, its parts do.                       *)
LEMMA PartsBetween ==
    ASSUME NEW parts, NEW batch \in Seq(Unit), PartsOf(parts, batch), NEW s \in Seq(Unit),
           NEW k \in 1..Len(parts)
    PROVE  /\ Before(s, batch) => Before(s, parts[k])
           /\ Before(batch, s) => Before(parts[k], s)
<1>1. parts[k] \in Seq(Unit)
  BY DEF PartsOf
<1>2. ASSUME NEW u \in Units(parts[k])
      PROVE  /\ u.from \in Nat /\ u.to \in Nat
             /\ \E g \in Units(batch) : u.block = g.block /\ g.from <= u.from /\ u.to <= g.to
                                        /\ g.from \in Nat /\ g.to \in Nat
  <2>1. u.from \in Nat /\ u.to \in Nat
    BY <1>1, UnitsTyped
  <2>2. PICK g \in Units(batch) : u.block = g.block /\ g.from <= u.from /\ u.to <= g.to
    BY DEF PartsOf
  <2>3. g.from \in Nat /\ g.to \in Nat
    BY UnitsTyped
  <2> QED
    BY <2>1, <2>2, <2>3
<1>3. \A v \in Units(s) : v.from \in Nat /\ v.to \in Nat
  BY UnitsTyped
<1>4. ASSUME Before(s, batch) PROVE Before(s, parts[k])
  <2> SUFFICES ASSUME NEW v \in Units(s), NEW u \in Units(parts[k]), v.block = u.block
               PROVE  v.to < u.from
    BY DEF Before
  <2>1. PICK g \in Units(batch) : u.block = g.block /\ g.from <= u.from /\ g.from \in Nat
    BY <1>2
  <2>2. v.to < g.from
    BY <1>4, <2>1 DEF Before
  <2>3. v.to \in Nat /\ u.from \in Nat
    BY <1>2, <1>3
  <2> QED
    BY <2>1, <2>2, <2>3
<1>5. ASSUME Before(batch, s) PROVE Before(parts[k], s)
  <2> SUFFICES ASSUME NEW v \in Units(s), NEW u \in Units(parts[k]), u.block = v.block
               PROVE  u.to < v.from
    BY DEF Before
  <2>1. PICK g \in Units(batch) : u.block = g.block /\ u.to <= g.to /\ g.to \in Nat
    BY <1>2
  <2>2. g.to < v.from
    BY <1>5, <2>1 DEF Before
  <2>3. v.from \in Nat /\ u.to \in Nat
    BY <1>2, <1>3
  <2> QED
    BY <2>1, <2>2, <2>3
<1> QED
  BY <1>4, <1>5

(* A stack in order, without its top,                                      *)
LEMMA PoppedOrder ==
    ASSUME NEW s, NEW j, StackOf(s, j), s # <<>>, NEW done, StackOrdered(s, done)
    PROVE  LET r == SubSeq(s, 1, Len(s) - 1)
               t == s[Len(s)].batch
           IN  /\ StackOrdered(r, done) /\ Increasing(t) /\ Before(done, t)
               /\ \A k \in 1..Len(r) : Before(t, r[k].batch)
               /\ \A b, c : StackHas(s, b, c) <=> StackHas(r, b, c) \/ Has(t, b, c)
<1> DEFINE n == Len(s) - 1
           r == SubSeq(s, 1, n)
           t == s[Len(s)].batch
<1>1. s \in Seq(Frame) /\ n \in Nat /\ Len(s) = n + 1
  BY DEF StackOf
<1> HIDE DEF n
<1>2. Len(r) = n /\ \A k \in 1..n : r[k] = s[k]
  <2>1. r = [k \in 1..n |-> s[k]]
    BY <1>1
  <2> HIDE DEF r
  <2> QED
    BY <1>1, <2>1
<1>3. t = s[n + 1].batch /\ n + 1 \in 1..Len(s) /\ \A k \in 1..n : k \in 1..Len(s) /\ k < n + 1
  BY <1>1
<1>4. \A k \in 1..Len(s) : k \in 1..n \/ k = n + 1
  BY <1>1
<1> HIDE DEF r, t
<1>5. Increasing(t) /\ Before(done, t) /\ \A k \in 1..n : Before(t, s[k].batch)
  BY <1>3 DEF StackOrdered
<1>6. StackOrdered(r, done)
  BY <1>2, <1>3 DEF StackOrdered
<1>7. \A b, c : StackHas(s, b, c) <=> StackHas(r, b, c) \/ Has(t, b, c)
  <2>1. \A b, c : StackHas(s, b, c) => StackHas(r, b, c) \/ Has(t, b, c)
    BY <1>2, <1>3, <1>4 DEF StackHas
  <2>2. \A b, c : StackHas(r, b, c) \/ Has(t, b, c) => StackHas(s, b, c)
    BY <1>2, <1>3 DEF StackHas
  <2> QED
    BY <2>1, <2>2
<1>8. \A k \in 1..Len(r) : Before(t, r[k].batch)
  BY <1>2, <1>5
<1> QED
  BY <1>5, <1>6, <1>7, <1>8 DEF r, t, n

(* with the parts of its top instead, the first one on top,                *)
LEMMA PushedOrder ==
    ASSUME NEW s, NEW j, StackOf(s, j), s # <<>>, NEW done \in Seq(Unit), StackOrdered(s, done),
           NEW parts, PartsOf(parts, s[Len(s)].batch)
    PROVE  LET r == SubSeq(s, 1, Len(s) - 1) \o
                   [i \in DOMAIN parts |-> [batch |-> parts[Len(parts) + 1 - i], attempt |-> 1]]
           IN  StackOrdered(r, done) /\ \A b, c : StackHas(s, b, c) => StackHas(r, b, c)
<1> DEFINE p == SubSeq(s, 1, Len(s) - 1)
           t == s[Len(s)].batch
           n == Len(parts)
           q == [i \in DOMAIN parts |-> [batch |-> parts[n + 1 - i], attempt |-> 1]]
           r == p \o q
           m == Len(p)
<1>1. /\ StackOrdered(p, done) /\ Increasing(t) /\ Before(done, t)
      /\ \A k \in 1..Len(p) : Before(t, p[k].batch)
      /\ \A b, c : StackHas(s, b, c) <=> StackHas(p, b, c) \/ Has(t, b, c)
  BY PoppedOrder
<1>2. StackOf(p, j) /\ Part(t, j)
  BY PoppedStack
<1> HIDE DEF p, t
<1>3. t \in Seq(Unit) /\ p \in Seq(Frame) /\ m \in Nat
  BY <1>2 DEF Part, StackOf
<1>4. PartsOf(parts, t)
  BY DEF t
<1>5. parts \in Seq(Seq(Unit)) /\ n \in Nat /\ DOMAIN parts = 1..n
  BY <1>4 DEF PartsOf
<1>6. \A i \in 1..n : q[i] = [batch |-> parts[n + 1 - i], attempt |-> 1]
  BY <1>5
<1>7. \A i \in 1..n : n + 1 - i \in 1..n /\ q[i].batch = parts[n + 1 - i]
  BY <1>5, <1>6
<1>8. q \in Seq(Frame) /\ Len(q) = n
  <2>1. \A i \in 1..n : n + 1 - i \in 1..n
    BY <1>5
  <2>2. \A i \in 1..n : parts[n + 1 - i] \in Seq(Unit)
    BY <1>5, <2>1
  <2>3. \A i \in 1..n : q[i] \in Frame
    BY <1>6, <2>2 DEF Frame
  <2> QED
    BY <1>5, <2>3
<1> HIDE DEF q
<1>9. r \in Seq(Frame) /\ Len(r) = m + n
      /\ \A k \in 1..(m + n) : r[k] = IF k <= m THEN p[k] ELSE q[k - m]
  <2> HIDE DEF n
  <2>1. r \in Seq(Frame) /\ Len(r) = Len(p) + Len(q)
        /\ \A k \in 1..Len(r) : r[k] = IF k <= Len(p) THEN p[k] ELSE q[k - Len(p)]
    BY <1>3, <1>8
  <2> HIDE DEF r
  <2> QED
    BY <1>8, <2>1
<1> HIDE DEF r, m
<1>10. ASSUME NEW k \in 1..(m + n)
       PROVE  \/ k \in 1..m /\ r[k].batch = p[k].batch
              \/ \E i \in 1..n : i = n + 1 - (k - m) /\ r[k].batch = parts[i] /\ k > m
  <2>1. CASE k <= m
    BY <1>9, <2>1
  <2>2. CASE ~(k <= m)
    <3>1. k - m \in 1..n /\ n + 1 - (k - m) \in 1..n
      BY <1>3, <1>5, <2>2
    <3>2. r[k] = q[k - m]
      BY <1>9, <2>2
    <3>3. q[k - m].batch = parts[n + 1 - (k - m)]
      BY <1>7, <3>1
    <3> QED
      BY <1>3, <2>2, <3>1, <3>2, <3>3
  <2> QED
    BY <2>1, <2>2
<1>11. \A k \in 1..m : p[k].batch \in Seq(Unit)
  <2>1. \A k \in 1..m : p[k] \in Frame
    BY <1>3 DEF m
  <2> QED
    BY <2>1 DEF Frame
<1>12. ASSUME NEW k \in 1..(m + n) PROVE Increasing(r[k].batch) /\ Before(done, r[k].batch)
  <2>1. CASE k \in 1..m /\ r[k].batch = p[k].batch
    BY <1>1, <2>1 DEF StackOrdered, m
  <2>2. ASSUME NEW i \in 1..n, r[k].batch = parts[i] PROVE Increasing(r[k].batch) /\ Before(done, r[k].batch)
    <3>1. Increasing(parts[i])
      BY <1>4 DEF PartsOf
    <3>2. Before(done, parts[i])
      BY <1>1, <1>3, <1>4, PartsBetween
    <3> QED
      BY <2>2, <3>1, <3>2
  <2> QED
    BY <1>10, <2>1, <2>2
<1>13. ASSUME NEW k \in 1..(m + n), NEW l \in 1..(m + n), k < l
       PROVE  Before(r[l].batch, r[k].batch)
  <2>1. CASE k \in 1..m /\ r[k].batch = p[k].batch /\ l \in 1..m /\ r[l].batch = p[l].batch
    BY <1>1, <1>13, <2>1 DEF StackOrdered, m
  <2>2. ASSUME k \in 1..m, r[k].batch = p[k].batch, NEW i \in 1..n, r[l].batch = parts[i]
        PROVE  Before(r[l].batch, r[k].batch)
    <3>1. Before(t, p[k].batch)
      BY <1>1, <2>2 DEF m
    <3>2. p[k].batch \in Seq(Unit)
      BY <1>11, <2>2
    <3>3. Before(parts[i], p[k].batch)
      BY <1>3, <1>4, <3>1, <3>2, PartsBetween
    <3> QED
      BY <2>2, <3>3
  <2>3. ASSUME NEW h \in 1..n, h = n + 1 - (k - m), r[k].batch = parts[h],
               NEW i \in 1..n, i = n + 1 - (l - m), r[l].batch = parts[i]
        PROVE  Before(r[l].batch, r[k].batch)
    <3>1. i < h
      BY <1>3, <1>5, <1>13, <2>3
    <3> QED
      BY <1>4, <2>3, <3>1 DEF PartsOf
  <2>4. ~(k > m /\ l \in 1..m)
    BY <1>3, <1>13
  <2> QED
    BY <1>10, <2>1, <2>2, <2>3, <2>4
<1>14. StackOrdered(r, done)
  BY <1>9, <1>12, <1>13 DEF StackOrdered
<1>15. ASSUME NEW b, NEW c, StackHas(s, b, c) PROVE StackHas(r, b, c)
  <2>1. CASE StackHas(p, b, c)
    <3>1. PICK k \in 1..m : Has(p[k].batch, b, c)
      BY <2>1 DEF StackHas, m
    <3>2. k \in 1..(m + n) /\ r[k] = p[k]
      BY <1>3, <1>5, <1>9
    <3> QED
      BY <1>9, <3>1, <3>2 DEF StackHas
  <2>2. CASE Has(t, b, c)
    <3>1. PICK i \in 1..n : Has(parts[i], b, c)
      BY <1>4, <2>2 DEF PartsOf
    <3>2. n + 1 - i \in 1..n /\ n + 1 - (n + 1 - i) = i /\ m + (n + 1 - i) \in 1..(m + n)
          /\ ~(m + (n + 1 - i) <= m) /\ m + (n + 1 - i) - m = n + 1 - i
      BY <1>3, <1>5
    <3> DEFINE x == n + 1 - i
               y == m + x
    <3>3. q[x].batch = parts[i]
      BY <1>7, <3>2
    <3>4. y \in 1..(m + n) /\ ~(y <= m) /\ y - m = x
      BY <1>3, <1>5
    <3> HIDE DEF x, y
    <3>5. r[y] = q[x]
      BY <1>9, <3>4
    <3> QED
      BY <1>9, <3>1, <3>3, <3>4, <3>5 DEF StackHas
  <2> QED
    BY <1>1, <1>15, <2>1, <2>2
<1> QED
  BY <1>14, <1>15 DEF p, q, r, n

(* and with its top among what is done.                                    *)
LEMMA DoneOrder ==
    ASSUME NEW done \in Seq(Unit), NEW t \in Seq(Unit), Increasing(done), Increasing(t), Before(done, t)
    PROVE  /\ done \o t \in Seq(Unit) /\ Increasing(done \o t)
           /\ \A u \in Units(done \o t) : u \in Units(done) \/ u \in Units(t)
           /\ \A b, c : Has(done, b, c) \/ Has(t, b, c) => Has(done \o t, b, c)
<1> DEFINE m == Len(done)
           n == Len(t)
           r == done \o t
<1>1. m \in Nat /\ n \in Nat /\ r \in Seq(Unit) /\ Len(r) = m + n
      /\ \A k \in 1..(m + n) : r[k] = IF k <= m THEN done[k] ELSE t[k - m]
  OBVIOUS
<1>2. DOMAIN done = 1..m /\ DOMAIN t = 1..n /\ DOMAIN r = 1..(m + n)
  BY <1>1
<1>3. (\A k \in 1..m : done[k] \in Units(done)) /\ (\A k \in 1..n : t[k] \in Units(t))
  BY <1>2 DEF Units
<1> HIDE DEF r, m, n
<1>4. ASSUME NEW k \in 1..(m + n)
      PROVE  \/ k \in 1..m /\ r[k] = done[k]
             \/ k - m \in 1..n /\ k > m /\ r[k] = t[k - m]
  <2>1. CASE k <= m
    BY <1>1, <2>1
  <2>2. CASE ~(k <= m)
    BY <1>1, <2>2
  <2> QED
    BY <2>1, <2>2
<1>5. Increasing(r)
  <2> SUFFICES ASSUME NEW k \in 1..(m + n), NEW l \in 1..(m + n), k < l, r[k].block = r[l].block
               PROVE  r[k].to < r[l].from
    BY <1>1 DEF Increasing
  <2>1. CASE k \in 1..m /\ r[k] = done[k] /\ l \in 1..m /\ r[l] = done[l]
    BY <2>1 DEF Increasing, m
  <2>2. CASE k \in 1..m /\ r[k] = done[k] /\ l - m \in 1..n /\ r[l] = t[l - m]
    BY <1>3, <2>2 DEF Before
  <2>3. CASE k - m \in 1..n /\ r[k] = t[k - m] /\ l - m \in 1..n /\ r[l] = t[l - m]
    <3>1. k - m < l - m
      BY <1>1
    <3> QED
      BY <2>3, <3>1 DEF Increasing, n
  <2>4. ~(k > m /\ l \in 1..m)
    BY <1>1
  <2> QED
    BY <1>4, <2>1, <2>2, <2>3, <2>4
<1>6. \A u \in Units(r) : u \in Units(done) \/ u \in Units(t)
  BY <1>2, <1>3, <1>4 DEF Units
<1>7. \A u \in Units(done) : u \in Units(r)
  <2>1. \A k \in 1..m : k \in 1..(m + n) /\ r[k] = done[k]
    BY <1>1
  <2> QED
    BY <1>2, <2>1 DEF Units
<1>8. \A u \in Units(t) : u \in Units(r)
  <2>1. \A k \in 1..n : m + k \in 1..(m + n) /\ ~(m + k <= m) /\ m + k - m = k
    BY <1>1
  <2>2. \A k \in 1..n : r[m + k] = t[k]
    BY <1>1, <2>1
  <2> QED
    BY <1>2, <2>1, <2>2 DEF Units
<1> QED
  BY <1>1, <1>5, <1>6, <1>7, <1>8 DEF r, Has

-----------------------------------------------------------------------------
Lasting == phase \in {"running", "done"}

(* What was completed of the batch i.                                      *)
ResultOf(i) ==
    /\ results[i] \in Seq(Unit) /\ Increasing(results[i])
    /\ \A u \in Units(results[i]) : Inside(u, i)
    /\ i >= next => results[i] = <<>>
    /\ Lasting => Units(results[i]) \subseteq row \cup mem

ResultsInv ==
    /\ next \in 1..(Len(Source) + 1) /\ DOMAIN results = DOMAIN Source
    /\ \A i \in DOMAIN Source : ResultOf(i)

OrderOf(w) ==
    /\ stack[w] # <<>> => StackOrdered(stack[w], results[job[w]])
    /\ pc[w] \in {"idle", "failed"} => stack[w] = <<>>

(* A split that is on disk has parts.                                      *)
SplitsInv == \A batch \in splits : SplitUnits(batch) # <<>>

Held(w, b, c) == pc[w] = "failed" \/ StackHas(stack[w], b, c)
Accounted ==
    Lasting => \A i \in 1..(next - 1) : \A u \in Units(Source[i]) : \A c \in u.from..u.to :
        \/ Has(results[i], u.block, c) \/ u.block \in Excluded
        \/ \E w \in Worker : job[w] = i /\ Held(w, u.block, c)

DoneInv == phase = "done" => next > Len(Source) /\ \A w \in Worker : pc[w] = "idle"

CInv == UInv /\ ResultsInv /\ (\A w \in Worker : OrderOf(w)) /\ SplitsInv /\ Accounted /\ DoneInv

(* The same of the next state.                                             *)
LEMMA OrderNext ==
    ASSUME NEW w,
           stack'[w] # <<>> => StackOrdered(stack'[w], results'[job'[w]]),
           pc'[w] \in {"idle", "failed"} => stack'[w] = <<>>
    PROVE  OrderOf(w)'
BY Zenon DEF OrderOf, StackOrdered, Increasing, Before, Units

LEMMA ResultNext ==
    ASSUME NEW i, results'[i] \in Seq(Unit), Increasing(results'[i]),
           \A u \in Units(results'[i]) : Inside(u, i),
           i >= next' => results'[i] = <<>>,
           phase' \in {"running", "done"} => Units(results'[i]) \subseteq row' \cup mem'
    PROVE  ResultOf(i)'
BY Zenon DEF ResultOf, Increasing, Units, Inside, Lasting

LEMMA SourceIndex ==
    /\ Len(Source) \in Nat /\ DOMAIN Source = 1..Len(Source)
    /\ 0 \notin DOMAIN Source
<1>1. Source \in Seq(Seq(Unit) \ {<<>>})
  BY SourceAssumption DEF Unit
<1> QED
  BY <1>1

(* A step of a worker with a batch.  It concerns this batch only, and what *)
(* was accounted for still is.                                             *)
LEMMA OneBatch ==
    ASSUME CInv, UInv', NEW w \in Worker, stack[w] # <<>>,
           UNCHANGED <<phase, next, job>>,
           \A v \in Worker \ {w} :
               stack'[v] = stack[v] /\ (pc'[v] = pc[v] \/ (pc[v] = "waiting" /\ pc'[v] = "woken")),
           DOMAIN results' = DOMAIN Source, ResultOf(job[w])',
           \A i \in DOMAIN Source : i # job[w] => results'[i] = results[i],
           row \cup mem \subseteq row' \cup mem', SplitsInv', OrderOf(w)', failures \subseteq failures',
           \A b, c : Has(results[job[w]], b, c) => Has(results'[job[w]], b, c),
           \A b, c : StackHas(stack[w], b, c) =>
               \/ pc'[w] = "failed" \/ StackHas(stack'[w], b, c)
               \/ Has(results'[job[w]], b, c) \/ b \in Excluded'
    PROVE  CInv'
<1>1. UInv /\ ResultsInv /\ (\A v \in Worker : OrderOf(v)) /\ Accounted /\ DoneInv
  BY DEF CInv
<1>2. JobsDiffer /\ \A v \in Worker : WorkerInv(v)
  BY <1>1 DEF UInv
<1>0. job[w] \in DOMAIN Source /\ pc[w] \notin {"idle", "failed"}
  BY <1>1, <1>2 DEF WorkerInv, StackOf, OrderOf
<1>3. ResultsInv'
  <2>0. next' \in 1..(Len(Source) + 1)
    BY <1>1 DEF ResultsInv
  <2> SUFFICES ASSUME NEW i \in DOMAIN Source PROVE ResultOf(i)'
    BY <2>0 DEF ResultsInv
  <2>5. CASE i = job[w]
    BY <2>5 DEF ResultOf
  <2> SUFFICES ASSUME i # job[w] PROVE ResultOf(i)'
    BY <2>5
  <2>1. ResultOf(i) /\ results'[i] = results[i]
    BY <1>1 DEF ResultsInv
  <2>2. Lasting' = Lasting
    BY DEF Lasting
  <2>3. (/\ results[i] \in Seq(Unit) /\ Increasing(results[i])
         /\ \A u \in Units(results[i]) : Inside(u, i)
         /\ i >= next => results[i] = <<>>)'
    BY <2>1 DEF ResultOf, Increasing, Units, Inside
  <2>4. (Lasting => Units(results[i]) \subseteq row \cup mem)'
    BY <2>1, <2>2 DEF ResultOf, Units
  <2> QED
    BY <2>3, <2>4 DEF ResultOf
<1>4. ASSUME NEW v \in Worker \ {w} PROVE OrderOf(v)'
  <2>1. OrderOf(v) /\ stack'[v] = stack[v]
    BY <1>1
  <2>2. pc'[v] \in {"idle", "failed"} => pc[v] \in {"idle", "failed"}
    OBVIOUS
  <2>3. CASE stack[v] = <<>>
    BY <2>1, <2>3 DEF OrderOf
  <2>4. CASE stack[v] # <<>>
    <3>1. job[v] \in DOMAIN Source
      BY <1>2, <2>4 DEF WorkerInv, StackOf
    <3>2. 0 \notin DOMAIN Source
      BY SourceIndex
    <3>3. job[v] # job[w]
      BY <1>0, <1>2, <3>1, <3>2 DEF JobsDiffer
    <3>4. results'[job'[v]] = results[job[v]]
      BY <3>1, <3>3
    <3>5. StackOrdered(stack'[v], results'[job'[v]])
      BY <2>1, <2>4, <3>4 DEF OrderOf
    <3> QED
      BY <2>1, <2>2, <3>5 DEF OrderOf, StackOrdered, Increasing, Before, Units
  <2> QED
    BY <2>3, <2>4
<1>5. \A i \in 1..(next - 1) : i \in DOMAIN Source
  BY <1>1, SourceIndex DEF ResultsInv
<1>6. Accounted'
  <2> SUFFICES ASSUME Lasting, NEW i \in 1..(next - 1), NEW u \in Units(Source[i]), NEW c \in u.from..u.to
               PROVE  (\/ Has(results[i], u.block, c) \/ u.block \in Excluded
                       \/ \E v \in Worker : job[v] = i /\ Held(v, u.block, c))'
    BY DEF Accounted, Lasting, Units
  <2>1. Excluded \subseteq Excluded'
    BY DEF Excluded
  <2>2. \/ Has(results[i], u.block, c) \/ u.block \in Excluded
        \/ \E v \in Worker : job[v] = i /\ Held(v, u.block, c)
    BY <1>1 DEF Accounted
  <2>3. CASE Has(results[i], u.block, c)
    <3>1. Has(results'[i], u.block, c)
      BY <1>5, <2>3
    <3> QED
      BY <3>1 DEF Has, Units
  <2>4. ASSUME NEW v \in Worker, job[v] = i, Held(v, u.block, c)
        PROVE  (\/ Has(results[i], u.block, c) \/ u.block \in Excluded
                \/ job[v] = i /\ Held(v, u.block, c))'
    <3>1. CASE v = w
      <4>1. StackHas(stack[w], u.block, c) /\ job[w] = i
        BY <1>0, <2>4, <3>1 DEF Held
      <4>2. \/ pc'[w] = "failed" \/ StackHas(stack'[w], u.block, c)
            \/ Has(results'[job[w]], u.block, c) \/ u.block \in Excluded'
        BY <4>1
      <4>3. CASE pc'[w] = "failed" \/ StackHas(stack'[w], u.block, c)
        BY <3>1, <4>1, <4>3 DEF Held, StackHas, Has, Units
      <4>4. CASE Has(results'[job[w]], u.block, c)
        BY <4>1, <4>4 DEF Has, Units
      <4> QED
        BY <4>2, <4>3, <4>4
    <3>2. CASE v # w
      BY <2>4, <3>2 DEF Held, StackHas, Has, Units
    <3> QED
      BY <3>1, <3>2
  <2> QED
    BY <2>1, <2>2, <2>3, <2>4
<1>7. DoneInv'
  BY <1>0, <1>1 DEF DoneInv
<1> QED
  BY <1>3, <1>4, <1>6, <1>7 DEF CInv

(* A step that neither completes, splits nor gives up anything.            *)
LEMMA SameBatch ==
    ASSUME CInv, UInv', NEW w \in Worker, stack[w] # <<>>,
           UNCHANGED <<phase, next, job, stack, results, failures, splits>>,
           \A v \in Worker \ {w} : pc'[v] = pc[v] \/ (pc[v] = "waiting" /\ pc'[v] = "woken"),
           pc'[w] \notin {"idle", "failed"}, row \cup mem \subseteq row' \cup mem'
    PROVE  CInv'
<1>1. UInv /\ ResultsInv /\ OrderOf(w) /\ SplitsInv
  BY DEF CInv
<1>2. job[w] \in DOMAIN Source
  BY <1>1 DEF UInv, WorkerInv, StackOf
<1>3. ResultOf(job[w])'
  <2>1. ResultOf(job[w])
    BY <1>1, <1>2 DEF ResultsInv
  <2>2. Units(results[job[w]])' = Units(results[job[w]])
    BY DEF Units
  <2> QED
    BY <2>1, <2>2 DEF ResultOf, Increasing, Inside, Units, Lasting
<1>4. OrderOf(w)'
  BY <1>1 DEF OrderOf, StackOrdered, Increasing, Before, Units
<1>5. SplitsInv' /\ DOMAIN results' = DOMAIN Source
  BY <1>1 DEF SplitsInv, ResultsInv
<1> QED
  BY <1>3, <1>4, <1>5, OneBatch

(* A step that replaces the stack of a worker, as far as its order and its *)
(* text are kept.                                                          *)
LEMMA NewStack ==
    ASSUME CInv, UInv', NEW w \in Worker, stack[w] # <<>>, NEW s, NEW to,
           UNCHANGED <<phase, next, job, results, row, mem>>,
           stack' = [stack EXCEPT ![w] = s],
           \A v \in Worker : pc'[v] = IF v = w THEN to ELSE pc[v],
           s # <<>> => StackOrdered(s, results[job[w]]),
           to \in {"idle", "failed"} => s = <<>>,
           failures \subseteq failures', SplitsInv',
           \A b, c : StackHas(stack[w], b, c) =>
               to = "failed" \/ StackHas(s, b, c) \/ b \in Excluded'
    PROVE  CInv'
<1>1. UInv /\ ResultsInv /\ Domains
  BY DEF CInv, UInv
<1>2. job[w] \in DOMAIN Source
  BY <1>1 DEF UInv, WorkerInv, StackOf
<1>3. \A v \in Worker : stack'[v] = IF v = w THEN s ELSE stack[v]
  BY <1>1 DEF Domains
<1>4. ResultOf(job[w])'
  <2>1. ResultOf(job[w])
    BY <1>1, <1>2 DEF ResultsInv
  <2>2. Units(results[job[w]])' = Units(results[job[w]])
    BY DEF Units
  <2> QED
    BY <2>1, <2>2 DEF ResultOf, Increasing, Inside, Units, Lasting
<1>5. OrderOf(w)'
  BY <1>3, OrderNext
<1>6. DOMAIN results' = DOMAIN Source
  BY <1>1 DEF ResultsInv
<1> QED
  BY <1>3, <1>4, <1>5, <1>6, OneBatch

LEMMA SubmitText ==
    ASSUME CInv, NEW w \in Worker, Submit(w)
    PROVE  CInv'
<1>1. UInv /\ ResultsInv /\ (\A v \in Worker : OrderOf(v)) /\ SplitsInv /\ Accounted /\ DoneInv
  BY DEF CInv
<1>2. JobsDiffer /\ Domains /\ \A v \in Worker : WorkerInv(v)
  BY <1>1 DEF UInv
<1> DEFINE first == <<[batch |-> Source[next], attempt |-> 1]>>
<1>3. /\ phase = "running" /\ next <= Len(Source) /\ next' = next + 1 /\ job' = [job EXCEPT ![w] = next]
      /\ stack' = [stack EXCEPT ![w] = first] /\ pc' = [pc EXCEPT ![w] = "popping"] /\ pc[w] = "idle"
      /\ UNCHANGED <<phase, results, failures, row, mem, splits>>
  BY DEF Submit, To, disk
<1>4. next \in Nat \ {0} /\ next \in DOMAIN Source /\ Part(Source[next], next)
  BY <1>2, <1>3, SourceIndex, SourceParts DEF JobsDiffer
<1>5. Len(first) = 1 /\ first[1].batch = Source[next]
  OBVIOUS
<1> HIDE DEF first
<1>6. \A v \in Worker : /\ pc'[v] = IF v = w THEN "popping" ELSE pc[v]
                        /\ job'[v] = IF v = w THEN next ELSE job[v]
                        /\ stack'[v] = IF v = w THEN first ELSE stack[v]
  BY <1>2, <1>3 DEF Domains
<1>7. ResultsInv'
  <2>1. next' \in 1..(Len(Source) + 1) /\ DOMAIN results' = DOMAIN Source
    BY <1>1, <1>3, <1>4, SourceIndex DEF ResultsInv
  <2>2. ASSUME NEW i \in DOMAIN Source PROVE ResultOf(i)'
    <3>1. ResultOf(i)
      BY <1>1 DEF ResultsInv
    <3>2. i >= next' => i >= next
      BY <1>3, <1>4, SourceIndex
    <3> QED
      BY <1>3, <3>1, <3>2, ResultNext DEF ResultOf, Lasting
  <2> QED
    BY <2>1, <2>2 DEF ResultsInv
<1>8. ASSUME NEW v \in Worker PROVE OrderOf(v)'
  <2>1. CASE v # w
    <3>1. OrderOf(v)
      BY <1>1
    <3>2. stack'[v] = stack[v] /\ pc'[v] = pc[v] /\ results'[job'[v]] = results[job[v]]
      BY <1>3, <1>6, <2>1
    <3> QED
      BY <3>1, <3>2, OrderNext DEF OrderOf
  <2>2. CASE v = w
    <3>1. results[next] = <<>>
      BY <1>1, <1>4 DEF ResultsInv, ResultOf
    <3>2. Increasing(Source[next])
      <4>1. Source[next] \in Seq(Unit)
        BY <1>4, SourceTyped
      <4>2. DOMAIN Source[next] = 1..Len(Source[next])
        BY <4>1
      <4> QED
        BY <1>4, <4>2, SourceAssumption DEF Increasing
    <3>3. Before(<<>>, Source[next])
      BY DEF Before, Units
    <3>4. StackOrdered(first, <<>>)
      BY <1>5, <3>2, <3>3 DEF StackOrdered
    <3>5. stack'[w] = first /\ results'[job'[w]] = <<>> /\ pc'[w] = "popping"
      BY <1>3, <1>6, <3>1
    <3> QED
      BY <2>2, <3>4, <3>5, OrderNext
  <2> QED
    BY <2>1, <2>2
<1>9. Accounted'
  <2> SUFFICES ASSUME Lasting', NEW i \in 1..(next' - 1), NEW u \in Units(Source[i]), NEW c \in u.from..u.to
               PROVE  (\/ Has(results[i], u.block, c) \/ u.block \in Excluded
                       \/ \E v \in Worker : job[v] = i /\ Held(v, u.block, c))'
    BY DEF Accounted, Units
  <2>1. CASE i = next
    <3>1. Has(Source[next], u.block, c)
      BY <2>1 DEF Has
    <3>2. StackHas(first, u.block, c)
      BY <1>5, <3>1 DEF StackHas
    <3>3. stack'[w] = first /\ job'[w] = i
      BY <1>6, <2>1
    <3> QED
      BY <3>2, <3>3 DEF Held, StackHas, Has, Units
  <2>2. CASE i # next
    <3>1. i \in 1..(next - 1)
      BY <1>3, <1>4, <2>2
    <3>2. \/ Has(results[i], u.block, c) \/ u.block \in Excluded
          \/ \E v \in Worker : job[v] = i /\ Held(v, u.block, c)
      BY <1>1, <1>3, <3>1 DEF Accounted, Lasting
    <3>3. CASE Has(results[i], u.block, c) \/ u.block \in Excluded
      BY <1>3, <3>3 DEF Has, Units, Excluded
    <3>4. ASSUME NEW v \in Worker, job[v] = i, Held(v, u.block, c)
          PROVE  (job[v] = i /\ Held(v, u.block, c))'
      <4>1. v # w
        <5>1. pc[w] # "failed" /\ stack[w] = <<>>
          BY <1>1, <1>3 DEF OrderOf
        <5> QED
          BY <3>4, <5>1 DEF Held, StackHas
      <4> QED
        BY <1>6, <3>4, <4>1 DEF Held, StackHas, Has, Units
    <3> QED
      BY <3>2, <3>3, <3>4
  <2> QED
    BY <2>1, <2>2
<1>10. SplitsInv' /\ DoneInv'
  BY <1>1, <1>3 DEF SplitsInv, DoneInv
<1>11. UInv'
  BY <1>1, SubmitUnits
<1> QED
  BY <1>7, <1>8, <1>9, <1>10, <1>11 DEF CInv

LEMMA PopText ==
    ASSUME CInv, NEW w \in Worker, Pop(w)
    PROVE  CInv'
<1>1. UInv /\ ResultsInv /\ (\A v \in Worker : OrderOf(v)) /\ SplitsInv /\ Accounted /\ DoneInv
  BY DEF CInv
<1>2. JobsDiffer /\ Domains /\ WorkerInv(w) /\ OrderOf(w)
  BY <1>1 DEF UInv
<1>3. UInv'
  BY <1>1, PopUnits
<1>4. /\ UNCHANGED <<phase, next, results, failures, row, mem, splits>> /\ pc[w] = "popping"
      /\ job' = IF stack[w] = <<>> THEN [job EXCEPT ![w] = 0] ELSE job
  BY DEF Pop, disk, main
<1>5. SplitsInv'
  BY <1>1, <1>4 DEF SplitsInv
<1>6. CASE stack[w] = <<>>
  <2>1. pc' = [pc EXCEPT ![w] = "idle"] /\ stack' = stack
    BY <1>6 DEF Pop, To
  <2>2. \A v \in Worker : /\ pc'[v] = IF v = w THEN "idle" ELSE pc[v]
                          /\ job'[v] = IF v = w THEN 0 ELSE job[v]
    BY <1>2, <1>4, <1>6, <2>1 DEF Domains
  <2>3. ResultsInv'
    <3>1. ASSUME NEW i \in DOMAIN Source PROVE ResultOf(i)'
      <4>1. ResultOf(i)
        BY <1>1 DEF ResultsInv
      <4> QED
        BY <1>4, <4>1, ResultNext DEF ResultOf, Lasting
    <3> QED
      BY <1>1, <1>4, <3>1 DEF ResultsInv
  <2>4. ASSUME NEW v \in Worker PROVE OrderOf(v)'
    <3>1. OrderOf(v)
      BY <1>1
    <3>2. CASE v = w
      BY <1>6, <2>1, <3>2, OrderNext
    <3>3. CASE v # w
      <4>1. stack'[v] = stack[v] /\ pc'[v] = pc[v] /\ results'[job'[v]] = results[job[v]]
        BY <1>4, <2>1, <2>2, <3>3
      <4> QED
        BY <3>1, <4>1, OrderNext DEF OrderOf
    <3> QED
      BY <3>2, <3>3
  <2>5. Accounted'
    <3> SUFFICES ASSUME Lasting', NEW i \in 1..(next' - 1), NEW u \in Units(Source[i]), NEW c \in u.from..u.to
                 PROVE  (\/ Has(results[i], u.block, c) \/ u.block \in Excluded
                         \/ \E v \in Worker : job[v] = i /\ Held(v, u.block, c))'
      BY DEF Accounted, Units
    <3>1. \/ Has(results[i], u.block, c) \/ u.block \in Excluded
          \/ \E v \in Worker : job[v] = i /\ Held(v, u.block, c)
      BY <1>1, <1>4 DEF Accounted, Lasting
    <3>2. CASE Has(results[i], u.block, c) \/ u.block \in Excluded
      BY <1>4, <3>2 DEF Has, Units, Excluded
    <3>3. ASSUME NEW v \in Worker, job[v] = i, Held(v, u.block, c)
          PROVE  (job[v] = i /\ Held(v, u.block, c))'
      <4>1. v # w
        BY <1>4, <1>6, <3>3 DEF Held, StackHas
      <4> QED
        BY <2>1, <2>2, <3>3, <4>1 DEF Held, StackHas, Has, Units
    <3> QED
      BY <3>1, <3>2, <3>3
  <2>6. DoneInv'
    BY <1>1, <1>4, <2>2 DEF DoneInv
  <2> QED
    BY <1>3, <1>5, <2>3, <2>4, <2>5, <2>6 DEF CInv
<1>7. CASE stack[w] # <<>> /\ Stopped
  <2>1. pc' = [pc EXCEPT ![w] = "failed"] /\ stack' = [stack EXCEPT ![w] = <<>>] /\ job' = job
    BY <1>4, <1>7 DEF Pop, To
  <2>2. \A v \in Worker : pc'[v] = IF v = w THEN "failed" ELSE pc[v]
    BY <1>2, <2>1 DEF Domains
  <2> QED
    BY <1>3, <1>4, <1>5, <1>7, <2>1, <2>2, NewStack
<1>8. CASE stack[w] # <<>> /\ ~Stopped /\ Current(w) \in splits
  <2> DEFINE s == Pushed(w, SplitUnits(Current(w)))
  <2>1. UNCHANGED <<pc, job>> /\ stack' = [stack EXCEPT ![w] = s]
    BY <1>4, <1>8 DEF Pop
  <2>2. StackOrdered(stack[w], results[job[w]]) /\ StackOf(stack[w], job[w])
    BY <1>2, <1>8 DEF OrderOf, WorkerInv
  <2>3. Part(Current(w), job[w]) /\ Increasing(Current(w))
    BY <1>8, <2>2, PoppedStack, PoppedOrder DEF Current
  <2>4. PartsOf(SplitUnits(Current(w)), Current(w))
    BY <1>1, <1>8, <2>3, SplitsInOrder DEF SplitsInv
  <2>5. results[job[w]] \in Seq(Unit)
    BY <1>1, <1>8, <2>2 DEF StackOf, ResultsInv, ResultOf
  <2>6. StackOrdered(s, results[job[w]]) /\ \A b, c : StackHas(stack[w], b, c) => StackHas(s, b, c)
    BY <1>8, <2>2, <2>4, <2>5, PushedOrder DEF Pushed, Popped, Current
  <2> HIDE DEF s
  <2>7. \A v \in Worker : pc'[v] = IF v = w THEN "popping" ELSE pc[v]
    BY <1>4, <2>1
  <2> QED
    BY <1>3, <1>4, <1>5, <1>8, <2>1, <2>6, <2>7, NewStack
<1>9. CASE stack[w] # <<>> /\ ~Stopped /\ Current(w) \notin splits
  <2>1. pc' = [pc EXCEPT ![w] = "looking"] /\ stack' = stack /\ job' = job
    BY <1>4, <1>9 DEF Pop, To
  <2>2. \A v \in Worker : pc'[v] = IF v = w THEN "looking" ELSE pc[v]
    BY <1>2, <2>1 DEF Domains
  <2> QED
    BY <1>3, <1>4, <1>9, <2>1, <2>2, SameBatch
<1> QED
  BY <1>6, <1>7, <1>8, <1>9

(* The steps of a request.  A row leaves the memory for the disk.          *)
LEMMA RequestText ==
    ASSUME CInv, NEW w \in Worker,
           \/ Look(w) \/ Narrow(w) \/ Claim(w) \/ Recheck(w) \/ Reply(w) \/ Finish(w)
           \/ StopWaiting(w) \/ WaitTooLong(w)
    PROVE  CInv'
<1>1. UInv /\ Domains /\ WorkerInv(w)
  BY DEF CInv, UInv
<1>2. UInv'
  BY <1>1, LookUnits, RequestUnits, FinishUnits
<1>3. UNCHANGED <<phase, next, job, stack, results, failures, splits>>
  BY DEF Look, Narrow, Claim, Recheck, Reply, Finish, StopWaiting, WaitTooLong, main, disk
<1>4. stack[w] # <<>>
  BY <1>1 DEF Look, Narrow, Claim, Recheck, Reply, Finish, StopWaiting, WaitTooLong, WorkerInv
<1> DEFINE Busy == {"looking", "narrowing", "claiming", "owning", "asking", "finishing", "waiting",
                    "woken", "verifying", "raising"}
<1>5. pc'[w] \in Busy /\ \A v \in Worker \ {w} : pc'[v] = pc[v] \/ (pc[v] = "waiting" /\ pc'[v] = "woken")
  <2>1. CASE Finish(w)
    BY <1>1, <2>1 DEF Finish, Waiters
  <2>2. CASE ~Finish(w)
    <3>1. \E to \in Busy : pc' = [pc EXCEPT ![w] = to]
      <4>1. CASE Look(w) \/ Narrow(w)
        BY <4>1, Zenon DEF Look, Narrow, To, After
      <4>2. CASE Claim(w) \/ Recheck(w) \/ Reply(w)
        BY <4>2, Zenon DEF Claim, Recheck, Reply, To
      <4>3. CASE StopWaiting(w) \/ WaitTooLong(w)
        BY <4>3, Zenon DEF StopWaiting, WaitTooLong, To
      <4> QED
        BY <2>2, <4>1, <4>2, <4>3
    <3> QED
      BY <1>1, <3>1 DEF Domains
  <2> QED
    BY <2>1, <2>2
<1>6. row \cup mem \subseteq row' \cup mem'
  <2>1. CASE Look(w) \/ Narrow(w) \/ Recheck(w)
    <3>1. row' = row /\ (mem' = mem \/ \E got : mem' = mem \cup (got \ row))
      BY <2>1, Zenon DEF Look, Narrow, Recheck, disk
    <3> QED
      BY <3>1
  <2>2. CASE Reply(w)
    <3>1. UNCHANGED <<row, mem>> \/ \E good : row' = row \cup good /\ mem' = mem \ good
      BY <2>2, Zenon DEF Reply
    <3> QED
      BY <3>1
  <2>3. CASE Claim(w) \/ Finish(w) \/ StopWaiting(w) \/ WaitTooLong(w)
    BY <2>3 DEF Claim, Finish, StopWaiting, WaitTooLong, disk
  <2> QED
    BY <2>1, <2>2, <2>3
<1>7. pc'[w] \notin {"idle", "failed"}
  BY <1>5
<1> HIDE DEF Busy
<1> QED
  BY <1>2, <1>3, <1>4, <1>5, <1>6, <1>7, SameBatch

LEMMA VerifyText ==
    ASSUME CInv, NEW w \in Worker, Verify(w)
    PROVE  CInv'
<1>1. UInv /\ ResultsInv /\ OrderOf(w) /\ SplitsInv /\ Domains /\ WorkerInv(w) /\ JobsDiffer
  BY DEF CInv, UInv
<1>2. UInv'
  BY <1>1, VerifyUnits
<1>3. UNCHANGED <<phase, next, job, failures, splits, row>> /\ stack[w] # <<>>
  BY <1>1 DEF Verify, main, disk, WorkerInv
<1>4. mem \subseteq mem'
  <2>1. \E got : mem' = mem \cup (got \ row)
    BY Zenon DEF Verify
  <2> QED
    BY <2>1
<1>5. CASE ~\A u \in Units(Current(w)) : u \in row \cup mem'
  <2>1. pc' = [pc EXCEPT ![w] = "raising"] /\ UNCHANGED <<stack, results>>
    BY <1>5, Zenon DEF Verify, To
  <2>2. \A v \in Worker : pc'[v] = IF v = w THEN "raising" ELSE pc[v]
    BY <1>1, <2>1 DEF Domains
  <2>3. row \cup mem \subseteq row' \cup mem'
    BY <1>3, <1>4
  <2> QED
    BY <1>2, <1>3, <2>1, <2>2, <2>3, SameBatch
<1>6. CASE \A u \in Units(Current(w)) : u \in row \cup mem'
  <2> DEFINE i == job[w]
             d == results[i]
             t == Current(w)
             r == Popped(w)
  <2>1. /\ results' = [results EXCEPT ![i] = d \o t] /\ stack' = [stack EXCEPT ![w] = r]
        /\ pc' = [pc EXCEPT ![w] = "popping"]
    BY <1>6, Zenon DEF Verify, To
  <2>2. StackOf(stack[w], i) /\ StackOrdered(stack[w], d)
    BY <1>1, <1>3 DEF WorkerInv, OrderOf
  <2>3. Part(t, i) /\ i \in DOMAIN Source /\ StackOf(r, i)
    BY <1>3, <2>2, PoppedStack DEF Current, Popped
  <2>4. /\ StackOrdered(r, d) /\ Increasing(t) /\ Before(d, t)
        /\ \A k \in 1..Len(r) : Before(t, r[k].batch)
        /\ \A b, c : StackHas(stack[w], b, c) <=> StackHas(r, b, c) \/ Has(t, b, c)
    BY <1>3, <2>2, PoppedOrder DEF Current, Popped
  <2>5. ResultOf(i) /\ DOMAIN results = DOMAIN Source
    BY <1>1, <2>3 DEF ResultsInv
  <2>6. d \in Seq(Unit) /\ Increasing(d) /\ t \in Seq(Unit)
    BY <2>3, <2>5 DEF ResultOf, Part
  <2>7. /\ d \o t \in Seq(Unit) /\ Increasing(d \o t)
        /\ \A u \in Units(d \o t) : u \in Units(d) \/ u \in Units(t)
        /\ \A b, c : Has(d, b, c) \/ Has(t, b, c) => Has(d \o t, b, c)
    BY <2>4, <2>6, DoneOrder
  <2>8. ~(i >= next)
    BY <1>1, <2>3, SourceIndex DEF JobsDiffer
  <2>9. /\ DOMAIN results' = DOMAIN Source /\ results'[i] = d \o t
        /\ \A j \in DOMAIN Source : j # i => results'[j] = results[j]
    BY <2>1, <2>3, <2>5
  <2>10. \A v \in Worker : /\ pc'[v] = IF v = w THEN "popping" ELSE pc[v]
                           /\ stack'[v] = IF v = w THEN r ELSE stack[v]
    BY <1>1, <2>1 DEF Domains
  <2> HIDE DEF t, r, d
  <2>11. ResultOf(i)'
    <3>1. \A u \in Units(d \o t) : Inside(u, i)
      BY <2>3, <2>5, <2>7 DEF ResultOf, Part, d
    <3>2. Lasting => Units(d \o t) \subseteq row' \cup mem'
      <4>1. Lasting => Units(d) \subseteq row \cup mem
        BY <2>5 DEF ResultOf, d
      <4>2. Units(t) \subseteq row \cup mem'
        BY <1>6 DEF t
      <4> QED
        BY <1>3, <1>4, <2>7, <4>1, <4>2
    <3>3. /\ results'[i] \in Seq(Unit) /\ Increasing(results'[i])
          /\ \A u \in Units(results'[i]) : Inside(u, i)
          /\ ~(i >= next')
          /\ phase' \in {"running", "done"} => Units(results'[i]) \subseteq row' \cup mem'
      BY <1>3, <2>7, <2>8, <2>9, <3>1, <3>2 DEF Lasting
    <3>4. \A j : job[w] = j /\ job'[w] = j /\ ResultOf(j)' => ResultOf(job[w])'
      BY DEF ResultOf, Increasing, Units, Inside
    <3> QED
      BY <1>3, <3>3, <3>4, ResultNext
  <2>12. StackOrdered(r, d \o t)
    <3>1. \A k \in 1..Len(r) : Before(d, r[k].batch) /\ Before(t, r[k].batch)
      BY <2>4 DEF StackOrdered
    <3>2. \A k \in 1..Len(r) : Before(d \o t, r[k].batch)
      BY <2>7, <3>1 DEF Before
    <3> QED
      BY <2>4, <3>2 DEF StackOrdered
  <2>13. OrderOf(w)'
    BY <1>3, <2>9, <2>10, <2>12, OrderNext
  <2>14. SplitsInv' /\ row \cup mem \subseteq row' \cup mem'
    BY <1>1, <1>3, <1>4 DEF SplitsInv
  <2>15. \A b, c : /\ Has(results[i], b, c) => Has(results'[i], b, c)
                   /\ StackHas(stack[w], b, c) => StackHas(stack'[w], b, c) \/ Has(results'[i], b, c)
    BY <2>4, <2>7, <2>9, <2>10 DEF d
  <2> QED
    BY <1>2, <1>3, <2>9, <2>10, <2>11, <2>13, <2>14, <2>15, OneBatch
<1> QED
  BY <1>5, <1>6

LEMMA HandleText ==
    ASSUME CInv, NEW w \in Worker, Handle(w)
    PROVE  CInv'
<1>1. UInv /\ ResultsInv /\ OrderOf(w) /\ SplitsInv /\ Domains /\ WorkerInv(w)
  BY DEF CInv, UInv
<1>2. UInv'
  BY <1>1, HandleUnits
<1>3. UNCHANGED <<phase, next, job, results, row, mem>> /\ stack[w] # <<>>
  BY <1>1 DEF Handle, main, WorkerInv
<1> DEFINE t == Current(w)
           d == results[job[w]]
<1>4. StackOf(stack[w], job[w]) /\ StackOrdered(stack[w], d)
  BY <1>1, <1>3 DEF WorkerInv, OrderOf
<1>5. Part(t, job[w]) /\ job[w] \in DOMAIN Source
  BY <1>3, <1>4, PoppedStack DEF Current
<1>6. /\ StackOrdered(Popped(w), d) /\ Increasing(t)
      /\ \A b, c : StackHas(stack[w], b, c) <=> StackHas(Popped(w), b, c) \/ Has(t, b, c)
  BY <1>3, <1>4, PoppedOrder DEF Current, Popped
<1>7. d \in Seq(Unit) /\ t \in Seq(Unit)
  BY <1>1, <1>5 DEF ResultsInv, ResultOf, Part
<1> HIDE DEF t, d
<1>8. CASE GiveUp(w)
  <2>1. /\ failures' = failures \cup Units(t) /\ stack' = [stack EXCEPT ![w] = Popped(w)]
        /\ pc' = [pc EXCEPT ![w] = "popping"] /\ splits' = splits
    BY <1>8 DEF GiveUp, To, t
  <2>2. \A v \in Worker : pc'[v] = IF v = w THEN "popping" ELSE pc[v]
    BY <1>1, <2>1 DEF Domains
  <2>3. \A b, c : Has(t, b, c) => b \in Excluded'
    BY <2>1 DEF Has, Excluded
  <2>4. SplitsInv' /\ failures \subseteq failures'
    BY <1>1, <2>1 DEF SplitsInv
  <2>5. \A b, c : StackHas(stack[w], b, c) => StackHas(Popped(w), b, c) \/ b \in Excluded'
    BY <1>6, <2>3
  <2>6. StackOrdered(Popped(w), results[job[w]])
    BY <1>6 DEF d
  <2> QED
    BY <1>2, <1>3, <2>1, <2>2, <2>4, <2>5, <2>6, NewStack
<1>9. ASSUME Replace(w, SplitUnits(t)), SplitUnits(t) # <<>>
      PROVE  CInv'
  <2> DEFINE s == Pushed(w, SplitUnits(t))
  <2>1. /\ splits' = splits \cup {t} /\ stack' = [stack EXCEPT ![w] = s]
        /\ pc' = [pc EXCEPT ![w] = "popping"] /\ failures' = failures
    BY <1>9 DEF Replace, To, t
  <2>2. PartsOf(SplitUnits(t), t)
    BY <1>5, <1>6, <1>9, SplitsInOrder
  <2>3. StackOrdered(s, d) /\ \A b, c : StackHas(stack[w], b, c) => StackHas(s, b, c)
    BY <1>3, <1>4, <1>7, <2>2, PushedOrder DEF Pushed, Popped, Current, t
  <2> HIDE DEF s
  <2>4. \A v \in Worker : pc'[v] = IF v = w THEN "popping" ELSE pc[v]
    BY <1>1, <2>1 DEF Domains
  <2>5. SplitsInv'
    BY <1>1, <1>9, <2>1 DEF SplitsInv
  <2>6. StackOrdered(s, results[job[w]]) /\ failures \subseteq failures'
    BY <2>1, <2>3 DEF d
  <2> QED
    BY <1>2, <1>3, <2>1, <2>3, <2>4, <2>5, <2>6, NewStack
<1>10. CASE Again(w)
  <2> DEFINE n == Len(stack[w])
             s == [stack[w] EXCEPT ![n].attempt = @ + 1]
  <2>1. /\ stack' = [stack EXCEPT ![w] = s] /\ UNCHANGED <<splits, failures>>
        /\ pc' = [pc EXCEPT ![w] = "popping"]
    BY <1>10 DEF Again, To
  <2>2. stack[w] \in Seq(Frame) /\ n \in 1..n /\ n \in Nat
    BY <1>3, <1>4 DEF StackOf
  <2>3. stack[w][n] \in Frame
    BY <2>2
  <2>4. s \in Seq(Frame) /\ Len(s) = n
    BY <2>2, <2>3 DEF Frame
  <2>5. \A k \in 1..n : s[k].batch = stack[w][k].batch
    BY <2>2, <2>3 DEF Frame
  <2> HIDE DEF s
  <2>6. StackOrdered(s, results[job[w]])
    BY <1>4, <2>4, <2>5 DEF StackOrdered, d
  <2>7. \A b, c : StackHas(stack[w], b, c) => StackHas(s, b, c)
    BY <2>4, <2>5 DEF StackHas
  <2>8. \A v \in Worker : pc'[v] = IF v = w THEN "popping" ELSE pc[v]
    BY <1>1, <2>1 DEF Domains
  <2>9. SplitsInv' /\ failures \subseteq failures'
    BY <1>1, <2>1 DEF SplitsInv
  <2> QED
    BY <1>2, <1>3, <2>1, <2>6, <2>7, <2>8, <2>9, NewStack
<1>11. ASSUME To(w, "failed"), stack' = [stack EXCEPT ![w] = <<>>], UNCHANGED <<splits, failures>>
       PROVE  CInv'
  <2>1. \A v \in Worker : pc'[v] = IF v = w THEN "failed" ELSE pc[v]
    BY <1>1, <1>11 DEF Domains, To
  <2>2. SplitsInv' /\ failures \subseteq failures'
    BY <1>1, <1>11 DEF SplitsInv
  <2> QED
    BY <1>2, <1>3, <1>11, <2>1, <2>2, NewStack
<1>12. Len(t) > 1 => SplitUnits(t) = Halves(t) /\ Halves(t) # <<>>
  BY <1>7 DEF SplitUnits, Halves
<1>13. \/ GiveUp(w) \/ Again(w)
       \/ To(w, "failed") /\ stack' = [stack EXCEPT ![w] = <<>>] /\ UNCHANGED <<splits, failures>>
       \/ Len(t) > 1 /\ Replace(w, Halves(t))
       \/ SplitUnits(t) # <<>> /\ Replace(w, SplitUnits(t))
  BY Zenon DEF Handle, Invalid, Capacity, t
<1> QED
  BY <1>8, <1>9, <1>10, <1>11, <1>12, <1>13

-----------------------------------------------------------------------------
LEMMA NextText ==
    ASSUME CInv, [Next]_vars
    PROVE  CInv'
<1>1. UInv /\ ResultsInv /\ (\A w \in Worker : OrderOf(w)) /\ SplitsInv /\ Accounted /\ DoneInv
  BY DEF CInv
<1>2. UInv'
  BY <1>1, NextUnits
<1>3. CASE \E w \in Worker : Step(w) \/ WaitTooLong(w)
  <2>1. PICK w \in Worker : Step(w) \/ WaitTooLong(w)
    BY <1>3
  <2> QED
    BY <2>1, SubmitText, PopText, RequestText, VerifyText, HandleText DEF Step
<1>4. CASE Conclude \/ UNCHANGED vars
  <2>1. /\ UNCHANGED <<row, mem, splits, next, results, failures, pc, job, stack>>
        /\ phase' \in {"running", "done"} => phase \in {"running", "done"}
    BY <1>4 DEF Conclude, vars, disk, main
  <2>2. ASSUME NEW i \in DOMAIN Source PROVE ResultOf(i)'
    <3>1. ResultOf(i)
      BY <1>1 DEF ResultsInv
    <3> QED
      BY <2>1, <3>1, ResultNext DEF ResultOf, Lasting
  <2>3. ASSUME NEW w \in Worker PROVE OrderOf(w)'
    <3>1. OrderOf(w)
      BY <1>1
    <3> QED
      BY <2>1, <3>1, OrderNext DEF OrderOf
  <2>4. ResultsInv' /\ SplitsInv'
    BY <1>1, <2>1, <2>2 DEF ResultsInv, SplitsInv
  <2>5. Accounted'
    BY <1>1, <2>1 DEF Accounted, Lasting, Has, Units, Excluded, Held, StackHas
  <2>6. DoneInv'
    BY <1>1, <1>4 DEF Conclude, DoneInv, vars, main
  <2> QED
    BY <1>2, <2>3, <2>4, <2>5, <2>6 DEF CInv
<1>5. CASE Fail \/ Join
  <2>1. /\ UNCHANGED <<row, splits, next, pc, job, stack>> /\ phase' \notin {"running", "done"}
        /\ results' = results \/ results' = [i \in DOMAIN Source |-> <<>>]
    BY <1>5 DEF Fail, Join, disk
  <2>2. ASSUME NEW i \in DOMAIN Source PROVE ResultOf(i)' /\ (results'[i] = results[i] \/ results'[i] = <<>>)
    <3>1. ResultOf(i)
      BY <1>1 DEF ResultsInv
    <3>2. CASE results' = results
      BY <2>1, <3>1, <3>2, ResultNext DEF ResultOf
    <3>3. CASE results' = [j \in DOMAIN Source |-> <<>>]
      <4>1. results'[i] = <<>>
        BY <3>3
      <4>2. <<>> \in Seq(Unit) /\ Increasing(<<>>) /\ \A u \in Units(<<>>) : Inside(u, i)
        BY DEF Increasing, Units
      <4> QED
        BY <2>1, <4>1, <4>2, ResultNext
    <3> QED
      BY <2>1, <3>2, <3>3
  <2>3. ASSUME NEW w \in Worker PROVE OrderOf(w)'
    <3>1. OrderOf(w) /\ StackOf(stack[w], job[w])
      BY <1>1 DEF UInv, WorkerInv
    <3>2. ASSUME stack[w] # <<>> PROVE StackOrdered(stack[w], results'[job[w]])
      <4>1. job[w] \in DOMAIN Source /\ StackOrdered(stack[w], results[job[w]])
        BY <3>1, <3>2 DEF StackOf, OrderOf
      <4>2. CASE results'[job[w]] = results[job[w]]
        BY <4>1, <4>2
      <4>3. CASE results'[job[w]] = <<>>
        <5>1. \A batch : Before(<<>>, batch)
          BY DEF Before, Units
        <5> QED
          BY <4>1, <4>3, <5>1 DEF StackOrdered
      <4> QED
        BY <2>2, <4>1, <4>2, <4>3
    <3> QED
      BY <2>1, <3>1, <3>2, OrderNext DEF OrderOf
  <2>4. ResultsInv' /\ SplitsInv'
    <3>1. DOMAIN results' = DOMAIN Source
      BY <1>1, <2>1 DEF ResultsInv
    <3> QED
      BY <1>1, <2>1, <2>2, <3>1 DEF ResultsInv, SplitsInv
  <2>5. Accounted' /\ DoneInv'
    BY <2>1 DEF Accounted, Lasting, DoneInv
  <2> QED
    BY <1>2, <2>3, <2>4, <2>5 DEF CInv
<1>6. CASE Resume
  <2>1. /\ UNCHANGED splits /\ next' = 1 /\ results' = [i \in DOMAIN Source |-> <<>>]
        /\ phase' = "running" /\ \A w \in Worker : stack'[w] = <<>>
    BY <1>6 DEF Resume, disk
  <2>2. ASSUME NEW i \in DOMAIN Source PROVE ResultOf(i)'
    <3>1. results'[i] = <<>>
      BY <2>1
    <3>2. <<>> \in Seq(Unit) /\ Increasing(<<>>) /\ \A u \in Units(<<>>) : FALSE
      BY DEF Increasing, Units
    <3> QED
      BY <3>1, <3>2, ResultNext
  <2>3. \A w \in Worker : OrderOf(w)'
    BY <2>1, OrderNext
  <2>4. ResultsInv' /\ SplitsInv' /\ DoneInv'
    BY <1>1, <2>1, <2>2, SourceIndex DEF ResultsInv, SplitsInv, DoneInv
  <2>5. Accounted'
    BY <2>1 DEF Accounted
  <2> QED
    BY <1>2, <2>3, <2>4, <2>5 DEF CInv
<1> QED
  BY <1>3, <1>4, <1>5, <1>6 DEF Next

(* The invariant holds: what a worker has completed, what it still has to  *)
(* do and what is reported are the text of its batch, in its order.        *)
THEOREM TextInvariance == Spec => []CInv
<1>1. Init => CInv
  <2> SUFFICES ASSUME Init PROVE CInv
    OBVIOUS
  <2>1. /\ next = 1 /\ results = [i \in DOMAIN Source |-> <<>>] /\ splits = {} /\ phase = "running"
        /\ \A w \in Worker : stack[w] = <<>> /\ pc[w] = "idle"
    BY DEF Init
  <2>2. UInv
    BY InitUnits
  <2>3. ASSUME NEW i \in DOMAIN Source PROVE ResultOf(i)
    <3>1. results[i] = <<>>
      BY <2>1
    <3>2. <<>> \in Seq(Unit) /\ Increasing(<<>>) /\ \A u \in Units(<<>>) : FALSE
      BY DEF Increasing, Units
    <3> QED
      BY <3>1, <3>2 DEF ResultOf
  <2>4. ResultsInv /\ SplitsInv /\ DoneInv
    BY <2>1, <2>3, SourceIndex DEF ResultsInv, SplitsInv, DoneInv
  <2>5. Accounted /\ \A w \in Worker : OrderOf(w)
    BY <2>1 DEF Accounted, OrderOf
  <2> QED
    BY <2>2, <2>4, <2>5 DEF CInv
<1> QED
  BY <1>1, NextText, PTL DEF Spec

(* At the end each block is reported as omitted or extracted, in source    *)
(* order, without a gap and without an overlap, and what was extracted has *)
(* its rows.                                                               *)
THEOREM CoveredAlways == Spec => []Covered
<1>1. CInv => Covered
  <2> SUFFICES ASSUME CInv, phase = "done", NEW b \in Block \ Excluded
               PROVE  /\ Completed(b) \subseteq row \cup mem
                      /\ UNION {u.from..u.to : u \in Completed(b)} = Characters(b)
                      /\ \A i, j \in DOMAIN Source : \A k \in DOMAIN results[i], l \in DOMAIN results[j] :
                           /\ i < j \/ (i = j /\ k < l)
                           /\ results[i][k].block = b /\ results[j][l].block = b
                           => results[i][k].to < results[j][l].from
    BY DEF Covered
  <2>1. /\ \A i \in DOMAIN Source : ResultOf(i)
        /\ next > Len(Source) /\ next \in Nat /\ \A w \in Worker : pc[w] = "idle" /\ stack[w] = <<>>
    BY SourceIndex DEF CInv, ResultsInv, DoneInv, OrderOf
  <2>2. Completed(b) \subseteq row \cup mem
    BY <2>1 DEF ResultOf, Lasting, Completed
  <2>3. ASSUME NEW u \in Completed(b), NEW c \in u.from..u.to PROVE c \in Characters(b)
    <3>1. PICK i \in DOMAIN Source : u \in Units(results[i]) /\ u.block = b
      BY DEF Completed
    <3>2. Inside(u, i)
      BY <2>1, <3>1 DEF ResultOf
    <3>3. PICK g \in Units(Source[i]) : u.block = g.block /\ g.from <= u.from /\ u.to <= g.to
      BY <3>2 DEF Inside
    <3>4. g \in Given /\ g.block = b
      BY <3>1, <3>3 DEF Given
    <3>5. g.from \in Nat /\ g.to \in Nat /\ u.from \in Nat /\ u.to \in Nat
      BY <3>2, SourceTyped DEF Inside, Unit
    <3>6. c \in g.from..g.to
      BY <3>3, <3>5
    <3> QED
      BY <3>4, <3>6 DEF Characters
  <2>4. ASSUME NEW c \in Characters(b)
        PROVE  \E u \in Completed(b) : c \in u.from..u.to
    <3>1. PICK u \in Given : u.block = b /\ c \in u.from..u.to
      BY DEF Characters
    <3>2. PICK i \in DOMAIN Source : u \in Units(Source[i])
      BY DEF Given
    <3>3. i \in 1..(next - 1)
      BY <2>1, SourceIndex
    <3>4. \/ Has(results[i], u.block, c) \/ u.block \in Excluded
          \/ \E w \in Worker : job[w] = i /\ Held(w, u.block, c)
      BY <3>1, <3>2, <3>3 DEF CInv, Accounted, Lasting
    <3>5. \A w \in Worker : ~Held(w, u.block, c)
      BY <2>1 DEF Held, StackHas
    <3>6. Has(results[i], b, c)
      BY <3>1, <3>4, <3>5
    <3> QED
      BY <3>6 DEF Has, Completed
  <2>5. ASSUME NEW i \in DOMAIN Source, NEW j \in DOMAIN Source,
               NEW k \in DOMAIN results[i], NEW l \in DOMAIN results[j],
               i < j \/ (i = j /\ k < l), results[i][k].block = b, results[j][l].block = b
        PROVE  results[i][k].to < results[j][l].from
    <3>1. ResultOf(i) /\ ResultOf(j)
      BY <2>1
    <3>2. CASE i < j
      <4>1. Inside(results[i][k], i) /\ Inside(results[j][l], j)
        BY <3>1 DEF ResultOf, Units
      <4> QED
        BY <2>5, <3>2, <4>1, PartsInOrder
    <3>3. CASE i = j /\ k < l
      BY <2>5, <3>1, <3>3 DEF ResultOf, Increasing
    <3> QED
      BY <2>5, <3>2, <3>3
  <2>6. UNION {u.from..u.to : u \in Completed(b)} = Characters(b)
    BY <2>3, <2>4
  <2> QED
    BY <2>2, <2>5, <2>6
<1> QED
  BY <1>1, TextInvariance, PTL
=============================================================================
