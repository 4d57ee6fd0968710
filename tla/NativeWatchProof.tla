--------------------------- MODULE NativeWatchProof ---------------------------
(***************************************************************************)
(* For any files, contents, window and number of submissions: the index of *)
(* the watch is true, nothing is submitted after a stop, and no file while *)
(* a task of it goes on.  None of this is inductive: it rests on what a    *)
(* candidate may be believed to say while its file changes, and on a       *)
(* window that holds a file once and never one that is submitted.          *)
(***************************************************************************)
EXTENDS NativeWatch, SequenceTheorems, TLAPS

RowType == [stamp : Nat, digest : Content \cup (File \X Content), old : BOOLEAN]
TaskType == [state : {"queued", "preparing", "running", "waiting-input", "doubt", "ended"},
             at : Nat, version : Content \cup {None},
             revision : (File \X Content) \cup {None}, reaped : BOOLEAN]
Candidate == [path : File, stamp : Nat, digest : Content \cup {None},
              quiet : BOOLEAN, tried : BOOLEAN, aged : BOOLEAN]

TypeInv ==
    /\ bytes \in [File -> Seq(Content)] /\ \A f \in File : bytes[f] # <<>>
    /\ seen \in [File -> RowType \cup {None}]
    /\ task \in [File -> TaskType \cup {None}]
    /\ active \subseteq File /\ unscanned \subseteq File
    /\ candidates \in Seq(Candidate) /\ todo \in Seq(File)
    /\ pc \in {"top", "scan", "accept", "hash", "confirm", "gate", "ended"}

(* The window holds one candidate of a file, none that is submitted, and   *)
(* the pass over it visits each of them once.                              *)
WindowInv ==
    /\ \A i \in DOMAIN candidates : candidates[i].path \notin active
    /\ \A i, j \in DOMAIN candidates : candidates[i].path = candidates[j].path => i = j
    /\ \A k \in DOMAIN todo : \E i \in DOMAIN candidates : candidates[i].path = todo[k]
    /\ \A k, l \in DOMAIN todo : todo[k] = todo[l] => k = l
PassInv ==
    /\ pc \in {"top", "scan", "ended"} => todo = <<>>
    /\ pc \in {"hash", "confirm", "gate"} => todo # <<>>

(* What was hashed is what the stamp says unless the stamp is out of date. *)
Believed(c) ==
    /\ c.stamp \in 1..Stamp(c.path)
    /\ c.digest # None /\ c.stamp = Stamp(c.path) => c.digest = Digest(c.path)
StampInv ==
    /\ \A f \in File : seen[f] # None => seen[f].stamp \in 0..Stamp(f)
    /\ \A i \in DOMAIN candidates : Believed(candidates[i])
HashInv ==
    \A i \in DOMAIN candidates : candidates[i].path = Head(todo) =>
        /\ pc = "confirm" => candidates[i].digest # None
        /\ pc = "gate" => candidates[i].digest = bytes[Head(todo)][candidates[i].stamp]

(* A task that goes on is one that the watch counts.                       *)
TaskInv ==
    \A f \in File :
        /\ Live(f) => f \in active
        /\ f \in active => task[f] \in TaskType
        /\ f \in active /\ task[f].state # "doubt" => task[f].reaped

IInv == TypeInv /\ WindowInv /\ PassInv /\ StampInv /\ HashInv /\ TaskInv /\ SeenIsTrue

-----------------------------------------------------------------------------
(* What is left of a sequence without its i-th element.                    *)
LEMMA Removal ==
    ASSUME NEW S, NEW s \in Seq(S), NEW i \in DOMAIN s
    PROVE  /\ RemoveAt(s, i) \in Seq(S)
           /\ Len(RemoveAt(s, i)) = Len(s) - 1
           /\ \A k \in DOMAIN RemoveAt(s, i) : RemoveAt(s, i)[k] = IF k < i THEN s[k] ELSE s[k + 1]
<1> DEFINE a == SubSeq(s, 1, i - 1)  b == SubSeq(s, i + 1, Len(s))
<1>1. i \in 1..Len(s)
  OBVIOUS
<1>2. a \in Seq(S) /\ Len(a) = i - 1 /\ \A k \in 1..(i - 1) : a[k] = s[k]
  BY <1>1
<1>3. b \in Seq(S) /\ Len(b) = Len(s) - i /\ \A k \in 1..(Len(s) - i) : b[k] = s[k + i]
  BY <1>1
<1>4. RemoveAt(s, i) = a \o b
  BY DEF RemoveAt
<1> HIDE DEF a, b
<1>5. /\ a \o b \in Seq(S) /\ Len(a \o b) = Len(a) + Len(b)
      /\ \A k \in 1..(Len(a) + Len(b)) : (a \o b)[k] = IF k <= Len(a) THEN a[k] ELSE b[k - Len(a)]
  BY <1>2, <1>3, ConcatProperties
<1>6. Len(a \o b) = Len(s) - 1 /\ DOMAIN (a \o b) = 1..(Len(s) - 1)
  BY <1>1, <1>2, <1>3, <1>5
<1>7. ASSUME NEW k \in 1..(Len(s) - 1)
      PROVE  (a \o b)[k] = IF k < i THEN s[k] ELSE s[k + 1]
  <2>1. (a \o b)[k] = IF k <= i - 1 THEN a[k] ELSE b[k - (i - 1)]
    <3>1. k \in 1..(Len(a) + Len(b)) /\ Len(a) = i - 1
      BY <1>1, <1>2, <1>3
    <3> QED
      BY <3>1, <1>5
  <2>2. CASE k < i
    BY <1>1, <1>2, <2>1, <2>2
  <2>3. CASE ~(k < i)
    <3>1. k - (i - 1) \in 1..(Len(s) - i) /\ k - (i - 1) + i = k + 1
      BY <1>1, <2>3
    <3> QED
      BY <1>1, <1>3, <2>1, <2>3, <3>1
  <2> QED
    BY <2>2, <2>3
<1> QED
  BY <1>4, <1>5, <1>6, <1>7

(* The candidate of a file that is in the window.                          *)
LEMMA Placed ==
    ASSUME IInv, todo # <<>>
    PROVE  /\ Head(todo) \in File /\ Tail(todo) \in Seq(File) /\ Len(Tail(todo)) = Len(todo) - 1
           /\ \A k \in DOMAIN Tail(todo) : Tail(todo)[k] = todo[k + 1] /\ k + 1 \in DOMAIN todo
           /\ \A k \in DOMAIN Tail(todo) : Tail(todo)[k] # Head(todo)
           /\ Place(Head(todo)) \in DOMAIN candidates
           /\ candidates[Place(Head(todo))] \in Candidate
           /\ candidates[Place(Head(todo))].path = Head(todo)
           /\ \A i \in DOMAIN candidates : candidates[i].path = Head(todo) => i = Place(Head(todo))
           /\ Head(todo) \notin active
<1>0. /\ \A k \in DOMAIN todo : \E i \in DOMAIN candidates : candidates[i].path = todo[k]
      /\ \A k, l \in DOMAIN todo : todo[k] = todo[l] => k = l
      /\ candidates \in Seq(Candidate) /\ todo \in Seq(File)
      /\ \A i \in DOMAIN candidates : candidates[i].path \notin active
      /\ \A i, j \in DOMAIN candidates : candidates[i].path = candidates[j].path => i = j
  BY DEF IInv, TypeInv, WindowInv
<1>1. /\ Head(todo) = todo[1] /\ 1 \in DOMAIN todo /\ Head(todo) \in File
      /\ Tail(todo) \in Seq(File) /\ Len(Tail(todo)) = Len(todo) - 1
      /\ \A k \in DOMAIN Tail(todo) : Tail(todo)[k] = todo[k + 1] /\ k + 1 \in DOMAIN todo /\ k + 1 # 1
  BY <1>0
<1>2. \A k \in DOMAIN Tail(todo) : Tail(todo)[k] # Head(todo)
  BY <1>0, <1>1
<1>3. \E i \in DOMAIN candidates : candidates[i].path = Head(todo)
  BY <1>0, <1>1
<1>4. Place(Head(todo)) \in DOMAIN candidates /\ candidates[Place(Head(todo))].path = Head(todo)
  BY <1>3 DEF Place
<1> QED
  BY <1>0, <1>1, <1>2, <1>4

(* A candidate that is dealt with leaves the window.                       *)
LEMMA Leaving ==
    ASSUME IInv, todo # <<>>, Leaves(Head(todo)), todo' = Tail(todo),
           active' \subseteq active \cup {Head(todo)}
    PROVE  /\ candidates' \in Seq(Candidate) /\ todo' \in Seq(File) /\ WindowInv'
           /\ \A i \in DOMAIN candidates' : \E k \in DOMAIN candidates :
                candidates'[i] = candidates[k] /\ candidates[k].path # Head(todo)
<1> DEFINE f == Head(todo)  p == Place(f)
<1>1. /\ candidates \in Seq(Candidate) /\ p \in DOMAIN candidates /\ candidates[p].path = f
      /\ \A i \in DOMAIN candidates : candidates[i].path = f => i = p
  BY Placed DEF IInv, TypeInv
<1> HIDE DEF f, p
<1>2. candidates' = RemoveAt(candidates, p)
  BY DEF Leaves, Dropped, f, p
<1>3. /\ candidates' \in Seq(Candidate) /\ Len(candidates') = Len(candidates) - 1
      /\ \A i \in DOMAIN candidates' : candidates'[i] = IF i < p THEN candidates[i] ELSE candidates[i + 1]
  BY <1>1, <1>2, Removal
<1> DEFINE At(i) == IF i < p THEN i ELSE i + 1
<1>4. \A i \in DOMAIN candidates' :
        At(i) \in DOMAIN candidates /\ At(i) # p /\ candidates'[i] = candidates[At(i)]
  BY <1>1, <1>3
<1>5. \A i \in DOMAIN candidates' : \E k \in DOMAIN candidates :
        candidates'[i] = candidates[k] /\ candidates[k].path # f
  BY <1>1, <1>4
<1>6. \A i \in DOMAIN candidates' : candidates'[i].path \notin active'
  BY <1>5 DEF IInv, WindowInv, f
<1>7. \A i, j \in DOMAIN candidates' : candidates'[i].path = candidates'[j].path => i = j
  <2> SUFFICES ASSUME NEW i \in DOMAIN candidates', NEW j \in DOMAIN candidates',
                      candidates'[i].path = candidates'[j].path
               PROVE  i = j
    OBVIOUS
  <2>1. At(i) = At(j)
    BY <1>4 DEF IInv, WindowInv
  <2> QED
    BY <2>1, <1>1, <1>3
<1>8. \A k \in DOMAIN candidates : k # p => \E i \in DOMAIN candidates' : candidates'[i] = candidates[k]
  <2> SUFFICES ASSUME NEW k \in DOMAIN candidates, k # p
               PROVE  \E i \in DOMAIN candidates' : candidates'[i] = candidates[k]
    OBVIOUS
  <2>1. CASE k < p
    BY <2>1, <1>1, <1>3
  <2>2. CASE k > p
    <3>1. k - 1 \in DOMAIN candidates' /\ ~(k - 1 < p) /\ k - 1 + 1 = k
      BY <2>2, <1>1, <1>3
    <3> QED
      BY <3>1, <1>3
  <2> QED
    BY <2>1, <2>2, <1>1
<1>9. \A k \in DOMAIN todo' : todo'[k] # f /\ \E l \in DOMAIN todo : todo'[k] = todo[l]
  BY Placed DEF f
<1>10. \A k \in DOMAIN todo' : \E i \in DOMAIN candidates' : candidates'[i].path = todo'[k]
  <2> SUFFICES ASSUME NEW k \in DOMAIN todo'
               PROVE  \E i \in DOMAIN candidates' : candidates'[i].path = todo'[k]
    OBVIOUS
  <2>1. PICK l \in DOMAIN candidates : candidates[l].path = todo'[k]
    BY <1>9 DEF IInv, WindowInv
  <2>2. l # p
    BY <2>1, <1>1, <1>9
  <2> QED
    BY <2>1, <2>2, <1>8
<1>11. todo' \in Seq(File) /\ \A k, l \in DOMAIN todo' : todo'[k] = todo'[l] => k = l
  <2>1. /\ todo' \in Seq(File) /\ todo \in Seq(File) /\ Len(todo') = Len(todo) - 1
        /\ \A k \in DOMAIN todo' : todo'[k] = todo[k + 1] /\ k + 1 \in DOMAIN todo
    BY Placed DEF IInv, TypeInv
  <2> SUFFICES ASSUME NEW k \in DOMAIN todo', NEW l \in DOMAIN todo', todo'[k] = todo'[l]
               PROVE  k = l
    BY <2>1
  <2>2. k + 1 = l + 1
    BY <2>1 DEF IInv, WindowInv
  <2> QED
    BY <2>1, <2>2
<1> QED
  BY <1>3, <1>5, <1>6, <1>7, <1>10, <1>11 DEF WindowInv, f

(* A window with the same files, of which the pass has perhaps dealt with  *)
(* one, or all.                                                            *)
LEMMA SameFiles ==
    ASSUME IInv, candidates' \in Seq(Candidate), Len(candidates') = Len(candidates),
           \A i \in DOMAIN candidates : candidates'[i].path = candidates[i].path,
           active' = active,
           \/ todo' = todo
           \/ todo # <<>> /\ todo' = Tail(todo)
           \/ todo' = <<>>
    PROVE  WindowInv' /\ todo' \in Seq(File) /\ DOMAIN candidates' = DOMAIN candidates
<1>1. candidates \in Seq(Candidate) /\ todo \in Seq(File) /\ DOMAIN candidates' = DOMAIN candidates
  BY DEF IInv, TypeInv
<1>2. /\ todo' \in Seq(File)
      /\ \A k \in DOMAIN todo' : \E l \in DOMAIN todo : todo'[k] = todo[l]
      /\ \A k, l \in DOMAIN todo' : todo'[k] = todo'[l] => k = l
  <2>1. CASE todo' = todo
    BY <2>1, <1>1 DEF IInv, WindowInv
  <2>2. CASE todo # <<>> /\ todo' = Tail(todo)
    <3>1. /\ todo' \in Seq(File) /\ Len(todo') = Len(todo) - 1
          /\ \A k \in DOMAIN todo' : todo'[k] = todo[k + 1] /\ k + 1 \in DOMAIN todo
      BY <2>2, Placed
    <3>2. \A k, l \in DOMAIN todo' : todo'[k] = todo'[l] => k + 1 = l + 1
      BY <3>1 DEF IInv, WindowInv
    <3> QED
      BY <3>1, <3>2
  <2>3. CASE todo' = <<>>
    BY <2>3
  <2> QED
    BY <2>1, <2>2, <2>3
<1>3. \A i \in DOMAIN candidates' : candidates'[i].path \notin active'
  BY <1>1 DEF IInv, WindowInv
<1>4. \A i, j \in DOMAIN candidates' : candidates'[i].path = candidates'[j].path => i = j
  BY <1>1 DEF IInv, WindowInv
<1>5. \A k \in DOMAIN todo' : \E i \in DOMAIN candidates' : candidates'[i].path = todo'[k]
  <2> SUFFICES ASSUME NEW k \in DOMAIN todo'
               PROVE  \E i \in DOMAIN candidates' : candidates'[i].path = todo'[k]
    OBVIOUS
  <2>1. PICK i \in DOMAIN candidates : candidates[i].path = todo'[k]
    BY <1>2 DEF IInv, WindowInv
  <2> QED
    BY <2>1, <1>1
<1> QED
  BY <1>1, <1>2, <1>3, <1>4, <1>5 DEF WindowInv

(* One candidate becomes another one of its file.                          *)
LEMMA Replacing ==
    ASSUME IInv, NEW p \in DOMAIN candidates, NEW c \in Candidate, c.path = candidates[p].path,
           candidates' = [candidates EXCEPT ![p] = c], active' = active,
           \/ todo' = todo
           \/ todo # <<>> /\ todo' = Tail(todo)
    PROVE  /\ WindowInv' /\ todo' \in Seq(File) /\ candidates' \in Seq(Candidate)
           /\ DOMAIN candidates' = DOMAIN candidates
           /\ \A i \in DOMAIN candidates : candidates'[i] = IF i = p THEN c ELSE candidates[i]
<1>1. candidates \in Seq(Candidate)
  BY DEF IInv, TypeInv
<1>2. /\ candidates' \in Seq(Candidate) /\ Len(candidates') = Len(candidates)
      /\ \A i \in DOMAIN candidates : candidates'[i] = IF i = p THEN c ELSE candidates[i]
  BY <1>1, ExceptSeq
<1>3. \A i \in DOMAIN candidates : candidates'[i].path = candidates[i].path
  BY <1>2
<1> QED
  BY <1>1, <1>2, <1>3, SameFiles

(* The last stamp of a file, and the content it stands for.                *)
LEMMA Stamps ==
    ASSUME IInv, NEW f \in File
    PROVE  /\ Stamp(f) \in Nat /\ Stamp(f) >= 1 /\ Digest(f) \in Content /\ Digest(f) # None
           /\ \A n \in 1..Stamp(f) : bytes[f][n] \in Content
  BY WatchAssumption DEF IInv, TypeInv, Stamp, Digest

-----------------------------------------------------------------------------
LEMMA InitInv == Init => IInv
<1> SUFFICES ASSUME Init PROVE IInv
  OBVIOUS
<1>1. TypeInv
  <2>1. \A c \in Content : <<c>> \in Seq(Content) /\ <<c>> # <<>>
    OBVIOUS
  <2>2. bytes \in [File -> Seq(Content)] /\ \A f \in File : bytes[f] # <<>>
    BY <2>1 DEF Init
  <2> QED
    BY <2>2 DEF Init, TypeInv
<1>2. WindowInv /\ PassInv /\ StampInv /\ HashInv /\ TaskInv /\ SeenIsTrue
  BY DEF Init, WindowInv, PassInv, StampInv, HashInv, TaskInv, SeenIsTrue, Live
<1> QED
  BY <1>1, <1>2 DEF IInv

(* What the tasks do does not disturb the watch.                           *)
LEMMA TasksApart ==
    ASSUME IInv, UNCHANGED <<bytes, seen, candidates, active, unscanned, pc, todo>>,
           task' \in [File -> TaskType \cup {None}], TaskInv'
    PROVE  IInv'
<1>1. TypeInv' /\ WindowInv' /\ PassInv'
  BY DEF IInv, TypeInv, WindowInv, PassInv
<1>2. StampInv' /\ HashInv' /\ SeenIsTrue'
  BY DEF IInv, StampInv, HashInv, SeenIsTrue, Believed, Stamp, Digest
<1> QED
  BY <1>1, <1>2 DEF IInv

(* One task goes on: it is still one that the watch counts.                *)
LEMMA TaskGoesOn ==
    ASSUME IInv, NEW f \in File, NEW to, task[f] # None,
           task[f].state \in {"queued", "preparing", "running", "waiting-input", "doubt"},
           task' = [task EXCEPT ![f] = to], to \in TaskType,
           to.state # "doubt" => to.reaped,
           Live(f), UNCHANGED active
    PROVE  TaskInv' /\ task' \in [File -> TaskType \cup {None}]
<1>1. task' \in [File -> TaskType \cup {None}]
  BY DEF IInv, TypeInv
<1>2. \A g \in File : task'[g] = IF g = f THEN to ELSE task[g]
  BY DEF IInv, TypeInv
<1>3. f \in active
  BY DEF IInv, TaskInv
<1> QED
  BY <1>1, <1>2, <1>3 DEF IInv, TaskInv, Live

LEMMA TaskStepInv == ASSUME IInv, NEW f \in File, TaskStep(f) PROVE IInv'
<1>1. UNCHANGED <<bytes, seen, candidates, active, unscanned, pc, todo>>
  BY DEF TaskStep, files, own
<1>2. task[f] # None /\ task[f] \in TaskType
  BY DEF TaskStep, Prepare, Begin, InputChanged, Retry, EndsEarly, Finish,
         InDoubt, Reaped, Becoming, IInv, TypeInv
<1>3. Stamp(f) \in Nat /\ Digest(f) \in Content
  BY Stamps
<1>4. task[f].state # "doubt" => task[f].reaped
  <2>1. Live(f)
    BY <1>2 DEF TaskStep, Prepare, Begin, InputChanged, Retry, EndsEarly, Finish,
           InDoubt, Reaped, Becoming, Live, Ended
  <2> QED
    BY <2>1 DEF IInv, TaskInv
<1>5. PICK to : to \in TaskType /\ task' = [task EXCEPT ![f] = to] /\ (to.state # "doubt" => to.reaped)
                /\ Live(f) /\ task[f].state \in {"queued", "preparing", "running", "waiting-input", "doubt"}
  <2>1. CASE Prepare(f)
    BY <2>1, <1>2, <1>3, <1>4 DEF Prepare, Becoming, TaskType, Live, Ended
  <2>2. CASE Begin(f)
    BY <2>2, <1>2, <1>3, <1>4 DEF Begin, Becoming, TaskType, Live, Ended, Revision
  <2>3. CASE InputChanged(f)
    BY <2>3, <1>2, <1>4 DEF InputChanged, Becoming, TaskType, Live, Ended
  <2>4. CASE Retry(f)
    BY <2>4, <1>2, <1>4 DEF Retry, Becoming, TaskType, Live, Ended
  <2>5. CASE EndsEarly(f)
    BY <2>5, <1>2, <1>4 DEF EndsEarly, Becoming, TaskType, Live, Ended
  <2>6. CASE Finish(f)
    BY <2>6, <1>2, <1>4 DEF Finish, Results, Becoming, TaskType, Live, Ended
  <2>7. CASE Reaped(f)
    BY <2>7, <1>2, <1>4 DEF Reaped, Becoming, TaskType, Live, Ended
  <2>8. CASE InDoubt(f)
    BY <2>8, <1>2, <1>4 DEF InDoubt, Becoming, TaskType, Live, Ended
  <2> QED
    BY <2>1, <2>2, <2>3, <2>4, <2>5, <2>6, <2>7, <2>8 DEF TaskStep
<1>6. TaskInv' /\ task' \in [File -> TaskType \cup {None}]
  BY <1>1, <1>2, <1>5, TaskGoesOn
<1> QED
  BY <1>1, <1>6, TasksApart

(* People add a version of a file or take it away: what was said of older  *)
(* stamps stays true, and no candidate says anything of the new one.       *)
LEMMA ChangeInv == ASSUME IInv, NEW f \in File, Change(f) \/ BringBack(f) PROVE IInv'
<1>1. UNCHANGED <<seen, candidates, active, unscanned, pc, todo, task>>
  BY DEF Change, BringBack, own
<1> DEFINE Grows(g) == /\ bytes'[g] # <<>> /\ Len(bytes'[g]) >= Len(bytes[g])
                       /\ \A n \in 1..Len(bytes[g]) : bytes'[g][n] = bytes[g][n]
                       /\ Len(bytes'[g]) = Len(bytes[g]) => bytes'[g] = bytes[g]
<1>2. bytes' \in [File -> Seq(Content)] /\ \A g \in File : Grows(g)
  <2>1. CASE bytes' = bytes
    BY <2>1 DEF IInv, TypeInv
  <2>2. ASSUME NEW c \in Content, bytes' = [bytes EXCEPT ![f] = Append(@, c)]
        PROVE  bytes' \in [File -> Seq(Content)] /\ \A g \in File : Grows(g)
    <3>1. \A g \in File : bytes[g] \in Seq(Content) /\ bytes[g] # <<>> /\ Len(bytes[g]) \in Nat
      BY DEF IInv, TypeInv
    <3>2. /\ Append(bytes[f], c) \in Seq(Content) /\ Append(bytes[f], c) # <<>>
          /\ Len(Append(bytes[f], c)) = Len(bytes[f]) + 1
          /\ \A n \in 1..Len(bytes[f]) : Append(bytes[f], c)[n] = bytes[f][n]
      BY <3>1, AppendProperties
    <3>3. \A g \in File : bytes'[g] = IF g = f THEN Append(bytes[f], c) ELSE bytes[g]
      BY <2>2 DEF IInv, TypeInv
    <3>4. bytes' \in [File -> Seq(Content)]
      BY <2>2, <3>1, <3>2 DEF IInv, TypeInv
    <3> QED
      BY <3>1, <3>2, <3>3, <3>4
  <2> QED
    BY <2>1, <2>2 DEF Change, BringBack, Write
<1>3. TypeInv' /\ WindowInv' /\ PassInv' /\ TaskInv'
  BY <1>1, <1>2 DEF IInv, TypeInv, WindowInv, PassInv, TaskInv, Live
<1>4. StampInv'
  <2>1. \A g \in File : seen'[g] # None => seen'[g].stamp \in 0..Stamp(g)'
    BY <1>1, <1>2, Stamps DEF IInv, StampInv, Stamp
  <2>2. ASSUME NEW i \in DOMAIN candidates PROVE Believed(candidates[i])'
    <3> DEFINE c == candidates[i]  g == candidates[i].path
    <3>1. c \in Candidate /\ Believed(c) /\ candidates'[i] = c
      BY <1>1 DEF IInv, TypeInv, StampInv
    <3>2. g \in File /\ c.stamp \in 1..Len(bytes[g]) /\ Len(bytes[g]) \in Nat /\ Len(bytes'[g]) \in Nat
      BY <3>1, <1>2, Stamps DEF Candidate, Believed, Stamp
    <3>3. Grows(g)
      BY <1>2, <3>2
    <3>4. c.stamp \in 1..Len(bytes'[g])
      BY <3>2, <3>3
    <3>5. c.digest # None /\ c.stamp = Len(bytes'[g]) => c.digest = bytes'[g][Len(bytes'[g])]
      BY <3>1, <3>2, <3>3 DEF Believed, Stamp, Digest
    <3> QED
      BY <3>1, <3>4, <3>5 DEF Believed, Stamp, Digest
  <2> QED
    BY <1>1, <2>1, <2>2 DEF StampInv
<1>5. HashInv'
  <2> SUFFICES ASSUME NEW i \in DOMAIN candidates, candidates[i].path = Head(todo)
               PROVE  /\ pc = "confirm" => candidates[i].digest # None
                      /\ pc = "gate" => candidates[i].digest = bytes'[Head(todo)][candidates[i].stamp]
    BY <1>1 DEF HashInv
  <2>1. candidates[i] \in Candidate /\ Believed(candidates[i])
    BY DEF IInv, TypeInv, StampInv
  <2>2. Head(todo) \in File /\ candidates[i].stamp \in 1..Len(bytes[Head(todo)])
    BY <2>1 DEF Believed, Stamp, Candidate
  <2> QED
    BY <1>2, <2>2 DEF IInv, HashInv
<1>6. SeenIsTrue'
  <2> SUFFICES ASSUME NEW g \in File, seen[g] # None, seen[g].stamp # 0
               PROVE  seen[g].digest = bytes'[g][seen[g].stamp]
    BY <1>1 DEF SeenIsTrue
  <2>1. seen[g].stamp \in 1..Len(bytes[g])
    BY DEF IInv, StampInv, Stamp, TypeInv
  <2> QED
    BY <1>2, <2>1 DEF IInv, SeenIsTrue
<1> QED
  BY <1>3, <1>4, <1>5, <1>6 DEF IInv

-----------------------------------------------------------------------------
(* Steps of the watch: what they leave of the invariant's parts.           *)
LEMMA FilesKept ==
    ASSUME IInv, UNCHANGED <<bytes, seen>>
    PROVE  /\ \A f \in File : seen'[f] # None => seen'[f].stamp \in 0..Stamp(f)'
           /\ SeenIsTrue'
           /\ \A c : Believed(c) => Believed(c)'
  BY DEF IInv, StampInv, SeenIsTrue, Stamp, Believed, Digest

LEMMA ReapInv == ASSUME IInv, Reap PROVE IInv'
<1> DEFINE over == {f \in active : ~Live(f)}
<1>1. UNCHANGED <<bytes, task, candidates, todo>> /\ pc = "top" /\ pc' = "scan" /\ active' = active \ over
  BY DEF Reap, files
<1>2. \A f \in File : seen'[f] = IF f \in over /\ task[f].revision # None
                                 THEN Row(0, task[f].revision) ELSE seen[f]
  BY DEF Reap
<1>3. \A f \in over : task[f].revision # None => Row(0, task[f].revision) \in RowType
  <2> SUFFICES ASSUME NEW f \in over, task[f].revision # None
               PROVE  Row(0, task[f].revision) \in RowType
    OBVIOUS
  <2>1. task[f] \in TaskType
    BY DEF IInv, TaskInv, TypeInv
  <2>2. task[f].revision \in File \X Content
    BY <2>1 DEF TaskType
  <2> QED
    BY <2>2 DEF Row, RowType
<1>4. seen' \in [File -> RowType \cup {None}]
  BY <1>3 DEF Reap, IInv, TypeInv
<1>5. TypeInv'
  BY <1>1, <1>4 DEF Reap, IInv, TypeInv
<1>6. WindowInv' /\ PassInv' /\ HashInv'
  BY <1>1 DEF IInv, WindowInv, PassInv, HashInv
<1>7. StampInv' /\ SeenIsTrue'
  <2>1. \A f \in File : seen'[f] # None =>
          /\ seen'[f].stamp \in 0..Stamp(f)
          /\ seen'[f].stamp # 0 => seen'[f].digest = bytes[f][seen'[f].stamp]
    <3> SUFFICES ASSUME NEW f \in File, seen'[f] # None
                 PROVE  /\ seen'[f].stamp \in 0..Stamp(f)
                        /\ seen'[f].stamp # 0 => seen'[f].digest = bytes[f][seen'[f].stamp]
      OBVIOUS
    <3>1. CASE seen'[f] = seen[f]
      BY <3>1 DEF IInv, StampInv, SeenIsTrue
    <3>2. CASE seen'[f] = Row(0, task[f].revision)
      BY <3>2, Stamps DEF Row
    <3> QED
      BY <1>2, <3>1, <3>2
  <2> QED
    BY <1>1, <2>1 DEF IInv, StampInv, SeenIsTrue, Believed, Stamp, Digest
<1>8. TaskInv'
  BY <1>1 DEF IInv, TaskInv, Live
<1> QED
  BY <1>5, <1>6, <1>7, <1>8 DEF IInv

(* A step that changes nothing but the point of control.                   *)
LEMMA ControlInv ==
    ASSUME IInv, UNCHANGED <<bytes, task, seen, active>>, unscanned' \subseteq File,
           candidates' = candidates \/ candidates' = <<>>,
           pc' \in {"top", "ended"}, todo' = <<>>
    PROVE  IInv'
<1>1. candidates' \in Seq(Candidate) /\ \A i \in DOMAIN candidates' :
        i \in DOMAIN candidates /\ candidates'[i] = candidates[i]
  <2>1. CASE candidates' = candidates
    BY <2>1 DEF IInv, TypeInv
  <2>2. CASE candidates' = <<>>
    BY <2>2
  <2> QED
    BY <2>1, <2>2
<1>2. TypeInv' /\ PassInv'
  BY <1>1 DEF IInv, TypeInv, PassInv
<1>3. WindowInv'
  BY <1>1 DEF IInv, WindowInv
<1>4. StampInv' /\ SeenIsTrue'
  BY <1>1, FilesKept DEF IInv, StampInv
<1>5. HashInv' /\ TaskInv'
  BY DEF IInv, HashInv, TaskInv, Live
<1> QED
  BY <1>2, <1>3, <1>4, <1>5 DEF IInv

(* A candidate that leaves, with a row for it or not.                      *)
LEMMA DropInv ==
    ASSUME IInv, todo # <<>>, Leaves(Head(todo)), todo' = Tail(todo), pc' = "accept",
           UNCHANGED <<bytes, unscanned>>, active' \subseteq File, 
           active' \subseteq active \cup {Head(todo)}, TaskInv',
           task' \in [File -> TaskType \cup {None}], seen' \in [File -> RowType \cup {None}],
           \A f \in File : seen'[f] # None =>
             /\ seen'[f].stamp \in 0..Stamp(f)
             /\ seen'[f].stamp # 0 => seen'[f].digest = bytes[f][seen'[f].stamp]
    PROVE  IInv'
<1>1. TypeInv' /\ PassInv' /\ WindowInv'
  BY Leaving DEF IInv, TypeInv, PassInv
<1>2. StampInv' /\ SeenIsTrue'
  <2>1. \A i \in DOMAIN candidates' : Believed(candidates'[i])
    BY Leaving DEF IInv, StampInv
  <2>2. \A c : Believed(c) => Believed(c)'
    BY DEF Believed, Stamp, Digest
  <2> QED
    BY <2>1, <2>2 DEF StampInv, SeenIsTrue, Stamp
<1>3. HashInv'
  BY DEF HashInv
<1> QED
  BY <1>1, <1>2, <1>3 DEF IInv

(* A candidate that stays as it is, or becomes c, while the pass goes on   *)
(* with it or with the next one.                                           *)
LEMMA StayInv ==
    ASSUME IInv, UNCHANGED <<bytes, task, seen, active, unscanned>>,
           candidates' \in Seq(Candidate), Len(candidates') = Len(candidates),
           \A i \in DOMAIN candidates :
             candidates'[i].path = candidates[i].path /\ Believed(candidates'[i]),
           todo' = todo \/ (todo # <<>> /\ todo' = Tail(todo)),
           pc' \in {"top", "scan", "accept", "hash", "confirm", "gate", "ended"},
           PassInv', HashInv'
    PROVE  IInv'
<1>1. WindowInv' /\ todo' \in Seq(File) /\ DOMAIN candidates' = DOMAIN candidates
  BY SameFiles
<1>2. TypeInv'
  BY <1>1 DEF IInv, TypeInv
<1>3. StampInv' /\ SeenIsTrue'
  BY <1>1, FilesKept DEF StampInv
<1>4. TaskInv'
  BY DEF IInv, TaskInv, Live
<1> QED
  BY <1>1, <1>2, <1>3, <1>4 DEF IInv

LEMMA MovedOn ==
    ASSUME NEW c \in Candidate, NEW n \in Nat, n \in 1..Stamp(c.path)
    PROVE  /\ Moved(c, n) \in Candidate /\ Moved(c, n).path = c.path
           /\ Believed(Moved(c, n))
<1>1. /\ Moved(c, n) \in Candidate /\ Moved(c, n).path = c.path
      /\ Moved(c, n).stamp = n /\ Moved(c, n).digest = None
  BY DEF Moved, Candidate
<1> QED
  BY <1>1 DEF Believed

(* One candidate of the pass becomes c.                                    *)
LEMMA BecomingInv ==
    ASSUME IInv, todo # <<>>, UNCHANGED <<bytes, task, seen, active, unscanned>>,
           NEW c \in Candidate, c.path = Head(todo), Believed(c), Becomes(Head(todo), c),
           \/ todo' = todo /\ pc' = "hash"
           \/ todo' = todo /\ pc' = "confirm" /\ c.digest # None
           \/ todo' = Tail(todo) /\ pc' = "accept"
    PROVE  IInv'
<1> DEFINE p == Place(Head(todo))
<1>1. p \in DOMAIN candidates /\ candidates[p].path = Head(todo)
  BY Placed
<1>2. candidates' = [candidates EXCEPT ![p] = c]
  BY DEF Becomes
<1> HIDE DEF p
<1>3. /\ candidates' \in Seq(Candidate) /\ DOMAIN candidates' = DOMAIN candidates
      /\ \A i \in DOMAIN candidates : candidates'[i] = IF i = p THEN c ELSE candidates[i]
  BY <1>1, <1>2, Replacing
<1>4. Len(candidates') = Len(candidates)
  BY <1>3 DEF IInv, TypeInv
<1>5. \A i \in DOMAIN candidates : candidates'[i].path = candidates[i].path /\ Believed(candidates'[i])
  BY <1>1, <1>3 DEF IInv, StampInv
<1>6. PassInv'
  BY DEF PassInv
<1>7. HashInv'
  <2>1. \A i \in DOMAIN candidates : candidates[i].path = Head(todo) => i = p
    BY Placed DEF p
  <2> QED
    BY <1>1, <1>3, <2>1 DEF HashInv
<1> QED
  BY <1>3, <1>4, <1>5, <1>6, <1>7, StayInv

LEMMA ExamineInv == ASSUME IInv, Examine PROVE IInv'
<1> DEFINE f == Head(todo)  c == candidates[Place(f)]
<1>1. todo # <<>> /\ pc = "accept" /\ UNCHANGED <<files, task, stop, seen, active, halted, unscanned, delays>>
  BY DEF Examine
<1>2. /\ f \in File /\ c \in Candidate /\ c.path = f /\ Believed(c)
      /\ Place(f) \in DOMAIN candidates
  BY <1>1, Placed DEF IInv, StampInv
<1>3. Stamp(f) \in Nat /\ Stamp(f) >= 1
  BY <1>2, Stamps
<1>4. CASE f \notin there /\ Leaves(f) /\ NextOne
  BY <1>1, <1>4, DropInv DEF NextOne, files, IInv, TypeInv, TaskInv, Live, StampInv, SeenIsTrue
<1>5. CASE Becomes(f, Moved(c, Stamp(f))) /\ NextOne
  <2>1. Moved(c, Stamp(f)) \in Candidate /\ Moved(c, Stamp(f)).path = f /\ Believed(Moved(c, Stamp(f)))
    BY <1>2, <1>3, MovedOn
  <2> QED
    BY <1>1, <1>5, <2>1, BecomingInv DEF NextOne, files
<1>6. CASE UNCHANGED candidates /\ NextOne
  <2>1. PassInv' /\ HashInv'
    BY <1>6 DEF NextOne, PassInv, HashInv
  <2> QED
    BY <1>1, <1>6, <2>1, StayInv DEF NextOne, files, IInv, TypeInv, StampInv
<1>7. CASE /\ Becomes(f, [c EXCEPT !.tried = TRUE]) /\ UNCHANGED todo
           /\ pc' \in IF c.digest = None THEN {"hash"} ELSE {"hash", "confirm"}
  <2> DEFINE d == [c EXCEPT !.tried = TRUE]
  <2>1. d \in Candidate /\ d.path = f /\ Believed(d) /\ d.digest = c.digest
    BY <1>2 DEF Candidate, Believed
  <2> QED
    BY <1>1, <1>7, <2>1, BecomingInv DEF files
<1> QED
  BY <1>4, <1>5, <1>6, <1>7 DEF Examine

LEMMA HashingInv == ASSUME IInv, Hash PROVE IInv'
<1> DEFINE f == Head(todo)  c == candidates[Place(f)]
<1>1. todo # <<>> /\ pc = "hash" /\ UNCHANGED <<files, task, stop, seen, active, halted, unscanned, delays>>
  BY DEF Hash, IInv, PassInv
<1>2. /\ f \in File /\ c \in Candidate /\ c.path = f /\ Believed(c)
      /\ Place(f) \in DOMAIN candidates
  BY <1>1, Placed DEF IInv, StampInv
<1>3. Digest(f) \in Content /\ Digest(f) # None
  BY <1>2, Stamps
<1>4. CASE Leaves(f) /\ NextOne
  BY <1>1, <1>4, DropInv DEF NextOne, files, IInv, TypeInv, TaskInv, Live, StampInv, SeenIsTrue
<1>5. CASE Becomes(f, [c EXCEPT !.quiet = FALSE]) /\ NextOne
  <2> DEFINE d == [c EXCEPT !.quiet = FALSE]
  <2>1. d \in Candidate /\ d.path = f /\ Believed(d)
    BY <1>2 DEF Candidate, Believed
  <2> QED
    BY <1>1, <1>5, <2>1, BecomingInv DEF NextOne, files
<1>6. CASE Becomes(f, [c EXCEPT !.digest = Digest(f)]) /\ pc' = "confirm" /\ UNCHANGED todo
  <2> DEFINE d == [c EXCEPT !.digest = Digest(f)]
  <2>1. d \in Candidate /\ d.path = f /\ Believed(d) /\ d.digest # None
    BY <1>2, <1>3 DEF Candidate, Believed
  <2> QED
    BY <1>1, <1>6, <2>1, BecomingInv DEF files
<1> QED
  BY <1>4, <1>5, <1>6 DEF Hash

LEMMA ConfirmInv == ASSUME IInv, Confirm PROVE IInv'
<1> DEFINE f == Head(todo)  c == candidates[Place(f)]
<1>1. /\ todo # <<>> /\ pc = "confirm"
      /\ UNCHANGED <<files, task, stop, active, halted, unscanned, delays>>
  BY DEF Confirm, IInv, PassInv
<1>2. /\ f \in File /\ c \in Candidate /\ c.path = f /\ Believed(c)
      /\ Place(f) \in DOMAIN candidates /\ c.digest # None
  BY <1>1, Placed DEF IInv, StampInv, HashInv
<1>3. CASE Leaves(f) /\ NextOne /\ UNCHANGED seen
  BY <1>1, <1>3, DropInv DEF NextOne, files, IInv, TypeInv, TaskInv, Live, StampInv, SeenIsTrue
<1>4. CASE Becomes(f, Moved(c, c.stamp)) /\ NextOne /\ UNCHANGED seen
  <2>1. c.stamp \in Nat /\ c.stamp \in 1..Stamp(c.path)
    BY <1>2 DEF Believed, Candidate
  <2>2. Moved(c, c.stamp) \in Candidate /\ Moved(c, c.stamp).path = f /\ Believed(Moved(c, c.stamp))
    BY <1>2, <2>1, MovedOn
  <2> QED
    BY <1>1, <1>4, <2>2, BecomingInv DEF NextOne, files
<1>5. CASE /\ Stamp(f) = c.stamp
           /\ seen' = [seen EXCEPT ![f] = Row(c.stamp, c.digest)] /\ Leaves(f) /\ NextOne
  <2>1. Row(c.stamp, c.digest) \in RowType
    BY <1>2 DEF Candidate, Row, RowType
  <2>2. c.stamp \in 0..Stamp(f) /\ c.digest = bytes[f][c.stamp]
    BY <1>2, <1>5, Stamps DEF Believed, Digest
  <2>3. seen' \in [File -> RowType \cup {None}]
    BY <1>5, <2>1 DEF IInv, TypeInv
  <2>4. \A g \in File : seen'[g] = IF g = f THEN Row(c.stamp, c.digest) ELSE seen[g]
    BY <1>5 DEF IInv, TypeInv
  <2>5. \A g \in File : seen'[g] # None =>
          /\ seen'[g].stamp \in 0..Stamp(g)
          /\ seen'[g].stamp # 0 => seen'[g].digest = bytes[g][seen'[g].stamp]
    BY <2>2, <2>4 DEF Row, IInv, StampInv, SeenIsTrue
  <2>6. TaskInv' /\ task' \in [File -> TaskType \cup {None}] /\ active' = active /\ active \subseteq File
    BY <1>1 DEF IInv, TypeInv, TaskInv, Live
  <2> QED
    BY <1>1, <1>5, <2>3, <2>5, <2>6, DropInv DEF NextOne, files
<1>6. CASE /\ f \in there /\ Stamp(f) = c.stamp
           /\ pc' = "gate" /\ UNCHANGED <<seen, candidates, todo>>
  <2>1. c.digest = bytes[f][c.stamp]
    BY <1>2, <1>6 DEF Believed, Digest
  <2>2. PassInv'
    BY <1>1, <1>6 DEF PassInv
  <2>3. HashInv'
    BY <1>1, <1>6, <2>1, Placed DEF HashInv, files
  <2> QED
    BY <1>1, <1>6, <2>2, <2>3, StayInv DEF files, IInv, TypeInv, StampInv
<1> QED
  BY <1>3, <1>4, <1>5, <1>6 DEF Confirm

(* The gate gives the place of a task it takes back, if any, to the file.  *)
LEMMA SubmitInv ==
    ASSUME IInv, todo # <<>>, pc = "gate", NEW others \in SUBSET active,
           \A g \in active \ others : Released(g),
           Submit(Head(todo), others), todo' = Tail(todo), pc' = "accept",
           UNCHANGED <<bytes, unscanned>>
    PROVE  IInv'
<1> DEFINE f == Head(todo)  c == candidates[Place(f)]
<1>1. /\ f \in File /\ f \notin active /\ c \in Candidate /\ c.path = f /\ Believed(c)
      /\ c.digest = bytes[f][c.stamp]
  BY Placed DEF IInv, StampInv, HashInv
<1>2. /\ active' = others \cup {f} /\ Leaves(f)
      /\ \A g \in File : seen'[g] = CASE g = f -> Row(c.stamp, c.digest)
                                      [] g \in active \ others -> None
                                      [] OTHER -> seen[g]
      /\ \A g \in File : task'[g] = CASE g = f -> NewTask(c.digest)
                                      [] g \in active \ others -> TakenBack(g)
                                      [] OTHER -> task[g]
      /\ DOMAIN seen' = File /\ DOMAIN task' = File
      /\ seen' = [g \in File |-> seen'[g]] /\ task' = [g \in File |-> task'[g]]
  BY DEF Submit
<1>3. c.stamp \in 1..Stamp(f) /\ Stamp(f) \in Nat /\ c.digest \in Content
  BY <1>1, Stamps DEF Believed
<1>4. Row(c.stamp, c.digest) \in RowType
  BY <1>3 DEF Row, RowType
<1>5. seen' \in [File -> RowType \cup {None}]
  <2>1. \A g \in File : seen'[g] \in RowType \cup {None}
    BY <1>2, <1>4 DEF IInv, TypeInv
  <2> QED
    BY <1>2, <2>1
<1>6. \A g \in File : seen'[g] # None =>
        /\ seen'[g].stamp \in 0..Stamp(g)
        /\ seen'[g].stamp # 0 => seen'[g].digest = bytes[g][seen'[g].stamp]
  <2> SUFFICES ASSUME NEW g \in File, seen'[g] # None
               PROVE  /\ seen'[g].stamp \in 0..Stamp(g)
                      /\ seen'[g].stamp # 0 => seen'[g].digest = bytes[g][seen'[g].stamp]
    OBVIOUS
  <2>1. CASE g = f
    BY <1>1, <1>2, <1>3, <2>1 DEF Row
  <2>2. CASE g # f
    BY <1>2, <2>2 DEF IInv, StampInv, SeenIsTrue
  <2> QED
    BY <2>1, <2>2
<1>7. NewTask(c.digest) \in TaskType /\ NewTask(c.digest).reaped
  BY <1>3 DEF NewTask, TaskType
<1>8. \A g \in active \ others :
        TakenBack(g) \in TaskType /\ TakenBack(g).state = "ended" /\ TakenBack(g).reaped
  <2> SUFFICES ASSUME NEW g \in active \ others
               PROVE  TakenBack(g) \in TaskType /\ TakenBack(g).state = "ended" /\ TakenBack(g).reaped
    OBVIOUS
  <2>1. task[g] \in TaskType /\ task[g].state = "waiting-input" /\ g \in File
    BY DEF Released, IInv, TypeInv, TaskInv
  <2>2. task[g].reaped
    BY <2>1 DEF IInv, TaskInv
  <2>3. TakenBack(g) \in TaskType /\ TakenBack(g).state = "ended" /\ TakenBack(g).reaped = task[g].reaped
    BY <2>1 DEF TakenBack, TaskType
  <2> QED
    BY <2>2, <2>3
<1>9. task' \in [File -> TaskType \cup {None}]
  <2>1. \A g \in File : task'[g] \in TaskType \cup {None}
    BY <1>2, <1>7, <1>8 DEF IInv, TypeInv
  <2> QED
    BY <1>2, <2>1
<1>10. TaskInv'
  <2> SUFFICES ASSUME NEW g \in File
               PROVE  /\ Live(g)' => g \in active'
                      /\ g \in active' => task'[g] \in TaskType
                      /\ g \in active' /\ task'[g].state # "doubt" => task'[g].reaped
    BY DEF TaskInv
  <2>1. CASE g = f
    BY <1>1, <1>2, <1>7, <2>1 DEF Live
  <2>2. CASE g # f /\ g \in active \ others
    BY <1>2, <1>8, <2>2 DEF Live, Ended
  <2>3. CASE g # f /\ g \notin active \ others
    BY <1>2, <2>3 DEF Live, IInv, TaskInv
  <2> QED
    BY <2>1, <2>2, <2>3
<1> QED
  BY <1>1, <1>2, <1>5, <1>6, <1>9, <1>10, DropInv DEF IInv, TypeInv

LEMMA GateInv == ASSUME IInv, Gate PROVE IInv'
<1>1. /\ todo # <<>> /\ pc = "gate" /\ NextOne
      /\ UNCHANGED <<files, stop, halted, unscanned, delays>>
  BY DEF Gate, IInv, PassInv
<1>2. CASE Submit(Head(todo), active)
  BY <1>1, <1>2, SubmitInv DEF NextOne, files
<1>3. ASSUME NEW g \in active, Released(g), Submit(Head(todo), active \ {g}) PROVE IInv'
  BY <1>1, <1>3, SubmitInv DEF NextOne, files
<1>4. CASE UNCHANGED <<task, seen, candidates, active>>
  <2>1. PassInv' /\ HashInv'
    BY <1>1 DEF NextOne, PassInv, HashInv
  <2> QED
    BY <1>1, <1>4, <2>1, StayInv DEF NextOne, files, IInv, TypeInv, StampInv
<1> QED
  BY <1>2, <1>3, <1>4 DEF Gate

LEMMA DiscoverInv == ASSUME IInv, Discover PROVE IInv'
<1>1. /\ pc = "scan" /\ todo = <<>> /\ UNCHANGED <<files, task, stop, seen, active, halted, delays>>
      /\ pc' \in {"scan", "accept"} /\ unscanned' \subseteq unscanned
  BY DEF Discover, IInv, PassInv
<1>2. PICK f \in unscanned :
        /\ candidates' = Discovered(f)
        /\ todo' = IF pc' = "accept" THEN [i \in DOMAIN candidates' |-> candidates'[i].path] ELSE <<>>
  BY DEF Discover
<1>3. f \in File /\ Stamp(f) \in Nat /\ Stamp(f) \in 1..Stamp(f)
  BY Stamps DEF IInv, TypeInv
<1>4. /\ candidates \in Seq(Candidate)
      /\ \A i \in DOMAIN candidates : candidates[i] \in Candidate /\ Believed(candidates[i])
                                      /\ candidates[i].path \notin active
      /\ \A i, j \in DOMAIN candidates : candidates[i].path = candidates[j].path => i = j
  BY DEF IInv, TypeInv, WindowInv, StampInv
<1>5. NewCandidate(f) \in Candidate /\ NewCandidate(f).path = f /\ Believed(NewCandidate(f))
  BY <1>3 DEF NewCandidate, Candidate, Believed
<1> DEFINE Good(s) ==
      /\ s \in Seq(Candidate)
      /\ \A i \in DOMAIN s : s[i] \in Candidate /\ Believed(s[i]) /\ s[i].path \notin active
      /\ \A i, j \in DOMAIN s : s[i].path = s[j].path => i = j
<1>6. ASSUME NEW s \in Seq(Candidate), Good(s), f \notin active, \A i \in DOMAIN s : s[i].path # f
      PROVE  Good(Append(s, NewCandidate(f)))
  <2>1. /\ Append(s, NewCandidate(f)) \in Seq(Candidate)
        /\ DOMAIN Append(s, NewCandidate(f)) = 1..(Len(s) + 1) /\ DOMAIN s = 1..Len(s)
        /\ \A i \in 1..Len(s) : Append(s, NewCandidate(f))[i] = s[i]
        /\ Append(s, NewCandidate(f))[Len(s) + 1] = NewCandidate(f)
    BY <1>5, AppendProperties
  <2> QED
    BY <1>5, <1>6, <2>1
<1>7. Good(candidates')
  <2>1. CASE candidates' = candidates
    BY <1>4, <2>1
  <2>2. ASSUME f \in Paths, candidates' = [candidates EXCEPT ![Place(f)] = Moved(@, Stamp(f))]
        PROVE  Good(candidates')
    <3> DEFINE p == Place(f)
    <3>1. p \in DOMAIN candidates /\ candidates[p].path = f
      BY <2>2 DEF Paths, Place
    <3> HIDE DEF p
    <3>2. Moved(candidates[p], Stamp(f)) \in Candidate /\ Moved(candidates[p], Stamp(f)).path = f
          /\ Believed(Moved(candidates[p], Stamp(f)))
      BY <1>3, <1>4, <3>1, MovedOn
    <3>3. /\ candidates' \in Seq(Candidate) /\ DOMAIN candidates' = DOMAIN candidates
          /\ \A i \in DOMAIN candidates :
               candidates'[i] = IF i = p THEN Moved(candidates[p], Stamp(f)) ELSE candidates[i]
      BY <1>4, <2>2, <3>1, <3>2, ExceptSeq DEF p
    <3>4. \A i \in DOMAIN candidates' : /\ candidates'[i] \in Candidate /\ Believed(candidates'[i])
                                        /\ candidates'[i].path = candidates[i].path
      BY <1>4, <3>1, <3>2, <3>3
    <3> QED
      BY <1>4, <3>3, <3>4
  <2>3. ASSUME f \notin active, f \notin Paths, candidates' = Entered(f)
        PROVE  Good(candidates')
    <3>1. \A i \in DOMAIN candidates : candidates[i].path # f
      BY <2>3 DEF Paths
    <3>2. CASE candidates' = candidates
      BY <1>4, <3>2
    <3>3. CASE candidates' = Append(candidates, NewCandidate(f))
      BY <1>4, <1>6, <2>3, <3>1, <3>3
    <3>4. CASE Len(candidates) >= Capacity /\ candidates' = Append(Tail(candidates), NewCandidate(f))
      <4>1. Len(candidates) >= 1
        BY <1>4, <3>4, WatchAssumption
      <4>2. /\ Tail(candidates) \in Seq(Candidate) /\ Len(Tail(candidates)) = Len(candidates) - 1
            /\ \A i \in DOMAIN Tail(candidates) :
                 Tail(candidates)[i] = candidates[i + 1] /\ i + 1 \in DOMAIN candidates
        BY <1>4, <4>1
      <4>3. \A i, j \in DOMAIN Tail(candidates) :
              Tail(candidates)[i].path = Tail(candidates)[j].path => i + 1 = j + 1
        BY <1>4, <4>2
      <4>4. Good(Tail(candidates)) /\ \A i \in DOMAIN Tail(candidates) : Tail(candidates)[i].path # f
        BY <1>4, <3>1, <4>2, <4>3
      <4> QED
        BY <1>6, <2>3, <3>4, <4>2, <4>4
    <3>5. Len(candidates) < Capacity \/ Len(candidates) >= Capacity
      BY <1>4, WatchAssumption
    <3> QED
      BY <2>3, <3>2, <3>3, <3>4, <3>5 DEF Entered
  <2> QED
    BY <1>2, <2>1, <2>2, <2>3 DEF Discovered
<1> HIDE DEF Good
<1>8. TypeInv' /\ WindowInv' /\ PassInv'
  <2>1. CASE pc' = "accept"
    <3>1. /\ todo' = [i \in DOMAIN candidates' |-> candidates'[i].path]
          /\ DOMAIN candidates' = 1..Len(candidates') /\ Len(candidates') \in Nat
          /\ \A i \in DOMAIN candidates' : candidates'[i].path \in File
      BY <1>2, <1>7, <2>1 DEF Good, Candidate
    <3>2. todo' \in Seq(File) /\ DOMAIN todo' = DOMAIN candidates'
          /\ \A i \in DOMAIN todo' : todo'[i] = candidates'[i].path
      BY <3>1, IsASeq
    <3> QED
      BY <1>1, <1>7, <2>1, <3>2 DEF Good, IInv, TypeInv, WindowInv, PassInv, files
  <2>2. CASE pc' # "accept"
    BY <1>1, <1>2, <1>7, <2>2 DEF Good, IInv, TypeInv, WindowInv, PassInv, files
  <2> QED
    BY <2>1, <2>2
<1>9. StampInv' /\ SeenIsTrue'
  <2>1. UNCHANGED <<bytes, seen>>
    BY <1>1 DEF files
  <2> QED
    BY <1>7, <2>1, FilesKept DEF Good, StampInv
<1>10. HashInv' /\ TaskInv'
  BY <1>1 DEF HashInv, IInv, TaskInv, Live
<1> QED
  BY <1>8, <1>9, <1>10 DEF IInv

(* Time passes for a candidate.                                            *)
LEMMA TimeInv ==
    ASSUME IInv, NEW i \in 1..Capacity, Settle(i) \/ Age(i) PROVE IInv'
<1>1. /\ i \in DOMAIN candidates
      /\ \/ candidates' = [candidates EXCEPT ![i].quiet = TRUE]
         \/ candidates' = [candidates EXCEPT ![i].aged = TRUE]
      /\ UNCHANGED <<files, task, seen, active, pc, unscanned, todo>>
  BY DEF Settle, Age
<1> DEFINE c == candidates[i]
<1>2. c \in Candidate /\ Believed(c)
  BY <1>1 DEF IInv, TypeInv, StampInv
<1> DEFINE Like(d) == d \in Candidate /\ d.path = c.path /\ d.stamp = c.stamp /\ d.digest = c.digest
<1>3. \E d : Like(d) /\ candidates' = [candidates EXCEPT ![i] = d]
  <2>1. Like([c EXCEPT !.quiet = TRUE]) /\ Like([c EXCEPT !.aged = TRUE])
    BY <1>2 DEF Candidate
  <2> QED
    BY <1>1, <2>1
<1>4. PICK d : Like(d) /\ candidates' = [candidates EXCEPT ![i] = d]
  BY <1>3
<1>5. Believed(d)
  BY <1>2, <1>4 DEF Believed
<1>6. /\ candidates' \in Seq(Candidate) /\ DOMAIN candidates' = DOMAIN candidates
      /\ \A k \in DOMAIN candidates : candidates'[k] = IF k = i THEN d ELSE candidates[k]
  BY <1>1, <1>4, Replacing
<1>7. Len(candidates') = Len(candidates)
  BY <1>6 DEF IInv, TypeInv
<1>8. \A k \in DOMAIN candidates : candidates'[k].path = candidates[k].path /\ Believed(candidates'[k])
  BY <1>1, <1>4, <1>5, <1>6 DEF IInv, StampInv
<1>9. PassInv' /\ HashInv'
  <2>1. PassInv'
    BY <1>1 DEF IInv, PassInv
  <2>2. HashInv'
    BY <1>1, <1>4, <1>6 DEF IInv, HashInv, files
  <2> QED
    BY <2>1, <2>2
<1> QED
  BY <1>1, <1>6, <1>7, <1>8, <1>9, StayInv DEF files, IInv, TypeInv

LEMMA ExpireInv == ASSUME IInv, NEW f \in File, Expire(f) PROVE IInv'
<1>1. /\ seen[f] # None /\ seen' = [seen EXCEPT ![f].old = TRUE]
      /\ UNCHANGED <<bytes, task, candidates, active, pc, unscanned, todo>>
  BY DEF Expire, files
<1>2. seen[f] \in RowType
  BY <1>1 DEF IInv, TypeInv
<1>3. /\ [seen[f] EXCEPT !.old = TRUE] \in RowType
      /\ [seen[f] EXCEPT !.old = TRUE].stamp = seen[f].stamp
      /\ [seen[f] EXCEPT !.old = TRUE].digest = seen[f].digest
  BY <1>2 DEF RowType
<1>4. /\ seen' \in [File -> RowType \cup {None}]
      /\ \A g \in File : seen'[g] = IF g = f THEN [seen[f] EXCEPT !.old = TRUE] ELSE seen[g]
  BY <1>1, <1>3 DEF IInv, TypeInv
<1>5. TypeInv' /\ WindowInv' /\ PassInv' /\ HashInv' /\ TaskInv'
  BY <1>1, <1>4 DEF IInv, TypeInv, WindowInv, PassInv, HashInv, TaskInv, Live
<1>6. \A g \in File : seen'[g] # None =>
        seen[g] # None /\ seen'[g].stamp = seen[g].stamp /\ seen'[g].digest = seen[g].digest
  BY <1>1, <1>3, <1>4
<1>7. StampInv' /\ SeenIsTrue'
  BY <1>1, <1>6 DEF IInv, StampInv, SeenIsTrue, Believed, Stamp, Digest
<1> QED
  BY <1>5, <1>7 DEF IInv

-----------------------------------------------------------------------------
LEMMA NextInv == IInv /\ [Next]_vars => IInv'
<1> SUFFICES ASSUME IInv, [Next]_vars PROVE IInv'
  OBVIOUS
<1>1. CASE UNCHANGED vars
  BY <1>1, TasksApart DEF vars, files, own, IInv, TypeInv, TaskInv, Live
<1>2. CASE Reap
  BY <1>2, ReapInv
<1>3. CASE Discover
  BY <1>3, DiscoverInv
<1>4. CASE Examine
  BY <1>4, ExamineInv
<1>5. CASE Hash
  BY <1>5, HashingInv
<1>6. CASE Confirm
  BY <1>6, ConfirmInv
<1>7. CASE Gate
  BY <1>7, GateInv
<1>8. CASE PassEnds \/ Busy
  <2>1. /\ UNCHANGED <<bytes, task, seen, active, unscanned, candidates>>
        /\ pc' = "top" /\ todo' = <<>>
    BY <1>8 DEF PassEnds, Busy, files
  <2> QED
    BY <2>1, ControlInv DEF IInv, TypeInv
<1>9. CASE End \/ Fail
  BY <1>9, ControlInv DEF End, Fail, Finished, files
<1>10. CASE Stop
  BY <1>10, TasksApart DEF Stop, files, own, IInv, TypeInv, TaskInv, Live
<1>11. ASSUME NEW i \in 1..Capacity, Settle(i) \/ Age(i) PROVE IInv'
  BY <1>11, TimeInv
<1>12. ASSUME NEW f \in File, Change(f) \/ BringBack(f) PROVE IInv'
  BY <1>12, ChangeInv
<1>13. ASSUME NEW f \in File, Expire(f) PROVE IInv'
  BY <1>13, ExpireInv
<1>14. ASSUME NEW f \in File, TaskStep(f) PROVE IInv'
  BY <1>14, TaskStepInv
<1> QED
  BY <1>1, <1>2, <1>3, <1>4, <1>5, <1>6, <1>7, <1>8, <1>9, <1>10, <1>11, <1>12, <1>13, <1>14
  DEF Next, Thread

(* The inductive invariant of the native watch holds in every state.       *)
THEOREM Invariance == Spec => []IInv
<1>1. Init => IInv
  BY InitInv
<1>2. IInv /\ [Next]_vars => IInv'
  BY NextInv
<1> QED
  BY <1>1, <1>2, PTL DEF Spec

(* The version index never says of a stamp what the file was not           *)
(* (NativeWatch._accept looks at the stamp twice).                         *)
THEOREM IndexTrue == Spec => []SeenIsTrue
<1>1. IInv => SeenIsTrue
  BY DEF IInv
<1> QED
  BY <1>1, Invariance, PTL

(* A submission happens at the gate, of a file of the window.              *)
LEMMA AtTheGate ==
    ASSUME IInv, [Next]_vars, NEW f \in File, Submitted(f)
    PROVE  ~stop /\ f \notin active
<1>1. pc = "gate" /\ pc' # "gate" /\ f = Head(todo) /\ f \in active'
  BY DEF Submitted
<1>2. todo # <<>>
  BY <1>1 DEF IInv, PassInv
<1>3. f \notin active
  BY <1>1, <1>2, Placed
<1>4. Gate \/ active' = active \/ pc' = pc
  BY <1>1 DEF Next, Thread, Reap, Discover, Examine, Hash, Confirm, PassEnds, End, Fail, Finished,
              Busy, Stop, Settle, Age, Change, BringBack, Expire, TaskStep, vars, own
<1>5. Gate /\ active' # active
  BY <1>1, <1>3, <1>4
<1> QED
  BY <1>3, <1>5 DEF Gate

(* Nothing is submitted after stop() returned (its gate).                  *)
THEOREM NothingAfterStopAlways == Spec => NothingAfterStop
<1>1. IInv /\ [Next]_vars => [\A f \in File : Submitted(f) => ~stop]_vars
  BY AtTheGate
<1> QED
  BY <1>1, Invariance, PTL DEF Spec, NothingAfterStop

(* A file is not submitted while a task of it goes on, also when the gate  *)
(* takes another one back to make room (release_input_wait).               *)
THEOREM OneAtATimeAlways == Spec => OneAtATime
<1>1. IInv /\ [Next]_vars => [\A f \in File : Submitted(f) => ~Live(f)]_vars
  BY AtTheGate DEF IInv, TaskInv
<1> QED
  BY <1>1, Invariance, PTL DEF Spec, OneAtATime
=============================================================================
