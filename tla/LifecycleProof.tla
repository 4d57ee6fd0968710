--------------------------- MODULE LifecycleProof ---------------------------
(***************************************************************************)
(* Safety of the directory lifecycle, for any number of processes,         *)
(* directories and generations.                                            *)
(*                                                                         *)
(* What the properties rest on: the leases a process holds follow from     *)
(* where it is (LeaseInv); the state of the tree and of the record agree   *)
(* (PlaceInv); what is bound and not stale is bound to the directory in    *)
(* place, which was complete when work was submitted on it (BindInv); a    *)
(* deletion and a creation in progress still have the directory they began *)
(* with (OwnerInv).                                                        *)
(***************************************************************************)
EXTENDS Lifecycle, TLAPS

Using == {"inside", "reading", "writing"}

LeaseInv ==
    /\ sharers = {p \in Proc : pc[p] \in Using}
    /\ \A p \in Proc : owner = p <=> pc[p] \in Deleting \cup Creating
    /\ owner # NoProc => sharers = {}
    /\ \A p \in Proc : pc[p] \in Using => dir \in Dir
    /\ \A d \in Dir : readers[d] \subseteq sharers
    /\ \A d \in Dir : writer[d] # NoProc => readers[d] = {}
    /\ \A p \in Proc : pc[p] = "reading" => p \in readers[dir]
    /\ \A p \in Proc : pc[p] = "writing" => writer[dir] = p

PlaceInv ==
    /\ dir = NoDir <=> tree = "none"
    /\ config => tree \in {"seeding", "seeded", "torn"}
    /\ tree = "seeded" => config
    /\ tree = "torn" => status = "deleting"
    /\ tree = "seeding" => gen # Initial
    /\ status = "deleting" => gen # Initial
    /\ status = "deleting" /\ dir # NoDir /\ dir = recdir => known

(* A creation has a generation and may write config.yaml. *)
Stamped == \E p \in Proc : pc[p] \in {"stamped", "seeding"}

BindInv ==
    \A p \in Proc :
        /\ pc[p] = "bound" /\ bound[p].gen = gen /\ (config \/ Stamped) => bound[p].dir = dir
        /\ pc[p] = "queued" /\ bound[p].gen = gen => bound[p].dir # NoDir
        /\ pc[p] \in Using => bound[p].dir # NoDir
        /\ pc[p] \in Using => bound[p] = Current /\ status # "deleting"
        /\ pc[p] \in {"reading", "writing"} => tree = "seeded"
        /\ pc[p] \in {"queued"} \cup Using /\ bound[p] = Current /\ gen = Initial => config

OwnerInv ==
    \A p \in Proc :
        /\ pc[p] \in {"deleting", "remembered", "marked"} => bound[p].dir = dir
        /\ pc[p] \in {"deleting", "remembered"} /\ status = "deleting" => dir \in {NoDir, recdir}
        /\ pc[p] = "remembered" => known \/ dir = NoDir
        /\ pc[p] = "marked" => status = "deleting" /\ recdir = dir
        /\ pc[p] = "erased" => status = "deleting" /\ dir = NoDir
        /\ pc[p] = "absent" => status = "absent"
        /\ pc[p] \in {"creating", "stamped"} => tree = "empty" /\ status # "deleting"
        /\ pc[p] \in {"stamped", "seeding"} => gen # Initial
        /\ pc[p] \in {"seeding", "created"} => status # "deleting" /\ dir # NoDir

IInv == TypeOK /\ LeaseInv /\ PlaceInv /\ BindInv /\ OwnerInv

-----------------------------------------------------------------------------
LEMMA InitInv == Init => IInv
  <1> SUFFICES ASSUME Init PROVE IInv
    OBVIOUS
  <1> USE ConstantsAssumption DEF Init, Using, Deleting, Creating
  <1>1. TypeOK
    BY DEF TypeOK, Identity, Gen, Binding, Unbound
  <1>2. LeaseInv
    BY DEF LeaseInv
  <1>3. PlaceInv /\ BindInv /\ OwnerInv
    BY DEF PlaceInv, BindInv, Stamped, OwnerInv
  <1> QED BY <1>1, <1>2, <1>3 DEF IInv

(* Leaving every lease keeps leases and places in agreement. *)
LEMMA LeaveLeases == ASSUME TypeOK, LeaseInv, NEW p \in Proc, Leave(p), dir' = dir PROVE LeaseInv'
  <1> USE ConstantsAssumption DEF Leave, At, TypeOK, LeaseInv, Using, Deleting, Creating
  <1>1. \A q \in Proc : pc'[q] = IF q = p THEN "idle" ELSE pc[q]
    OBVIOUS
  <1>2. sharers' = {q \in Proc : pc'[q] \in Using}
    BY <1>1
  <1>3. \A q \in Proc : owner' = q <=> pc'[q] \in Deleting \cup Creating
    BY <1>1
  <1>4. owner' # NoProc => sharers' = {}
    OBVIOUS
  <1>5. \A d \in Dir : readers'[d] \subseteq sharers'
    OBVIOUS
  <1>6. \A d \in Dir : writer'[d] # NoProc => readers'[d] = {}
    OBVIOUS
  <1>7. \A q \in Proc : pc'[q] = "reading" => q \in readers'[dir]
    <2> SUFFICES ASSUME NEW q \in Proc, pc'[q] = "reading" PROVE q \in readers'[dir]
      OBVIOUS
    <2>1. q # p /\ q \in readers[dir]
      BY <1>1
    <2> QED BY <2>1
  <1>8. \A q \in Proc : pc'[q] = "writing" => writer'[dir] = q
    OBVIOUS
  <1> QED BY <1>2, <1>3, <1>4, <1>5, <1>6, <1>7, <1>8

LEMMA BindStep == ASSUME IInv, NEW p \in Proc, Bind(p) PROVE IInv'
  <1> USE ConstantsAssumption DEF Bind, At, place, record, lease, Using, Deleting, Creating
  <1>1. TypeOK'
    BY DEF IInv, TypeOK, LeaseInv, OwnerInv, Identity, Gen, Binding, Current, Unbound
  <1>2. LeaseInv'
    BY DEF IInv, TypeOK, LeaseInv, BindInv, Identity, Binding, Current, Unbound
  <1>3. PlaceInv'
    BY DEF IInv, TypeOK, LeaseInv, PlaceInv, BindInv, OwnerInv, Identity, Gen, Current, Unbound
  <1>4. BindInv'
    BY DEF IInv, TypeOK, LeaseInv, PlaceInv, BindInv, Stamped, OwnerInv, Identity, Gen, Binding, Current, Unbound
  <1>5. OwnerInv'
    BY DEF IInv, TypeOK, LeaseInv, PlaceInv, BindInv, OwnerInv, Identity, Current, Unbound
  <1> QED BY <1>1, <1>2, <1>3, <1>4, <1>5 DEF IInv

LEMMA SubmitStep == ASSUME IInv, NEW p \in Proc, Submit(p) PROVE IInv'
  <1> USE ConstantsAssumption DEF Submit, At, place, record, lease, Using, Deleting, Creating
  <1>1. TypeOK'
    BY DEF IInv, TypeOK, LeaseInv, OwnerInv, Identity, Gen, Binding, Current, Unbound
  <1>2. LeaseInv'
    BY DEF IInv, TypeOK, LeaseInv, BindInv, Identity, Binding, Current, Unbound
  <1>3. PlaceInv'
    BY DEF IInv, TypeOK, LeaseInv, PlaceInv, BindInv, OwnerInv, Identity, Gen, Current, Unbound
  <1>4. BindInv'
    BY DEF IInv, TypeOK, LeaseInv, PlaceInv, BindInv, Stamped, OwnerInv, Identity, Gen, Binding, Current, Unbound
  <1>5. OwnerInv'
    BY DEF IInv, TypeOK, LeaseInv, PlaceInv, BindInv, OwnerInv, Identity, Current, Unbound
  <1> QED BY <1>1, <1>2, <1>3, <1>4, <1>5 DEF IInv

LEMMA EnterStep == ASSUME IInv, NEW p \in Proc, Enter(p) PROVE IInv'
  <1> USE ConstantsAssumption DEF Enter, At, place, record, lease, StillValid, Using, Deleting, Creating
  <1>1. TypeOK'
    BY DEF IInv, TypeOK, LeaseInv, OwnerInv, Identity, Gen, Binding, Current, Unbound
  <1>2. LeaseInv'
    BY DEF IInv, TypeOK, LeaseInv, BindInv, Identity, Binding, Current, Unbound
  <1>3. PlaceInv'
    BY DEF IInv, TypeOK, LeaseInv, PlaceInv, BindInv, OwnerInv, Identity, Gen, Current, Unbound
  <1>4. BindInv'
    BY DEF IInv, TypeOK, LeaseInv, PlaceInv, BindInv, Stamped, OwnerInv, Identity, Gen, Binding, Current, Unbound
  <1>5. OwnerInv'
    BY DEF IInv, TypeOK, LeaseInv, PlaceInv, BindInv, OwnerInv, Identity, Current, Unbound
  <1> QED BY <1>1, <1>2, <1>3, <1>4, <1>5 DEF IInv

LEMMA CancelStep == ASSUME IInv, NEW p \in Proc, Cancel(p) PROVE IInv'
  <1> USE ConstantsAssumption DEF Cancel, At, place, record, lease, Leave, Using, Deleting, Creating
  <1>1. TypeOK'
    BY DEF IInv, TypeOK, LeaseInv, OwnerInv, Identity, Gen, Binding, Current, Unbound
  <1>2. LeaseInv'
    BY LeaveLeases DEF IInv
  <1>3. PlaceInv'
    BY DEF IInv, TypeOK, LeaseInv, PlaceInv, BindInv, OwnerInv, Identity, Gen, Current, Unbound
  <1>4. BindInv'
    BY DEF IInv, TypeOK, LeaseInv, PlaceInv, BindInv, Stamped, OwnerInv, Identity, Gen, Binding, Current, Unbound
  <1>5. OwnerInv'
    BY DEF IInv, TypeOK, LeaseInv, PlaceInv, BindInv, OwnerInv, Identity, Current, Unbound
  <1> QED BY <1>1, <1>2, <1>3, <1>4, <1>5 DEF IInv

LEMMA RecoverStep == ASSUME IInv, NEW p \in Proc, Recover(p) PROVE IInv'
  <1> USE ConstantsAssumption DEF Recover, At, place, record, lease, Leave, Free, Using, Deleting, Creating
  <1>1. TypeOK'
    BY DEF IInv, TypeOK, LeaseInv, OwnerInv, Identity, Gen, Binding, Current, Unbound
  <1>2. LeaseInv'
    BY LeaveLeases DEF IInv
  <1>3. PlaceInv'
    BY DEF IInv, TypeOK, LeaseInv, PlaceInv, BindInv, OwnerInv, Identity, Gen, Current, Unbound
  <1>4. BindInv'
    BY DEF IInv, TypeOK, LeaseInv, PlaceInv, BindInv, Stamped, OwnerInv, Identity, Gen, Binding, Current, Unbound
  <1>5. OwnerInv'
    BY DEF IInv, TypeOK, LeaseInv, PlaceInv, BindInv, OwnerInv, Identity, Current, Unbound
  <1> QED BY <1>1, <1>2, <1>3, <1>4, <1>5 DEF IInv

LEMMA RefuseStep == ASSUME IInv, NEW p \in Proc, Refuse(p) PROVE IInv'
  <1> USE ConstantsAssumption DEF Refuse, At, place, record, lease, Leave, Executable, Using, Deleting, Creating
  <1>1. TypeOK'
    BY DEF IInv, TypeOK, LeaseInv, OwnerInv, Identity, Gen, Binding, Current, Unbound
  <1>2. LeaseInv'
    BY LeaveLeases DEF IInv
  <1>3. PlaceInv'
    BY DEF IInv, TypeOK, LeaseInv, PlaceInv, BindInv, OwnerInv, Identity, Gen, Current, Unbound
  <1>4. BindInv'
    BY DEF IInv, TypeOK, LeaseInv, PlaceInv, BindInv, Stamped, OwnerInv, Identity, Gen, Binding, Current, Unbound
  <1>5. OwnerInv'
    BY DEF IInv, TypeOK, LeaseInv, PlaceInv, BindInv, OwnerInv, Identity, Current, Unbound
  <1> QED BY <1>1, <1>2, <1>3, <1>4, <1>5 DEF IInv

LEMMA LockReadStep == ASSUME IInv, NEW p \in Proc, LockRead(p) PROVE IInv'
  <1> USE ConstantsAssumption DEF LockRead, At, place, record, lease, Executable, Using, Deleting, Creating
  <1>1. TypeOK'
    BY DEF IInv, TypeOK, LeaseInv, OwnerInv, Identity, Gen, Binding, Current, Unbound
  <1>2. LeaseInv'
    BY DEF IInv, TypeOK, LeaseInv, BindInv, Identity, Binding, Current, Unbound
  <1>3. PlaceInv'
    BY DEF IInv, TypeOK, LeaseInv, PlaceInv, BindInv, OwnerInv, Identity, Gen, Current, Unbound
  <1>4. BindInv'
    BY DEF IInv, TypeOK, LeaseInv, PlaceInv, BindInv, Stamped, OwnerInv, Identity, Gen, Binding, Current, Unbound
  <1>5. OwnerInv'
    BY DEF IInv, TypeOK, LeaseInv, PlaceInv, BindInv, OwnerInv, Identity, Current, Unbound
  <1> QED BY <1>1, <1>2, <1>3, <1>4, <1>5 DEF IInv

LEMMA LockWriteStep == ASSUME IInv, NEW p \in Proc, LockWrite(p) PROVE IInv'
  <1> USE ConstantsAssumption DEF LockWrite, At, place, record, lease, Executable, Free, Using, Deleting, Creating
  <1>1. TypeOK'
    BY DEF IInv, TypeOK, LeaseInv, OwnerInv, Identity, Gen, Binding, Current, Unbound
  <1>2. LeaseInv'
    BY DEF IInv, TypeOK, LeaseInv, BindInv, Identity, Binding, Current, Unbound
  <1>3. PlaceInv'
    BY DEF IInv, TypeOK, LeaseInv, PlaceInv, BindInv, OwnerInv, Identity, Gen, Current, Unbound
  <1>4. BindInv'
    BY DEF IInv, TypeOK, LeaseInv, PlaceInv, BindInv, Stamped, OwnerInv, Identity, Gen, Binding, Current, Unbound
  <1>5. OwnerInv'
    BY DEF IInv, TypeOK, LeaseInv, PlaceInv, BindInv, OwnerInv, Identity, Current, Unbound
  <1> QED BY <1>1, <1>2, <1>3, <1>4, <1>5 DEF IInv

LEMMA FinishStep == ASSUME IInv, NEW p \in Proc, Finish(p) PROVE IInv'
  <1> USE ConstantsAssumption DEF Finish, At, place, record, lease, Leave, Using, Deleting, Creating
  <1>1. TypeOK'
    BY DEF IInv, TypeOK, LeaseInv, OwnerInv, Identity, Gen, Binding, Current, Unbound
  <1>2. LeaseInv'
    BY LeaveLeases DEF IInv
  <1>3. PlaceInv'
    BY DEF IInv, TypeOK, LeaseInv, PlaceInv, BindInv, OwnerInv, Identity, Gen, Current, Unbound
  <1>4. BindInv'
    BY DEF IInv, TypeOK, LeaseInv, PlaceInv, BindInv, Stamped, OwnerInv, Identity, Gen, Binding, Current, Unbound
  <1>5. OwnerInv'
    BY DEF IInv, TypeOK, LeaseInv, PlaceInv, BindInv, OwnerInv, Identity, Current, Unbound
  <1> QED BY <1>1, <1>2, <1>3, <1>4, <1>5 DEF IInv

LEMMA ConfirmStep == ASSUME IInv, NEW p \in Proc, Confirm(p) PROVE IInv'
  <1> USE ConstantsAssumption DEF Confirm, At, place, record, lease, Using, Deleting, Creating
  <1>1. TypeOK'
    BY DEF IInv, TypeOK, LeaseInv, OwnerInv, Identity, Gen, Binding, Current, Unbound
  <1>2. LeaseInv'
    BY DEF IInv, TypeOK, LeaseInv, BindInv, Identity, Binding, Current, Unbound
  <1>3. PlaceInv'
    BY DEF IInv, TypeOK, LeaseInv, PlaceInv, BindInv, OwnerInv, Identity, Gen, Current, Unbound
  <1>4. BindInv'
    BY DEF IInv, TypeOK, LeaseInv, PlaceInv, BindInv, Stamped, OwnerInv, Identity, Gen, Binding, Current, Unbound
  <1>5. OwnerInv'
    BY DEF IInv, TypeOK, LeaseInv, PlaceInv, BindInv, OwnerInv, Identity, Current, Unbound
  <1> QED BY <1>1, <1>2, <1>3, <1>4, <1>5 DEF IInv

LEMMA BeginDeleteStep == ASSUME IInv, NEW p \in Proc, BeginDelete(p) PROVE IInv'
  <1> USE ConstantsAssumption DEF BeginDelete, At, place, record, lease, Alone, Deletable, Using, Deleting, Creating
  <1>1. TypeOK'
    BY DEF IInv, TypeOK, LeaseInv, OwnerInv, Identity, Gen, Binding, Current, Unbound
  <1>2. LeaseInv'
    BY DEF IInv, TypeOK, LeaseInv, BindInv, Identity, Binding, Current, Unbound
  <1>3. PlaceInv'
    BY DEF IInv, TypeOK, LeaseInv, PlaceInv, BindInv, OwnerInv, Identity, Gen, Current, Unbound
  <1>4. BindInv'
    BY DEF IInv, TypeOK, LeaseInv, PlaceInv, BindInv, Stamped, OwnerInv, Identity, Gen, Binding, Current, Unbound
  <1>5. OwnerInv'
    BY DEF IInv, TypeOK, LeaseInv, PlaceInv, BindInv, OwnerInv, Identity, Current, Unbound
  <1> QED BY <1>1, <1>2, <1>3, <1>4, <1>5 DEF IInv

LEMMA RefuseDeleteStep == ASSUME IInv, NEW p \in Proc, RefuseDelete(p) PROVE IInv'
  <1> USE ConstantsAssumption DEF RefuseDelete, At, place, record, lease, Leave, Using, Deleting, Creating
  <1>1. TypeOK'
    BY DEF IInv, TypeOK, LeaseInv, OwnerInv, Identity, Gen, Binding, Current, Unbound
  <1>2. LeaseInv'
    BY LeaveLeases DEF IInv
  <1>3. PlaceInv'
    BY DEF IInv, TypeOK, LeaseInv, PlaceInv, BindInv, OwnerInv, Identity, Gen, Current, Unbound
  <1>4. BindInv'
    BY DEF IInv, TypeOK, LeaseInv, PlaceInv, BindInv, Stamped, OwnerInv, Identity, Gen, Binding, Current, Unbound
  <1>5. OwnerInv'
    BY DEF IInv, TypeOK, LeaseInv, PlaceInv, BindInv, OwnerInv, Identity, Current, Unbound
  <1> QED BY <1>1, <1>2, <1>3, <1>4, <1>5 DEF IInv

LEMMA RememberStep == ASSUME IInv, NEW p \in Proc, Remember(p) PROVE IInv'
  <1> USE ConstantsAssumption DEF Remember, At, place, record, lease, Using, Deleting, Creating
  <1>1. TypeOK'
    BY DEF IInv, TypeOK, LeaseInv, OwnerInv, Identity, Gen, Binding, Current, Unbound
  <1>2. LeaseInv'
    BY DEF IInv, TypeOK, LeaseInv, BindInv, Identity, Binding, Current, Unbound
  <1>3. PlaceInv'
    BY DEF IInv, TypeOK, LeaseInv, PlaceInv, BindInv, OwnerInv, Identity, Gen, Current, Unbound
  <1>4. BindInv'
    BY DEF IInv, TypeOK, LeaseInv, PlaceInv, BindInv, Stamped, OwnerInv, Identity, Gen, Binding, Current, Unbound
  <1>5. OwnerInv'
    BY DEF IInv, TypeOK, LeaseInv, PlaceInv, BindInv, OwnerInv, Identity, Current, Unbound
  <1> QED BY <1>1, <1>2, <1>3, <1>4, <1>5 DEF IInv

LEMMA MarkStep == ASSUME IInv, NEW p \in Proc, Mark(p) PROVE IInv'
  <1> USE ConstantsAssumption DEF Mark, At, place, record, lease, FreshGen, Using, Deleting, Creating
  <1>1. TypeOK'
    BY DEF IInv, TypeOK, LeaseInv, OwnerInv, Identity, Gen, Binding, Current, Unbound
  <1>2. LeaseInv'
    BY DEF IInv, TypeOK, LeaseInv, BindInv, Identity, Binding, Current, Unbound
  <1>3. PlaceInv'
    BY DEF IInv, TypeOK, LeaseInv, PlaceInv, BindInv, OwnerInv, Identity, Gen, Current, Unbound
  <1>4. BindInv'
    BY DEF IInv, TypeOK, LeaseInv, PlaceInv, BindInv, Stamped, OwnerInv, Identity, Gen, Binding, Current, Unbound
  <1>5. OwnerInv'
    BY DEF IInv, TypeOK, LeaseInv, PlaceInv, BindInv, OwnerInv, Identity, Current, Unbound
  <1> QED BY <1>1, <1>2, <1>3, <1>4, <1>5 DEF IInv

LEMMA EraseStep == ASSUME IInv, NEW p \in Proc, Erase(p) PROVE IInv'
  <1> USE ConstantsAssumption DEF Erase, At, place, record, lease, Using, Deleting, Creating
  <1>1. TypeOK'
    BY DEF IInv, TypeOK, LeaseInv, OwnerInv, Identity, Gen, Binding, Current, Unbound
  <1>2. LeaseInv'
    BY DEF IInv, TypeOK, LeaseInv, BindInv, Identity, Binding, Current, Unbound
  <1>3. PlaceInv'
    BY DEF IInv, TypeOK, LeaseInv, PlaceInv, BindInv, OwnerInv, Identity, Gen, Current, Unbound
  <1>4. BindInv'
    BY DEF IInv, TypeOK, LeaseInv, PlaceInv, BindInv, Stamped, OwnerInv, Identity, Gen, Binding, Current, Unbound
  <1>5. OwnerInv'
    BY DEF IInv, TypeOK, LeaseInv, PlaceInv, BindInv, OwnerInv, Identity, Current, Unbound
  <1> QED BY <1>1, <1>2, <1>3, <1>4, <1>5 DEF IInv

LEMMA EraseFailsStep == ASSUME IInv, NEW p \in Proc, EraseFails(p) PROVE IInv'
  <1> USE ConstantsAssumption DEF EraseFails, At, place, record, lease, Leave, Using, Deleting, Creating
  <1>1. TypeOK'
    BY DEF IInv, TypeOK, LeaseInv, OwnerInv, Identity, Gen, Binding, Current, Unbound
  <1>2. LeaseInv'
    BY LeaveLeases DEF IInv
  <1>3. PlaceInv'
    BY DEF IInv, TypeOK, LeaseInv, PlaceInv, BindInv, OwnerInv, Identity, Gen, Current, Unbound
  <1>4. BindInv'
    BY DEF IInv, TypeOK, LeaseInv, PlaceInv, BindInv, Stamped, OwnerInv, Identity, Gen, Binding, Current, Unbound
  <1>5. OwnerInv'
    BY DEF IInv, TypeOK, LeaseInv, PlaceInv, BindInv, OwnerInv, Identity, Current, Unbound
  <1> QED BY <1>1, <1>2, <1>3, <1>4, <1>5 DEF IInv

LEMMA ErasedStep == ASSUME IInv, NEW p \in Proc, Erased(p) PROVE IInv'
  <1> USE ConstantsAssumption DEF Erased, At, place, record, lease, Using, Deleting, Creating
  <1>1. TypeOK'
    BY DEF IInv, TypeOK, LeaseInv, OwnerInv, Identity, Gen, Binding, Current, Unbound
  <1>2. LeaseInv'
    BY DEF IInv, TypeOK, LeaseInv, BindInv, Identity, Binding, Current, Unbound
  <1>3. PlaceInv'
    BY DEF IInv, TypeOK, LeaseInv, PlaceInv, BindInv, OwnerInv, Identity, Gen, Current, Unbound
  <1>4. BindInv'
    BY DEF IInv, TypeOK, LeaseInv, PlaceInv, BindInv, Stamped, OwnerInv, Identity, Gen, Binding, Current, Unbound
  <1>5. OwnerInv'
    BY DEF IInv, TypeOK, LeaseInv, PlaceInv, BindInv, OwnerInv, Identity, Current, Unbound
  <1> QED BY <1>1, <1>2, <1>3, <1>4, <1>5 DEF IInv

LEMMA ConcludeStep == ASSUME IInv, NEW p \in Proc, Conclude(p) PROVE IInv'
  <1> USE ConstantsAssumption DEF Conclude, At, place, record, lease, Using, Deleting, Creating
  <1>1. TypeOK'
    BY DEF IInv, TypeOK, LeaseInv, OwnerInv, Identity, Gen, Binding, Current, Unbound
  <1>2. LeaseInv'
    BY DEF IInv, TypeOK, LeaseInv, BindInv, Identity, Binding, Current, Unbound
  <1>3. PlaceInv'
    BY DEF IInv, TypeOK, LeaseInv, PlaceInv, BindInv, OwnerInv, Identity, Gen, Current, Unbound
  <1>4. BindInv'
    BY DEF IInv, TypeOK, LeaseInv, PlaceInv, BindInv, Stamped, OwnerInv, Identity, Gen, Binding, Current, Unbound
  <1>5. OwnerInv'
    BY DEF IInv, TypeOK, LeaseInv, PlaceInv, BindInv, OwnerInv, Identity, Current, Unbound
  <1> QED BY <1>1, <1>2, <1>3, <1>4, <1>5 DEF IInv

LEMMA UnregisterStep == ASSUME IInv, NEW p \in Proc, Unregister(p) PROVE IInv'
  <1> USE ConstantsAssumption DEF Unregister, At, place, record, lease, Leave, Using, Deleting, Creating
  <1>1. TypeOK'
    BY DEF IInv, TypeOK, LeaseInv, OwnerInv, Identity, Gen, Binding, Current, Unbound
  <1>2. LeaseInv'
    BY LeaveLeases DEF IInv
  <1>3. PlaceInv'
    BY DEF IInv, TypeOK, LeaseInv, PlaceInv, BindInv, OwnerInv, Identity, Gen, Current, Unbound
  <1>4. BindInv'
    BY DEF IInv, TypeOK, LeaseInv, PlaceInv, BindInv, Stamped, OwnerInv, Identity, Gen, Binding, Current, Unbound
  <1>5. OwnerInv'
    BY DEF IInv, TypeOK, LeaseInv, PlaceInv, BindInv, OwnerInv, Identity, Current, Unbound
  <1> QED BY <1>1, <1>2, <1>3, <1>4, <1>5 DEF IInv

LEMMA BeginCreateStep == ASSUME IInv, NEW p \in Proc, BeginCreate(p) PROVE IInv'
  <1> USE ConstantsAssumption DEF BeginCreate, At, place, record, lease, Alone, FreshDir, Using, Deleting, Creating
  <1>1. TypeOK'
    BY DEF IInv, TypeOK, LeaseInv, OwnerInv, Identity, Gen, Binding, Current, Unbound
  <1>2. LeaseInv'
    BY DEF IInv, TypeOK, LeaseInv, BindInv, Identity, Binding, Current, Unbound
  <1>3. PlaceInv'
    BY DEF IInv, TypeOK, LeaseInv, PlaceInv, BindInv, OwnerInv, Identity, Gen, Current, Unbound
  <1>4. BindInv'
    BY DEF IInv, TypeOK, LeaseInv, PlaceInv, BindInv, Stamped, OwnerInv, Identity, Gen, Binding, Current, Unbound
  <1>5. OwnerInv'
    BY DEF IInv, TypeOK, LeaseInv, PlaceInv, BindInv, OwnerInv, Identity, Current, Unbound
  <1> QED BY <1>1, <1>2, <1>3, <1>4, <1>5 DEF IInv

LEMMA StampStep == ASSUME IInv, NEW p \in Proc, Stamp(p) PROVE IInv'
  <1> USE ConstantsAssumption DEF Stamp, At, place, record, lease, FreshGen, Using, Deleting, Creating
  <1>1. TypeOK'
    BY DEF IInv, TypeOK, LeaseInv, OwnerInv, Identity, Gen, Binding, Current, Unbound
  <1>2. LeaseInv'
    BY DEF IInv, TypeOK, LeaseInv, BindInv, Identity, Binding, Current, Unbound
  <1>3. PlaceInv'
    BY DEF IInv, TypeOK, LeaseInv, PlaceInv, BindInv, OwnerInv, Identity, Gen, Current, Unbound
  <1>4. BindInv'
    BY DEF IInv, TypeOK, LeaseInv, PlaceInv, BindInv, Stamped, OwnerInv, Identity, Gen, Binding, Current, Unbound
  <1>5. OwnerInv'
    BY DEF IInv, TypeOK, LeaseInv, PlaceInv, BindInv, OwnerInv, Identity, Current, Unbound
  <1> QED BY <1>1, <1>2, <1>3, <1>4, <1>5 DEF IInv

LEMMA SeedStep == ASSUME IInv, NEW p \in Proc, Seed(p) PROVE IInv'
  <1> USE ConstantsAssumption DEF Seed, At, place, record, lease, Using, Deleting, Creating
  <1>1. TypeOK'
    BY DEF IInv, TypeOK, LeaseInv, OwnerInv, Identity, Gen, Binding, Current, Unbound
  <1>2. LeaseInv'
    BY DEF IInv, TypeOK, LeaseInv, BindInv, Identity, Binding, Current, Unbound
  <1>3. PlaceInv'
    BY DEF IInv, TypeOK, LeaseInv, PlaceInv, BindInv, OwnerInv, Identity, Gen, Current, Unbound
  <1>4. BindInv'
    BY DEF IInv, TypeOK, LeaseInv, PlaceInv, BindInv, Stamped, OwnerInv, Identity, Gen, Binding, Current, Unbound
  <1>5. OwnerInv'
    BY DEF IInv, TypeOK, LeaseInv, PlaceInv, BindInv, OwnerInv, Identity, Current, Unbound
  <1> QED BY <1>1, <1>2, <1>3, <1>4, <1>5 DEF IInv

LEMMA CommitCreateStep == ASSUME IInv, NEW p \in Proc, CommitCreate(p) PROVE IInv'
  <1> USE ConstantsAssumption DEF CommitCreate, At, place, record, lease, Using, Deleting, Creating
  <1>1. TypeOK'
    BY DEF IInv, TypeOK, LeaseInv, OwnerInv, Identity, Gen, Binding, Current, Unbound
  <1>2. LeaseInv'
    BY DEF IInv, TypeOK, LeaseInv, BindInv, Identity, Binding, Current, Unbound
  <1>3. PlaceInv'
    BY DEF IInv, TypeOK, LeaseInv, PlaceInv, BindInv, OwnerInv, Identity, Gen, Current, Unbound
  <1>4. BindInv'
    BY DEF IInv, TypeOK, LeaseInv, PlaceInv, BindInv, Stamped, OwnerInv, Identity, Gen, Binding, Current, Unbound
  <1>5. OwnerInv'
    BY DEF IInv, TypeOK, LeaseInv, PlaceInv, BindInv, OwnerInv, Identity, Current, Unbound
  <1> QED BY <1>1, <1>2, <1>3, <1>4, <1>5 DEF IInv

LEMMA FailCreateStep == ASSUME IInv, NEW p \in Proc, FailCreate(p) PROVE IInv'
  <1> USE ConstantsAssumption DEF FailCreate, At, place, record, lease, Leave, Using, Deleting, Creating
  <1>1. TypeOK'
    BY DEF IInv, TypeOK, LeaseInv, OwnerInv, Identity, Gen, Binding, Current, Unbound
  <1>2. LeaseInv'
    BY LeaveLeases DEF IInv
  <1>3. PlaceInv'
    BY DEF IInv, TypeOK, LeaseInv, PlaceInv, BindInv, OwnerInv, Identity, Gen, Current, Unbound
  <1>4. BindInv'
    BY DEF IInv, TypeOK, LeaseInv, PlaceInv, BindInv, Stamped, OwnerInv, Identity, Gen, Binding, Current, Unbound
  <1>5. OwnerInv'
    BY DEF IInv, TypeOK, LeaseInv, PlaceInv, BindInv, OwnerInv, Identity, Current, Unbound
  <1> QED BY <1>1, <1>2, <1>3, <1>4, <1>5 DEF IInv

LEMMA RegisterStep == ASSUME IInv, NEW p \in Proc, Register(p) PROVE IInv'
  <1> USE ConstantsAssumption DEF Register, At, place, record, lease, Leave, Using, Deleting, Creating
  <1>1. TypeOK'
    BY DEF IInv, TypeOK, LeaseInv, OwnerInv, Identity, Gen, Binding, Current, Unbound
  <1>2. LeaseInv'
    BY LeaveLeases DEF IInv
  <1>3. PlaceInv'
    BY DEF IInv, TypeOK, LeaseInv, PlaceInv, BindInv, OwnerInv, Identity, Gen, Current, Unbound
  <1>4. BindInv'
    BY DEF IInv, TypeOK, LeaseInv, PlaceInv, BindInv, Stamped, OwnerInv, Identity, Gen, Binding, Current, Unbound
  <1>5. OwnerInv'
    BY DEF IInv, TypeOK, LeaseInv, PlaceInv, BindInv, OwnerInv, Identity, Current, Unbound
  <1> QED BY <1>1, <1>2, <1>3, <1>4, <1>5 DEF IInv

LEMMA CrashStep == ASSUME IInv, NEW p \in Proc, Crash(p) PROVE IInv'
  <1> USE ConstantsAssumption DEF Crash, At, place, record, lease, Leave, Using, Deleting, Creating
  <1>1. TypeOK'
    BY DEF IInv, TypeOK, LeaseInv, OwnerInv, Identity, Gen, Binding, Current, Unbound
  <1>2. LeaseInv'
    BY LeaveLeases DEF IInv
  <1>3. PlaceInv'
    BY DEF IInv, TypeOK, LeaseInv, PlaceInv, BindInv, OwnerInv, Identity, Gen, Current, Unbound
  <1>4. BindInv'
    BY DEF IInv, TypeOK, LeaseInv, PlaceInv, BindInv, Stamped, OwnerInv, Identity, Gen, Binding, Current, Unbound
  <1>5. OwnerInv'
    BY DEF IInv, TypeOK, LeaseInv, PlaceInv, BindInv, OwnerInv, Identity, Current, Unbound
  <1> QED BY <1>1, <1>2, <1>3, <1>4, <1>5 DEF IInv

LEMMA ReplaceStep == ASSUME IInv, Replace PROVE IInv'
  <1> USE ConstantsAssumption DEF Replace, Alone, FreshDir, record, lease, Using, Deleting, Creating
  <1>1. TypeOK'
    BY DEF IInv, TypeOK, Identity
  <1>2. LeaseInv'
    BY DEF IInv, TypeOK, LeaseInv
  <1>3. PlaceInv'
    BY DEF IInv, TypeOK, LeaseInv, PlaceInv, Identity
  <1>4. BindInv'
    BY DEF IInv, TypeOK, LeaseInv, PlaceInv, BindInv, Stamped, Current, Binding, Identity
  <1>5. OwnerInv'
    BY DEF IInv, TypeOK, LeaseInv, OwnerInv
  <1> QED BY <1>1, <1>2, <1>3, <1>4, <1>5 DEF IInv

LEMMA NextStep == IInv /\ [Next]_vars => IInv'
  <1> SUFFICES ASSUME IInv, [Next]_vars PROVE IInv'
    OBVIOUS
  <1>1. ASSUME NEW p \in Proc, Work(p) PROVE IInv'
    BY <1>1, BindStep, SubmitStep, EnterStep, CancelStep, RecoverStep, RefuseStep, LockReadStep,
       LockWriteStep, FinishStep DEF Work
  <1>2. ASSUME NEW p \in Proc, Delete(p) PROVE IInv'
    BY <1>2, ConfirmStep, BeginDeleteStep, RefuseDeleteStep, RememberStep, MarkStep, EraseStep,
       EraseFailsStep, ErasedStep, ConcludeStep, UnregisterStep DEF Delete
  <1>3. ASSUME NEW p \in Proc, Create(p) PROVE IInv'
    BY <1>3, BeginCreateStep, StampStep, SeedStep, CommitCreateStep, FailCreateStep,
       RegisterStep DEF Create
  <1>4. CASE UNCHANGED vars
    BY <1>4 DEF vars, IInv, TypeOK, LeaseInv, PlaceInv, BindInv, Stamped, OwnerInv, Current
  <1> QED BY <1>1, <1>2, <1>3, <1>4, CrashStep, ReplaceStep DEF Next

(* The inductive invariant holds in every behaviour. *)
THEOREM Invariance == Spec => []IInv
  BY InitInv, NextStep, PTL DEF Spec

(* Every variable keeps its type. *)
THEOREM TypeCorrect == Spec => []TypeOK
  BY Invariance, PTL DEF IInv

(* An operation runs on the generation and the directory it was bound to,  *)
(* complete and not being deleted (read_lifecycle, validate_execution).    *)
THEOREM GenerationSafe == Spec => []RunsOnItsGeneration
  <1>1. IInv => RunsOnItsGeneration
    BY DEF IInv, BindInv, RunsOnItsGeneration, Using
  <1> QED BY <1>1, Invariance, PTL

(* Writers, deletions and creations are alone at the path (kb_lock,        *)
(* exclusive_lifecycle).                                                   *)
THEOREM Exclusion == Spec => []WriterAlone
  <1>1. IInv => WriterAlone
    BY ConstantsAssumption
       DEF IInv, TypeOK, LeaseInv, BindInv, WriterAlone, Using, Deleting, Creating, Current, Identity
  <1> QED BY <1>1, Invariance, PTL

(* A tree that an unfinished deletion tore is in the registry              *)
(* (_remember_pending_deletion).                                           *)
THEOREM DeletionListed == Spec => []UnfinishedDeletionListed
  <1>1. IInv => UnfinishedDeletionListed
    BY DEF IInv, PlaceInv, UnfinishedDeletionListed
  <1> QED BY <1>1, Invariance, PTL

(* Only the confirmed directory is taken away (delete_kb).                 *)
THEOREM DeletionConfirmed == Spec => DeletesWhatWasConfirmed
  <1>1. IInv /\ [Next]_vars => [\A p \in Proc : pc[p] = "marked" /\ dir # NoDir
                                  /\ tree' \in {"torn", "none"} => dir = bound[p].dir]_vars
    BY DEF IInv, OwnerInv
  <1> QED BY <1>1, Invariance, PTL DEF Spec, DeletesWhatWasConfirmed

(* A deletion that was begun can only be finished (creation_lifecycle,     *)
(* delete_kb).                                                             *)
THEOREM DeletionFinal == Spec => DeletionIsFinal
  <1> DEFINE Final == status = "deleting" =>
                        /\ status' \in {"deleting", "absent"}
                        /\ recdir' \in {recdir, NoDir}
                        /\ status' = "absent" => dir = NoDir
  <1>1. IInv /\ [Next]_vars => [Final]_vars
    <2> SUFFICES ASSUME IInv, Next PROVE Final
      OBVIOUS
    <2> USE DEF record, place
    <2>1. ASSUME NEW p \in Proc, Work(p) PROVE Final
      BY <2>1 DEF Work, Bind, Submit, Enter, Cancel, Recover, Refuse, LockRead, LockWrite, Finish
    <2>2. ASSUME NEW p \in Proc, Delete(p) PROVE Final
      BY <2>2 DEF Delete, Confirm, BeginDelete, RefuseDelete, Remember, Mark, Erase, EraseFails,
                  Erased, Conclude, Unregister, IInv, OwnerInv
    <2>3. ASSUME NEW p \in Proc, Create(p) PROVE Final
      BY <2>3 DEF Create, BeginCreate, Stamp, Seed, CommitCreate, FailCreate, Register, IInv, OwnerInv
    <2> QED BY <2>1, <2>2, <2>3 DEF Next, Crash, Replace
  <1> QED BY <1>1, Invariance, PTL DEF Spec, DeletionIsFinal
=============================================================================
