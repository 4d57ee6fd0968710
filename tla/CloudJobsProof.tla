---------------------------- MODULE CloudJobsProof ----------------------------
(***************************************************************************)
(* For any pages and limits, a page is paid for once.  The invariant says   *)
(* what each state of a record proves about the service: only planned and  *)
(* rejected allow a submission, and they prove that there is no job.       *)
(***************************************************************************)
EXTENDS CloudJobs, FiniteSetTheorems, TLAPS

(* A record from which a submission may follow proves that no job exists.  *)
NoJobYet ==
    \A p \in Page : disk[p].state \in {"planned", "rejected"} => job[p] = 0

(* What the run at work knows of its page. *)
AtWork ==
    /\ pc \notin {"idle", "ready"} => record = disk[page]
    /\ pc \in {"admit", "prepare"} => record.state = "planned"
    /\ pc \in {"post", "reply", "classify"} => record.state = "submitting"
    /\ pc \in {"post", "reply"} => record.service_code = "none"
    /\ pc = "post" => job[page] = 0 /\ posts[page] < record.submissions
    /\ pc = "reply" => (answer \in Rejection => job[page] = 0)
    /\ pc = "classify" => (record.service_code \in Rejection => job[page] = 0)
    /\ pc \in {"poll", "download"} => record.state = "submitted"
    /\ pc = "assemble" => record.state \in {"raw_downloaded", "downloaded"}

IInv == TypeOK /\ IsFiniteSet(admitted) /\ AtMostOneJob /\ PostsRecorded /\ NoJobYet /\ AtWork
-----------------------------------------------------------------------------
LEMMA InitInv == Init => IInv
  BY CloudAssumption, FS_EmptySet
  DEF Init, IInv, TypeOK, AtMostOneJob, PostsRecorded, NoJobYet, AtWork, Record, NoRecord, Answer

(* The record of a submission about to be made. *)
LEMMA Counted ==
  ASSUME NEW r \in Record
  PROVE  LET new == [r EXCEPT !.state = "submitting", !.service_code = "none",
                              !.submissions = @ + 1]
         IN  /\ new \in Record
             /\ new.state = "submitting" /\ new.service_code = "none"
             /\ new.submissions = r.submissions + 1
  <1> DEFINE new == [r EXCEPT !.state = "submitting", !.service_code = "none",
                              !.submissions = r.submissions + 1]
  <1>1. r.submissions + 1 \in Nat
    BY DEF Record
  <1>2. new \in Record
    BY <1>1 DEF Record
  <1>3. new.state = "submitting" /\ new.service_code = "none"
    BY DEF Record
  <1>4. new.submissions = r.submissions + 1
    BY DEF Record
  <1> QED
    BY <1>2, <1>3, <1>4

(* One step per action. *)
LEMMA StepInv == IInv /\ [Next]_vars => IInv'
  <1> SUFFICES ASSUME IInv, [Next]_vars PROVE IInv'
    OBVIOUS
  <1> USE CloudAssumption
      DEF IInv, TypeOK, AtMostOneJob, PostsRecorded, NoJobYet, AtWork,
          Record, Answer, Rejection, Save, CountRequest, run, service
  <1>1. CASE BeginRun
    BY <1>1, FS_EmptySet DEF BeginRun
  <1>2. CASE EndRun
    BY <1>2 DEF EndRun
  <1>3. CASE GiveUp
    BY <1>3 DEF GiveUp
  <1>4. CASE Resume
    BY <1>4 DEF Resume
  <1>5. CASE ResumeRejected
    BY <1>5 DEF ResumeRejected
  <1>6. CASE Admit
    <2>1. IsFiniteSet(admitted') /\ Cardinality(admitted') <= MaxPages
      <3>1. CASE page \in admitted
        <4>1. admitted' = admitted
          BY <1>6, <3>1 DEF Admit
        <4> QED
          BY <4>1
      <3>2. CASE page \notin admitted
        <4>1. admitted' = admitted \cup {page} /\ Cardinality(admitted) < MaxPages
          BY <1>6, <3>2 DEF Admit
        <4>2. IsFiniteSet(admitted') /\ Cardinality(admitted') = Cardinality(admitted) + 1
          BY <3>2, <4>1, FS_AddElement
        <4> QED
          BY <4>1, <4>2, FS_CardinalityType
      <3> QED
        BY <3>1, <3>2
    <2> QED
      BY <1>6, <2>1 DEF Admit
  <1>7. CASE Prepare
    <2> DEFINE new == [record EXCEPT !.state = "submitting", !.service_code = "none",
                                     !.submissions = @ + 1]
    <2>1. /\ new \in Record
          /\ new.state = "submitting" /\ new.service_code = "none"
          /\ new.submissions = record.submissions + 1
      <3>1. record \in Record
        OBVIOUS
      <3> QED
        BY <3>1, Counted
    <2>2. /\ record' = new /\ disk' = [disk EXCEPT ![page] = new] /\ pc' = "post"
          /\ requests < MaxRequests /\ requests' = requests + 1
          /\ UNCHANGED <<page, attempt, admitted, runs, answer, job, remote, posts>>
      BY <1>7 DEF Prepare
    <2>3. job[page] = 0 /\ posts[page] <= record.submissions
      BY <1>7 DEF Prepare
    <2> HIDE DEF new
    <2>4. TypeOK'
      BY <2>1, <2>2
    <2>5. (IsFiniteSet(admitted) /\ AtMostOneJob /\ PostsRecorded)'
      BY <2>1, <2>2, <2>3
    <2>6. (NoJobYet /\ AtWork)'
      BY <2>1, <2>2, <2>3
    <2> QED
      BY <2>4, <2>5, <2>6
  <1>8. CASE Post
    <2>1. TypeOK'
      BY <1>8 DEF Post
    <2>2. (IsFiniteSet(admitted) /\ AtMostOneJob)'
      BY <1>8 DEF Post
    <2>3. PostsRecorded'
      <3>1. \A p \in Page : posts'[p] = IF p = page THEN posts[p] + 1 ELSE posts[p]
        BY <1>8 DEF Post
      <3>2. disk' = disk /\ posts[page] < disk[page].submissions
        BY <1>8 DEF Post
      <3> QED
        BY <3>1, <3>2
    <2>4. NoJobYet'
      BY <1>8 DEF Post
    <2>5. AtWork'
      BY <1>8 DEF Post
    <2> QED
      BY <2>1, <2>2, <2>3, <2>4, <2>5
  <1>9. CASE ReadCode
    <2>1. TypeOK'
      BY <1>9 DEF ReadCode
    <2>2. (IsFiniteSet(admitted) /\ AtMostOneJob /\ PostsRecorded)'
      BY <1>9 DEF ReadCode
    <2>3. (NoJobYet /\ AtWork)'
      BY <1>9 DEF ReadCode
    <2> QED
      BY <2>1, <2>2, <2>3
  <1>10. CASE Submitted
    BY <1>10 DEF Submitted
  <1>11. CASE NotSubmitted
    BY <1>11 DEF NotSubmitted
  <1>12. CASE Poll
    BY <1>12 DEF Poll
  <1>13. CASE Download
    BY <1>13 DEF Download
  <1>14. CASE FetchAsset
    BY <1>14 DEF FetchAsset
  <1>15. CASE Assemble
    BY <1>15 DEF Assemble
  <1>16. ASSUME NEW p \in Page, Recognise(p) PROVE IInv'
    BY <1>16 DEF Recognise
  <1>17. ASSUME NEW p \in Page, Work(p) PROVE IInv'
    BY <1>17 DEF Work
  <1>18. CASE UNCHANGED vars
    BY <1>18 DEF vars
  <1> QED
    BY <1>1, <1>2, <1>3, <1>4, <1>5, <1>6, <1>7, <1>8, <1>9, <1>10, <1>11, <1>12, <1>13, <1>14, <1>15, <1>16, <1>17, <1>18 DEF Next

THEOREM Invariance == Spec => []IInv
  BY InitInv, StepInv, PTL DEF Spec

(* Every variable of the recognition keeps its type, and a run keeps to    *)
(* its limits of pages and requests (_request, _page).                     *)
THEOREM TypeCorrect == Spec => []TypeOK
  BY Invariance, PTL DEF IInv

(* The service never accepts two jobs for a page, for any number of runs,  *)
(* pages and attempts, and wherever a run ends (_request, _page).          *)
THEOREM PaidOnce == Spec => []AtMostOneJob
  BY Invariance, PTL DEF IInv

(* The record on disk counts every submission that ever left (_request).   *)
THEOREM CostRecorded == Spec => []PostsRecorded
  BY Invariance, PTL DEF IInv
-----------------------------------------------------------------------------
(* A record that changes is that of the page at work, and the state it is  *)
(* given names a job whenever the state it had did.                        *)
LEMMA StepRemembers ==
  ASSUME IInv, [Next]_vars
  PROVE  \A p \in Page : Named(p) => Named(p)'
  <1> DEFINE Naming == {"submitted", "raw_downloaded", "downloaded"}
  <1> SUFFICES ASSUME NEW p \in Page, disk[p].state \in Naming
               PROVE  disk'[p].state \in Naming
    BY DEF Named
  <1> USE DEF Save
  <1>1. CASE disk' = disk
    BY <1>1
  <1>2. ASSUME NEW new \in Record, disk' = [disk EXCEPT ![page] = new],
               record.state \in Naming => new.state \in Naming,
               record = disk[page]
        PROVE  disk'[p].state \in Naming
    BY <1>2 DEF IInv, TypeOK
  <1>3. record \in Record /\ (pc \notin {"idle", "ready"} => record = disk[page])
    BY DEF IInv, TypeOK, AtWork
  <1>4. CASE ResumeRejected
    <2>1. CASE record.service_code = "busy"
      <3>1. [record EXCEPT !.state = "planned"] \in Record
        BY <1>3 DEF Record
      <3> QED
        BY <1>2, <1>3, <1>4, <2>1, <3>1 DEF ResumeRejected
    <2> QED
      BY <1>1, <1>4, <2>1 DEF ResumeRejected
  <1>5. CASE Prepare
    <2> DEFINE new == [record EXCEPT !.state = "submitting", !.service_code = "none",
                                     !.submissions = @ + 1]
    <2>1. new \in Record
      BY <1>3, Counted
    <2>2. record.state = "planned" /\ record = disk[page] /\ disk' = [disk EXCEPT ![page] = new]
      BY <1>3, <1>5 DEF Prepare, IInv, AtWork
    <2> HIDE DEF new
    <2> QED
      BY <1>2, <2>1, <2>2
  <1>6. CASE ReadCode
    <2>1. CASE answer = "lost"
      BY <1>1, <1>6, <2>1 DEF ReadCode
    <2>2. CASE answer # "lost"
      <3> DEFINE new == [record EXCEPT !.service_code = answer]
      <3>1. new \in Record /\ new.state = record.state
        BY <1>3 DEF Record, IInv, TypeOK
      <3> QED
        BY <1>2, <1>3, <1>6, <2>2, <3>1 DEF ReadCode
    <2> QED
      BY <2>1, <2>2
  <1>7. CASE Submitted
    <2> DEFINE new == [record EXCEPT !.state = "submitted"]
    <2>1. new \in Record /\ new.state = "submitted"
      BY <1>3 DEF Record
    <2> QED
      BY <1>2, <1>3, <1>7, <2>1 DEF Submitted
  <1>8. CASE NotSubmitted
    <2>1. PICK state \in {"rejected", "submission_unknown"} :
             disk' = [disk EXCEPT ![page] = [record EXCEPT !.state = state]]
      BY <1>8 DEF NotSubmitted
    <2>2. [record EXCEPT !.state = state] \in Record
      BY <1>3 DEF Record
    <2>3. record.state = "submitting"
      BY <1>8 DEF NotSubmitted, IInv, AtWork
    <2> QED
      BY <1>2, <1>3, <1>8, <2>1, <2>2, <2>3 DEF NotSubmitted
  <1>9. CASE Poll
    <2>1. PICK code \in {"ok", "busy", "odd"} :
             disk' = [disk EXCEPT ![page] = [record EXCEPT !.service_code = code]]
      BY <1>9 DEF Poll
    <2> DEFINE new == [record EXCEPT !.service_code = code]
    <2>2. new \in Record /\ new.state = record.state
      BY <1>3 DEF Record, Answer
    <2> QED
      BY <1>2, <1>3, <1>9, <2>1, <2>2 DEF Poll
  <1>10. CASE Download
    <2> DEFINE new == [record EXCEPT !.state = "raw_downloaded"]
    <2>1. new \in Record /\ new.state = "raw_downloaded"
      BY <1>3 DEF Record
    <2> QED
      BY <1>2, <1>3, <1>10, <2>1 DEF Download
  <1>11. CASE Assemble
    <2>1. PICK state \in {"downloaded", "submitted"} :
             disk' = [disk EXCEPT ![page] = [record EXCEPT !.state = state]]
      BY <1>11 DEF Assemble
    <2> DEFINE new == [record EXCEPT !.state = state]
    <2>2. new \in Record /\ new.state = state
      BY <1>3 DEF Record
    <2> QED
      BY <1>2, <1>3, <1>11, <2>1, <2>2 DEF Assemble
  <1>12. CASE BeginRun \/ EndRun \/ GiveUp \/ Resume \/ Admit \/ Post \/ FetchAsset
    BY <1>1, <1>12 DEF BeginRun, EndRun, GiveUp, Resume, Admit, Post, FetchAsset
  <1>13. ASSUME NEW q \in Page, Recognise(q) \/ Work(q)
         PROVE  disk'[p].state \in Naming
    BY <1>1, <1>13 DEF Recognise, Work
  <1>14. CASE UNCHANGED vars
    BY <1>1, <1>14 DEF vars
  <1> QED
    BY <1>4, <1>5, <1>6, <1>7, <1>8, <1>9, <1>10, <1>11, <1>12, <1>13, <1>14 DEF Next

(* A record that names a job never forgets it, whatever is polled,          *)
(* downloaded or found not valid and wherever a run ends (_page, _assemble).*)
THEOREM JobsRemembered == Spec => JobRemembered
  <1>1. IInv /\ [Next]_vars => [\A p \in Page : Named(p) => Named(p)']_vars
    BY StepRemembers
  <1> QED
    BY <1>1, Invariance, PTL DEF Spec, JobRemembered
=============================================================================
