------------------------------ MODULE CloudJobs ------------------------------
(***************************************************************************)
(* Cloud recognition of the pages of a source (openkb/ocr/cloud.py): every *)
(* accepted job is paid for, so the record of a page on disk, its           *)
(* checkpoint, decides whether a submission may leave at all.               *)
(*                                                                         *)
(* A run is one CloudOcr: one document, under the write lease of its        *)
(* knowledge base, so that there is never a second one.  It may end at any  *)
(* step: killed, cancelled, out of time or of disk space.  The service and  *)
(* the network are not the program's: a submission may or may not reach the *)
(* service, and so may its answer; the service is trusted in one thing, an  *)
(* explicit rejection means that it accepted no job.                        *)
(*                                                                         *)
(* An answer is its code: ok; busy, those that may pass (10010 and 12002);  *)
(* refused, the other documented rejections; odd, everything that proves    *)
(* nothing (another code, a bad status, a malformed body); lost, none.      *)
(***************************************************************************)
EXTENDS Naturals, FiniteSets

CONSTANTS
    Page,
    MaxPages,      \* limits.max_pages
    MaxRequests,   \* limits.max_requests
    MaxAttempts,   \* how often one run submits a page that is not accepted
    MaxRuns        \* bound: how many runs there are

ASSUME CloudAssumption ==
    /\ MaxPages \in Nat /\ MaxRequests \in Nat
    /\ MaxAttempts \in Nat \ {0} /\ MaxRuns \in Nat

Answer == {"ok", "busy", "refused", "odd", "lost"}
Rejection == {"busy", "refused"}

(* The record of a page: its state, the code of its last answer, and how   *)
(* many submissions it was about to make.                                  *)
Record == [state : {"planned", "submitting", "rejected", "submission_unknown",
                    "submitted", "raw_downloaded", "downloaded"},
           service_code : Answer \cup {"none"}, submissions : Nat]

NoRecord == [state |-> "planned", service_code |-> "none", submissions |-> 0]

VARIABLES
    disk,      \* the records as saved
    record,    \* the one in memory, of the page at work
    pc, page, attempt,
    requests, admitted,    \* what the run has used of its limits
    runs,
    answer,    \* to the last submission
    job,       \* the service: how many jobs it accepted for a page
    remote,    \* and how the last of them is
    posts      \* how many submissions left this process for a page

run == <<pc, page, attempt, requests, admitted, runs>>
service == <<job, remote, posts>>
vars == <<disk, record, pc, page, attempt, requests, admitted, runs,
          answer, job, remote, posts>>

TypeOK ==
    /\ disk \in [Page -> Record] /\ record \in Record
    /\ pc \in {"idle", "ready", "dispatch", "admit", "prepare", "post", "reply",
               "classify", "poll", "download", "assemble"}
    /\ page \in Page /\ attempt \in 0..MaxAttempts
    /\ requests \in 0..MaxRequests
    /\ admitted \subseteq Page /\ Cardinality(admitted) <= MaxPages
    /\ runs \in 0..MaxRuns
    /\ answer \in Answer
    /\ job \in [Page -> Nat] /\ posts \in [Page -> Nat]
    /\ remote \in [Page -> {"none", "pending", "done", "failed"}]

Init ==
    /\ disk = [p \in Page |-> NoRecord] /\ record = NoRecord
    /\ pc = "idle" /\ page \in Page /\ attempt = 0
    /\ requests = 0 /\ admitted = {} /\ runs = 0
    /\ answer = "lost"
    /\ job = [p \in Page |-> 0] /\ posts = [p \in Page |-> 0]
    /\ remote = [p \in Page |-> "none"]

(* _save: the record is replaced as one file. *)
Save(new) ==
    /\ record' = new
    /\ disk' = [disk EXCEPT ![page] = new]

(* _request: every request is counted before it leaves. *)
CountRequest ==
    /\ requests < MaxRequests
    /\ requests' = requests + 1

-----------------------------------------------------------------------------
(* A run. *)

BeginRun ==
    /\ pc = "idle" /\ runs < MaxRuns
    /\ pc' = "ready" /\ runs' = runs + 1
    /\ requests' = 0 /\ admitted' = {}
    /\ UNCHANGED <<disk, record, page, attempt, answer, service>>

(* It ends, by itself or not. *)
EndRun ==
    /\ pc # "idle"
    /\ pc' = "idle"
    /\ UNCHANGED <<disk, record, page, attempt, requests, admitted, runs, answer, service>>

(* Out of time, credentials or requests; a job that failed or expired; or  *)
(* a transport error, except while a submission is answered.               *)
GiveUp ==
    /\ pc \in {"dispatch", "admit", "prepare", "poll", "download", "assemble"}
    /\ pc' = "ready"
    /\ UNCHANGED <<disk, record, page, attempt, requests, admitted, runs, answer, service>>

(* page *)
Recognise(p) ==
    /\ pc = "ready"
    /\ page' = p /\ attempt' = 1 /\ pc' = "dispatch"
    /\ record' = disk[p]
    /\ UNCHANGED <<disk, requests, admitted, runs, answer, service>>

(* _page: what the record says is left to do.  A result is used as it is,  *)
(* unless it was assembled in another way than this program does.          *)
Resume ==
    /\ pc = "dispatch" /\ record.state # "rejected"
    /\ pc' \in CASE record.state = "planned" -> {"admit"}
                 [] record.state = "submitted" -> {"poll"}
                 [] record.state = "raw_downloaded" -> {"assemble"}
                 [] record.state = "downloaded" -> {"ready", "assemble"}
                 [] OTHER -> {"ready"}     \* an unknown submission
    /\ UNCHANGED <<disk, record, page, attempt, requests, admitted, runs, answer, service>>

ResumeRejected ==
    /\ pc = "dispatch" /\ record.state = "rejected"
    /\ IF record.service_code = "busy"
       THEN Save([record EXCEPT !.state = "planned"]) /\ pc' = "admit"
       ELSE pc' = "ready" /\ UNCHANGED <<disk, record>>
    /\ UNCHANGED <<page, attempt, requests, admitted, runs, answer, service>>

-----------------------------------------------------------------------------
(* A submission. *)

Admit ==
    /\ pc = "admit"
    /\ page \in admitted \/ Cardinality(admitted) < MaxPages
    /\ admitted' = admitted \cup {page}
    /\ pc' = "prepare"
    /\ UNCHANGED <<disk, record, page, attempt, requests, runs, answer, service>>

(* Mutants: the code of an earlier answer stays in the record; the record  *)
(* is saved when the answer comes.                                         *)
PrepareStale ==
    /\ pc = "prepare" /\ CountRequest
    /\ Save([record EXCEPT !.state = "submitting", !.submissions = @ + 1])
    /\ pc' = "post"
    /\ UNCHANGED <<page, attempt, admitted, runs, answer, service>>

PrepareUnsaved ==
    /\ pc = "prepare" /\ CountRequest
    /\ record' = [record EXCEPT !.state = "submitting", !.service_code = "none",
                                !.submissions = @ + 1]
    /\ pc' = "post"
    /\ UNCHANGED <<disk, page, attempt, admitted, runs, answer, service>>

(* The record says that a submission may have left before one leaves.      *)
Prepare ==
    /\ pc = "prepare" /\ CountRequest
    /\ Save([record EXCEPT !.state = "submitting", !.service_code = "none",
                           !.submissions = @ + 1])
    /\ pc' = "post"
    /\ UNCHANGED <<page, attempt, admitted, runs, answer, service>>

(* The service accepts a job or not, and its answer comes or not. *)
Post ==
    /\ pc = "post"
    /\ posts' = [posts EXCEPT ![page] = @ + 1]
    /\ \E a \in Answer, accepted \in BOOLEAN :
        /\ a = "ok" => accepted
        /\ a \in Rejection => ~accepted
        /\ answer' = a
        /\ job' = [job EXCEPT ![page] = @ + IF accepted THEN 1 ELSE 0]
        /\ remote' = [remote EXCEPT ![page] = IF accepted THEN "pending" ELSE @]
    /\ pc' = "reply"
    /\ UNCHANGED <<disk, record, page, attempt, requests, admitted, runs>>

(* _data: the code is saved as it is read.                                 *)
ReadCode ==
    /\ pc = "reply"
    /\ IF answer = "lost" THEN UNCHANGED <<disk, record>>
       ELSE Save([record EXCEPT !.service_code = answer])
    /\ pc' = "classify"
    /\ UNCHANGED <<page, attempt, requests, admitted, runs, answer, service>>

Submitted ==
    /\ pc = "classify" /\ answer = "ok"
    /\ Save([record EXCEPT !.state = "submitted"])
    /\ pc' = "poll"
    /\ UNCHANGED <<page, attempt, requests, admitted, runs, answer, service>>

(* Only a rejection that was read makes another submission possible; this  *)
(* run makes it if the service is busy, at most MaxAttempts in all.        *)
NotSubmitted ==
    /\ pc = "classify" /\ answer # "ok"
    /\ LET rejected == record.service_code \in Rejection
           retried == record.service_code = "busy" /\ attempt < MaxAttempts
       IN  /\ Save([record EXCEPT !.state = IF rejected THEN "rejected" ELSE "submission_unknown"])
           /\ pc' = IF retried THEN "dispatch" ELSE "ready"
           /\ attempt' = IF retried THEN attempt + 1 ELSE attempt
    /\ UNCHANGED <<page, requests, admitted, runs, answer, service>>

-----------------------------------------------------------------------------
(* The result of a job. *)

(* A busy service is asked again, by the attempts of the page.             *)
Poll ==
    /\ pc = "poll" /\ CountRequest
    /\ \E code \in {"ok", "busy", "odd"} :
        LET retried == code = "busy" /\ attempt < MaxAttempts
        IN  /\ Save([record EXCEPT !.service_code = code])
            /\ attempt' = IF retried THEN attempt + 1 ELSE attempt
            /\ pc' = CASE retried -> "dispatch"
                       [] code = "ok" /\ remote[page] = "done" -> "download"
                       [] code = "ok" /\ remote[page] = "pending" -> "poll"
                       [] OTHER -> "ready"
    /\ UNCHANGED <<page, admitted, runs, answer, service>>

Download ==
    /\ pc = "download" /\ CountRequest
    /\ Save([record EXCEPT !.state = "raw_downloaded"])
    /\ pc' = "assemble"
    /\ UNCHANGED <<page, attempt, admitted, runs, answer, service>>

(* _assemble fetches the images of a result, *)
FetchAsset ==
    /\ pc = "assemble" /\ CountRequest
    /\ UNCHANGED <<disk, record, pc, page, attempt, admitted, runs, answer, service>>

AssembleForgets ==     \* Mutant: a result that is not valid is submitted again
    /\ pc = "assemble"
    /\ \E state \in {"downloaded", "planned"} : Save([record EXCEPT !.state = state])
    /\ pc' = "ready"
    /\ UNCHANGED <<page, attempt, requests, admitted, runs, answer, service>>

(* and saves it, or has it downloaded again if it is not valid.            *)
Assemble ==
    /\ pc = "assemble"
    /\ \E state \in {"downloaded", "submitted"} : Save([record EXCEPT !.state = state])
    /\ pc' = "ready"
    /\ UNCHANGED <<page, attempt, requests, admitted, runs, answer, service>>

(* The service works. *)
Work(p) ==
    /\ remote[p] = "pending"
    /\ \E s \in {"done", "failed"} : remote' = [remote EXCEPT ![p] = s]
    /\ UNCHANGED <<disk, record, run, answer, job, posts>>

Next ==
    \/ BeginRun \/ EndRun \/ GiveUp
    \/ \E p \in Page : Recognise(p) \/ Work(p)
    \/ Resume \/ ResumeRejected
    \/ Admit \/ Prepare \/ Post \/ ReadCode \/ Submitted \/ NotSubmitted
    \/ Poll \/ Download \/ FetchAsset \/ Assemble

Spec == Init /\ [][Next]_vars

-----------------------------------------------------------------------------
(* Properties. *)

(* A page is paid for once: whatever is lost, killed or repeated, the      *)
(* service never accepts a second job for it (_request, _page).            *)
AtMostOneJob ==
    \A p \in Page : job[p] <= 1

(* What was spent is on disk before it is spent: no submission leaves that *)
(* the record does not already count, so cost is never underreported.      *)
PostsRecorded ==
    \A p \in Page : posts[p] <= disk[p].submissions

Named(p) == disk[p].state \in {"submitted", "raw_downloaded", "downloaded"}

(* Once the record names a job, it never forgets it: every later run polls *)
(* or uses it, and none submits the page again (_assemble, _page).         *)
JobRemembered ==
    [][\A p \in Page : Named(p) => Named(p)']_vars
=============================================================================
