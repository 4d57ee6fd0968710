----------------------------- MODULE MCCloudJobs -----------------------------
(* Two pages, of which a run may submit one, and two runs. *)
EXTENDS CloudJobs
=============================================================================
