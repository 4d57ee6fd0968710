---------------------------- MODULE MutationLive ----------------------------
(***************************************************************************)
(* Progress of the mutation journal once the environment stops failing.    *)
(* Nothing in the code makes faults stop: that they do is the hypothesis   *)
(* of the properties that need it.                                         *)
(***************************************************************************)
EXTENDS Mutation

(* A process finishes what it has begun to undo or to drain and leaves the *)
(* lease when an exception reaches the top, readers leave, somebody uses   *)
(* the knowledge base again and somebody repairs it when it asks for that. *)
Fairness ==
    /\ WF_vars(Settle)
    /\ WF_vars(pc = "raised" /\ ReleaseWrite)
    /\ \A p \in Process : WF_vars(ReleaseRead(p))
    /\ WF_vars(\E p \in Process : AcquireWrite(p))
    /\ WF_vars(marker /\ \E p \in Process : AcquireRepair(p))

LiveSpec == Spec /\ Fairness

-----------------------------------------------------------------------------
(* From some time on, no step fails and no process dies. *)
FaultsStop == <>[][Lease \/ Body \/ Settle]_vars

(* Draining and repair end, whatever goes wrong on the way                 *)
(* (_recover_pending_journals).                                            *)
RecoveryTerminates == ctx \in {"drain", "repair"} ~> ctx \notin {"drain", "repair"}

(* A barrier that ordinary operations do not pass. *)
Barrier ==
    \/ marker
    \/ \E j \in Journal :
         /\ status[j] \in Open
         /\ j # cur
         /\ status[j] = "recovering" \/ ~Valid(j)

(* A journal a killed process left is decided by whoever comes next, unless *)
(* a barrier is in the way (kb_lock drains before it grants the lease).     *)
CrashRecovered ==
    FaultsStop =>
        \A j \in Journal : status[j] \in Open /\ writer = NoProc
                              ~> (status[j] \notin Open \/ Barrier)

(* Repair lifts the barrier, however often the restoration failed before,  *)
(* if every undecided journal still has its backups                        *)
(* (repair_knowledge_base).                                                *)
RepairUnblocks ==
    FaultsStop /\ [](\A j \in Journal : status[j] \in Open => Valid(j)) => []<>~marker
=============================================================================
