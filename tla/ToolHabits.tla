----------------------------- MODULE ToolHabits -----------------------------
(***************************************************************************)
(* The habits of the servers' handlers, on which the proofs about          *)
(* ToolServer rest.  Every handler guards its writes, and every one but    *)
(* delete_cluster of VKS checks its arguments first.  Every cached list is *)
(* dropped by whatever changes what it shows, but for those in Left, which *)
(* outlive changes they show:                                              *)
(*   - vpc_handler.py does not drop list_vpcs, nor do the handlers of      *)
(*     servers drop list_placement_groups;                                 *)
(*   - vBackup's destinations and policies keep counting the servers that  *)
(*     use them, and its servers and databases keep the name and schedule  *)
(*     of a policy or destination that was changed;                        *)
(*   - VKS remembers where a cluster is when the cluster was deleted.      *)
(* vDB and vMonitor cache nothing that they change.                        *)
(***************************************************************************)
Vserver == INSTANCE VserverTools
Vbackup == INSTANCE VbackupTools
Vdb == INSTANCE VdbTools
Vks == INSTANCE VksTools
Vmonitor == INSTANCE VmonitorTools

Left == {"list_vpcs", "list_placement_groups",
         "list_backup_destinations", "list_backup_policies",
         "list_backup_servers", "list_backup_databases"}

ASSUME VserverHabits == \A list \in DOMAIN Vserver!Shows : \A plan \in Vserver!Views[list] :
    /\ Vserver!Guarded(plan)
    /\ Vserver!CheckedFirst(plan)
    /\ Vserver!Maintains(plan) \/ list \in Left

ASSUME VbackupHabits == \A list \in DOMAIN Vbackup!Shows : \A plan \in Vbackup!Views[list] :
    /\ Vbackup!Guarded(plan)
    /\ Vbackup!CheckedFirst(plan)
    /\ Vbackup!Maintains(plan) \/ list \in Left

ASSUME VdbHabits == \A list \in DOMAIN Vdb!Shows : \A plan \in Vdb!Views[list] :
    Vdb!Guarded(plan) /\ Vdb!CheckedFirst(plan) /\ Vdb!Maintains(plan)

ASSUME VksHabits == \A list \in DOMAIN Vks!Shows : \A plan \in Vks!Views[list] :
    /\ Vks!Guarded(plan)
    /\ Vks!CheckedFirst(plan) <=> plan # Vks!LateChecked[list]
    /\ Vks!Maintains(plan) \/ list = "cluster_locate"

ASSUME VmonitorHabits == \A list \in DOMAIN Vmonitor!Shows : \A plan \in Vmonitor!Views[list] :
    Vmonitor!Guarded(plan) /\ Vmonitor!CheckedFirst(plan) /\ Vmonitor!Maintains(plan)

=============================================================================
