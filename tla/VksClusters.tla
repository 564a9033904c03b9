----------------------------- MODULE VksClusters ----------------------------
(***************************************************************************)
(* The deletion of a VKS cluster.                                          *)
(*                                                                         *)
(* The API deletes no cluster that has node groups.  delete_cluster reads  *)
(* them first, to answer with what must go before; when that read fails it *)
(* sends the request all the same and leaves the refusal to the API.  The  *)
(* dry run and list_nodegroups read the same collection.  Meanwhile node   *)
(* groups are created and deleted by others, other calls of this server    *)
(* included, and another call may delete the cluster.                      *)
(*                                                                         *)
(* The collection of PagedList is the node groups of one cluster; served   *)
(* by vServer it stands for any list of that product or of vBackup.        *)
(***************************************************************************)
EXTENDS PagedList

VARIABLES
    cluster,    \* "up" or "gone"
    calls       \* task -> its call

vars == <<service, items, gone, reads, cluster, calls>>
listVars == <<service, items, gone, reads>>

(* A call: its tool, what it awaits, whether the API has carried out its    *)
(* DELETE, and what it answers.                                             *)
Call == [tool : {"none", "list_items", "list_nodegroups", "delete_cluster_dryrun", "delete_cluster"},
         pc : {"idle", "lookup", "listing", "name", "deleting"},
         done : BOOLEAN,
         answer : {"none", "listed", "preview", "refused", "deleted", "error"}]

NoCall == [tool |-> "none", pc |-> "idle", done |-> FALSE, answer |-> "none"]

Init ==
    /\ service \in {"vks", "vserver"}
    /\ items = <<>>
    /\ gone = {}
    /\ reads = [t \in Tasks |-> Off]
    /\ cluster = "up"
    /\ calls = [t \in Tasks |-> NoCall]

-----------------------------------------------------------------------------
Begins(t, tool, pc) ==
    /\ calls[t].pc = "idle"
    /\ calls' = [calls EXCEPT ![t] = [NoCall EXCEPT !.tool = tool, !.pc = pc]]
    /\ reads' = [reads EXCEPT ![t] = IF pc = "listing" THEN Opened(t) ELSE Off]
    /\ UNCHANGED <<service, items, gone, cluster>>

Answers(t, answer) == calls' = [calls EXCEPT ![t].pc = "idle", ![t].answer = answer]
Awaits(t, pc) == calls' = [calls EXCEPT ![t].pc = pc]

ListItems(t) == service = "vserver" /\ Begins(t, "list_items", "listing")
ListNodegroups(t) == service = "vks" /\ Begins(t, "list_nodegroups", "listing")
DeleteClusterDryrun(t) == service = "vks" /\ Begins(t, "delete_cluster_dryrun", "lookup")
DeleteCluster(t) == service = "vks" /\ Begins(t, "delete_cluster", "listing")

(* The dry run reads the cluster before its node groups.                    *)
ClusterFound(t) ==
    /\ calls[t].pc = "lookup"
    /\ cluster = "up"
    /\ Awaits(t, "listing")
    /\ reads' = [reads EXCEPT ![t] = Opened(t)]
    /\ UNCHANGED <<service, items, gone, cluster>>

LookupRaises(t) ==
    /\ calls[t].pc = "lookup"
    /\ Answers(t, "error")
    /\ UNCHANGED <<listVars, cluster>>

-----------------------------------------------------------------------------
(* What a tool does with the complete listing.                              *)
AfterListing(t) ==
    CASE calls[t].tool = "list_items"            -> Answers(t, "listed")
      [] calls[t].tool = "list_nodegroups"       -> Awaits(t, "name")
      [] calls[t].tool = "delete_cluster_dryrun" -> Answers(t, "preview")
      [] calls[t].tool = "delete_cluster"        ->
            IF reads'[t].collected = <<>> THEN Awaits(t, "deleting") ELSE Answers(t, "refused")

ListingAnswers(t) ==
    /\ calls[t].pc = "listing"
    /\ cluster = "up"
    /\ ReadAnswer(t)
    /\ IF reads'[t].stage = "done" THEN AfterListing(t) ELSE UNCHANGED calls
    /\ UNCHANGED cluster

(* A read of the listing fails, as it must once the cluster is gone.  To    *)
(* delete_cluster a failed check is no obstacle.                            *)
ListingRaises(t) ==
    /\ calls[t].pc = "listing"
    /\ ReadFails(t)
    /\ IF calls[t].tool = "delete_cluster" THEN Awaits(t, "deleting") ELSE Answers(t, "error")
    /\ UNCHANGED cluster

\* list_nodegroups asks for the cluster's name, and does without if it must
NameAnswers(t) ==
    /\ calls[t].pc = "name"
    /\ Answers(t, "listed")
    /\ UNCHANGED <<listVars, cluster>>

-----------------------------------------------------------------------------
(* The API carries out a DELETE, if the cluster is there and empty.         *)
ApiDeletes(t) ==
    /\ calls[t].pc = "deleting"
    /\ cluster = "up"
    /\ items = <<>>
    /\ cluster' = "gone"
    /\ calls' = [calls EXCEPT ![t].done = TRUE]
    /\ UNCHANGED listVars

DeleteAnswers(t) ==
    /\ calls[t].pc = "deleting"
    /\ calls[t].done
    /\ Answers(t, "deleted")
    /\ UNCHANGED <<listVars, cluster>>

\* a mutated form of DeleteRaises below: a cluster that is gone counts as deleted
DeleteRaisesUnlessGone(t) ==
    /\ calls[t].pc = "deleting"
    /\ Answers(t, IF cluster = "gone" THEN "deleted" ELSE "error")
    /\ UNCHANGED <<listVars, cluster>>

(* The API refuses, or its answer is lost, whatever it did.                 *)
DeleteRaises(t) ==
    /\ calls[t].pc = "deleting"
    /\ Answers(t, "error")
    /\ UNCHANGED <<listVars, cluster>>

-----------------------------------------------------------------------------
(* A request of create_nodegroup or delete_nodegroup is carried out, by     *)
(* this server or another; a deleted group leaves the list when the         *)
(* platform is done with it.                                                *)
NodegroupCreated(i, n) == cluster = "up" /\ Insert(i, n) /\ UNCHANGED <<cluster, calls>>
NodegroupDeleted(n) == Delete(n) /\ UNCHANGED <<cluster, calls>>

Starts(t) == ListItems(t) \/ ListNodegroups(t) \/ DeleteClusterDryrun(t) \/ DeleteCluster(t)

Next ==
    \/ \E t \in Tasks : Starts(t)
    \/ \E t \in Tasks : ClusterFound(t) \/ LookupRaises(t)
    \/ \E t \in Tasks : ListingAnswers(t) \/ ListingRaises(t) \/ NameAnswers(t)
    \/ \E t \in Tasks : ApiDeletes(t) \/ DeleteAnswers(t) \/ DeleteRaises(t)
    \/ \E i \in Items : \E n \in 1 .. Len(items) + 1 : NodegroupCreated(i, n)
    \/ \E n \in 1 .. Len(items) : NodegroupDeleted(n)

Spec == Init /\ [][Next]_vars

-----------------------------------------------------------------------------
(* Types; and a listing comes to an end: it never asks for more than one    *)
(* page beyond what there could be.                                         *)
TypeOK ==
    /\ ListTypeOK
    /\ cluster \in {"up", "gone"}
    /\ calls \in [Tasks -> Call]
    /\ \A t \in Tasks : reads[t].page <= Cardinality(Items) + 1

(* The answers of delete_cluster are true: a cluster is reported deleted by *)
(* the one call that deleted it; a refusal names node groups, was decided   *)
(* on a listing that came to its end, and that call has deleted nothing.    *)
AnswersTrue ==
    /\ \A t, u \in Tasks : calls[t].answer = "deleted" /\ calls[u].answer = "deleted" => t = u
    /\ \A t \in Tasks :
        /\ calls[t].answer = "deleted" => cluster = "gone" /\ calls[t].done
        /\ calls[t].answer = "refused" => ~calls[t].done /\ reads[t].collected # <<>>

=============================================================================
