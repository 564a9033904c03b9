------------------------------ MODULE K8sTools ------------------------------
(***************************************************************************)
(* The kubernetes tools of the VKS server that change a cluster:           *)
(* manage_k8s_resource and apply_yaml (k8s_handler.py), the calls they make*)
(* to the cluster's API (k8s_apis.py), and the cache of clients they go    *)
(* through (k8s_client_cache.py).                                          *)
(*                                                                         *)
(* Both tools are registered in every mode and check allow_write when they *)
(* are called.  The calls to the cluster run in worker threads, so calls   *)
(* interleave between any two requests, and with changes made by others.   *)
(* An object is the task that wrote it last: what is written is left out.  *)
(***************************************************************************)
EXTENDS Naturals, Sequences

CONSTANTS
    Tasks,
    Identities,
    Clusters,
    Names,      \* the objects a manifest may speak of
    Unnamed,    \* a document without kind, apiVersion or name
    MaxDocs,    \* bound: the documents of a manifest
    Absent,     \* the object does not exist
    Outside,    \* the object was written by someone else
    None

Manifests == UNION {[1..n -> Names \cup {Unnamed}] : n \in 0..MaxDocs}
Operations == {"create", "replace", "patch", "delete", "read"}
Client == [owner : Identities, cluster : Clusters]

\* a tool call: docs is the manifest of apply_yaml, <<name>> for manage_k8s_resource
Call == [op : Operations \cup {"apply"}, who : Identities, cluster : Clusters,
         force : BOOLEAN, docs : Manifests]

ASSUME K8sAssumption ==
    /\ None \notin Client \cup Call
    /\ Absent \notin Tasks /\ Outside \notin Tasks /\ Absent # Outside
    /\ Unnamed \notin Names
    /\ MaxDocs \in Nat

VARIABLES
    allowWrite, \* --allow-write, fixed when the server starts
    clients,    \* clients[i, c]: K8sClientCache._cache, None when not there
    objects,    \* objects[c][n]: the cluster
    pc,         \* pc[t]: "idle", "building", "work", "write", "ok" or "error"
    call,       \* call[t]: the arguments
    client,     \* client[t]: the client t works with
    next,       \* next[t]: the document apply_from_yaml is at
    exists,     \* exists[t]: what the lookup said of that document
    counts,     \* counts[t]: created_count + updated_count
    wrote       \* wrote[t]: the documents the cluster has taken from t

vars == <<allowWrite, clients, objects, pc, call, client, next, exists, counts, wrote>>
taskVars == <<pc, call, client, next, exists, counts, wrote>>

Init ==
    /\ allowWrite \in BOOLEAN
    /\ clients = [k \in Identities \X Clusters |-> None]
    /\ objects \in [Clusters -> [Names -> {Absent, Outside}]]
    /\ pc = [t \in Tasks |-> "idle"]
    /\ call = [t \in Tasks |-> None]
    /\ client = [t \in Tasks |-> None]
    /\ next = [t \in Tasks |-> 1]
    /\ exists = [t \in Tasks |-> FALSE]
    /\ counts = [t \in Tasks |-> 0]
    /\ wrote = [t \in Tasks |-> {}]

-----------------------------------------------------------------------------
Goto(t, label) == pc' = [pc EXCEPT ![t] = label]

\* the clients cached per cluster only
KeyWithoutIdentity(i, c) == <<CHOOSE j \in Identities : TRUE, c>>

(* The key of get_client: identity and cluster. *)
CacheKey(i, c) == <<i, c>>

\* the gate of apply_yaml forgotten, that of manage_k8s_resource kept
PermittedManageOnly(args) == args.op \in {"read", "apply"} \/ allowWrite

(* The call-time gate of both tools. *)
Permitted(args) == args.op = "read" \/ allowWrite

(* A refused call ends before it asks for a client. *)
Refuse(t, args) ==
    /\ pc[t] = "idle" /\ ~Permitted(args)
    /\ call' = [call EXCEPT ![t] = args]
    /\ Goto(t, "error")
    /\ UNCHANGED <<allowWrite, clients, objects, client, next, exists, counts, wrote>>

(* get_client, the cached one. *)
EnterCached(t, args) ==
    LET k == CacheKey(args.who, args.cluster) IN
    /\ pc[t] = "idle" /\ Permitted(args)
    /\ clients[k] # None
    /\ call' = [call EXCEPT ![t] = args]
    /\ client' = [client EXCEPT ![t] = clients[k]]
    /\ Goto(t, "work")
    /\ UNCHANGED <<allowWrite, clients, objects, next, exists, counts, wrote>>

(* get_client, a miss: the kubeconfig is fetched, probed and loaded, each an *)
(* await; nothing tells other calls that one is on its way.                 *)
EnterMissing(t, args) ==
    /\ pc[t] = "idle" /\ Permitted(args)
    /\ clients[CacheKey(args.who, args.cluster)] = None
    /\ call' = [call EXCEPT ![t] = args]
    /\ Goto(t, "building")
    /\ UNCHANGED <<allowWrite, clients, objects, client, next, exists, counts, wrote>>

\* the cluster's name cached in place of its client
ClientBuiltNameCached(t) ==
    LET built == [owner |-> call[t].who, cluster |-> call[t].cluster] IN
    /\ pc[t] = "building"
    /\ clients' = [clients EXCEPT ![CacheKey(built.owner, built.cluster)] = built.cluster]
    /\ client' = [client EXCEPT ![t] = built]
    /\ Goto(t, "work")
    /\ UNCHANGED <<allowWrite, objects, call, next, exists, counts, wrote>>

(* The kubeconfig VKS gives to the caller's token is the caller's own. *)
ClientBuilt(t) ==
    LET built == [owner |-> call[t].who, cluster |-> call[t].cluster] IN
    /\ pc[t] = "building"
    /\ clients' = [clients EXCEPT ![CacheKey(call[t].who, call[t].cluster)] = built]
    /\ client' = [client EXCEPT ![t] = built]
    /\ Goto(t, "work")
    /\ UNCHANGED <<allowWrite, objects, call, next, exists, counts, wrote>>

(* No kubeconfig yet, endpoint unreachable, or the VKS call failed. *)
ClientFails(t) ==
    /\ pc[t] = "building"
    /\ Goto(t, "error")
    /\ UNCHANGED <<allowWrite, clients, objects, call, client, next, exists, counts, wrote>>

(* TTL or maxsize. *)
Expire(k) ==
    /\ clients[k] # None
    /\ clients' = [clients EXCEPT ![k] = None]
    /\ UNCHANGED <<allowWrite, objects, taskVars>>

-----------------------------------------------------------------------------
(* A request of task t that changes object n, or removes it. *)
Object(t, n) == objects[client[t].cluster][n]
Put(t, n, v) == objects' = [objects EXCEPT ![client[t].cluster][n] = v]

(* manage_resource with one request.  Its answer may be lost after the      *)
(* cluster took it: the tool then reports an error.                         *)
Manage(t) ==
    LET n  == call[t].docs[1]
        op == call[t].op IN
    /\ pc[t] = "work" /\ op # "apply"
    /\ \/ /\ n # Unnamed
          /\ (Object(t, n) = Absent) <=> (op = "create")
          /\ IF op = "read" THEN UNCHANGED objects
             ELSE Put(t, n, IF op = "delete" THEN Absent ELSE t)
          /\ Goto(t, "ok") \/ Goto(t, "error")
       \/ Goto(t, "error") /\ UNCHANGED objects
    /\ UNCHANGED <<allowWrite, clients, call, client, next, exists, counts, wrote>>

\* a document that is not one is passed over
SkipBadDocument(t) ==
    /\ pc[t] = "work" /\ call[t].op = "apply"
    /\ next[t] <= Len(call[t].docs) /\ call[t].docs[next[t]] = Unnamed
    /\ next' = [next EXCEPT ![t] = @ + 1]
    /\ UNCHANGED <<allowWrite, clients, objects, pc, call, client, exists, counts, wrote>>

(* apply_from_yaml, head of the loop: a document that is not one ends the   *)
(* call, whatever was applied before; otherwise look the object up, and     *)
(* take any failure of the lookup for absence.                              *)
BadDocument(t) ==
    /\ pc[t] = "work" /\ call[t].op = "apply"
    /\ next[t] <= Len(call[t].docs) /\ call[t].docs[next[t]] = Unnamed
    /\ Goto(t, "error")
    /\ UNCHANGED <<allowWrite, clients, objects, call, client, next, exists, counts, wrote>>

Lookup(t) ==
    /\ pc[t] = "work" /\ call[t].op = "apply"
    /\ next[t] <= Len(call[t].docs) /\ call[t].docs[next[t]] # Unnamed
    /\ \E found \in BOOLEAN :
         /\ found => Object(t, call[t].docs[next[t]]) # Absent
         /\ exists' = [exists EXCEPT ![t] = found]
    /\ Goto(t, "write")
    /\ UNCHANGED <<allowWrite, clients, objects, call, client, next, counts, wrote>>

(* The document is taken: patched if the lookup found it and force is set,  *)
(* created otherwise.  By now the object may have come or gone.             *)
Patches(t) == exists[t] /\ call[t].force

\* create becomes replace when the object turns out to be there
AcceptedAsUpsert(t) == Patches(t) => Object(t, call[t].docs[next[t]]) # Absent

(* What the cluster takes: a patch of what is there, a create of what is not. *)
Accepted(t) == Patches(t) <=> Object(t, call[t].docs[next[t]]) # Absent

Apply(t) ==
    /\ pc[t] = "write" /\ Accepted(t)
    /\ Put(t, call[t].docs[next[t]], t)
    /\ wrote' = [wrote EXCEPT ![t] = @ \cup {next[t]}]
    /\ \/ /\ next' = [next EXCEPT ![t] = @ + 1]
          /\ counts' = [counts EXCEPT ![t] = @ + 1]
          /\ Goto(t, "work")
       \/ Goto(t, "error") /\ UNCHANGED <<next, counts>>   \* the answer is lost
    /\ UNCHANGED <<allowWrite, clients, call, client, exists>>

(* Refused (409, 404, forbidden) or never arrived: the rest is not applied. *)
ApplyFails(t) ==
    /\ pc[t] = "write"
    /\ Goto(t, "error")
    /\ UNCHANGED <<allowWrite, clients, objects, call, client, next, exists, counts, wrote>>

ApplyDone(t) ==
    /\ pc[t] = "work" /\ call[t].op = "apply" /\ next[t] > Len(call[t].docs)
    /\ Goto(t, "ok")
    /\ UNCHANGED <<allowWrite, clients, objects, call, client, next, exists, counts, wrote>>

(* Controllers, kubectl, other servers. *)
OutsideChange ==
    /\ \E c \in Clusters, n \in Names, v \in {Absent, Outside} :
         objects' = [objects EXCEPT ![c][n] = v]
    /\ UNCHANGED <<allowWrite, clients, taskVars>>

CallTool(t) == \E args \in Call :
    /\ args.op # "apply" => Len(args.docs) = 1 /\ ~args.force
    /\ Refuse(t, args) \/ EnterCached(t, args) \/ EnterMissing(t, args)

ClusterStep(t) ==
    \/ Manage(t)
    \/ BadDocument(t) \/ Lookup(t) \/ Apply(t) \/ ApplyFails(t) \/ ApplyDone(t)

Next ==
    \/ \E t \in Tasks : CallTool(t) \/ ClientBuilt(t) \/ ClientFails(t) \/ ClusterStep(t)
    \/ \E k \in Identities \X Clusters : Expire(k)
    \/ OutsideChange

Spec == Init /\ [][Next]_vars

-----------------------------------------------------------------------------
(* Types. *)
TypeOK ==
    /\ allowWrite \in BOOLEAN
    /\ clients \in [Identities \X Clusters -> Client \cup {None}]
    /\ objects \in [Clusters -> [Names -> Tasks \cup {Absent, Outside}]]
    /\ pc \in [Tasks -> {"idle", "building", "work", "write", "ok", "error"}]
    /\ call \in [Tasks -> Call \cup {None}]
    /\ client \in [Tasks -> Client \cup {None}]
    /\ next \in [Tasks -> Nat] /\ counts \in [Tasks -> Nat]
    /\ exists \in [Tasks -> BOOLEAN]
    /\ wrote \in [Tasks -> SUBSET Nat]

(* "a client built from user A's kubeconfig must never be served to user B" *)
(* (k8s_client_cache.py 69-70), nor one of another cluster, whichever calls *)
(* built, replaced and found clients in the meantime.                       *)
ClientIsolation == \A t \in Tasks : client[t] # None =>
    client[t] = [owner |-> call[t].who, cluster |-> call[t].cluster]

(* Without --allow-write no sequence of tool calls changes a cluster.  Both *)
(* tools are registered in every mode, so only the calls themselves check.  *)
ReadOnlyServer == [][OutsideChange \/ allowWrite \/ UNCHANGED objects]_vars

(* "Set to false to only create new resources" (k8s_handler.py 667): without *)
(* force a manifest never writes over an object, even one that came into    *)
(* being between the lookup and the create, or one whose lookup failed.     *)
NoForceNeverOverwrites ==
    [][\A t \in Tasks, c \in Clusters, n \in Names :
         /\ objects[c][n] \notin {Absent, t} /\ objects'[c][n] = t
         /\ call[t].op = "apply"
         => call[t].force]_vars

(* A manifest is applied in order and without gaps: at any time, and after  *)
(* an error, the cluster has taken the documents before the current one,    *)
(* and perhaps that one; on success it has taken all, and the counts the    *)
(* tool reports add up to them.                                             *)
AppliedInOrder == \A t \in Tasks :
    /\ \/ wrote[t] = 1 .. next[t] - 1
       \/ pc[t] = "error" /\ wrote[t] = 1 .. next[t]
    /\ counts[t] = next[t] - 1
    /\ pc[t] = "ok" /\ call[t].op = "apply" => wrote[t] = 1 .. Len(call[t].docs)

=============================================================================
