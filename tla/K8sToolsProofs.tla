--------------------------- MODULE K8sToolsProofs ---------------------------
(***************************************************************************)
(* What the kubernetes tools guarantee for any number of calls, callers,   *)
(* clusters and objects, and manifests of any length.                      *)
(***************************************************************************)
EXTENDS K8sTools, TLAPS

Keys == Identities \X Clusters
Busy(t) == pc[t] \in {"building", "work", "write"}

(* What a call under way has got hold of: its arguments passed the gate; it *)
(* has no client before it is given one, and then its own; it writes        *)
(* documents only as apply_yaml.                                            *)
CallSound(t) ==
    /\ pc[t] # "idle" => call[t] \in Call
    /\ pc[t] \in {"idle", "building"} => client[t] = None
    /\ Busy(t) => Permitted(call[t])
    /\ pc[t] \in {"work", "write"} => client[t] # None
    /\ Busy(t) /\ call[t].op # "apply" => 1 \in DOMAIN call[t].docs
    /\ pc[t] = "write" => /\ call[t].op = "apply"
                          /\ next[t] \in DOMAIN call[t].docs
                          /\ call[t].docs[next[t]] \in Names
    /\ next[t] >= 1
    /\ client[t] # None => client[t] = [owner |-> call[t].who, cluster |-> call[t].cluster]

(* Every cached client is the one its key names. *)
CacheSound == \A i \in Identities, c \in Clusters :
    clients[<<i, c>>] # None => clients[<<i, c>>] = [owner |-> i, cluster |-> c]

K8sInv == TypeOK /\ CacheSound /\ \A t \in Tasks : CallSound(t)

-----------------------------------------------------------------------------
(* A manifest is a function on 1 .. Len. *)
LEMMA ManifestDomain ==
  ASSUME NEW m \in Manifests
  PROVE  /\ Len(m) \in Nat
         /\ DOMAIN m = 1 .. Len(m)
         /\ \A n \in 1 .. Len(m) : m[n] \in Names \cup {Unnamed}
<1>1. PICK n \in 0..MaxDocs : m \in [1..n -> Names \cup {Unnamed}]
  BY DEF Manifests
<1>2. n \in Nat
  BY <1>1, K8sAssumption, SMT
<1>3. m \in Seq(Names \cup {Unnamed}) /\ Len(m) = n
  BY <1>1, <1>2, SMT
<1> QED
  BY <1>1, <1>2, <1>3, SMT

(* A call under way works on its own cluster. *)
LEMMA OwnClient ==
  ASSUME K8sInv, NEW t \in Tasks, pc[t] \in {"work", "write"}
  PROVE  /\ call[t] \in Call
         /\ client[t] = [owner |-> call[t].who, cluster |-> call[t].cluster]
         /\ client[t].cluster \in Clusters
         /\ call[t].docs \in Manifests
<1>1. CallSound(t)
  BY DEF K8sInv
<1>2. call[t] \in Call /\ client[t] = [owner |-> call[t].who, cluster |-> call[t].cluster]
  BY <1>1 DEF CallSound
<1> QED
  BY <1>2 DEF Call

(* The invariant holds when the server starts. *)
LEMMA K8sInitInv == Init => K8sInv
  BY K8sAssumption, SMT DEF Init, K8sInv, TypeOK, CacheSound, CallSound, Busy

-----------------------------------------------------------------------------
(* A call that changes only its own locals keeps the rest of the invariant. *)
LEMMA OthersKept ==
  ASSUME K8sInv, NEW t \in Tasks,
         \A u \in Tasks \ {t} : /\ pc'[u] = pc[u] /\ call'[u] = call[u]
                                /\ client'[u] = client[u] /\ next'[u] = next[u],
         UNCHANGED allowWrite, CallSound(t)'
  PROVE  \A u \in Tasks : CallSound(u)'
<1> SUFFICES ASSUME NEW u \in Tasks, u # t PROVE CallSound(u)'
  OBVIOUS
<1>1. CallSound(u)
  BY DEF K8sInv
<1>2. pc'[u] = pc[u] /\ call'[u] = call[u] /\ client'[u] = client[u] /\ next'[u] = next[u]
  OBVIOUS
<1> QED
  BY <1>1, <1>2 DEF CallSound, Busy, Permitted

(* The steps into a tool and to a client. *)
LEMMA EnterStep ==
  ASSUME K8sInv, NEW t \in Tasks, CallTool(t) \/ ClientBuilt(t) \/ ClientFails(t)
  PROVE  K8sInv'
<1> USE K8sAssumption
<1>t. TypeOK /\ CallSound(t) /\ CacheSound
  BY DEF K8sInv
<1>1. ASSUME NEW args \in Call, args.op # "apply" => Len(args.docs) = 1, Refuse(t, args)
      PROVE  K8sInv'
  <2>1. TypeOK'
    BY <1>t, <1>1, SMT DEF TypeOK, Refuse, Goto
  <2>2. CallSound(t)'
    BY <1>t, <1>1, SMT DEF TypeOK, Refuse, Goto, CallSound, Busy
  <2>3. \A u \in Tasks : CallSound(u)'
    <3>1. \A u \in Tasks \ {t} : /\ pc'[u] = pc[u] /\ call'[u] = call[u]
                                 /\ client'[u] = client[u] /\ next'[u] = next[u]
      BY <1>t, <1>1, SMT DEF TypeOK, Refuse, Goto
    <3>2. UNCHANGED allowWrite
      BY <1>1 DEF Refuse
    <3> QED
      BY <2>2, <3>1, <3>2, OthersKept
  <2> QED
    BY <1>t, <1>1, <2>1, <2>3 DEF K8sInv, CacheSound, Refuse
<1>2. ASSUME NEW args \in Call, args.op # "apply" => Len(args.docs) = 1, EnterCached(t, args)
      PROVE  K8sInv'
  <2>0. args.who \in Identities /\ args.cluster \in Clusters /\ args.docs \in Manifests
    BY DEF Call
  <2>k. /\ clients[<<args.who, args.cluster>>] # None
        /\ clients[<<args.who, args.cluster>>] = [owner |-> args.who, cluster |-> args.cluster]
    BY <1>t, <1>2, <2>0 DEF EnterCached, CacheKey, CacheSound
  <2>l. clients[<<args.who, args.cluster>>] \in Client
    BY <2>0, <2>k, SMT DEF Client
  <2>d. args.op # "apply" => 1 \in DOMAIN args.docs
    BY <1>2, <2>0, ManifestDomain, SMT
  <2>1. TypeOK'
    BY <1>t, <1>2, <2>l, SMT DEF TypeOK, EnterCached, Goto, CacheKey
  <2>2. CallSound(t)'
    <3>1. /\ pc'[t] = "work" /\ call'[t] = args /\ allowWrite' = allowWrite
          /\ client'[t] = clients[<<args.who, args.cluster>>] /\ Permitted(args)
      BY <1>t, <1>2, SMT DEF TypeOK, EnterCached, Goto, CacheKey
    <3>2. next'[t] >= 1
      BY <1>t, <1>2 DEF EnterCached, CallSound
    <3> QED
      BY <2>d, <2>k, <3>1, <3>2 DEF CallSound, Busy, Permitted
  <2>3. \A u \in Tasks : CallSound(u)'
    <3>1. \A u \in Tasks \ {t} : /\ pc'[u] = pc[u] /\ call'[u] = call[u]
                                 /\ client'[u] = client[u] /\ next'[u] = next[u]
      BY <1>t, <1>2, SMT DEF TypeOK, EnterCached, Goto
    <3>2. UNCHANGED allowWrite
      BY <1>2 DEF EnterCached
    <3> QED
      BY <2>2, <3>1, <3>2, OthersKept
  <2> QED
    BY <1>t, <1>2, <2>1, <2>3 DEF K8sInv, CacheSound, EnterCached
<1>3. ASSUME NEW args \in Call, args.op # "apply" => Len(args.docs) = 1, EnterMissing(t, args)
      PROVE  K8sInv'
  <2>1. TypeOK'
    BY <1>t, <1>3, SMT DEF TypeOK, EnterMissing, Goto
  <2>2. CallSound(t)'
    <3>1. /\ pc'[t] = "building" /\ call'[t] = args /\ allowWrite' = allowWrite
          /\ client'[t] = client[t] /\ Permitted(args) /\ client[t] = None
      BY <1>t, <1>3, SMT DEF TypeOK, EnterMissing, Goto, CallSound
    <3>2. args.op # "apply" => 1 \in DOMAIN args.docs
      <4>1. args.docs \in Manifests
        BY DEF Call
      <4> QED
        BY <1>3, <4>1, ManifestDomain, SMT
    <3>3. next'[t] >= 1
      BY <1>t, <1>3 DEF EnterMissing, CallSound
    <3> QED
      BY <3>1, <3>2, <3>3 DEF CallSound, Busy, Permitted
  <2>3. \A u \in Tasks : CallSound(u)'
    <3>1. \A u \in Tasks \ {t} : /\ pc'[u] = pc[u] /\ call'[u] = call[u]
                                 /\ client'[u] = client[u] /\ next'[u] = next[u]
      BY <1>t, <1>3, SMT DEF TypeOK, EnterMissing, Goto
    <3>2. UNCHANGED allowWrite
      BY <1>3 DEF EnterMissing
    <3> QED
      BY <2>2, <3>1, <3>2, OthersKept
  <2> QED
    BY <1>t, <1>3, <2>1, <2>3 DEF K8sInv, CacheSound, EnterMissing
<1>4. CASE ClientBuilt(t)
  <2>0. call[t] \in Call /\ call[t].who \in Identities /\ call[t].cluster \in Clusters
    BY <1>t, <1>4 DEF ClientBuilt, CallSound, Call
  <2> DEFINE built == [owner |-> call[t].who, cluster |-> call[t].cluster]
  <2>b. built \in Client /\ built # None
    BY <2>0, SMT DEF Client
  <2>1. TypeOK'
    BY <1>t, <1>4, <2>0, <2>b, SMT DEF TypeOK, ClientBuilt, Goto, CacheKey
  <2>2. CallSound(t)'
    <3>1. /\ pc'[t] = "work" /\ call'[t] = call[t] /\ allowWrite' = allowWrite
          /\ client'[t] = built /\ pc[t] = "building"
      BY <1>t, <1>4, SMT DEF TypeOK, ClientBuilt, Goto
    <3>2. Permitted(call[t])
      BY <1>t, <3>1 DEF CallSound, Busy
    <3>3. call[t].op # "apply" => 1 \in DOMAIN call[t].docs
      BY <1>t, <3>1 DEF CallSound, Busy
    <3>4. next'[t] >= 1
      BY <1>t, <1>4 DEF ClientBuilt, CallSound
    <3> QED
      BY <2>0, <2>b, <3>1, <3>2, <3>3, <3>4 DEF CallSound, Busy, Permitted
  <2>3. \A u \in Tasks : CallSound(u)'
    <3>1. \A u \in Tasks \ {t} : /\ pc'[u] = pc[u] /\ call'[u] = call[u]
                                 /\ client'[u] = client[u] /\ next'[u] = next[u]
      BY <1>t, <1>4, SMT DEF TypeOK, ClientBuilt, Goto
    <3>2. UNCHANGED allowWrite
      BY <1>4 DEF ClientBuilt
    <3> QED
      BY <2>2, <3>1, <3>2, OthersKept
  <2>4. CacheSound'
    BY <1>t, <1>4, <2>0, SMT DEF TypeOK, CacheSound, ClientBuilt, CacheKey
  <2> QED
    BY <2>1, <2>3, <2>4 DEF K8sInv
<1>5. CASE ClientFails(t)
  <2>1. TypeOK'
    BY <1>t, <1>5, SMT DEF TypeOK, ClientFails, Goto
  <2>2. CallSound(t)'
    BY <1>t, <1>5, SMT DEF TypeOK, ClientFails, Goto, CallSound, Busy
  <2>3. \A u \in Tasks : CallSound(u)'
    <3>1. \A u \in Tasks \ {t} : /\ pc'[u] = pc[u] /\ call'[u] = call[u]
                                 /\ client'[u] = client[u] /\ next'[u] = next[u]
      BY <1>t, <1>5, SMT DEF TypeOK, ClientFails, Goto
    <3>2. UNCHANGED allowWrite
      BY <1>5 DEF ClientFails
    <3> QED
      BY <2>2, <3>1, <3>2, OthersKept
  <2> QED
    BY <1>t, <1>5, <2>1, <2>3 DEF K8sInv, CacheSound, ClientFails
<1> QED
  BY <1>1, <1>2, <1>3, <1>4, <1>5 DEF CallTool

(* The requests to the cluster. *)
LEMMA ClusterStepInv ==
  ASSUME K8sInv, NEW t \in Tasks, ClusterStep(t)
  PROVE  K8sInv'
<1> USE K8sAssumption
<1>t. TypeOK /\ CallSound(t) /\ CacheSound
  BY DEF K8sInv
<1>o. /\ pc[t] \in {"work", "write"} /\ call[t] \in Call /\ client[t] # None
      /\ client[t].cluster \in Clusters /\ call[t].docs \in Manifests
  <2>1. pc[t] \in {"work", "write"}
    BY DEF ClusterStep, Manage, BadDocument, Lookup, Apply, ApplyFails, ApplyDone
  <2> QED
    BY <2>1, <1>t, OwnClient DEF CallSound
<1>l. Len(call[t].docs) \in Nat /\ DOMAIN call[t].docs = 1 .. Len(call[t].docs)
      /\ \A n \in 1 .. Len(call[t].docs) : call[t].docs[n] \in Names \cup {Unnamed}
  BY <1>o, ManifestDomain
<1>u. /\ UNCHANGED <<allowWrite, clients, call, client>>
      /\ \A u \in Tasks \ {t} : pc'[u] = pc[u] /\ next'[u] = next[u]
  BY <1>t, SMT
  DEF TypeOK, Goto, ClusterStep, Manage, BadDocument, Lookup, Apply, ApplyFails, ApplyDone
<1>p. ASSUME NEW n \in Names, NEW v \in Tasks \cup {Absent, Outside}, Put(t, n, v)
      PROVE  objects' \in [Clusters -> [Names -> Tasks \cup {Absent, Outside}]]
  BY <1>t, <1>o, <1>p, SMT DEF TypeOK, Put
<1>g. ASSUME NEW label \in {"work", "write", "ok", "error"}, Goto(t, label)
      PROVE  pc' \in [Tasks -> {"idle", "building", "work", "write", "ok", "error"}]
  BY <1>t, <1>g DEF TypeOK, Goto
<1>1. ASSUME CallSound(t)', TypeOK' PROVE K8sInv'
  <2>1. \A u \in Tasks : CallSound(u)'
    BY <1>u, <1>1, OthersKept
  <2> QED
    BY <1>t, <1>u, <1>1, <2>1 DEF K8sInv, CacheSound
<1>2. CASE Manage(t)
  <2>0. call[t].docs[1] \in Names \cup {Unnamed}
    BY <1>t, <1>o, <1>l, <1>2 DEF Manage, CallSound, Busy
  <2>1. TypeOK'
    <3>1. objects' = objects \/ \E v \in Tasks \cup {Absent, Outside} :
                                 call[t].docs[1] \in Names /\ Put(t, call[t].docs[1], v)
      BY <1>2, <2>0 DEF Manage
    <3>2. pc' \in [Tasks -> {"idle", "building", "work", "write", "ok", "error"}]
      BY <1>g, <1>2 DEF Manage
    <3>3. UNCHANGED <<allowWrite, clients, call, client, next, exists, counts, wrote>>
      BY <1>2 DEF Manage
    <3> QED
      BY <1>t, <1>p, <3>1, <3>2, <3>3 DEF TypeOK
  <2>2. CallSound(t)'
    BY <1>t, <1>u, <1>2, SMT DEF TypeOK, Manage, Goto, CallSound, Busy
  <2> QED
    BY <1>1, <2>1, <2>2
<1>3. CASE BadDocument(t) \/ ApplyFails(t) \/ ApplyDone(t)
  <2>1. TypeOK'
    <3>1. pc' \in [Tasks -> {"idle", "building", "work", "write", "ok", "error"}]
      BY <1>g, <1>3 DEF BadDocument, ApplyFails, ApplyDone
    <3> QED
      BY <1>t, <1>3, <3>1 DEF TypeOK, BadDocument, ApplyFails, ApplyDone
  <2>2. CallSound(t)'
    BY <1>t, <1>u, <1>3, SMT
    DEF TypeOK, BadDocument, ApplyFails, ApplyDone, Goto, CallSound, Busy
  <2> QED
    BY <1>1, <2>1, <2>2
<1>4. CASE Lookup(t)
  <2>0. next[t] \in DOMAIN call[t].docs /\ call[t].docs[next[t]] \in Names
    <3>1. next[t] \in Nat /\ next[t] <= Len(call[t].docs) /\ call[t].docs[next[t]] # Unnamed
      BY <1>t, <1>4 DEF Lookup, TypeOK
    <3>2. next[t] >= 1
      BY <1>t, <1>o DEF CallSound
    <3> QED
      BY <1>l, <3>1, <3>2, SMT
  <2>1. TypeOK'
    <3>1. pc' \in [Tasks -> {"idle", "building", "work", "write", "ok", "error"}]
      BY <1>g, <1>4 DEF Lookup
    <3>2. exists' \in [Tasks -> BOOLEAN]
      BY <1>t, <1>4 DEF TypeOK, Lookup
    <3> QED
      BY <1>t, <1>4, <3>1, <3>2 DEF TypeOK, Lookup
  <2>2. CallSound(t)'
    <3>1. pc'[t] = "write" /\ next'[t] = next[t] /\ call[t].op = "apply" /\ pc[t] = "work"
      BY <1>t, <1>4 DEF TypeOK, Lookup, Goto
    <3> QED
      BY <1>t, <1>o, <1>u, <2>0, <3>1 DEF CallSound, Busy, Permitted
  <2> QED
    BY <1>1, <2>1, <2>2
<1>5. CASE Apply(t)
  <2>0. call[t].docs[next[t]] \in Names /\ next[t] \in Nat
    BY <1>t, <1>5 DEF Apply, CallSound, TypeOK
  <2>1. TypeOK'
    <3>1. objects' \in [Clusters -> [Names -> Tasks \cup {Absent, Outside}]]
      BY <1>p, <1>5, <2>0 DEF Apply
    <3>2. pc' \in [Tasks -> {"idle", "building", "work", "write", "ok", "error"}]
      BY <1>g, <1>5 DEF Apply
    <3>3. wrote' \in [Tasks -> SUBSET Nat]
      BY <1>t, <1>5, <2>0, SMT DEF TypeOK, Apply
    <3>4. \/ UNCHANGED <<next, counts>>
          \/ /\ next' = [next EXCEPT ![t] = next[t] + 1]
             /\ counts' = [counts EXCEPT ![t] = counts[t] + 1]
      BY <1>5 DEF Apply
    <3>5. next' \in [Tasks -> Nat] /\ counts' \in [Tasks -> Nat]
      BY <1>t, <3>4, SMT DEF TypeOK
    <3> QED
      BY <1>t, <1>5, <3>1, <3>2, <3>3, <3>5 DEF TypeOK, Apply
  <2>2. CallSound(t)'
    <3>1. /\ pc[t] = "write" /\ call[t].op = "apply"
          /\ \/ pc'[t] = "work" /\ next'[t] = next[t] + 1
             \/ pc'[t] = "error" /\ next'[t] = next[t]
      BY <1>t, <1>5, SMT DEF TypeOK, Apply, Goto, CallSound
    <3>2. next'[t] >= 1
      BY <1>t, <2>0, <3>1, SMT DEF CallSound
    <3> QED
      BY <1>t, <1>o, <1>u, <3>1, <3>2 DEF CallSound, Busy, Permitted
  <2> QED
    BY <1>1, <2>1, <2>2
<1> QED
  BY <1>2, <1>3, <1>4, <1>5 DEF ClusterStep

(* Every step keeps the invariant. *)
LEMMA K8sInvStep == K8sInv /\ [Next]_vars => K8sInv'
<1> SUFFICES ASSUME K8sInv, [Next]_vars PROVE K8sInv'
  OBVIOUS
<1>1. ASSUME NEW t \in Tasks, CallTool(t) \/ ClientBuilt(t) \/ ClientFails(t) PROVE K8sInv'
  BY <1>1, EnterStep
<1>2. ASSUME NEW t \in Tasks, ClusterStep(t) PROVE K8sInv'
  BY <1>2, ClusterStepInv
<1>3. ASSUME NEW k \in Identities \X Clusters, Expire(k) PROVE K8sInv'
  <2>1. TypeOK'
    BY <1>3, SMT DEF K8sInv, TypeOK, Expire, taskVars
  <2>2. CacheSound'
    BY <1>3, SMT DEF K8sInv, TypeOK, CacheSound, Expire
  <2> QED
    BY <1>3, <2>1, <2>2 DEF K8sInv, CallSound, Busy, Permitted, Expire, taskVars
<1>4. CASE OutsideChange
  <2>1. TypeOK'
    BY <1>4, SMT DEF K8sInv, TypeOK, OutsideChange, taskVars
  <2> QED
    BY <1>4, <2>1 DEF K8sInv, CacheSound, CallSound, Busy, Permitted, OutsideChange, taskVars
<1>5. CASE UNCHANGED vars
  BY <1>5 DEF vars, K8sInv, TypeOK, CacheSound, CallSound, Busy, Permitted
<1> QED
  BY <1>1, <1>2, <1>3, <1>4, <1>5 DEF Next

-----------------------------------------------------------------------------
(* The invariant holds in every reachable state. *)
THEOREM K8sInvariant == Spec => []K8sInv
  BY K8sInitInv, K8sInvStep, PTL DEF Spec

(* Types of the client cache, the cluster and the calls. *)
THEOREM K8sTypeCorrect == Spec => []TypeOK
<1>1. K8sInv => TypeOK
  BY DEF K8sInv
<1> QED
  BY <1>1, K8sInvariant, PTL

(* No call works with a client of another identity or another cluster      *)
(* (k8s_client_cache.py 64-75).                                            *)
THEOREM ClientIsolationHolds == Spec => []ClientIsolation
<1>1. K8sInv => ClientIsolation
  BY DEF K8sInv, CallSound, ClientIsolation
<1> QED
  BY <1>1, K8sInvariant, PTL

(* Only a call that passed the gate with more than "read" touches an object.*)
LEMMA ReadOnlyStep == K8sInv /\ [Next]_vars => OutsideChange \/ allowWrite \/ UNCHANGED objects
<1> SUFFICES ASSUME K8sInv, [Next]_vars, ~OutsideChange, ~allowWrite PROVE UNCHANGED objects
  OBVIOUS
<1>1. ASSUME NEW t \in Tasks, Manage(t) PROVE UNCHANGED objects
  <2>1. call[t].op = "read"
    BY <1>1 DEF K8sInv, CallSound, Busy, Permitted, Manage
  <2> QED
    BY <1>1, <2>1 DEF Manage
<1>2. ASSUME NEW t \in Tasks, Apply(t) PROVE FALSE
  <2>1. pc[t] = "write" /\ CallSound(t)
    BY <1>2 DEF K8sInv, Apply
  <2>2. call[t].op = "apply" /\ Permitted(call[t])
    BY <2>1 DEF CallSound, Busy
  <2> QED
    BY <2>2 DEF Permitted
<1> QED
  BY <1>1, <1>2
  DEF Next, vars, CallTool, Refuse, EnterCached, EnterMissing, ClientBuilt, ClientFails,
      ClusterStep, BadDocument, Lookup, ApplyFails, ApplyDone, Expire

(* A server started without --allow-write changes no cluster, whatever the *)
(* order of the calls (k8s_handler.py 591-601, 688-689).                   *)
THEOREM ReadOnlyServerHolds == Spec => ReadOnlyServer
  BY K8sInvariant, ReadOnlyStep, PTL DEF Spec, ReadOnlyServer

(* Only Apply writes for an apply_yaml call, and without force only what is *)
(* not there.                                                               *)
LEMMA NoForceStep ==
  K8sInv /\ [Next]_vars =>
    \A t \in Tasks, c \in Clusters, n \in Names :
       /\ objects[c][n] \notin {Absent, t} /\ objects'[c][n] = t
       /\ call[t].op = "apply"
       => call[t].force
<1> SUFFICES ASSUME K8sInv, [Next]_vars, NEW t \in Tasks, NEW c \in Clusters, NEW n \in Names,
                    objects[c][n] \notin {Absent, t}, objects'[c][n] = t,
                    call[t].op = "apply"
             PROVE  call[t].force
  OBVIOUS
<1> USE K8sAssumption
<1>t. TypeOK
  BY DEF K8sInv
<1>1. ASSUME NEW u \in Tasks, Manage(u) PROVE FALSE
  <2>1. u # t
    BY <1>1 DEF Manage
  <2>2. objects' = objects \/ \E v \in {Absent, u} : Put(u, call[u].docs[1], v)
    BY <1>1 DEF Manage
  <2>3. ASSUME NEW v \in {Absent, u}, Put(u, call[u].docs[1], v)
        PROVE  objects'[c][n] = objects[c][n] \/ objects'[c][n] = v
    BY <1>t, <2>3, SMT DEF TypeOK, Put
  <2> QED
    BY <2>1, <2>2, <2>3
<1>2. ASSUME NEW u \in Tasks, Apply(u) PROVE call[t].force
  <2>1. Put(u, call[u].docs[next[u]], u) /\ Accepted(u) /\ pc[u] = "write"
    BY <1>2 DEF Apply
  <2>2. u = t /\ c = client[u].cluster /\ n = call[u].docs[next[u]]
    BY <1>t, <2>1, SMT DEF TypeOK, Put
  <2>3. Patches(t)
    BY <2>1, <2>2 DEF Accepted, Object
  <2> QED
    BY <2>3 DEF Patches
<1>3. CASE OutsideChange
  BY <1>t, <1>3, SMT DEF TypeOK, OutsideChange
<1>4. CASE UNCHANGED objects
  BY <1>4
<1> QED
  BY <1>1, <1>2, <1>3, <1>4
  DEF Next, vars, CallTool, Refuse, EnterCached, EnterMissing, ClientBuilt, ClientFails,
      ClusterStep, BadDocument, Lookup, ApplyFails, ApplyDone, Expire

(* Without force apply_yaml never writes over an object of someone else,   *)
(* however the lookup and the changes of others interleave                 *)
(* (k8s_apis.py 259-275).                                                  *)
THEOREM NoForceNeverOverwritesHolds == Spec => NoForceNeverOverwrites
  BY K8sInvariant, NoForceStep, PTL DEF Spec, NoForceNeverOverwrites

-----------------------------------------------------------------------------
(* How far a call has come with its manifest: one document at a time from   *)
(* the first, each counted and taken before the next; the head of the loop  *)
(* is at most one past the last document.                                   *)
Progress(t) ==
    /\ next[t] \in Nat \ {0}
    /\ counts[t] = next[t] - 1
    /\ \/ wrote[t] = 1 .. next[t] - 1
       \/ pc[t] = "error" /\ wrote[t] = 1 .. next[t]
    /\ pc[t] \in {"idle", "building"} => next[t] = 1
    /\ pc[t] = "work" /\ call[t].op = "apply" => next[t] <= Len(call[t].docs) + 1
    /\ pc[t] = "ok" /\ call[t].op = "apply" => next[t] = Len(call[t].docs) + 1

(* The steps of other calls, of the cache and of others leave a call where  *)
(* it is.                                                                   *)
LEMMA OthersLeaveTask ==
  ASSUME TypeOK, NEW t \in Tasks, Next,
         ~ (CallTool(t) \/ ClientBuilt(t) \/ ClientFails(t) \/ ClusterStep(t))
  PROVE  /\ pc'[t] = pc[t] /\ call'[t] = call[t] /\ next'[t] = next[t]
         /\ counts'[t] = counts[t] /\ wrote'[t] = wrote[t]
<1>1. ASSUME NEW u \in Tasks \ {t}, CallTool(u)
      PROVE  /\ pc'[t] = pc[t] /\ call'[t] = call[t] /\ next'[t] = next[t]
             /\ counts'[t] = counts[t] /\ wrote'[t] = wrote[t]
  BY <1>1 DEF TypeOK, CallTool, Refuse, EnterCached, EnterMissing, Goto
<1>2. ASSUME NEW u \in Tasks \ {t}, ClientBuilt(u) \/ ClientFails(u)
      PROVE  /\ pc'[t] = pc[t] /\ call'[t] = call[t] /\ next'[t] = next[t]
             /\ counts'[t] = counts[t] /\ wrote'[t] = wrote[t]
  BY <1>2 DEF TypeOK, ClientBuilt, ClientFails, Goto
<1>3. ASSUME NEW u \in Tasks \ {t}, ClusterStep(u)
      PROVE  /\ pc'[t] = pc[t] /\ call'[t] = call[t] /\ next'[t] = next[t]
             /\ counts'[t] = counts[t] /\ wrote'[t] = wrote[t]
  BY <1>3 DEF TypeOK, ClusterStep, Manage, BadDocument, Lookup, Apply, ApplyFails, ApplyDone, Goto
<1>4. ASSUME UNCHANGED taskVars
      PROVE  /\ pc'[t] = pc[t] /\ call'[t] = call[t] /\ next'[t] = next[t]
             /\ counts'[t] = counts[t] /\ wrote'[t] = wrote[t]
  BY <1>4 DEF taskVars
<1> QED
  BY <1>1, <1>2, <1>3, <1>4 DEF Next, Expire, OutsideChange

(* A call that is let in starts at its first document.                      *)
LEMMA EnterProgress ==
  ASSUME K8sInv, NEW t \in Tasks, Progress(t),
         CallTool(t) \/ ClientBuilt(t) \/ ClientFails(t)
  PROVE  Progress(t)'
<1>t. TypeOK /\ CallSound(t)
  BY DEF K8sInv
<1>1. /\ pc[t] \in {"idle", "building"} /\ pc'[t] \in {"building", "work", "error"}
      /\ call'[t] \in Call
  BY <1>t DEF TypeOK, CallSound, CallTool, Refuse, EnterCached, EnterMissing, ClientBuilt,
              ClientFails, Goto
<1>2. UNCHANGED <<next, counts, wrote>>
  BY DEF CallTool, Refuse, EnterCached, EnterMissing, ClientBuilt, ClientFails
<1>3. next[t] = 1 /\ counts[t] = next[t] - 1 /\ wrote[t] = 1 .. next[t] - 1
  BY <1>1 DEF Progress
<1>4. Len(call'[t].docs) \in Nat
  BY <1>1, ManifestDomain DEF Call
<1> QED
  BY <1>1, <1>2, <1>3, <1>4, SMT DEF Progress

(* A request to the cluster takes the call on by at most one document.      *)
LEMMA ClusterProgress ==
  ASSUME K8sInv, NEW t \in Tasks, Progress(t), ClusterStep(t)
  PROVE  Progress(t)'
<1>t. TypeOK /\ CallSound(t)
  BY DEF K8sInv
<1>o. pc[t] \in {"work", "write"} /\ UNCHANGED call
  BY DEF ClusterStep, Manage, BadDocument, Lookup, Apply, ApplyFails, ApplyDone
<1>l. Len(call[t].docs) \in Nat /\ DOMAIN call[t].docs = 1 .. Len(call[t].docs)
  BY <1>o, OwnClient, ManifestDomain
<1>p. /\ next[t] \in Nat \ {0} /\ counts[t] = next[t] - 1
      /\ wrote[t] = 1 .. next[t] - 1
  BY <1>o DEF Progress
<1>1. CASE Manage(t) \/ BadDocument(t) \/ ApplyFails(t)
  <2>1. UNCHANGED <<next, counts, wrote>>
    BY <1>1 DEF Manage, BadDocument, ApplyFails
  <2>2. pc'[t] = "error" \/ (pc'[t] = "ok" /\ call[t].op # "apply")
    BY <1>t, <1>1 DEF TypeOK, Manage, BadDocument, ApplyFails, Goto
  <2> QED
    BY <1>o, <1>p, <2>1, <2>2 DEF Progress
<1>2. CASE Lookup(t)
  <2>1. pc'[t] = "write" /\ UNCHANGED <<next, counts, wrote>>
    BY <1>t, <1>2 DEF TypeOK, Lookup, Goto
  <2> QED
    BY <1>o, <1>p, <2>1 DEF Progress
<1>3. CASE ApplyDone(t)
  <2>1. pc'[t] = "ok" /\ UNCHANGED <<next, counts, wrote>>
    BY <1>t, <1>3 DEF TypeOK, ApplyDone, Goto
  <2>2. next[t] = Len(call[t].docs) + 1
    <3>1. next[t] <= Len(call[t].docs) + 1 /\ next[t] > Len(call[t].docs)
      BY <1>3 DEF ApplyDone, Progress
    <3> QED
      BY <1>l, <1>p, <3>1, SMT
  <2> QED
    BY <1>o, <1>p, <2>1, <2>2 DEF Progress
<1>4. CASE Apply(t)
  <2>1. wrote'[t] = 1 .. next[t]
    <3>1. wrote'[t] = (1 .. next[t] - 1) \cup {next[t]}
      BY <1>t, <1>p, <1>4 DEF TypeOK, Apply
    <3> QED
      BY <1>p, <3>1, SMT
  <2>2. \/ pc'[t] = "work" /\ next'[t] = next[t] + 1 /\ counts'[t] = counts[t] + 1
        \/ pc'[t] = "error" /\ next'[t] = next[t] /\ counts'[t] = counts[t]
    BY <1>t, <1>4 DEF TypeOK, Apply, Goto
  <2>3. next[t] \in 1 .. Len(call[t].docs)
    BY <1>t, <1>l, <1>4 DEF CallSound, Apply
  <2>4. CASE pc'[t] = "error"
    BY <1>p, <2>1, <2>2, <2>4 DEF Progress
  <2>5. CASE pc'[t] = "work"
    <3>1. next'[t] = next[t] + 1 /\ counts'[t] = counts[t] + 1
      BY <2>2, <2>5
    <3>2. /\ next'[t] \in Nat \ {0} /\ counts'[t] = next'[t] - 1
          /\ 1 .. next[t] = 1 .. next'[t] - 1
          /\ next'[t] <= Len(call[t].docs) + 1
      <4>1. next[t] \in Nat /\ next[t] >= 1 /\ next[t] <= Len(call[t].docs)
        BY <1>l, <2>3, SMT
      <4>2. next'[t] - 1 = next[t] /\ next'[t] \in Nat \ {0}
        BY <3>1, <4>1, SMT
      <4>3. counts'[t] = next[t] /\ next'[t] <= Len(call[t].docs) + 1
        BY <1>l, <1>p, <3>1, <4>1, SMT
      <4> QED
        BY <4>2, <4>3
    <3> QED
      BY <1>o, <2>1, <2>5, <3>2 DEF Progress
  <2> QED
    BY <2>2, <2>4, <2>5
<1> QED
  BY <1>1, <1>2, <1>3, <1>4 DEF ClusterStep

(* The invariant, with every call's progress.                               *)
OrderInv == K8sInv /\ \A t \in Tasks : Progress(t)

(* It holds when the server starts.                                         *)
LEMMA OrderInitInv == Init => OrderInv
<1> SUFFICES ASSUME Init, NEW t \in Tasks PROVE Progress(t)
  BY K8sInitInv DEF OrderInv
<1>1. pc[t] = "idle" /\ next[t] = 1 /\ counts[t] = 0 /\ wrote[t] = {}
  BY DEF Init
<1> QED
  BY <1>1, SMT DEF Progress

(* Every step keeps it.                                                     *)
LEMMA OrderInvStep == OrderInv /\ [Next]_vars => OrderInv'
<1> SUFFICES ASSUME OrderInv, [Next]_vars, NEW t \in Tasks PROVE Progress(t)'
  BY K8sInvStep DEF OrderInv
<1>1. K8sInv /\ TypeOK /\ Progress(t)
  BY DEF OrderInv, K8sInv
<1>2. CASE CallTool(t) \/ ClientBuilt(t) \/ ClientFails(t)
  BY <1>1, <1>2, EnterProgress
<1>3. CASE ClusterStep(t)
  BY <1>1, <1>3, ClusterProgress
<1>4. CASE /\ pc'[t] = pc[t] /\ call'[t] = call[t] /\ next'[t] = next[t]
           /\ counts'[t] = counts[t] /\ wrote'[t] = wrote[t]
  BY <1>1, <1>4 DEF Progress
<1>5. CASE UNCHANGED vars
  BY <1>4, <1>5 DEF vars
<1> QED
  BY <1>1, <1>2, <1>3, <1>4, <1>5, OthersLeaveTask

(* A manifest of any length is applied in order and without gaps, whatever  *)
(* fails and whatever other calls do; on success all of it, and the counts  *)
(* reported add up (k8s_apis.py 238-281).                                   *)
THEOREM AppliedInOrderHolds == Spec => []AppliedInOrder
<1>1. OrderInv => AppliedInOrder
  <2> SUFFICES ASSUME OrderInv, NEW t \in Tasks, Progress(t)
               PROVE  /\ \/ wrote[t] = 1 .. next[t] - 1
                         \/ pc[t] = "error" /\ wrote[t] = 1 .. next[t]
                      /\ counts[t] = next[t] - 1
                      /\ pc[t] = "ok" /\ call[t].op = "apply"
                           => wrote[t] = 1 .. Len(call[t].docs)
    BY DEF OrderInv, AppliedInOrder
  <2>1. ASSUME pc[t] = "ok", call[t].op = "apply" PROVE wrote[t] = 1 .. Len(call[t].docs)
    <3>1. next[t] = Len(call[t].docs) + 1 /\ wrote[t] = 1 .. next[t] - 1
      BY <2>1 DEF Progress
    <3>2. call[t] \in Call
      BY <2>1 DEF OrderInv, K8sInv, CallSound
    <3>3. Len(call[t].docs) \in Nat
      BY <3>2, ManifestDomain DEF Call
    <3> QED
      BY <3>1, <3>3, SMT
  <2> QED
    BY <2>1 DEF Progress
<1> QED
  BY <1>1, OrderInitInv, OrderInvStep, PTL DEF Spec

-----------------------------------------------------------------------------
(* Every change of an object is made by others or by the call that names it: *)
(* in the cluster of its arguments, an object of its manifest, through a      *)
(* client of its own caller's, whichever clients were built, expired and      *)
(* found in the cache by other calls meanwhile.                               *)
OnlyNamedChanged ==
    [][\A c \in Clusters, n \in Names : objects'[c][n] # objects[c][n] =>
         \/ OutsideChange
         \/ \E t \in Tasks : /\ Manage(t) \/ Apply(t)
                             /\ call[t].cluster = c
                             /\ client[t] = [owner |-> call[t].who, cluster |-> c]
                             /\ \E k \in DOMAIN call[t].docs : call[t].docs[k] = n]_vars

(* Each change that is not from outside is made by a call that names the   *)
(* object.                                                                 *)
LEMMA OnlyNamedStep ==
  ASSUME K8sInv, Next, NEW c \in Clusters, NEW n \in Names, objects'[c][n] # objects[c][n],
         ~OutsideChange
  PROVE  \E t \in Tasks : /\ Manage(t) \/ Apply(t)
                         /\ call[t].cluster = c
                         /\ client[t] = [owner |-> call[t].who, cluster |-> c]
                         /\ \E k \in DOMAIN call[t].docs : call[t].docs[k] = n
<1>t. TypeOK /\ objects' # objects
  BY DEF K8sInv
<1>1. PICK t \in Tasks : Manage(t) \/ Apply(t)
  BY <1>t DEF Next, CallTool, Refuse, EnterCached, EnterMissing, ClientBuilt, ClientFails,
     ClusterStep, BadDocument, Lookup, ApplyFails, ApplyDone, Expire
<1>2. /\ pc[t] \in {"work", "write"} /\ CallSound(t)
      /\ client[t] = [owner |-> call[t].who, cluster |-> call[t].cluster]
      /\ client[t].cluster = call[t].cluster
  BY <1>1, OwnClient DEF Manage, Apply, K8sInv
<1>3. ASSUME NEW m, NEW v, Put(t, m, v) PROVE m = n /\ call[t].cluster = c
  BY <1>t, <1>2, <1>3 DEF TypeOK, Put
<1>4. CASE Manage(t)
  <2>1. PICK v : Put(t, call[t].docs[1], v)
    BY <1>t, <1>4 DEF Manage
  <2>2. 1 \in DOMAIN call[t].docs
    BY <1>2, <1>4 DEF CallSound, Busy, Manage
  <2> QED
    BY <1>2, <1>3, <1>4, <2>1, <2>2
<1>5. CASE Apply(t)
  <2>1. Put(t, call[t].docs[next[t]], t) /\ next[t] \in DOMAIN call[t].docs
    BY <1>2, <1>5 DEF Apply, CallSound
  <2> QED
    BY <1>2, <1>3, <1>5, <2>1
<1> QED
  BY <1>1, <1>4, <1>5

(* No call changes an object or a cluster it does not name (k8s_handler.py  *)
(* 526-720 through k8s_client_cache.py 64-96).                              *)
THEOREM OnlyNamedChangedHolds == Spec => OnlyNamedChanged
<1>1. K8sInv /\ [Next]_vars =>
        [\A c \in Clusters, n \in Names : objects'[c][n] # objects[c][n] =>
           \/ OutsideChange
           \/ \E t \in Tasks : /\ Manage(t) \/ Apply(t)
                               /\ call[t].cluster = c
                               /\ client[t] = [owner |-> call[t].who, cluster |-> c]
                               /\ \E k \in DOMAIN call[t].docs : call[t].docs[k] = n]_vars
  BY OnlyNamedStep
<1> QED
  BY <1>1, K8sInvariant, PTL DEF Spec, OnlyNamedChanged

=============================================================================
