-------------------------- MODULE NetworkAclProofs --------------------------
(***************************************************************************)
(* What editing network ACLs guarantees for any number of ACLs, rules and  *)
(* concurrent edits, and any bound on the polls.                           *)
(***************************************************************************)
EXTENDS NetworkAcl, TLAPS

(* Of an ACL that has lost none, the bookends are in force, in what is being *)
(* applied, and in what an edit under way has read, unless the read was of a *)
(* busy ACL: so they are in what the edit will send.                         *)
AclInv ==
    /\ TypeOK
    /\ \A a \in Acls \ lost : state[a] # "none" => Defaults \subseteq rules[a]
    /\ \A a \in Acls \ lost : state[a] = "updating" => Defaults \subseteq pending[a]
    /\ \A t \in Tasks \ blind : pc[t] = "put" /\ acl[t] \notin lost =>
                              Defaults \subseteq KeysOf(current[t])
    /\ \A t \in Tasks : pc[t] # "idle" => acl[t] \in Acls
    /\ \A t \in Tasks : pc[t] \in {"idle", "put", "poll"} => polls[t] < Attempts

(* What the three spellings of a set of rules have in common: their keys.   *)
LEMMA KeysOfRead ==
  ASSUME NEW K
  PROVE  KeysOf(AsRead(K)) = K /\ KeysOf(Lowered(K)) = K
<1>1. ASSUME NEW up
      PROVE  {r.key : r \in {[key |-> k, upper |-> up] : k \in K}} = K
  <2> DEFINE S == {[key |-> k, upper |-> up] : k \in K}
  <2>1. ASSUME NEW k \in K PROVE k \in {r.key : r \in S}
    <3>1. [key |-> k, upper |-> up] \in S /\ [key |-> k, upper |-> up].key = k
      OBVIOUS
    <3> QED
      BY <3>1
  <2>2. ASSUME NEW r \in S PROVE r.key \in K
    OBVIOUS
  <2> QED
    BY <2>1, <2>2
<1> QED
  BY <1>1 DEF KeysOf, AsRead, Lowered

(* Merging loses no rule with a system sequence number.                     *)
LEMMA MergeKeepsSystemKeys ==
  ASSUME NEW asked, NEW now
  PROVE  KeysOf(now) \cap SystemKeys \subseteq KeysOf(Merged(asked, now))
BY DEF KeysOf, Merged

(* Initially there is no ACL and no call.                                   *)
LEMMA AclInitInv == Init => AclInv
BY AclAssumption, SMT DEF Init, AclInv, TypeOK

(* What is read is a set of rules, those that are shown.                    *)
LEMMA ShownRules ==
  ASSUME TypeOK, NEW a \in Acls, NEW K \in SUBSET Keys, NEW shown \in Shown(a)
  PROVE  /\ Lowered(K) \in SUBSET Rules /\ AsRead(shown) \in SUBSET Rules
         /\ KeysOf(AsRead(shown)) = shown
<1>1. ASSUME NEW k \in Keys PROVE \A b \in BOOLEAN : [key |-> k, upper |-> b] \in Rules
  BY DEF Rules
<1>2. shown \subseteq Keys
  BY DEF TypeOK, Shown
<1> QED
  BY <1>1, <1>2, KeysOfRead DEF Lowered, AsRead

(* A PUT that is taken: if the ACL is then still one that has lost no       *)
(* bookend, none is missing from what is applied.                           *)
LEMMA TakenKeeps ==
  ASSUME AclInv, NEW t \in Tasks, Taken(t)
  PROVE  /\ acl[t] \in Acls /\ pc[t] = "put" /\ state[acl[t]] = "active"
         /\ state' = [state EXCEPT ![acl[t]] = "updating"]
         /\ UNCHANGED <<rules, acl, requested, polls>>
         /\ pending' \in [Acls -> SUBSET Keys]
         /\ \A a \in Acls \ {acl[t]} : pending'[a] = pending[a]
         /\ lost \subseteq lost' /\ lost' \subseteq Acls
         /\ acl[t] \notin lost' => Defaults \subseteq pending'[acl[t]]
<1>1. /\ acl[t] \in Acls /\ pc[t] = "put" /\ state[acl[t]] = "active"
      /\ state' = [state EXCEPT ![acl[t]] = "updating"]
      /\ UNCHANGED <<rules, acl, requested, polls>>
  BY DEF AclInv, Taken
<1> DEFINE sent == KeysOf(Payload(t))
<1>2. PICK kept \in SUBSET sent :
        /\ pending' = [pending EXCEPT ![acl[t]] = kept]
        /\ lost' = IF \/ ~ Defaults \cap sent \subseteq kept
                      \/ t \in blind /\ ~ Defaults \subseteq sent
                   THEN lost \cup {acl[t]} ELSE lost
  BY DEF Taken
<1>3. sent \subseteq Keys
  <2>1. Payload(t) \subseteq Rules
    BY DEF AclInv, TypeOK, Payload, Merged
  <2> QED
    BY <2>1 DEF KeysOf, Rules
<1>4. acl[t] \notin lost /\ t \notin blind => Defaults \subseteq sent
  <2>1. acl[t] \notin lost /\ t \notin blind => Defaults \subseteq KeysOf(current[t]) \cap SystemKeys
    BY <1>1, AclAssumption DEF AclInv
  <2> QED
    BY <2>1, MergeKeepsSystemKeys DEF Payload
<1> HIDE DEF sent
<1>5. pending' \in [Acls -> SUBSET Keys] /\ pending'[acl[t]] = kept
      /\ \A a \in Acls \ {acl[t]} : pending'[a] = pending[a]
  BY <1>1, <1>2, <1>3 DEF AclInv, TypeOK
<1>6. lost \subseteq lost' /\ lost' \subseteq Acls
  BY <1>1, <1>2 DEF AclInv, TypeOK
<1>7. acl[t] \notin lost' => Defaults \subseteq kept
  BY <1>2, <1>4
<1> QED
  BY <1>1, <1>5, <1>6, <1>7

(* Every step keeps the invariant.                                          *)
LEMMA AclInvStep == AclInv /\ [Next]_vars => AclInv'
<1> SUFFICES ASSUME AclInv, [Next]_vars PROVE AclInv'
  OBVIOUS
<1> USE AclAssumption
<1>1. ASSUME NEW a \in Acls, CreateNetworkAcl(a) PROVE AclInv'
  BY <1>1 DEF AclInv, TypeOK, CreateNetworkAcl, history
<1>2. ASSUME NEW a \in Acls, DeleteNetworkAcl(a) PROVE AclInv'
  BY <1>2 DEF AclInv, TypeOK, DeleteNetworkAcl, history
<1>3. ASSUME NEW a \in Acls, UpdateNetworkAclSubnets(a) PROVE AclInv'
  BY <1>3 DEF AclInv, TypeOK, UpdateNetworkAclSubnets, history
<1>4. ASSUME NEW a \in Acls, Settle(a) PROVE AclInv'
  BY <1>4 DEF AclInv, TypeOK, Settle, history
<1>5. ASSUME NEW t \in Tasks, NEW a \in Acls, NEW K \in SUBSET Keys, ReadRules(t, a, K)
      PROVE  AclInv'
  <2>1. PICK shown \in Shown(a) :
          /\ current' = [current EXCEPT ![t] = AsRead(shown)]
          /\ blind' = IF state[a] = "updating" /\ ~ Defaults \subseteq shown
                      THEN blind \cup {t} ELSE blind
    BY <1>5 DEF ReadRules
  <2>2. /\ Lowered(K) \in SUBSET Rules /\ AsRead(shown) \in SUBSET Rules
        /\ KeysOf(AsRead(shown)) = shown
    BY ShownRules DEF AclInv
  <2>3. /\ pc[t] = "idle" /\ state[a] \in {"active", "updating"}
        /\ pc' = [pc EXCEPT ![t] = "put"] /\ acl' = [acl EXCEPT ![t] = a]
        /\ requested' = [requested EXCEPT ![t] = Lowered(K)]
        /\ UNCHANGED <<state, rules, pending, polls, lost>>
    BY <1>5 DEF ReadRules, platform
  <2>4. TypeOK'
    BY <2>1, <2>2, <2>3 DEF AclInv, TypeOK
  <2>5. t \notin blind' /\ a \notin lost => Defaults \subseteq shown
    BY <2>1, <2>3 DEF Shown, AclInv
  <2>6. \A u \in Tasks \ blind' : pc'[u] = "put" /\ acl'[u] \notin lost' =>
                                Defaults \subseteq KeysOf(current'[u])
    <3>1. current'[t] = AsRead(shown) /\ acl'[t] = a
      BY <2>1, <2>3 DEF AclInv, TypeOK
    <3>2. \A u \in Tasks \ {t} : /\ current'[u] = current[u] /\ acl'[u] = acl[u] /\ pc'[u] = pc[u]
                                 /\ u \in blind => u \in blind'
      BY <2>1, <2>3 DEF AclInv, TypeOK
    <3> QED
      BY <2>2, <2>3, <2>5, <3>1, <3>2 DEF AclInv
  <2>7. \A u \in Tasks : pc'[u] # "idle" => acl'[u] \in Acls
    BY <2>3 DEF AclInv, TypeOK
  <2>8. \A u \in Tasks : pc'[u] \in {"idle", "put", "poll"} => polls'[u] < Attempts
    BY <2>3 DEF AclInv, TypeOK
  <2>9. /\ \A b \in Acls \ lost' : state'[b] # "none" => Defaults \subseteq rules'[b]
        /\ \A b \in Acls \ lost' : state'[b] = "updating" => Defaults \subseteq pending'[b]
    BY <2>3 DEF AclInv
  <2> QED
    BY <2>4, <2>6, <2>7, <2>8, <2>9 DEF AclInv
<1>6. ASSUME NEW t \in Tasks, PutTaken(t) \/ PutRepeats(t) PROVE AclInv'
  <2>1. /\ acl[t] \in Acls /\ pc[t] = "put" /\ state[acl[t]] = "active"
        /\ state' = [state EXCEPT ![acl[t]] = "updating"]
        /\ UNCHANGED <<rules, acl, requested, polls>>
        /\ pending' \in [Acls -> SUBSET Keys]
        /\ \A a \in Acls \ {acl[t]} : pending'[a] = pending[a]
        /\ lost \subseteq lost' /\ lost' \subseteq Acls
        /\ acl[t] \notin lost' => Defaults \subseteq pending'[acl[t]]
    BY <1>6, TakenKeeps DEF PutTaken, PutRepeats
  <2>2. \/ /\ pc' = [pc EXCEPT ![t] = "poll"] \/ pc' = [pc EXCEPT ![t] = "error"]
           /\ current' = [current EXCEPT ![t] = {}] /\ blind' = blind \ {t}
        \/ UNCHANGED <<pc, current, blind>>
    BY <1>6 DEF PutTaken, PutRepeats, HasSent
  <2>3. TypeOK'
    BY <2>1, <2>2 DEF AclInv, TypeOK, Ended
  <2>4. \A a \in Acls \ lost' : state'[a] # "none" => Defaults \subseteq rules'[a]
    BY <2>1 DEF AclInv, TypeOK
  <2>5. \A a \in Acls \ lost' : state'[a] = "updating" => Defaults \subseteq pending'[a]
    BY <2>1 DEF AclInv, TypeOK
  <2>6. \A u \in Tasks \ blind' : pc'[u] = "put" /\ acl'[u] \notin lost' =>
                                Defaults \subseteq KeysOf(current'[u])
    BY <2>1, <2>2 DEF AclInv, TypeOK
  <2>7. \A u \in Tasks : pc'[u] # "idle" => acl'[u] \in Acls
    BY <2>1, <2>2 DEF AclInv, TypeOK
  <2>8. \A u \in Tasks : pc'[u] \in {"idle", "put", "poll"} => polls'[u] < Attempts
    BY <2>1, <2>2 DEF AclInv, TypeOK
  <2> QED
    BY <2>3, <2>4, <2>5, <2>6, <2>7, <2>8 DEF AclInv
<1>7. ASSUME NEW t \in Tasks, PutFails(t) PROVE AclInv'
  BY <1>7 DEF AclInv, TypeOK, PutFails, HasSent, platform, Ended
<1>8. ASSUME NEW t \in Tasks, PollFails(t) PROVE AclInv'
  BY <1>8 DEF AclInv, TypeOK, PollFails, platform, history, Ended
<1>9. ASSUME NEW t \in Tasks, PollSettled(t) PROVE AclInv'
  BY <1>9 DEF AclInv, TypeOK, PollSettled, Report, platform, history, Ended
<1>10. ASSUME NEW t \in Tasks, PollUpdating(t) PROVE AclInv'
  BY <1>10, SMT DEF AclInv, TypeOK, PollUpdating, Report, platform, history, Ended
<1>11. CASE UNCHANGED vars
  BY <1>11 DEF AclInv, TypeOK, vars
<1> QED
  BY <1>1, <1>2, <1>3, <1>4, <1>5, <1>6, <1>7, <1>8, <1>9, <1>10, <1>11 DEF Next, Step

-----------------------------------------------------------------------------
(* The invariant holds in every reachable state. *)
THEOREM AclInvariant == Spec => []AclInv
BY AclInitInv, AclInvStep, PTL DEF Spec

(* Types of the platform's ACLs and of the calls. *)
THEOREM AclTypeCorrect == Spec => []TypeOK
<1>1. AclInv => TypeOK
  BY DEF AclInv
<1> QED
  BY <1>1, AclInvariant, PTL

(* No interleaving of edits loses a bookend rule of an ACL of which every   *)
(* edit was shown the bookends, or sent them of its own, and the platform   *)
(* kept them (networkacl_handler.py 49-66, 213-274).                        *)
THEOREM BookendsKeptHolds == Spec => []BookendsKept
<1>1. AclInv => BookendsKept
  BY DEF AclInv, BookendsKept
<1> QED
  BY <1>1, AclInvariant, PTL

(* The two answers of _wait_for_acl and what the comparison makes of them.  *)
LEMMA ReportStep ==
  ASSUME AclInv, [Next]_vars, NEW t \in Tasks, pc[t] = "poll"
  PROVE  /\ pc'[t] = "ok" /\ requested[t] # {} =>
              state[acl[t]] = "active" /\ KeysOf(requested[t]) \subseteq rules[acl[t]]
         /\ pc'[t] = "dropped" =>
              \/ ~ KeysOf(requested[t]) \subseteq rules[acl[t]]
              \/ state[acl[t]] = "updating" /\ polls'[t] = Attempts
<1> USE AclAssumption
<1>m. ASSUME NEW held
      PROVE  Missing(requested[t], held) = {} <=> KeysOf(requested[t]) \subseteq held
  BY DEF Missing, KeysOf
<1>1. CASE PollSettled(t)
  BY <1>1, <1>m DEF AclInv, TypeOK, PollSettled, Report
<1>2. CASE PollUpdating(t)
  <2>1. KeysOf(requested[t]) \subseteq {} => requested[t] = {}
    BY DEF KeysOf
  <2>2. /\ polls'[t] = polls[t] + 1 /\ polls[t] < Attempts /\ polls[t] \in Nat
        /\ state[acl[t]] = "updating"
    BY <1>2, SMT DEF AclInv, TypeOK, PollUpdating
  <2>3. CASE polls[t] + 1 < Attempts
    BY <1>2, <2>3 DEF PollUpdating
  <2>4. CASE ~(polls[t] + 1 < Attempts)
    <3>1. polls'[t] = Attempts
      BY <2>2, <2>4, SMT
    <3>2. Report(t, {})
      BY <1>2, <2>4 DEF PollUpdating
    <3>3. pc'[t] = "ok" => KeysOf(requested[t]) \subseteq {}
      BY <1>m, <3>2 DEF Report, AclInv, TypeOK
    <3> QED
      BY <2>1, <2>2, <3>1, <3>3
  <2> QED
    BY <2>3, <2>4
<1>3. CASE ~PollSettled(t) /\ ~PollUpdating(t)
  <2>1. pc'[t] \notin {"ok", "dropped"}
    <3>1. CASE PollFails(t)
      BY <3>1 DEF PollFails, AclInv, TypeOK
    <3>2. CASE UNCHANGED pc
      BY <3>2
    <3>3. ASSUME NEW u \in Tasks, Step(u), u # t PROVE pc'[t] = pc[t]
      BY <3>3 DEF Step, PutTaken, PutFails, PollSettled, PollUpdating, PollFails, Report,
                  AclInv, TypeOK
    <3>4. ASSUME NEW u \in Tasks, NEW a \in Acls, NEW K \in SUBSET Keys, ReadRules(u, a, K)
          PROVE  pc'[t] = pc[t]
      BY <3>4 DEF ReadRules, AclInv, TypeOK
    <3> QED
      BY <1>3, <3>1, <3>2, <3>3, <3>4
      DEF Next, Step, PutTaken, PutRepeats, PutFails, Taken, vars, CreateNetworkAcl, DeleteNetworkAcl,
          UpdateNetworkAclSubnets, Settle
  <2> QED
    BY <2>1
<1> QED
  BY <1>1, <1>2, <1>3

(* Success means the rules asked for were found in force                    *)
(* (networkacl_handler.py 264-274).                                         *)
THEOREM OkMeansLandedHolds == Spec => OkMeansLanded
<1>1. AclInv /\ [Next]_vars =>
        \A t \in Tasks : pc[t] = "poll" /\ pc'[t] = "ok" /\ requested[t] # {} =>
          state[acl[t]] = "active" /\ KeysOf(requested[t]) \subseteq rules[acl[t]]
  BY ReportStep
<1> QED
  BY <1>1, AclInvariant, PTL DEF Spec, OkMeansLanded

(* "did not keep" is true of a settled ACL                                  *)
(* (networkacl_handler.py 264-274, 276-296).                                *)
THEOREM DroppedMeansNotHeldHolds == Spec => DroppedMeansNotHeld
<1>1. AclInv /\ [Next]_vars =>
        \A t \in Tasks : pc[t] = "poll" /\ pc'[t] = "dropped" =>
          \/ ~ KeysOf(requested[t]) \subseteq rules[acl[t]]
          \/ state[acl[t]] = "updating" /\ polls'[t] = Attempts
  BY ReportStep
<1> QED
  BY <1>1, AclInvariant, PTL DEF Spec, DroppedMeansNotHeld

-----------------------------------------------------------------------------
(* Where the rules of an ACL may come from: the bookends, and what calls     *)
(* that name this ACL have asked for.                                        *)
Sourced(a) == Defaults \cup UNION {KeysOf(requested[t]) : t \in {u \in Tasks : acl[u] = a}}

(* An ACL never holds, and never is about to hold, a rule nobody asked for   *)
(* on that very ACL: the merge only puts back what the ACL itself had when   *)
(* the call read it (networkacl_handler.py 49-66, 247-262), however old that *)
(* is by the time it is sent.                                                *)
NothingUnasked == \A a \in Acls :
    /\ state[a] # "none" => rules[a] \subseteq Sourced(a)
    /\ state[a] = "updating" => pending[a] \subseteq Sourced(a)

(* Inductive with what an edit under way has read, and with the fact that a  *)
(* call that has not begun names no ACL: so sources are only added.          *)
SourceInv ==
    /\ NothingUnasked
    /\ \A t \in Tasks : pc[t] = "put" => KeysOf(current[t]) \subseteq Sourced(acl[t])
    /\ \A t \in Tasks : pc[t] = "idle" => acl[t] = None

(* The keys of what is sent are asked for or were read. *)
LEMMA MergeAddsNothing ==
  ASSUME NEW asked, NEW now
  PROVE  KeysOf(Merged(asked, now)) \subseteq KeysOf(asked) \cup KeysOf(now)
BY DEF KeysOf, Merged

(* What a call asks for is a source of its ACL. *)
LEMMA AskedIsSourced ==
  ASSUME NEW t \in Tasks
  PROVE  KeysOf(requested[t]) \subseteq Sourced(acl[t])
BY DEF Sourced

(* A call that begins adds a source and takes none away. *)
LEMMA SourcesGrow ==
  ASSUME AclInv, SourceInv, Next, NEW a \in Acls
  PROVE  Sourced(a) \subseteq Sourced(a)'
<1>1. ASSUME NEW u \in Tasks, acl[u] = a PROVE acl'[u] = a /\ requested'[u] = requested[u]
  <2>1. ASSUME NEW t \in Tasks, NEW b \in Acls, NEW K \in SUBSET Keys, ReadRules(t, b, K)
        PROVE  acl'[u] = a /\ requested'[u] = requested[u]
    <3>1. u # t
      BY <1>1, <2>1, AclAssumption DEF SourceInv, ReadRules
    <3>2. QED
      BY <1>1, <2>1, <3>1 DEF ReadRules, AclInv, TypeOK
  <2>2. CASE UNCHANGED <<acl, requested>>
    BY <1>1, <2>2
  <2>3. QED
    BY <2>1, <2>2 DEF Next, Step, CreateNetworkAcl, DeleteNetworkAcl, UpdateNetworkAclSubnets,
       Settle, PutTaken, PutRepeats, Taken, PutFails, PollSettled, PollUpdating, PollFails
<1>2. QED
  BY <1>1 DEF Sourced

(* Every step keeps that rules come from where they may. *)
LEMMA SourceInvStep == AclInv /\ SourceInv /\ [Next]_vars => SourceInv'
<1> SUFFICES ASSUME AclInv, SourceInv, [Next]_vars PROVE SourceInv'
  OBVIOUS
<1>t. TypeOK /\ \A t \in Tasks : pc[t] # "idle" => acl[t] \in Acls
  BY DEF AclInv
<1>g. ASSUME Next, NEW a \in Acls PROVE Sourced(a) \subseteq Sourced(a)'
  BY <1>g, SourcesGrow
<1>1. ASSUME NEW a \in Acls, CreateNetworkAcl(a) PROVE SourceInv'
  <2>1. Next
    BY <1>1 DEF Next
  <2>2. Defaults \subseteq Sourced(a)'
    BY DEF Sourced
  <2>3. /\ state' = [state EXCEPT ![a] = "active"] /\ rules' = [rules EXCEPT ![a] = Defaults]
        /\ UNCHANGED <<pending, pc, acl, current>>
    BY <1>1 DEF CreateNetworkAcl
  <2>4. QED
    BY <1>t, <1>g, <2>1, <2>2, <2>3 DEF SourceInv, NothingUnasked, TypeOK
<1>2. ASSUME NEW a \in Acls, DeleteNetworkAcl(a) \/ UpdateNetworkAclSubnets(a) \/ Settle(a)
      PROVE  SourceInv'
  <2>1. Next
    BY <1>2 DEF Next
  <2>2. UNCHANGED <<pc, acl, current>>
    BY <1>2 DEF DeleteNetworkAcl, UpdateNetworkAclSubnets, Settle
  <2>3. ASSUME NEW b \in Acls
        PROVE  /\ state'[b] # "none" => rules'[b] \subseteq Sourced(b)
               /\ state'[b] = "updating" => pending'[b] \subseteq Sourced(b)
    BY <1>2, <1>t DEF DeleteNetworkAcl, UpdateNetworkAclSubnets, Settle, SourceInv,
       NothingUnasked, TypeOK
  <2>4. QED
    BY <1>t, <1>g, <2>1, <2>2, <2>3 DEF SourceInv, NothingUnasked
<1>3. ASSUME NEW t \in Tasks, NEW a \in Acls, NEW K \in SUBSET Keys, ReadRules(t, a, K)
      PROVE  SourceInv'
  <2>1. Next
    BY <1>3 DEF Next
  <2>2. /\ pc' = [pc EXCEPT ![t] = "put"] /\ acl' = [acl EXCEPT ![t] = a]
        /\ \E shown \in Shown(a) : current' = [current EXCEPT ![t] = AsRead(shown)]
        /\ UNCHANGED platform /\ state[a] # "none"
    BY <1>3 DEF ReadRules
  <2>3. KeysOf(current'[t]) \subseteq Sourced(a) /\ acl'[t] = a
    <3>1. PICK shown \in Shown(a) : current' = [current EXCEPT ![t] = AsRead(shown)]
      BY <2>2
    <3>2. shown \subseteq Sourced(a)
      BY <2>2 DEF Shown, SourceInv, NothingUnasked
    <3>3. current'[t] = AsRead(shown) /\ acl'[t] = a
      BY <1>t, <2>2, <3>1 DEF TypeOK
    <3>4. QED
      BY <3>2, <3>3, KeysOfRead
  <2>4. ASSUME NEW u \in Tasks, pc'[u] = "put"
        PROVE  KeysOf(current'[u]) \subseteq Sourced(acl[u])' /\ acl'[u] \in Acls
    <3>1. CASE u = t
      BY <1>g, <2>1, <2>2, <2>3, <3>1 DEF SourceInv, NothingUnasked
    <3>2. CASE u # t
      <4>1. pc[u] = "put" /\ acl'[u] = acl[u] /\ current'[u] = current[u]
        BY <1>t, <2>2, <2>4, <3>2 DEF TypeOK
      <4>2. KeysOf(current[u]) \subseteq Sourced(acl[u]) /\ acl[u] \in Acls
        BY <1>t, <4>1 DEF SourceInv
      <4>3. Sourced(acl[u]) \subseteq Sourced(acl[u])'
        BY <1>g, <2>1, <4>1, <4>2 DEF Sourced
      <4>4. QED
        BY <4>1, <4>2, <4>3
    <3>3. QED
      BY <3>1, <3>2
  <2>5. \A u \in Tasks : pc'[u] = "idle" => acl'[u] = None
    BY <1>t, <2>2 DEF SourceInv, TypeOK
  <2>6. NothingUnasked'
    BY <1>g, <2>1, <2>2 DEF SourceInv, NothingUnasked, platform
  <2>7. QED
    BY <2>4, <2>5, <2>6 DEF SourceInv
<1>4. ASSUME NEW t \in Tasks, PutTaken(t) \/ PutRepeats(t) PROVE SourceInv'
  <2>1. Taken(t)
    BY <1>4 DEF PutTaken, PutRepeats
  <2>2. PICK kept \in SUBSET KeysOf(Payload(t)) : pending' = [pending EXCEPT ![acl[t]] = kept]
    BY <2>1 DEF Taken
  <2>3. /\ state' = [state EXCEPT ![acl[t]] = "updating"]
        /\ UNCHANGED <<rules, acl, requested>>
        /\ acl[t] \in Acls /\ pc[t] = "put" /\ state[acl[t]] = "active"
    BY <1>t, <2>1 DEF Taken
  <2>4. kept \subseteq Sourced(acl[t])
    <3>1. KeysOf(Payload(t)) \subseteq KeysOf(requested[t]) \cup KeysOf(current[t])
      BY MergeAddsNothing DEF Payload
    <3>2. KeysOf(current[t]) \subseteq Sourced(acl[t])
      BY <2>3 DEF SourceInv
    <3>3. QED
      BY <2>2, <3>1, <3>2, AskedIsSourced
  <2>5. \A b \in Acls : Sourced(b)' = Sourced(b)
    BY <2>3 DEF Sourced
  <2>6. ASSUME NEW b \in Acls
        PROVE  /\ state'[b] # "none" => rules'[b] \subseteq Sourced(b)
               /\ state'[b] = "updating" => pending'[b] \subseteq Sourced(b)
    BY <1>t, <2>2, <2>3, <2>4 DEF SourceInv, NothingUnasked, TypeOK
  <2>7. ASSUME NEW u \in Tasks
        PROVE  /\ pc'[u] = "put" => KeysOf(current'[u]) \subseteq Sourced(acl'[u])
               /\ pc'[u] = "idle" => acl'[u] = None
    <3>1. \/ /\ pc' = [pc EXCEPT ![t] = "poll"] \/ pc' = [pc EXCEPT ![t] = "error"]
             /\ current' = [current EXCEPT ![t] = {}]
          \/ UNCHANGED <<pc, current>>
      BY <1>4 DEF PutTaken, PutRepeats, HasSent
    <3>2. /\ pc'[u] = "put" => pc[u] = "put" /\ current'[u] = current[u]
          /\ pc'[u] = "idle" => pc[u] = "idle"
      BY <1>t, <3>1 DEF TypeOK
    <3>3. QED
      BY <2>3, <3>2 DEF SourceInv
  <2>8. \A u \in Tasks : pc'[u] = "put" => KeysOf(current'[u]) \subseteq Sourced(acl[u])'
    BY <2>3, <2>7 DEF Sourced
  <2>9. QED
    BY <2>5, <2>6, <2>7, <2>8 DEF SourceInv, NothingUnasked
<1>5. ASSUME NEW t \in Tasks, PutFails(t) \/ PollSettled(t) \/ PollUpdating(t) \/ PollFails(t)
      PROVE  SourceInv'
  <2>1. UNCHANGED <<state, rules, pending, acl, requested>>
    BY <1>5 DEF PutFails, PollSettled, PollUpdating, PollFails, platform
  <2>2. \A u \in Tasks : pc'[u] \in {"put", "idle"} => pc[u] = pc'[u] /\ current'[u] = current[u]
    BY <1>5, <1>t DEF PutFails, HasSent, PollSettled, PollUpdating, PollFails, Report, TypeOK
  <2>3. QED
    BY <2>1, <2>2 DEF SourceInv, NothingUnasked, Sourced
<1>6. CASE UNCHANGED vars
  BY <1>6 DEF vars, SourceInv, NothingUnasked, Sourced
<1>7. QED
  BY <1>1, <1>2, <1>3, <1>4, <1>5, <1>6 DEF Next, Step

(* No interleaving of edits brings a rule into force that nobody asked for   *)
(* on that ACL.                                                              *)
THEOREM NothingUnaskedHolds == Spec => []NothingUnasked
<1>1. Init => SourceInv
  BY DEF Init, SourceInv, NothingUnasked
<1>2. SourceInv => NothingUnasked
  BY DEF SourceInv
<1>3. QED
  BY <1>1, <1>2, SourceInvStep, AclInvariant, PTL DEF Spec

=============================================================================
