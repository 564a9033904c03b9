----------------------------- MODULE NetworkAcl -----------------------------
(***************************************************************************)
(* The network ACL tools of the vServer MCP server that change an ACL      *)
(* (networkacl_handler.py).  An update reads the rules, sends the complete *)
(* new set, and polls the ACL until the platform has applied it; other     *)
(* calls run between any two of its requests.                              *)
(*                                                                         *)
(* A rule is its key, the six fields _rule_key compares, plus the spelling *)
(* of its protocol.  The server runs with --allow-write; the platform is   *)
(* changed through these tools only, and is trusted neither to show the    *)
(* rules of an ACL it is busy with nor to keep what it is sent.  Subnets   *)
(* are left out, but for the time an ACL is busy after they change.        *)
(***************************************************************************)
EXTENDS Naturals

CONSTANTS
    Tasks,      \* calls of update_network_acl_rules
    Acls,
    Keys,       \* rules, up to upper and lower case
    SystemKeys, \* those with a sequence number in SYSTEM_SEQ_NUMBERS
    Defaults,   \* the bookends every ACL starts with
    Attempts,   \* polls before _wait_for_acl gives up (15 in the code)
    None

ASSUME AclAssumption ==
    /\ Defaults \subseteq SystemKeys /\ SystemKeys \subseteq Keys
    /\ Attempts \in Nat \ {0}
    /\ None \notin Acls

VARIABLES
    state,      \* state[a]: "none", "active", "updating" or "deleted"
    rules,      \* rules[a]: the keys in force
    pending,    \* pending[a]: the keys being applied while "updating", else {}
    pc,         \* pc[t]: "idle", "put", "poll", "ok", "dropped" or "error"
    acl,        \* acl[t]: network_acl_id
    requested,  \* requested[t]: the rules of the call, lower-cased
    current,    \* current[t]: the rules read, until the PUT
    polls,      \* polls[t]: answers _wait_for_acl has had
    blind,      \* history: calls before their PUT whose read a busy ACL answered without bookends
    lost        \* history: ACLs that such a read, or the platform, may have cost a bookend

vars == <<state, rules, pending, pc, acl, requested, current, polls, blind, lost>>
platform == <<state, rules, pending>>
history == <<blind, lost>>

Rules == [key : Keys, upper : BOOLEAN]
KeysOf(S) == {r.key : r \in S}
Ended == {"ok", "dropped", "error"}

Init ==
    /\ state = [a \in Acls |-> "none"]
    /\ rules = [a \in Acls |-> {}]
    /\ pending = [a \in Acls |-> {}]
    /\ pc = [t \in Tasks |-> "idle"]
    /\ acl = [t \in Tasks |-> None]
    /\ requested = [t \in Tasks |-> {}]
    /\ current = [t \in Tasks |-> {}]
    /\ polls = [t \in Tasks |-> 0]
    /\ blind = {} /\ lost = {}

-----------------------------------------------------------------------------
(* The platform spells protocols in upper case when it is read. *)
AsRead(K) == {[key |-> k, upper |-> TRUE] : k \in K}

(* NetworkAclRuleDto and the handler: what a caller asks for, lower-cased. *)
Lowered(K) == {[key |-> k, upper |-> FALSE] : k \in K}

\* the caller's set is the set that is sent
RequestedOnly(asked, now) == asked

(* _merge_with_platform_defaults. *)
Merged(asked, now) ==
    asked \cup {r \in now : r.key \in SystemKeys /\ r.key \notin KeysOf(asked)}

Payload(t) == Merged(requested[t], current[t])

\* rules compared as they are spelled
MissingAsSpelled(asked, K) == asked \ AsRead(K)

\* the check for dropped rules forgotten
NothingMissing(asked, K) == {}

(* What the caller asked for and the ACL read back does not hold. *)
Missing(asked, K) == {r \in asked : r.key \notin K}

-----------------------------------------------------------------------------
CreateNetworkAcl(a) ==
    /\ state[a] = "none"
    /\ state' = [state EXCEPT ![a] = "active"]
    /\ rules' = [rules EXCEPT ![a] = Defaults]
    /\ UNCHANGED <<pending, pc, acl, requested, current, polls, history>>

DeleteNetworkAcl(a) ==
    /\ state[a] \in {"active", "updating"}
    /\ state' = [state EXCEPT ![a] = "deleted"]
    /\ pending' = [pending EXCEPT ![a] = {}]
    /\ UNCHANGED <<rules, pc, acl, requested, current, polls, history>>

(* A new set of subnets keeps the ACL busy; this tool does not wait. *)
UpdateNetworkAclSubnets(a) ==
    /\ state[a] = "active"
    /\ state' = [state EXCEPT ![a] = "updating"]
    /\ pending' = [pending EXCEPT ![a] = rules[a]]
    /\ UNCHANGED <<rules, pc, acl, requested, current, polls, history>>

(* What /rules answers.  "Rule and subnet changes are applied              *)
(* asynchronously": of an ACL that is updating nothing says more than that  *)
(* its rule lists may be empty (280-284); it may also show the set in force *)
(* or the one being applied.                                                *)
Shown(a) == IF state[a] = "updating" THEN {{}, rules[a], pending[a]} ELSE {rules[a]}

(* update_network_acl_rules up to its first answer; it takes what it is     *)
(* shown, without a look at the status.                                     *)
ReadRules(t, a, K) ==
    /\ pc[t] = "idle" /\ state[a] \in {"active", "updating"}
    /\ acl' = [acl EXCEPT ![t] = a]
    /\ requested' = [requested EXCEPT ![t] = Lowered(K)]
    /\ \E shown \in Shown(a) :
         /\ current' = [current EXCEPT ![t] = AsRead(shown)]
         /\ blind' = IF state[a] = "updating" /\ ~ Defaults \subseteq shown
                     THEN blind \cup {t} ELSE blind
    /\ pc' = [pc EXCEPT ![t] = "put"]
    /\ UNCHANGED <<platform, polls, lost>>

(* What was read is of no use after the PUT. *)
HasSent(t) ==
    /\ current' = [current EXCEPT ![t] = {}]
    /\ blind' = blind \ {t}

(* The platform takes the set that is sent, and may drop any rule of it:    *)
(* the bookends, too, which are spelled as on the read, a spelling it       *)
(* rejects in a caller's rules.                                             *)
Taken(t) ==
    /\ pc[t] = "put" /\ state[acl[t]] = "active"
    /\ LET sent == KeysOf(Payload(t))
       IN  \E kept \in SUBSET sent :
             /\ pending' = [pending EXCEPT ![acl[t]] = kept]
             /\ lost' = IF \/ ~ Defaults \cap sent \subseteq kept
                           \/ t \in blind /\ ~ Defaults \subseteq sent
                        THEN lost \cup {acl[t]} ELSE lost
    /\ state' = [state EXCEPT ![acl[t]] = "updating"]
    /\ UNCHANGED <<rules, acl, requested, polls>>

(* The PUT is taken; its answer may be lost, which the tool reports as an   *)
(* error.                                                                   *)
PutTaken(t) ==
    /\ Taken(t)
    /\ \E after \in {"poll", "error"} : pc' = [pc EXCEPT ![t] = after]
    /\ HasSent(t)

(* The PUT is taken and its answer is late or a 5xx: the client sends the   *)
(* same set again.                                                          *)
PutRepeats(t) == Taken(t) /\ UNCHANGED <<pc, current, blind>>

(* Refused ("is busy doing something", an invalid rule, no such ACL) or     *)
(* never arrived.                                                           *)
PutFails(t) ==
    /\ pc[t] = "put"
    /\ pc' = [pc EXCEPT ![t] = "error"]
    /\ HasSent(t)
    /\ UNCHANGED <<platform, acl, requested, polls, lost>>

(* The ACL is as asked, or the tool reports what the platform did not keep. *)
Report(t, held) ==
    pc' = [pc EXCEPT ![t] = IF Missing(requested[t], held) = {} THEN "ok" ELSE "dropped"]

(* A poll finds the ACL settled. *)
PollSettled(t) ==
    /\ pc[t] = "poll" /\ state[acl[t]] = "active"
    /\ Report(t, rules[acl[t]])
    /\ UNCHANGED <<platform, acl, requested, current, polls, history>>

\* attempts counted round and round, never ending the wait
PollForever(t) ==
    /\ pc[t] = "poll" /\ state[acl[t]] = "updating"
    /\ polls' = [polls EXCEPT ![t] = (@ + 1) % Attempts]
    /\ UNCHANGED <<platform, pc, acl, requested, current, history>>

\* one attempt too many
PollOnceMore(t) ==
    /\ pc[t] = "poll" /\ state[acl[t]] = "updating"
    /\ polls' = [polls EXCEPT ![t] = @ + 1]
    /\ IF polls[t] + 1 <= Attempts THEN UNCHANGED pc ELSE Report(t, {})
    /\ UNCHANGED <<platform, acl, requested, current, history>>

(* A poll finds it UPDATING, with no rules; the last one counts as the      *)
(* answer.                                                                  *)
PollUpdating(t) ==
    /\ pc[t] = "poll" /\ state[acl[t]] = "updating"
    /\ polls' = [polls EXCEPT ![t] = @ + 1]
    /\ IF polls[t] + 1 < Attempts THEN UNCHANGED pc ELSE Report(t, {})
    /\ UNCHANGED <<platform, acl, requested, current, history>>

PollFails(t) ==
    /\ pc[t] = "poll"
    /\ pc' = [pc EXCEPT ![t] = "error"]
    /\ UNCHANGED <<platform, acl, requested, current, polls, history>>

(* The platform has applied a change; nothing says how long that takes. *)
Settle(a) ==
    /\ state[a] = "updating"
    /\ state' = [state EXCEPT ![a] = "active"]
    /\ rules' = [rules EXCEPT ![a] = pending[a]]
    /\ pending' = [pending EXCEPT ![a] = {}]
    /\ UNCHANGED <<pc, acl, requested, current, polls, history>>

Step(t) == PutTaken(t) \/ PutFails(t) \/ PollSettled(t) \/ PollUpdating(t) \/ PollFails(t)

Next ==
    \/ \E a \in Acls : \/ CreateNetworkAcl(a) \/ DeleteNetworkAcl(a)
                       \/ UpdateNetworkAclSubnets(a) \/ Settle(a)
    \/ \E t \in Tasks : \/ Step(t) \/ PutRepeats(t)
                       \/ \E a \in Acls, K \in SUBSET Keys : ReadRules(t, a, K)

Spec == Init /\ [][Next]_vars

(* Requests end, by an answer or when the client's retries are used up, and *)
(* the event loop then runs the call on.  The platform owes nothing.        *)
FairSpec == Spec /\ \A t \in Tasks : WF_vars(Step(t))

-----------------------------------------------------------------------------
(* Types. *)
TypeOK ==
    /\ state \in [Acls -> {"none", "active", "updating", "deleted"}]
    /\ rules \in [Acls -> SUBSET Keys]
    /\ pending \in [Acls -> SUBSET Keys]
    /\ pc \in [Tasks -> {"idle", "put", "poll"} \cup Ended]
    /\ acl \in [Tasks -> Acls \cup {None}]
    /\ requested \in [Tasks -> SUBSET Rules]
    /\ current \in [Tasks -> SUBSET Rules]
    /\ polls \in [Tasks -> 0..Attempts]
    /\ blind \subseteq Tasks /\ lost \subseteq Acls

(* "an edit cannot silently turn the ACL into deny-all" (228-230), as far   *)
(* as the tool has it in its hands: through any number of edits, each made  *)
(* from a set read before the others landed, an ACL keeps the bookend rules *)
(* it was created with, unless the platform drops one it is sent, or an     *)
(* edit was shown a busy ACL without them and its caller did not send them. *)
BookendsKept == \A a \in Acls :
    state[a] # "none" /\ a \notin lost => Defaults \subseteq rules[a]

(* "what it returns is what the platform actually kept" (242-244): a call   *)
(* that asked for rules and succeeds has found them all in force.           *)
OkMeansLanded ==
    [][\A t \in Tasks : pc[t] = "poll" /\ pc'[t] = "ok" /\ requested[t] # {} =>
         state[acl[t]] = "active" /\ KeysOf(requested[t]) \subseteq rules[acl[t]]]_vars

(* "did not keep" is reported only of an ACL that does not hold the rules,  *)
(* unless the last poll still found it updating.                            *)
DroppedMeansNotHeld ==
    [][\A t \in Tasks : pc[t] = "poll" /\ pc'[t] = "dropped" =>
         \/ ~ KeysOf(requested[t]) \subseteq rules[acl[t]]
         \/ state[acl[t]] = "updating" /\ polls'[t] = Attempts]_vars

(* A call ends even when the platform never settles. *)
UpdateEnds == \A t \in Tasks : pc[t] # "idle" ~> pc[t] \in Ended

=============================================================================
