---------------------------- MODULE ConfigGroups ----------------------------
(***************************************************************************)
(* Configuration groups of vDB, relational and in memory: create, update   *)
(* and delete (relational_config_handler.py, memory_config_handler.py).    *)
(*                                                                         *)
(* A group overrides parameters of the instances attached to it.  Changing *)
(* one that needs a restart puts each of them into RESTART_REQUIRED, and   *)
(* the answer must tell the caller so.  But the answer of the PUT is thin, *)
(* so the group is read again, and its parameters are looked up, both as   *)
(* far as possible: the change has been made whatever these reads do.      *)
(* Meanwhile instances are attached and detached, and other calls run.     *)
(***************************************************************************)
EXTENDS Naturals

CONSTANTS
    Tasks,      \* concurrent calls
    Instances   \* instances that may use the group

VARIABLES
    group,      \* "there" or "gone": the one group updates and deletes are for
    attached,   \* instances that use it
    calls       \* task -> its call

vars == <<group, attached, calls>>

(* A call: its tool, what it awaits; whether it changes a parameter that    *)
(* needs a restart; whether the API has carried it out, and the caller has  *)
(* heard so; what is known of the group: its engine, its instances; and,    *)
(* for the properties, which instances this call put into RESTART_REQUIRED  *)
(* and left there attached, and whether one of the reads failed.            *)
Call == [tool : {"none", "create", "update", "delete"},
         pc : {"idle", "write", "reread", "params"},
         restarts : BOOLEAN, done : BOOLEAN, heard : BOOLEAN,
         typed : BOOLEAN, known : SUBSET Instances,
         affected : SUBSET Instances, missed : BOOLEAN,
         answer : {"none", "error", "group", "no_instance", "restart", "live",
                   "accepted", "not_accepted"}]

NoCall == [tool |-> "none", pc |-> "idle", restarts |-> FALSE, done |-> FALSE, heard |-> FALSE,
           typed |-> FALSE, known |-> {}, affected |-> {}, missed |-> FALSE, answer |-> "none"]

Init ==
    /\ group = "there"
    /\ attached \in SUBSET Instances
    /\ calls = [t \in Tasks |-> NoCall]

-----------------------------------------------------------------------------
At(t, tool, pc) == calls[t].tool = tool /\ calls[t].pc = pc

Begins(t, tool, restarts) ==
    /\ calls[t].pc = "idle"
    /\ calls' = [calls EXCEPT ![t] =
            [NoCall EXCEPT !.tool = tool, !.pc = "write", !.restarts = restarts]]
    /\ UNCHANGED <<group, attached>>

Create(t) == Begins(t, "create", FALSE)
Update(t) == \E restarts \in BOOLEAN : Begins(t, "update", restarts)
Delete(t) == Begins(t, "delete", FALSE)

(* The platform carries the request out.  An update's answer may tell the   *)
(* engine and the instances or leave them out; a group in use is not        *)
(* deleted.                                                                 *)
ApiCreates(t) ==
    /\ At(t, "create", "write")
    /\ calls' = [calls EXCEPT ![t].done = TRUE]
    /\ UNCHANGED <<group, attached>>

ApiUpdates(t) ==
    /\ At(t, "update", "write")
    /\ group = "there"
    /\ \E typed \in BOOLEAN, known \in {{}, attached} :
        calls' = [calls EXCEPT ![t] = [@ EXCEPT
            !.done = TRUE, !.typed = typed, !.known = known,
            !.affected = IF calls[t].restarts THEN attached ELSE {}]]
    /\ UNCHANGED <<group, attached>>

ApiDeletes(t) ==
    /\ At(t, "delete", "write")
    /\ group = "there"
    /\ attached = {}
    /\ group' = "gone"
    /\ calls' = [calls EXCEPT ![t].done = TRUE]
    /\ UNCHANGED attached

-----------------------------------------------------------------------------
Ends(t, answer) == [calls[t] EXCEPT !.pc = "idle", !.answer = answer]

(* The request raises: it was refused, or carried out and nobody heard.     *)
WriteRaises(t) ==
    /\ calls[t].pc = "write"
    /\ calls' = [calls EXCEPT ![t] = Ends(t, "error")]
    /\ UNCHANGED <<group, attached>>

(* create: an answer with an id and a name is enough.                       *)
CreateAnswers(t) ==
    /\ At(t, "create", "write")
    /\ calls[t].done
    /\ \E named \in BOOLEAN :
        calls' = [calls EXCEPT ![t] =
            [IF named THEN Ends(t, "group") ELSE [@ EXCEPT !.pc = "reread"] EXCEPT !.heard = TRUE]]
    /\ UNCHANGED <<group, attached>>

\* a mutated form of UpdateAnswers below: the echo is believed
UpdateAnswersFromEcho(t) ==
    /\ At(t, "update", "write")
    /\ calls[t].done
    /\ calls' = [calls EXCEPT ![t] = [@ EXCEPT !.heard = TRUE, !.pc = "params"]]
    /\ UNCHANGED <<group, attached>>

(* update: without the engine or the instances the group is read again.     *)
UpdateAnswers(t) ==
    /\ At(t, "update", "write")
    /\ calls[t].done
    /\ calls' = [calls EXCEPT ![t] = [@ EXCEPT !.heard = TRUE,
            !.pc = IF ~calls[t].typed \/ calls[t].known = {} THEN "reread" ELSE "params"]]
    /\ UNCHANGED <<group, attached>>

(* A delete is answered 200 whatever the API did: with a row for each       *)
(* group, or without any.  A request repeated by the client may fail on     *)
(* what its first attempt has deleted.                                      *)
Rows(t) == {"none", "failed"} \cup (IF calls[t].done THEN {"ok"} ELSE {})

\* a mutated form of DeleteAnswers below: an answer without rows counts as success
DeleteAnswersUnlessFailed(t) ==
    /\ At(t, "delete", "write")
    /\ \E rows \in Rows(t) :
        calls' = [calls EXCEPT ![t] =
            [Ends(t, IF rows = "failed" THEN "not_accepted" ELSE "accepted") EXCEPT !.heard = TRUE]]
    /\ UNCHANGED <<group, attached>>

(* delete: no row, or a failure among them, is no success.                  *)
DeleteAnswers(t) ==
    /\ At(t, "delete", "write")
    /\ \E rows \in Rows(t) :
        calls' = [calls EXCEPT ![t] =
            [Ends(t, IF rows = "ok" THEN "accepted" ELSE "not_accepted") EXCEPT !.heard = TRUE]]
    /\ UNCHANGED <<group, attached>>

-----------------------------------------------------------------------------
AfterReread(t, call) ==
    IF call.tool = "create" THEN [call EXCEPT !.pc = "idle", !.answer = "group"]
                            ELSE [call EXCEPT !.pc = "params"]

(* A group in memory is still found for a while after it was deleted.       *)
RereadAnswers(t) ==
    /\ calls[t].pc = "reread"
    /\ calls' = [calls EXCEPT ![t] =
            AfterReread(t, [@ EXCEPT !.typed = TRUE,
                                     !.known = IF calls[t].tool = "update" THEN attached ELSE {}])]
    /\ UNCHANGED <<group, attached>>

(* except Exception: an empty payload, a lost answer, a deleted group.      *)
RereadFails(t) ==
    /\ calls[t].pc = "reread"
    /\ calls' = [calls EXCEPT ![t] = AfterReread(t, [@ EXCEPT !.missed = TRUE])]
    /\ UNCHANGED <<group, attached>>

NextStep(known, needsRestart) ==
    IF known = {} THEN "no_instance" ELSE IF needsRestart THEN "restart" ELSE "live"

(* The parameters of the engine, cached or fetched; without an engine there *)
(* are none.                                                                *)
ParamsAnswer(t) ==
    /\ calls[t].pc = "params"
    /\ calls' = [calls EXCEPT ![t] =
            Ends(t, NextStep(calls[t].known, calls[t].typed /\ calls[t].restarts))]
    /\ UNCHANGED <<group, attached>>

ParamsFail(t) ==
    /\ calls[t].pc = "params"
    /\ calls' = [calls EXCEPT ![t] =
            [Ends(t, NextStep(calls[t].known, FALSE)) EXCEPT !.missed = TRUE]]
    /\ UNCHANGED <<group, attached>>

-----------------------------------------------------------------------------
(* update_*_instance_config_group, of this server or another, takes effect. *)
Attach(i) ==
    /\ group = "there"
    /\ i \notin attached
    /\ attached' = attached \cup {i}
    /\ UNCHANGED <<group, calls>>

Detach(i) ==
    /\ i \in attached
    /\ attached' = attached \ {i}
    /\ calls' = [t \in Tasks |-> [calls[t] EXCEPT
            !.affected = IF calls[t].pc = "idle" THEN @ ELSE @ \ {i}]]
    /\ UNCHANGED group

Next ==
    \/ \E t \in Tasks : Create(t) \/ Update(t) \/ Delete(t)
    \/ \E t \in Tasks : ApiCreates(t) \/ ApiUpdates(t) \/ ApiDeletes(t)
    \/ \E t \in Tasks : CreateAnswers(t) \/ UpdateAnswers(t) \/ DeleteAnswers(t) \/ WriteRaises(t)
    \/ \E t \in Tasks : RereadAnswers(t) \/ RereadFails(t) \/ ParamsAnswer(t) \/ ParamsFail(t)
    \/ \E i \in Instances : Attach(i) \/ Detach(i)

Spec == Init /\ [][Next]_vars

-----------------------------------------------------------------------------
TypeOK ==
    /\ group \in {"there", "gone"}
    /\ attached \in SUBSET Instances
    /\ calls \in [Tasks -> Call]

(* An update whose reads succeeded tells of every instance it put into      *)
(* RESTART_REQUIRED, unless that one was detached meanwhile, and that they  *)
(* must be restarted.  (The comment: "the only question that matters here   *)
(* -- whether the caller just put a running database into                   *)
(* RESTART_REQUIRED".)  When a read failed it may say that no instance uses *)
(* the group.                                                               *)
RestartTold == \A t \in Tasks :
    calls[t].answer \in {"no_instance", "restart", "live"} /\ ~calls[t].missed =>
        /\ calls[t].affected \subseteq calls[t].known
        /\ calls[t].affected # {} => calls[t].answer = "restart"

(* What the tools report of the write itself: once the API has acknowledged *)
(* it no failing read makes an error of it ("a failure here must not turn a *)
(* successful update into an error"), and a delete is accepted only if the  *)
(* group was deleted by it.                                                 *)
ReportTrue == \A t \in Tasks :
    /\ calls[t].answer = "error" => ~calls[t].heard
    /\ calls[t].answer = "accepted" => calls[t].done /\ group = "gone"

=============================================================================
