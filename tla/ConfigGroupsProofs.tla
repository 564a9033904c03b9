------------------------- MODULE ConfigGroupsProofs -------------------------
(***************************************************************************)
(* What the answers about configuration groups guarantee for any number of *)
(* calls and instances.                                                    *)
(*                                                                         *)
(* RestartTold speaks of the end of an update, but what decides it is      *)
(* known earlier: the instances put into RESTART_REQUIRED stay attached    *)
(* until the call ends or are struck out, so a later read of the group     *)
(* shows them all; and the parameters are only looked up with instances    *)
(* and an engine that cover them, or after a read that failed.             *)
(***************************************************************************)
EXTENDS ConfigGroups, TLAPS

(* What is known of a call. *)
CallSound(c) ==
    /\ c.pc # "idle" => c.answer = "none" /\ c.affected \subseteq attached
    /\ c.pc = "write" => c.heard = FALSE
    /\ c.tool = "delete" /\ c.done = TRUE => group = "gone"
    /\ c.affected # {} => c.restarts = TRUE /\ c.tool = "update"
    /\ c.pc = "write" /\ c.tool = "update" /\ c.known # {} => c.affected \subseteq c.known
    /\ c.pc = "params" /\ c.missed = FALSE => c.affected \subseteq c.known /\ c.typed = TRUE
    /\ c.answer = "error" => c.heard = FALSE
    /\ c.answer = "accepted" => c.done = TRUE /\ group = "gone"
    /\ c.answer \in {"no_instance", "restart", "live"} /\ c.missed = FALSE =>
          /\ c.affected \subseteq c.known
          /\ c.affected # {} => c.answer = "restart"

GroupInv ==
    /\ TypeOK
    /\ \A t \in Tasks : CallSound(calls[t])

-----------------------------------------------------------------------------
(* Every field of a call may be replaced by a value of its type.            *)
LEMMA CallFields ==
    ASSUME NEW c \in Call
    PROVE  /\ \A v \in {"none", "create", "update", "delete"} : [c EXCEPT !.tool = v] \in Call
           /\ \A v \in {"idle", "write", "reread", "params"} : [c EXCEPT !.pc = v] \in Call
           /\ \A v \in BOOLEAN : [c EXCEPT !.restarts = v] \in Call
           /\ \A v \in BOOLEAN : [c EXCEPT !.done = v] \in Call
           /\ \A v \in BOOLEAN : [c EXCEPT !.heard = v] \in Call
           /\ \A v \in BOOLEAN : [c EXCEPT !.typed = v] \in Call
           /\ \A v \in BOOLEAN : [c EXCEPT !.missed = v] \in Call
           /\ \A v \in SUBSET Instances : [c EXCEPT !.known = v] \in Call
           /\ \A v \in SUBSET Instances : [c EXCEPT !.affected = v] \in Call
           /\ \A v \in {"none", "error", "group", "no_instance", "restart", "live",
                        "accepted", "not_accepted"} : [c EXCEPT !.answer = v] \in Call
<1>1. \A v \in {"none", "create", "update", "delete"} : [c EXCEPT !.tool = v] \in Call
  BY Zenon DEF Call
<1>2. \A v \in {"idle", "write", "reread", "params"} : [c EXCEPT !.pc = v] \in Call
  BY Zenon DEF Call
<1>3. \A v \in BOOLEAN : [c EXCEPT !.restarts = v] \in Call
  BY Zenon DEF Call
<1>4. \A v \in BOOLEAN : [c EXCEPT !.done = v] \in Call
  BY Zenon DEF Call
<1>5. \A v \in BOOLEAN : [c EXCEPT !.heard = v] \in Call
  BY Zenon DEF Call
<1>6. \A v \in BOOLEAN : [c EXCEPT !.typed = v] \in Call
  BY Zenon DEF Call
<1>7. \A v \in BOOLEAN : [c EXCEPT !.missed = v] \in Call
  BY Zenon DEF Call
<1>8. \A v \in SUBSET Instances : [c EXCEPT !.known = v] \in Call
  BY Zenon DEF Call
<1>9. \A v \in SUBSET Instances : [c EXCEPT !.affected = v] \in Call
  BY Zenon DEF Call
<1>10. \A v \in {"none", "error", "group", "no_instance", "restart", "live",
                 "accepted", "not_accepted"} : [c EXCEPT !.answer = v] \in Call
  BY Zenon DEF Call
<1> QED
  BY <1>1, <1>2, <1>3, <1>4, <1>5, <1>6, <1>7, <1>8, <1>9, <1>10

(* An idle task's call is one. *)
LEMMA NoCallType == NoCall \in Call
BY Zenon DEF NoCall, Call

(* A step of one call keeps the invariant if it leaves that call sound.     *)
LEMMA OneCall ==
    ASSUME GroupInv, NEW t \in Tasks, NEW d \in Call, CallSound(d),
           calls' = [calls EXCEPT ![t] = d], UNCHANGED <<group, attached>>
    PROVE  GroupInv'
<1>1. TypeOK'
  BY DEF GroupInv, TypeOK
<1>2. ASSUME NEW u \in Tasks PROVE CallSound(calls[u])'
  <2>1. calls'[u] = d \/ calls'[u] = calls[u]
    BY DEF GroupInv, TypeOK
  <2>2. CallSound(calls[u])
    BY DEF GroupInv
  <2> QED
    BY <2>1, <2>2 DEF CallSound
<1> QED
  BY <1>1, <1>2 DEF GroupInv

-----------------------------------------------------------------------------
(* The invariant holds before any call. *)
LEMMA GroupInitInv == Init => GroupInv
<1>1. Init => TypeOK
  BY NoCallType DEF Init, TypeOK
<1>2. CallSound(NoCall)
  BY DEF CallSound, NoCall
<1> QED
  BY <1>1, <1>2 DEF Init, GroupInv

(* Every step keeps the invariant.                                          *)
LEMMA GroupInvStep == GroupInv /\ [Next]_vars => GroupInv'
<1> SUFFICES ASSUME GroupInv, [Next]_vars PROVE GroupInv'
  OBVIOUS
<1>t. ASSUME NEW t \in Tasks PROVE calls[t] \in Call /\ CallSound(calls[t])
  BY DEF GroupInv, TypeOK
<1>1. ASSUME NEW t \in Tasks, NEW tool \in {"create", "update", "delete"}, NEW r \in BOOLEAN,
             Begins(t, tool, r)
      PROVE  GroupInv'
  <2> DEFINE d == [NoCall EXCEPT !.tool = tool, !.pc = "write", !.restarts = r]
  <2>1. d = [[[NoCall EXCEPT !.tool = tool] EXCEPT !.pc = "write"] EXCEPT !.restarts = r]
    OBVIOUS
  <2>2. d \in Call
    BY <2>1, NoCallType, CallFields, Zenon
  <2>3. CallSound(d)
    BY DEF CallSound, NoCall
  <2> HIDE DEF d
  <2> QED
    BY <1>1, <2>2, <2>3, OneCall DEF Begins, d
<1>2. ASSUME NEW t \in Tasks, ApiCreates(t) PROVE GroupInv'
  <2> DEFINE d == [calls[t] EXCEPT !.done = TRUE]
  <2>1. d \in Call
    BY <1>t, CallFields, Zenon
  <2>2. CallSound(d)
    BY <1>2, <1>t DEF CallSound, ApiCreates, At, Call
  <2> QED
    BY <1>2, <2>1, <2>2, OneCall DEF ApiCreates
<1>3. ASSUME NEW t \in Tasks, ApiUpdates(t) PROVE GroupInv'
  <2>1. PICK typed \in BOOLEAN, known \in {{}, attached} :
          calls' = [calls EXCEPT ![t] = [@ EXCEPT
            !.done = TRUE, !.typed = typed, !.known = known,
            !.affected = IF calls[t].restarts THEN attached ELSE {}]]
    BY <1>3 DEF ApiUpdates
  <2> DEFINE a == IF calls[t].restarts THEN attached ELSE {}
             d == [calls[t] EXCEPT !.done = TRUE, !.typed = typed, !.known = known, !.affected = a]
  <2>2. d = [[[[calls[t] EXCEPT !.done = TRUE] EXCEPT !.typed = typed] EXCEPT !.known = known]
              EXCEPT !.affected = a]
    OBVIOUS
  <2>3. known \in SUBSET Instances /\ a \in SUBSET Instances
    BY DEF GroupInv, TypeOK
  <2>4. d \in Call
    <3> HIDE DEF a
    <3> QED
      BY <1>t, <2>2, <2>3, CallFields, Zenon
  <2>5. a # {} => calls[t].restarts = TRUE /\ calls[t].tool = "update"
    BY <1>3, <1>t DEF Call, ApiUpdates, At
  <2>6. a \subseteq attached
    OBVIOUS
  <2>7. CallSound(d)
    <3> HIDE DEF a
    <3> QED
      BY <1>3, <1>t, <2>1, <2>5, <2>6 DEF CallSound, ApiUpdates, At, Call
  <2> QED
    BY <1>3, <2>1, <2>4, <2>7, OneCall DEF ApiUpdates
<1>5. ASSUME NEW t \in Tasks, WriteRaises(t) PROVE GroupInv'
  <2> DEFINE d == Ends(t, "error")
  <2>1. d = [[calls[t] EXCEPT !.pc = "idle"] EXCEPT !.answer = "error"]
    BY DEF Ends
  <2>2. d \in Call
    <3> DEFINE c == [calls[t] EXCEPT !.pc = "idle"]
    <3>1. c \in Call
      BY <1>t, CallFields, Zenon
    <3>2. d = [c EXCEPT !.answer = "error"]
      BY <2>1
    <3> HIDE DEF c, d
    <3> QED
      BY <3>1, <3>2, CallFields
  <2>3. CallSound(d)
    BY <1>5, <1>t DEF CallSound, WriteRaises, Ends, Call
  <2> QED
    BY <1>5, <2>2, <2>3, OneCall DEF WriteRaises
<1>6. ASSUME NEW t \in Tasks, CreateAnswers(t) PROVE GroupInv'
  <2>1. PICK named \in BOOLEAN :
        calls' = [calls EXCEPT ![t] =
            [IF named THEN Ends(t, "group") ELSE [@ EXCEPT !.pc = "reread"] EXCEPT !.heard = TRUE]]
    BY <1>6 DEF CreateAnswers
  <2> DEFINE d == [IF named THEN Ends(t, "group") ELSE [calls[t] EXCEPT !.pc = "reread"]
                   EXCEPT !.heard = TRUE]
  <2>2. d = IF named THEN [[[calls[t] EXCEPT !.pc = "idle"] EXCEPT !.answer = "group"] EXCEPT !.heard = TRUE]
            ELSE [[calls[t] EXCEPT !.pc = "reread"] EXCEPT !.heard = TRUE]
    BY DEF Ends
  <2>3. d \in Call
    BY <1>t, <2>2, CallFields, Zenon
  <2>4. CallSound(d)
    BY <1>6, <1>t DEF CallSound, CreateAnswers, At, Ends, Call
  <2> QED
    BY <1>6, <2>1, <2>3, <2>4, OneCall DEF CreateAnswers
<1>7. ASSUME NEW t \in Tasks, UpdateAnswers(t) PROVE GroupInv'
  <2> DEFINE pc == IF ~calls[t].typed \/ calls[t].known = {} THEN "reread" ELSE "params"
             d == [calls[t] EXCEPT !.heard = TRUE, !.pc = pc]
  <2>1. d = [[calls[t] EXCEPT !.heard = TRUE] EXCEPT !.pc = pc]
    OBVIOUS
  <2>2. /\ pc \in {"reread", "params"}
        /\ pc = "params" => calls[t].typed = TRUE /\ calls[t].known # {}
    BY <1>t DEF Call
  <2>3. d \in Call
    <3> HIDE DEF pc
    <3> QED
      BY <1>t, <2>1, <2>2, CallFields
  <2>4. CallSound(d)
    <3> HIDE DEF pc
    <3> QED
      BY <1>7, <1>t, <2>2 DEF CallSound, UpdateAnswers, At, Call
  <2> QED
    BY <1>7, <2>3, <2>4, OneCall DEF UpdateAnswers
<1>8. ASSUME NEW t \in Tasks, DeleteAnswers(t) PROVE GroupInv'
  <2>1. PICK rows \in Rows(t) :
        calls' = [calls EXCEPT ![t] =
            [Ends(t, IF rows = "ok" THEN "accepted" ELSE "not_accepted") EXCEPT !.heard = TRUE]]
    BY <1>8 DEF DeleteAnswers
  <2> DEFINE a == IF rows = "ok" THEN "accepted" ELSE "not_accepted"
             d == [Ends(t, a) EXCEPT !.heard = TRUE]
  <2>2. d = [[[calls[t] EXCEPT !.pc = "idle"] EXCEPT !.answer = a] EXCEPT !.heard = TRUE]
    BY DEF Ends
  <2>3. a \in {"accepted", "not_accepted"} /\ (a = "accepted" => calls[t].done = TRUE)
    BY <1>t, <2>1 DEF Rows, Call
  <2>4. d \in Call
    <3> HIDE DEF a
    <3> QED
      BY <1>t, <2>2, <2>3, CallFields
  <2>5. CallSound(d)
    <3> HIDE DEF a
    <3> QED
      BY <1>8, <1>t, <2>2, <2>3 DEF CallSound, DeleteAnswers, At, Call
  <2> QED
    BY <1>8, <2>1, <2>4, <2>5, OneCall DEF DeleteAnswers
<1>9. ASSUME NEW t \in Tasks, RereadAnswers(t) PROVE GroupInv'
  <2> DEFINE k == IF calls[t].tool = "update" THEN attached ELSE {}
             c == [calls[t] EXCEPT !.typed = TRUE, !.known = k]
             d == AfterReread(t, c)
  <2>1. c = [[calls[t] EXCEPT !.typed = TRUE] EXCEPT !.known = k]
    OBVIOUS
  <2>2. k \in SUBSET Instances
    BY DEF GroupInv, TypeOK
  <2>3. c \in Call
    <3> HIDE DEF k
    <3> QED
      BY <1>t, <2>1, <2>2, CallFields
  <2>4. d = IF c.tool = "create" THEN [[c EXCEPT !.pc = "idle"] EXCEPT !.answer = "group"]
            ELSE [c EXCEPT !.pc = "params"]
    BY DEF AfterReread
  <2>5. d \in Call
    <3> HIDE DEF c, d
    <3> QED
      BY <2>3, <2>4, CallFields
  <2>6. /\ c.tool = calls[t].tool /\ c.known = k /\ c.typed = TRUE /\ c.missed = calls[t].missed
        /\ c.affected = calls[t].affected /\ c.restarts = calls[t].restarts
        /\ c.heard = calls[t].heard /\ c.done = calls[t].done /\ c.answer = calls[t].answer
        /\ c.pc = "reread"
    BY <1>9, <1>t DEF Call, RereadAnswers
  <2>7. c.affected \subseteq c.known /\ (c.affected # {} => c.tool = "update" /\ c.restarts = TRUE)
    <3>1. /\ calls[t].affected \subseteq attached
          /\ calls[t].affected # {} => calls[t].tool = "update" /\ calls[t].restarts = TRUE
      BY <1>9, <1>t DEF CallSound, RereadAnswers
    <3>2. calls[t].affected \subseteq k
      BY <3>1
    <3> HIDE DEF c, k
    <3> QED
      BY <2>6, <3>1, <3>2
  <2>8. c.answer = "none" /\ c.affected \subseteq attached
        /\ (c.tool = "delete" /\ c.done = TRUE => group = "gone")
    BY <1>9, <1>t, <2>6 DEF CallSound, RereadAnswers
  <2>9. CallSound(d)
    <3> HIDE DEF c, k, d
    <3>1. CASE c.tool = "create"
      <4>1. d = [[c EXCEPT !.pc = "idle"] EXCEPT !.answer = "group"]
        BY <2>4, <3>1
      <4> QED
        BY <2>3, <2>6, <2>7, <2>8, <3>1, <4>1 DEF CallSound, Call
    <3>2. CASE c.tool # "create"
      <4>1. d = [c EXCEPT !.pc = "params"]
        BY <2>4, <3>2
      <4> QED
        BY <2>3, <2>6, <2>7, <2>8, <3>2, <4>1 DEF CallSound, Call
    <3> QED
      BY <3>1, <3>2
  <2> QED
    BY <1>9, <2>5, <2>9, OneCall DEF RereadAnswers
<1>10. ASSUME NEW t \in Tasks, RereadFails(t) PROVE GroupInv'
  <2> DEFINE c == [calls[t] EXCEPT !.missed = TRUE]
             d == AfterReread(t, c)
  <2>1. c \in Call
    BY <1>t, CallFields, Zenon
  <2>2. d = IF c.tool = "create" THEN [[c EXCEPT !.pc = "idle"] EXCEPT !.answer = "group"]
            ELSE [c EXCEPT !.pc = "params"]
    BY DEF AfterReread
  <2>3. d \in Call
    <3> HIDE DEF c, d
    <3> QED
      BY <2>1, <2>2, CallFields
  <2>4. CallSound(d)
    BY <1>10, <1>t DEF CallSound, RereadFails, AfterReread, Call
  <2> QED
    BY <1>10, <2>3, <2>4, OneCall DEF RereadFails
<1>11. ASSUME NEW t \in Tasks, ParamsAnswer(t) PROVE GroupInv'
  <2> DEFINE a == NextStep(calls[t].known, calls[t].typed /\ calls[t].restarts)
             d == Ends(t, a)
  <2>1. a \in {"no_instance", "restart", "live"}
    BY DEF NextStep
  <2>a. /\ a = "no_instance" => calls[t].known = {}
        /\ calls[t].known # {} /\ calls[t].typed = TRUE /\ calls[t].restarts = TRUE => a = "restart"
    BY DEF NextStep
  <2>2. d = [[calls[t] EXCEPT !.pc = "idle"] EXCEPT !.answer = a]
    BY DEF Ends
  <2>3. d \in Call
    <3>1. a \in {"none", "error", "group", "no_instance", "restart", "live",
                 "accepted", "not_accepted"}
      BY <2>1
    <3> HIDE DEF a
    <3>2. [calls[t] EXCEPT !.pc = "idle"] \in Call
      BY <1>t, CallFields
    <3>3. [[calls[t] EXCEPT !.pc = "idle"] EXCEPT !.answer = a] \in Call
      BY <3>1, <3>2, CallFields, Zenon
    <3> QED
      BY <2>2, <3>3
  <2>c. /\ d.tool = calls[t].tool /\ d.known = calls[t].known /\ d.missed = calls[t].missed
        /\ d.affected = calls[t].affected /\ d.restarts = calls[t].restarts
        /\ d.heard = calls[t].heard /\ d.done = calls[t].done /\ d.answer = a /\ d.pc = "idle"
    BY <1>t DEF Call, Ends
  <2>4. CallSound(d)
    <3>1. calls[t].missed = FALSE => calls[t].affected \subseteq calls[t].known /\ calls[t].typed = TRUE
      BY <1>11, <1>t DEF CallSound, ParamsAnswer
    <3>2. /\ calls[t].affected # {} => calls[t].restarts = TRUE /\ calls[t].tool = "update"
          /\ calls[t].tool = "delete" /\ calls[t].done = TRUE => group = "gone"
      BY <1>t DEF CallSound
    <3> HIDE DEF a, d
    <3>3. /\ a # "none" /\ a # "error" /\ a # "accepted"
          /\ calls[t].missed = FALSE /\ calls[t].affected # {} => a = "restart"
      BY <2>1, <2>a, <3>1, <3>2
    <3> QED
      BY <2>c, <3>1, <3>2, <3>3 DEF CallSound
  <2> QED
    BY <1>11, <2>3, <2>4, OneCall DEF ParamsAnswer
<1>12. ASSUME NEW t \in Tasks, ParamsFail(t) PROVE GroupInv'
  <2> DEFINE a == NextStep(calls[t].known, FALSE)
             d == [Ends(t, a) EXCEPT !.missed = TRUE]
  <2>1. a \in {"no_instance", "restart", "live"}
    BY DEF NextStep
  <2>2. d = [[[calls[t] EXCEPT !.pc = "idle"] EXCEPT !.answer = a] EXCEPT !.missed = TRUE]
    BY DEF Ends
  <2>3. d \in Call
    <3> HIDE DEF a
    <3> QED
      BY <1>t, <2>1, <2>2, CallFields
  <2>4. CallSound(d)
    <3> HIDE DEF a
    <3> QED
      BY <1>12, <1>t, <2>1, <2>2 DEF CallSound, ParamsFail, Call
  <2> QED
    BY <1>12, <2>3, <2>4, OneCall DEF ParamsFail
<1>4. ASSUME NEW t \in Tasks, ApiDeletes(t) PROVE GroupInv'
  <2> DEFINE d == [calls[t] EXCEPT !.done = TRUE]
  <2>1. d \in Call
    BY <1>t, CallFields, Zenon
  <2>2. calls' = [calls EXCEPT ![t] = d] /\ group' = "gone" /\ attached' = attached
    BY <1>4 DEF ApiDeletes
  <2>3. CallSound(calls[t])'
    <3>1. calls'[t] = d
      BY <2>2 DEF GroupInv, TypeOK
    <3> QED
      BY <1>4, <1>t, <2>2, <3>1 DEF CallSound, ApiDeletes, At, Call
  <2>4. ASSUME NEW u \in Tasks PROVE CallSound(calls[u])'
    <3>1. CASE u = t
      BY <2>3, <3>1
    <3>2. CASE u # t
      <4>1. calls'[u] = calls[u]
        BY <2>2, <3>2 DEF GroupInv, TypeOK
      <4> QED
        BY <1>t, <2>2, <4>1 DEF CallSound
    <3> QED
      BY <3>1, <3>2
  <2>5. TypeOK'
    <3> HIDE DEF d
    <3> QED
      BY <2>1, <2>2 DEF GroupInv, TypeOK
  <2> QED
    BY <2>4, <2>5 DEF GroupInv
<1>13. ASSUME NEW i \in Instances, Attach(i) PROVE GroupInv'
  <2>1. attached' = attached \cup {i} /\ group' = group /\ calls' = calls
    BY <1>13 DEF Attach
  <2>2. ASSUME NEW t \in Tasks PROVE CallSound(calls[t])'
    BY <1>t, <2>1 DEF CallSound
  <2> QED
    BY <2>1, <2>2 DEF GroupInv, TypeOK
<1>14. ASSUME NEW i \in Instances, Detach(i) PROVE GroupInv'
  <2>1. attached' = attached \ {i} /\ group' = group
    BY <1>14 DEF Detach
  <2>2. ASSUME NEW t \in Tasks PROVE calls'[t] \in Call /\ CallSound(calls[t])'
    <3> DEFINE a == IF calls[t].pc = "idle" THEN calls[t].affected ELSE calls[t].affected \ {i}
               d == [calls[t] EXCEPT !.affected = a]
    <3>1. calls'[t] = d
      BY <1>14 DEF Detach
    <3>2. a \in SUBSET Instances /\ a \subseteq calls[t].affected
          /\ (calls[t].pc # "idle" => a \subseteq attached') /\ (calls[t].pc = "idle" => a = calls[t].affected)
      BY <1>t, <2>1 DEF Call, CallSound
    <3>3. d \in Call
      <4> HIDE DEF a
      <4> QED
        BY <1>t, <3>2, CallFields
    <3>4. CallSound(calls[t])'
      <4>1. /\ d.tool = calls[t].tool /\ d.pc = calls[t].pc /\ d.known = calls[t].known
            /\ d.missed = calls[t].missed /\ d.affected = a /\ d.restarts = calls[t].restarts
            /\ d.heard = calls[t].heard /\ d.done = calls[t].done /\ d.typed = calls[t].typed
            /\ d.answer = calls[t].answer
        BY <1>t DEF Call
      <4>2. CallSound(calls[t])
        BY <1>t
      <4> HIDE DEF a, d
      <4> QED
        BY <2>1, <3>1, <3>2, <4>1, <4>2 DEF CallSound
    <3> QED
      BY <3>1, <3>3, <3>4
  <2>3. calls' \in [Tasks -> Call]
    <3>1. calls' = [t \in Tasks |-> calls'[t]]
      BY <1>14 DEF Detach
    <3> QED
      BY <2>2, <3>1
  <2> QED
    BY <2>1, <2>2, <2>3 DEF GroupInv, TypeOK
<1>15. CASE UNCHANGED vars
  BY <1>15, <1>t DEF GroupInv, TypeOK, CallSound, vars
<1>16. ASSUME NEW t \in Tasks, Create(t) \/ Update(t) \/ Delete(t) PROVE GroupInv'
  BY <1>1, <1>16, Zenon DEF Create, Update, Delete
<1> QED
  BY <1>2, <1>3, <1>4, <1>5, <1>6, <1>7, <1>8, <1>9, <1>10, <1>11, <1>12, <1>13, <1>14, <1>15, <1>16
     DEF Next

-----------------------------------------------------------------------------
(* The invariant holds in every reachable state.                            *)
THEOREM GroupInvariant == Spec => []GroupInv
BY GroupInitInv, GroupInvStep, PTL DEF Spec

(* Types of the group, its instances and the calls                          *)
(* (relational_config_handler.py 392-590).                                  *)
THEOREM GroupTypeCorrect == Spec => []TypeOK
<1>1. GroupInv => TypeOK
  BY DEF GroupInv
<1> QED
  BY <1>1, GroupInvariant, PTL

(* An update whose reads succeeded tells of every instance it put into      *)
(* RESTART_REQUIRED (relational_config_handler.py 493-517).                 *)
THEOREM RestartToldHolds == Spec => []RestartTold
<1>1. GroupInv => RestartTold
  <2> SUFFICES ASSUME GroupInv, NEW t \in Tasks,
                      calls[t].answer \in {"no_instance", "restart", "live"}, ~calls[t].missed
               PROVE  /\ calls[t].affected \subseteq calls[t].known
                      /\ calls[t].affected # {} => calls[t].answer = "restart"
    BY Zenon DEF RestartTold
  <2>1. calls[t] \in Call /\ CallSound(calls[t])
    BY DEF GroupInv, TypeOK
  <2>2. calls[t].missed = FALSE
    BY <2>1 DEF Call
  <2> QED
    BY <2>1, <2>2 DEF CallSound
<1> QED
  BY <1>1, GroupInvariant, PTL

(* No failing read makes an error of a change that the API acknowledged,    *)
(* and a delete is accepted only if it deleted the group                    *)
(* (relational_config_handler.py 431-442, 502-506, 564-590).                *)
THEOREM ReportTrueHolds == Spec => []ReportTrue
<1>1. GroupInv => ReportTrue
  <2> SUFFICES ASSUME GroupInv, NEW t \in Tasks
               PROVE  /\ calls[t].answer = "error" => ~calls[t].heard
                      /\ calls[t].answer = "accepted" => calls[t].done /\ group = "gone"
    BY Zenon DEF ReportTrue
  <2>1. CallSound(calls[t])
    BY DEF GroupInv
  <2> QED
    BY <2>1 DEF CallSound
<1> QED
  BY <1>1, GroupInvariant, PTL

=============================================================================
