-------------------------- MODULE ToolServerProofs --------------------------
(***************************************************************************)
(* What a product server guarantees for any number of overlapping calls,   *)
(* callers and regions, and any table of handlers with the habits of       *)
(* ToolSteps.                                                              *)
(*                                                                         *)
(* The properties speak of calls that are waiting.  That the guard held,   *)
(* the checks passed and the project is the caller's is known where those  *)
(* steps were passed, one or several awaits earlier, so the invariant      *)
(* carries it along with every call.                                       *)
(***************************************************************************)
EXTENDS ToolServer, ToolSteps, TLAPS

Awaiting == {"project", "get", "list", "write", "change"}

Before(plan, n, kind) == \E k \in 1 .. n - 1 : plan[k] = kind

(* What is known of a call that has passed the steps before n. *)
Passed(c, n) ==
    /\ c.plan \in Plans[watched]
    /\ Before(c.plan, n, "gate") => allowWrite
    /\ Before(c.plan, n, "check") => c.valid
    /\ Before(c.plan, n, "project") => c.project = c.caller

(* A call waits at an awaiting step; what its request has read or changed   *)
(* is in step with the resources.                                           *)
CallSound(t) == call[t] # None =>
    /\ Passed(call[t], call[t].at)
    /\ call[t].at \in DOMAIN call[t].plan
    /\ call[t].plan[call[t].at] \in Awaiting
    /\ call[t].since <= acked
    /\ call[t].answer # None => call[t].answer >= call[t].since
    /\ call[t].made <= version

(* What the server remembers of projects is right. *)
ProjectsOwn ==
    /\ \A caller \in Callers : projects[caller] \in {None, caller}
    /\ projectId \in {None, <<Service, DefaultRegion>>}

ServerInv ==
    /\ TypeOK
    /\ acked <= version
    /\ ProjectsOwn
    /\ \A t \in Tasks : CallSound(t)

HandlersGuarded == \A list \in Watched : \A plan \in Plans[list] : Guarded(plan)
HandlersCheckFirst == \A list \in Watched : \A plan \in Plans[list] : CheckedFirst(plan)
HandlersMaintain == \A list \in Watched : \A plan \in Plans[list] : Maintains(plan)

-----------------------------------------------------------------------------
(* A project that is known is the caller's own. *)
LEMMA KnownIsOwn ==
    ASSUME ProjectsOwn, NEW caller \in Callers, Known(caller)
    PROVE  KnownProject(caller) = caller
  BY SMT DEF ProjectsOwn, Known, KnownProject, Configured

(* Running a handler to its next await stores what it is given or empties   *)
(* the list, leaves the other calls alone, and keeps what is known of its   *)
(* own.                                                                     *)
LEMMA RunSound ==
    ASSUME TypeOK, ProjectsOwn, NEW t \in Tasks, NEW c \in Call, NEW n \in 1 .. Len(c.plan) + 1,
           NEW entries, NEW ack \in Nat, Run(t, c, n, entries, ack), Passed(c, n)
    PROVE  /\ cache' \in {entries, [k \in Keys |-> None]}
           /\ call' \in [Tasks -> Call \cup {None}]
           /\ \A u \in Tasks \ {t} : call'[u] = call[u]
           /\ call'[t] # None =>
                /\ Passed(call'[t], call'[t].at)
                /\ call'[t].at \in DOMAIN call'[t].plan
                /\ call'[t].plan[call'[t].at] \in Awaiting
                /\ call'[t].since = ack /\ call'[t].answer = None /\ call'[t].made = 0
<1> USE NoneAssumption
<1>1. PICK m \in n .. Len(c.plan) + 1 :
        /\ GoesTo(c, n, m)
        /\ Passes(c, n, m, "gate") => allowWrite
        /\ Passes(c, n, m, "check") => c.valid
        /\ cache' = IF Passes(c, n, m, "drop") THEN [k \in Keys |-> None] ELSE entries
        /\ call' = [call EXCEPT ![t] =
               IF m > Len(c.plan) THEN None
               ELSE [c EXCEPT !.at = m, !.project = ProjectAt(c, n, m), !.since = ack,
                              !.answer = None, !.made = 0]]
  BY DEF Run
<1>2. /\ c.plan \in Seq(StepKinds) /\ Len(c.plan) \in Nat
      /\ c.caller \in Callers /\ c.project \in Callers \cup {None}
  BY DEF Call
<1>3. m \in Nat /\ n \in Nat /\ n >= 1 /\ n <= m
  BY <1>2, SMT
<1>4. Passes(c, n, m, "project") => ProjectAt(c, n, m) = c.caller
  <2> SUFFICES ASSUME Passes(c, n, m, "project") PROVE ProjectAt(c, n, m) = c.caller
    OBVIOUS
  <2>1. PICK k \in n .. m - 1 : c.plan[k] = "project"
    BY DEF Passes
  <2>2. Known(c.caller)
    BY <1>1, <2>1 DEF GoesTo, Awaits
  <2> QED
    BY <1>2, <2>1, <2>2, KnownIsOwn DEF ProjectAt
<1>5. ~Passes(c, n, m, "project") => ProjectAt(c, n, m) = c.project
  BY DEF Passes, ProjectAt
<1>6. ASSUME NEW kind, Before(c.plan, m, kind)
      PROVE  Before(c.plan, n, kind) \/ Passes(c, n, m, kind)
  BY <1>3, <1>6, SMT DEF Before, Passes
<1> DEFINE d == [c EXCEPT !.at = m, !.project = ProjectAt(c, n, m), !.since = ack,
                          !.answer = None, !.made = 0]
<1>7. d \in Call
  <2>1. ProjectAt(c, n, m) \in Callers \cup {None}
    BY <1>2, <1>4, <1>5
  <2>2. m \in Nat \ {0}
    BY <1>3, SMT
  <2>3. ASSUME NEW e \in Call
        PROVE  /\ [e EXCEPT !.at = m] \in Call
               /\ [e EXCEPT !.project = ProjectAt(c, n, m)] \in Call
               /\ [e EXCEPT !.since = ack] \in Call
               /\ [e EXCEPT !.answer = None] \in Call
               /\ [e EXCEPT !.made = 0] \in Call
    <3>1. [e EXCEPT !.at = m] \in Call
      BY <2>2, Zenon DEF Call
    <3>2. [e EXCEPT !.project = ProjectAt(c, n, m)] \in Call
      BY <2>1, Zenon DEF Call
    <3>3. [e EXCEPT !.since = ack] \in Call
      BY Zenon DEF Call
    <3>4. [e EXCEPT !.answer = None] \in Call
      BY Zenon DEF Call
    <3>5. [e EXCEPT !.made = 0] \in Call
      BY Zenon DEF Call
    <3> QED
      BY <3>1, <3>2, <3>3, <3>4, <3>5
  <2>4. d = [[[[[c EXCEPT !.at = m] EXCEPT !.project = ProjectAt(c, n, m)]
               EXCEPT !.since = ack] EXCEPT !.answer = None] EXCEPT !.made = 0]
    OBVIOUS
  <2> HIDE DEF d
  <2> QED
    BY <2>3, <2>4, Zenon
<1>8. /\ d.plan = c.plan /\ d.at = m /\ d.project = ProjectAt(c, n, m) /\ d.since = ack
      /\ d.answer = None /\ d.made = 0 /\ d.caller = c.caller /\ d.valid = c.valid
  BY DEF Call
<1>9. Passed(d, m)
  <2>1. Before(d.plan, m, "gate") => allowWrite
    BY <1>1, <1>6, <1>8 DEF Passed
  <2>2. Before(d.plan, m, "check") => d.valid
    BY <1>1, <1>6, <1>8 DEF Passed
  <2>3. Before(d.plan, m, "project") => d.project = d.caller
    BY <1>4, <1>5, <1>6, <1>8 DEF Passed
  <2> QED
    BY <1>8, <2>1, <2>2, <2>3 DEF Passed
<1>10. m <= Len(c.plan) => m \in DOMAIN c.plan /\ c.plan[m] \in Awaiting
  BY <1>1, <1>2, <1>3, SMT DEF GoesTo, Awaits, Awaiting
<1>11. call'[t] = IF m > Len(c.plan) THEN None ELSE d
  BY <1>1 DEF TypeOK
<1>12. call' \in [Tasks -> Call \cup {None}] /\ \A u \in Tasks \ {t} : call'[u] = call[u]
  <2>1. (IF m > Len(c.plan) THEN None ELSE d) \in Call \cup {None}
    BY <1>7
  <2>2. call' = [call EXCEPT ![t] = IF m > Len(c.plan) THEN None ELSE d]
    BY <1>1
  <2> HIDE DEF d
  <2> QED
    BY <2>1, <2>2 DEF TypeOK
<1>13. call'[t] # None => call'[t] = d /\ m <= Len(c.plan)
  BY <1>2, <1>3, <1>11, SMT
<1> HIDE DEF d
<1> QED
  BY <1>1, <1>8, <1>9, <1>10, <1>12, <1>13

-----------------------------------------------------------------------------
(* The invariant holds before any call. *)
LEMMA ServerInitInv == Init => ServerInv
<1> SUFFICES ASSUME Init PROVE ServerInv
  OBVIOUS
<1>1. TypeOK
  BY ToolServerAssumption, NoneAssumption, SMT DEF Init, TypeOK
<1>2. ProjectsOwn
  BY SMT DEF Init, ProjectsOwn
<1> QED
  BY <1>1, <1>2, SMT DEF Init, ServerInv, CallSound

(* An entry's types. *)
LEMMA EntryType == ASSUME NEW v \in Nat, NEW o \in BOOLEAN
                   PROVE  [version |-> v, overlapped |-> o] \in Entry
  BY Zenon DEF Entry

(* A step that runs one call and leaves the others alone keeps what is      *)
(* known of them.                                                           *)
LEMMA OthersSound ==
    ASSUME ServerInv, NEW t \in Tasks, \A u \in Tasks \ {t} : call'[u] = call[u],
           allowWrite' = allowWrite, watched' = watched,
           version' \in Nat, acked' \in Nat, version <= version', acked <= acked'
    PROVE  \A u \in Tasks \ {t} : CallSound(u)'
<1> SUFFICES ASSUME NEW u \in Tasks \ {t}, call[u] # None PROVE CallSound(u)'
  BY DEF CallSound
<1>1. CallSound(u) /\ call[u] \in Call
  BY DEF ServerInv, TypeOK
<1>2. /\ call[u].since \in Nat /\ call[u].made \in Nat
      /\ version \in Nat /\ acked \in Nat
  BY <1>1 DEF Call, ServerInv, TypeOK
<1>3. call[u].since <= acked' /\ call[u].made <= version'
  BY <1>1, <1>2, SMT DEF CallSound
<1> QED
  BY <1>1, <1>3 DEF CallSound, Passed

(* A call that runs on to its next await starts that await in step with     *)
(* what is acknowledged.                                                    *)
LEMMA RunKeeps ==
    ASSUME ServerInv, NEW t \in Tasks, NEW c \in Call, NEW n \in 1 .. Len(c.plan) + 1,
           NEW entries \in [Keys -> Entry \cup {None}], NEW ack \in Nat,
           Run(t, c, n, entries, ack), Passed(c, n),
           UNCHANGED <<allowWrite, watched, version>>, acked' = ack, acked <= ack, ack <= version,
           projects' \in [Callers -> Callers \cup {None}], projectId' \in Callers \cup {None},
           ProjectsOwn'
    PROVE  ServerInv'
<1>1. TypeOK /\ ProjectsOwn
  BY DEF ServerInv
<1>2. /\ cache' \in {entries, [k \in Keys |-> None]}
      /\ call' \in [Tasks -> Call \cup {None}]
      /\ \A u \in Tasks \ {t} : call'[u] = call[u]
  BY <1>1, RunSound
<1>3. call'[t] # None =>
        /\ Passed(call'[t], call'[t].at)
        /\ call'[t].at \in DOMAIN call'[t].plan
        /\ call'[t].plan[call'[t].at] \in Awaiting
        /\ call'[t].since = ack /\ call'[t].answer = None /\ call'[t].made = 0
  BY <1>1, RunSound
<1>4. cache' \in [Keys -> Entry \cup {None}]
  BY <1>2
<1>5. TypeOK'
  BY <1>1, <1>2, <1>4 DEF TypeOK
<1>6. \A u \in Tasks \ {t} : CallSound(u)'
  BY <1>1, <1>2, OthersSound, SMT DEF TypeOK
<1>7. CallSound(t)'
  BY <1>1, <1>3, SMT DEF CallSound, Passed, TypeOK
<1>8. acked' <= version'
  OBVIOUS
<1> QED
  BY <1>5, <1>6, <1>7, <1>8 DEF ServerInv

(* A waiting call: its types, and what is known of it once the step it      *)
(* waits at is passed, unless that is the project lookup.                   *)
LEMMA WaitingCall ==
    ASSUME ServerInv, NEW t \in Tasks, call[t] # None
    PROVE  /\ call[t] \in Call
           /\ call[t].caller \in Callers /\ call[t].at \in Nat
           /\ call[t].since \in Nat /\ call[t].made \in Nat
           /\ call[t].answer \in Nat \cup {None}
           /\ call[t].at + 1 \in 1 .. Len(call[t].plan) + 1
           /\ call[t].plan[call[t].at] # "project" => Passed(call[t], call[t].at + 1)
<1>1. call[t] \in Call /\ CallSound(t)
  BY DEF ServerInv, TypeOK
<1>2. /\ call[t].caller \in Callers /\ call[t].at \in Nat /\ call[t].plan \in Seq(StepKinds)
      /\ call[t].since \in Nat /\ call[t].made \in Nat
      /\ call[t].answer \in Nat \cup {None}
  BY <1>1 DEF Call
<1>3. call[t].at \in 1 .. Len(call[t].plan)
  BY <1>1, <1>2 DEF CallSound
<1>4. ASSUME NEW kind \in {"gate", "check", "project"}, Before(call[t].plan, call[t].at + 1, kind),
             call[t].plan[call[t].at] # "project"
      PROVE  Before(call[t].plan, call[t].at, kind)
  <2>1. PICK k \in 1 .. call[t].at : call[t].plan[k] = kind
    BY <1>2, <1>4, SMT DEF Before
  <2>2. call[t].plan[call[t].at] \in Awaiting
    BY <1>1 DEF CallSound
  <2>3. k # call[t].at
    BY <1>4, <2>1, <2>2 DEF Awaiting
  <2> QED
    BY <1>2, <2>1, <2>3, SMT DEF Before
<1>5. call[t].plan[call[t].at] # "project" => Passed(call[t], call[t].at + 1)
  BY <1>1, <1>4 DEF CallSound, Passed
<1> QED
  BY <1>1, <1>2, <1>3, <1>5, SMT

(* Every step keeps the invariant. *)
LEMMA ServerInvStep == ServerInv /\ [Next]_vars => ServerInv'
<1> SUFFICES ASSUME ServerInv, [Next]_vars PROVE ServerInv'
  OBVIOUS
<1>t. /\ TypeOK /\ ProjectsOwn /\ acked <= version /\ acked \in Nat /\ version \in Nat
  BY DEF ServerInv, TypeOK
<1> USE NoneAssumption
<1>1. ASSUME NEW t \in Tasks, NEW caller \in Callers, NEW plan \in Plans[watched],
             NEW valid \in Choice(plan, "check", TRUE), NEW refresh \in Choice(plan, "list", FALSE),
             Begin(t, caller, plan, valid, refresh)
      PROVE  ServerInv'
  <2> DEFINE c == [plan |-> plan, at |-> 1, caller |-> caller, valid |-> valid,
                   refresh |-> refresh, project |-> None, since |-> acked, answer |-> None,
                   made |-> 0]
  <2>1. plan \in Seq(StepKinds)
    BY <1>t, ToolServerAssumption DEF TypeOK
  <2>2. valid \in BOOLEAN /\ refresh \in BOOLEAN
    BY Zenon DEF Choice
  <2>3. 1 \in Nat \ {0} /\ 0 \in Nat
    OBVIOUS
  <2>4. c \in Call
    BY <1>t, <2>1, <2>2, <2>3, Zenon DEF Call
  <2>5. c.plan = plan /\ Passed(c, 1)
    BY SMT DEF Passed, Before
  <2>6. 1 \in 1 .. Len(c.plan) + 1
    BY <2>1, <2>5, SMT
  <2>7. Run(t, c, 1, cache, acked)
    BY <1>1 DEF Begin
  <2>8. /\ UNCHANGED <<allowWrite, watched, version>> /\ acked' = acked
        /\ projects' \in [Callers -> Callers \cup {None}] /\ projectId' \in Callers \cup {None}
        /\ ProjectsOwn' /\ cache \in [Keys -> Entry \cup {None}] /\ acked <= acked
    BY <1>1, <1>t, SMT DEF Begin, TypeOK, ProjectsOwn
  <2> HIDE DEF c
  <2> QED
    BY <1>t, <2>4, <2>5, <2>6, <2>7, <2>8, RunKeeps
<1>2. ASSUME NEW t \in Tasks, LookupReturns(t) PROVE ServerInv'
  <2>1. call[t] # None /\ call[t].plan[call[t].at] = "project"
    BY <1>2 DEF LookupReturns, At
  <2> DEFINE c == [call[t] EXCEPT !.project = call[t].caller]
  <2>2. /\ call[t] \in Call /\ call[t].caller \in Callers /\ call[t].at \in Nat
        /\ call[t].at + 1 \in 1 .. Len(call[t].plan) + 1
    BY <2>1, WaitingCall
  <2>3. c \in Call
    BY <2>2, Zenon DEF Call
  <2>4. /\ c.plan = call[t].plan /\ c.at = call[t].at /\ c.caller = call[t].caller
        /\ c.valid = call[t].valid /\ c.project = c.caller
    BY <2>2 DEF Call
  <2>5. ASSUME NEW kind \in {"gate", "check"}, Before(c.plan, c.at + 1, kind)
        PROVE  Before(call[t].plan, call[t].at, kind)
    <3>1. PICK k \in 1 .. call[t].at : call[t].plan[k] = kind
      BY <2>2, <2>4, <2>5, SMT DEF Before
    <3> QED
      BY <2>1, <2>2, <2>4, <3>1, SMT DEF Before
  <2>6. Passed(c, c.at + 1)
    <3>1. Passed(call[t], call[t].at)
      BY <2>1 DEF ServerInv, CallSound
    <3> QED
      BY <2>4, <2>5, <3>1 DEF Passed
  <2>7. Run(t, c, c.at + 1, cache, acked)
    BY <1>2, <2>4 DEF LookupReturns, ProjectOf
  <2>8. /\ projects' = [projects EXCEPT ![call[t].caller] = call[t].caller]
        /\ projectId' = IF call[t].caller = <<Service, DefaultRegion>> THEN call[t].caller
                        ELSE projectId
        /\ UNCHANGED <<allowWrite, watched, version>> /\ acked' = acked
    BY <1>2 DEF LookupReturns, ProjectOf
  <2>9. /\ projects' \in [Callers -> Callers \cup {None}] /\ projectId' \in Callers \cup {None}
        /\ cache \in [Keys -> Entry \cup {None}] /\ acked <= acked
    BY <1>t, <2>2, <2>8, SMT DEF TypeOK
  <2>10. ProjectsOwn'
    <3>1. \A caller \in Callers : projects'[caller] \in {None, caller}
      BY <1>t, <2>2, <2>8 DEF TypeOK, ProjectsOwn
    <3>2. projectId' \in {None, <<Service, DefaultRegion>>}
      BY <1>t, <2>8 DEF ProjectsOwn
    <3> QED
      BY <3>1, <3>2 DEF ProjectsOwn
  <2> HIDE DEF c
  <2> QED
    BY <1>t, <2>2, <2>3, <2>4, <2>6, <2>7, <2>8, <2>9, <2>10, RunKeeps
<1>3. ASSUME NEW t \in Tasks, Returns(t) PROVE ServerInv'
  <2>1. call[t] # None /\ call[t].plan[call[t].at] # "project"
    BY <1>3 DEF Returns, At
  <2>2. Run(t, call[t], call[t].at + 1, cache, acked)
    BY <1>3 DEF Returns
  <2>3. /\ UNCHANGED <<allowWrite, watched, version>> /\ acked' = acked
        /\ projects' \in [Callers -> Callers \cup {None}] /\ projectId' \in Callers \cup {None}
        /\ ProjectsOwn' /\ cache \in [Keys -> Entry \cup {None}] /\ acked <= acked
    BY <1>3, <1>t, SMT DEF Returns, TypeOK, ProjectsOwn
  <2> QED
    BY <1>t, <2>1, <2>2, <2>3, WaitingCall, RunKeeps
<1>4. ASSUME NEW t \in Tasks, ApiLists(t) PROVE ServerInv'
  <2>1. call[t] # None /\ call[t] \in Call /\ call[t].since \in Nat
    BY <1>4, WaitingCall DEF ApiLists, At
  <2>2. [call[t] EXCEPT !.answer = version] \in Call
    BY <1>t, <2>1, Zenon DEF Call
  <2>3. call' = [call EXCEPT ![t] = [call[t] EXCEPT !.answer = version]]
    BY <1>4 DEF ApiLists
  <2>4. TypeOK'
    BY <1>4, <1>t, <2>2, <2>3 DEF ApiLists, TypeOK
  <2>5. CallSound(t)'
    <3>1. /\ call'[t].plan = call[t].plan /\ call'[t].at = call[t].at
          /\ call'[t].valid = call[t].valid /\ call'[t].project = call[t].project
          /\ call'[t].caller = call[t].caller /\ call'[t].since = call[t].since
          /\ call'[t].made = call[t].made /\ call'[t].answer = version
      BY <1>t, <2>1, <2>3 DEF TypeOK, Call
    <3>2. CallSound(t)
      BY DEF ServerInv
    <3>3. version >= call[t].since
      BY <1>t, <2>1, <3>2, SMT DEF CallSound
    <3> QED
      BY <1>4, <2>1, <3>1, <3>2, <3>3 DEF ApiLists, CallSound, Passed
  <2>6. \A u \in Tasks \ {t} : CallSound(u)'
    <3>1. \A u \in Tasks \ {t} : call'[u] = call[u]
      BY <1>t, <2>3 DEF TypeOK
    <3> QED
      BY <1>4, <1>t, <3>1, OthersSound, SMT DEF ApiLists
  <2> QED
    BY <1>4, <1>t, <2>4, <2>5, <2>6 DEF ApiLists, ServerInv, ProjectsOwn
<1>5. ASSUME NEW t \in Tasks, ListReturns(t) PROVE ServerInv'
  <2>1. call[t] # None /\ call[t].plan[call[t].at] # "project" /\ call[t].answer # None
    BY <1>5 DEF ListReturns, At
  <2> DEFINE entry == [version |-> call[t].answer, overlapped |-> call[t].since # acked]
             entries == [cache EXCEPT ![Key(call[t])] = entry]
  <2>2. call[t].answer \in Nat
    BY <2>1, WaitingCall
  <2>3. (call[t].since # acked) \in BOOLEAN
    OBVIOUS
  <2>4. entry \in Entry
    BY <2>2, <2>3, EntryType, Zenon
  <2>5. Run(t, call[t], call[t].at + 1, entries, acked)
    BY <1>5, Zenon DEF ListReturns
  <2>6. entries \in [Keys -> Entry \cup {None}]
    <3> HIDE DEF entry
    <3> QED
      BY <1>t, <2>4 DEF TypeOK
  <2>7. /\ UNCHANGED <<allowWrite, watched, version>> /\ acked' = acked
        /\ projects' \in [Callers -> Callers \cup {None}] /\ projectId' \in Callers \cup {None}
        /\ ProjectsOwn' /\ acked <= acked
    <3>1. UNCHANGED <<allowWrite, watched, projectId, projects, version, acked>>
      BY <1>5 DEF ListReturns
    <3> QED
      BY <1>t, <3>1, SMT DEF TypeOK, ProjectsOwn
  <2> HIDE DEF entry, entries
  <2> QED
    BY <1>t, <2>1, <2>5, <2>6, <2>7, WaitingCall, RunKeeps
<1>6. ASSUME NEW t \in Tasks, ApiChanges(t) PROVE ServerInv'
  <2>1. call[t] # None /\ call[t] \in Call
    BY <1>6, WaitingCall DEF ApiChanges, At
  <2>2. version + 1 \in Nat
    BY <1>t, SMT
  <2>3. [call[t] EXCEPT !.made = version + 1] \in Call /\ version' = version + 1
    BY <1>6, <2>1, <2>2, Zenon DEF ApiChanges, Call
  <2>4. call' = [call EXCEPT ![t] = [call[t] EXCEPT !.made = version + 1]]
    BY <1>6 DEF ApiChanges
  <2>5. TypeOK'
    BY <1>6, <1>t, <2>3, <2>4 DEF ApiChanges, TypeOK
  <2>6. CallSound(t)'
    <3>1. /\ call'[t].plan = call[t].plan /\ call'[t].at = call[t].at
          /\ call'[t].valid = call[t].valid /\ call'[t].project = call[t].project
          /\ call'[t].caller = call[t].caller /\ call'[t].since = call[t].since
          /\ call'[t].answer = call[t].answer /\ call'[t].made = version'
      BY <1>t, <2>1, <2>3, <2>4 DEF TypeOK, Call
    <3>2. CallSound(t)
      BY DEF ServerInv
    <3>3. version' <= version'
      BY <1>t, <2>3, SMT
    <3> QED
      BY <1>6, <2>1, <3>1, <3>2, <3>3 DEF ApiChanges, CallSound, Passed
  <2>7. \A u \in Tasks \ {t} : CallSound(u)'
    <3>1. \A u \in Tasks \ {t} : call'[u] = call[u]
      BY <1>t, <2>4 DEF TypeOK
    <3> QED
      BY <1>6, <1>t, <2>3, <3>1, OthersSound, SMT DEF ApiChanges
  <2>8. acked' <= version' /\ ProjectsOwn'
    BY <1>6, <1>t, <2>3, SMT DEF ApiChanges, ProjectsOwn
  <2> QED
    BY <2>5, <2>6, <2>7, <2>8 DEF ServerInv
<1>7. ASSUME NEW t \in Tasks, ChangeReturns(t) PROVE ServerInv'
  <2>1. call[t] # None /\ call[t].plan[call[t].at] # "project"
    BY <1>7 DEF ChangeReturns, At
  <2>2. call[t].made \in Nat /\ call[t].made <= version
    BY <2>1, WaitingCall DEF ServerInv, CallSound
  <2>3. acked' \in Nat /\ acked <= acked' /\ acked' <= version
    BY <1>7, <1>t, <2>2, SMT DEF ChangeReturns
  <2>4. Run(t, call[t], call[t].at + 1, cache, acked')
    BY <1>7 DEF ChangeReturns
  <2>5. /\ UNCHANGED <<allowWrite, watched, version>>
        /\ projects' \in [Callers -> Callers \cup {None}] /\ projectId' \in Callers \cup {None}
        /\ ProjectsOwn' /\ cache \in [Keys -> Entry \cup {None}]
    <3>1. UNCHANGED <<allowWrite, watched, projectId, projects, version>>
      BY <1>7 DEF ChangeReturns
    <3> QED
      BY <1>t, <3>1, SMT DEF TypeOK, ProjectsOwn
  <2> QED
    BY <1>t, <2>1, <2>3, <2>4, <2>5, WaitingCall, RunKeeps
<1>8. ASSUME NEW t \in Tasks, Raises(t) PROVE ServerInv'
  <2>1. call'[t] = None /\ \A u \in Tasks \ {t} : call'[u] = call[u]
    BY <1>8, <1>t DEF Raises, TypeOK
  <2>2. TypeOK'
    BY <1>8, <1>t DEF Raises, TypeOK
  <2>3. \A u \in Tasks \ {t} : CallSound(u)'
    BY <1>8, <1>t, <2>1, OthersSound, SMT DEF Raises
  <2> QED
    BY <1>8, <1>t, <2>1, <2>2, <2>3 DEF Raises, ServerInv, CallSound, ProjectsOwn
<1>9. ASSUME NEW k \in Keys, Evict(k) PROVE ServerInv'
  BY <1>9, <1>t DEF Evict, ServerInv, TypeOK, CallSound, Passed, ProjectsOwn
<1>10. CASE UNCHANGED vars
  BY <1>10, <1>t DEF vars, ServerInv, TypeOK, CallSound, Passed, ProjectsOwn
<1> QED
  BY <1>1, <1>2, <1>3, <1>4, <1>5, <1>6, <1>7, <1>8, <1>9, <1>10 DEF Next

-----------------------------------------------------------------------------
(* The invariant holds in every reachable state. *)
THEOREM ServerInvariant == Spec => []ServerInv
  BY ServerInitInv, ServerInvStep, PTL DEF Spec

(* Types of the server's state and of the calls under way. *)
THEOREM ServerTypeCorrect == Spec => []TypeOK
<1>1. ServerInv => TypeOK
  BY DEF ServerInv
<1> QED
  BY <1>1, ServerInvariant, PTL

(* Handlers that change things behind require_write send nothing that       *)
(* writes unless the server was started with --allow-write (guards.py       *)
(* 12-20), whoever calls them.                                              *)
THEOREM ReadOnlyServerHolds == ASSUME HandlersGuarded PROVE Spec => []ReadOnlyServer
<1>1. ServerInv => ReadOnlyServer
  <2> SUFFICES ASSUME ServerInv, NEW t \in Tasks, At(t, "write") \/ At(t, "change")
               PROVE  allowWrite
    BY DEF ReadOnlyServer
  <2>1. call[t] # None /\ CallSound(t) /\ watched \in Watched
    BY DEF At, ServerInv, TypeOK
  <2>2. Guarded(call[t].plan) /\ call[t].at \in DOMAIN call[t].plan
    BY <2>1 DEF CallSound, Passed, HandlersGuarded
  <2>3. Before(call[t].plan, call[t].at, "gate")
    BY <2>2 DEF At, Guarded, Before
  <2> QED
    BY <2>1, <2>3 DEF CallSound, Passed
<1> QED
  BY <1>1, ServerInvariant, PTL

(* Handlers that check their arguments before they send anything have sent  *)
(* nothing for arguments they refuse (validate_id before                    *)
(* require_project_id in every handler).                                    *)
THEOREM NothingSentUncheckedHolds ==
    ASSUME HandlersCheckFirst PROVE Spec => []NothingSentUnchecked
<1>1. ServerInv => NothingSentUnchecked
  <2> SUFFICES ASSUME ServerInv, NEW t \in Tasks, call[t] # None,
                      NEW n \in DOMAIN call[t].plan, call[t].plan[n] = "check"
               PROVE  call[t].valid
    BY DEF NothingSentUnchecked
  <2>1. CallSound(t) /\ watched \in Watched
    BY DEF ServerInv, TypeOK
  <2>2. /\ CheckedFirst(call[t].plan) /\ call[t].at \in DOMAIN call[t].plan
        /\ call[t].plan[call[t].at] \in Awaiting
    BY <2>1 DEF CallSound, Passed, HandlersCheckFirst
  <2>3. Before(call[t].plan, call[t].at, "check")
    BY <2>2 DEF CheckedFirst, Before, Awaiting
  <2> QED
    BY <2>1, <2>3 DEF CallSound, Passed
<1> QED
  BY <1>1, ServerInvariant, PTL

(* Past require_project_id a call works in its caller's own project, for    *)
(* any callers and regions (project.py 18-55).                              *)
THEOREM OwnProjectHolds == Spec => []OwnProject
<1>1. ServerInv => OwnProject
  BY DEF ServerInv, CallSound, Passed, Before, OwnProject, ProjectOf
<1> QED
  BY <1>1, ServerInvariant, PTL

(* What ListShowsOwnChanges needs of a step: a list is stored by the end of *)
(* its fetch only, and a handler that hears of a change empties it before   *)
(* it waits again.                                                          *)
LEMMA ListStep ==
    ASSUME HandlersMaintain PROVE ServerInv /\ ListShowsOwnChanges /\ [Next]_vars
                                    => ListShowsOwnChanges'
<1> SUFFICES ASSUME ServerInv, ListShowsOwnChanges, [Next]_vars PROVE ListShowsOwnChanges'
  OBVIOUS
<1>t. /\ TypeOK /\ ProjectsOwn /\ acked \in Nat /\ watched \in Watched
  BY DEF ServerInv, TypeOK
<1> USE NoneAssumption
<1>1. ASSUME NEW t \in Tasks, NEW caller \in Callers, NEW plan \in Plans[watched],
             NEW valid \in Choice(plan, "check", TRUE), NEW refresh \in Choice(plan, "list", FALSE),
             Begin(t, caller, plan, valid, refresh)
      PROVE  ListShowsOwnChanges'
  <2>1. cache' \in {cache, [k \in Keys |-> None]} /\ acked' = acked
    BY <1>1 DEF Begin, Run
  <2> QED
    BY <2>1 DEF ListShowsOwnChanges
<1>2. ASSUME NEW t \in Tasks, LookupReturns(t) \/ Returns(t) PROVE ListShowsOwnChanges'
  <2>1. cache' \in {cache, [k \in Keys |-> None]} /\ acked' = acked
    BY <1>2 DEF LookupReturns, Returns, Run
  <2> QED
    BY <2>1 DEF ListShowsOwnChanges
<1>3. ASSUME NEW t \in Tasks, ListReturns(t) PROVE ListShowsOwnChanges'
  <2> DEFINE entry == [version |-> call[t].answer, overlapped |-> call[t].since # acked]
  <2>1. /\ call[t] # None /\ call[t].answer # None /\ acked' = acked
        /\ cache' \in {[cache EXCEPT ![Key(call[t])] = entry], [k \in Keys |-> None]}
    BY <1>3 DEF ListReturns, Run, At
  <2>2. /\ call[t].answer \in Nat /\ call[t].since \in Nat
        /\ call[t].answer >= call[t].since
    BY <2>1, WaitingCall DEF ServerInv, CallSound
  <2>3. entry.version = call[t].answer /\ (~entry.overlapped <=> call[t].since = acked)
    BY Zenon
  <2>4. ~entry.overlapped => entry.version >= acked
    BY <1>t, <2>2, <2>3, SMT
  <2> HIDE DEF entry
  <2> QED
    BY <1>t, <2>1, <2>4 DEF ListShowsOwnChanges, TypeOK
<1>4. ASSUME NEW t \in Tasks, ChangeReturns(t) PROVE ListShowsOwnChanges'
  <2> DEFINE plan == call[t].plan
             n == call[t].at
  <2>1. /\ call[t] # None /\ call[t] \in Call /\ CallSound(t) /\ plan[n] = "change"
    BY <1>4 DEF ChangeReturns, At, ServerInv, TypeOK
  <2>2. plan \in Seq(StepKinds) /\ n \in DOMAIN plan /\ n \in Nat
    BY <2>1 DEF CallSound, Call
  <2>3. Maintains(plan)
    BY <1>t, <2>1 DEF CallSound, Passed, HandlersMaintain
  <2>4. PICK d \in n + 1 .. Len(plan) :
          plan[d] = "drop" /\ \A k \in n + 1 .. d - 1 : plan[k] \in {"gate", "check"}
    BY <2>1, <2>2, <2>3 DEF Maintains
  <2>5. PICK m \in n + 1 .. Len(plan) + 1 :
          /\ GoesTo(call[t], n + 1, m)
          /\ cache' = IF Passes(call[t], n + 1, m, "drop") THEN [k \in Keys |-> None] ELSE cache
    BY <1>4 DEF ChangeReturns, Run
  <2>6. m \notin n + 1 .. d
    <3>1. \A k \in n + 1 .. d : ~Awaits(call[t], n + 1, k)
      <4>1. ASSUME NEW k \in n + 1 .. d PROVE plan[k] \in {"gate", "check", "drop"}
        BY <2>2, <2>4, SMT
      <4> QED
        BY <4>1, Zenon DEF Awaits
    <3> QED
      BY <2>2, <2>4, <2>5, <3>1, SMT DEF GoesTo
  <2>7. Passes(call[t], n + 1, m, "drop")
    BY <2>2, <2>4, <2>5, <2>6, SMT DEF Passes
  <2> QED
    BY <2>5, <2>7 DEF ListShowsOwnChanges
<1>5. ASSUME NEW t \in Tasks, ApiLists(t) \/ ApiChanges(t) \/ Raises(t)
      PROVE  ListShowsOwnChanges'
  BY <1>5 DEF ApiLists, ApiChanges, Raises, ListShowsOwnChanges
<1>6. ASSUME NEW k \in Keys, Evict(k) PROVE ListShowsOwnChanges'
  BY <1>6, <1>t DEF Evict, ListShowsOwnChanges, TypeOK
<1>7. CASE UNCHANGED vars
  BY <1>7 DEF vars, ListShowsOwnChanges
<1> QED
  BY <1>1, <1>2, <1>3, <1>4, <1>5, <1>6, <1>7 DEF Next

(* If every handler that changes what a list shows drops the list before it *)
(* waits again, a cached list shows every change a tool of the server heard *)
(* of, unless its fetch overlapped the news.                                *)
THEOREM ListShowsOwnChangesHolds ==
    ASSUME HandlersMaintain PROVE Spec => []ListShowsOwnChanges
<1>1. Init => ListShowsOwnChanges
  BY DEF Init, ListShowsOwnChanges
<1> QED
  BY <1>1, ServerInvariant, ListStep, PTL DEF Spec

-----------------------------------------------------------------------------
(* On a server without --allow-write the resources a list shows stay as its  *)
(* own tools found them, however many calls run at once and in whatever       *)
(* order: no handler gets as far as a change.                                 *)
THEOREM ReadOnlyServerChangesNothing ==
    ASSUME HandlersGuarded PROVE Spec => [][allowWrite \/ UNCHANGED version]_vars
<1>1. ReadOnlyServer /\ [Next]_vars => [allowWrite \/ UNCHANGED version]_vars
  <2> SUFFICES ASSUME ReadOnlyServer, Next, version' # version PROVE allowWrite
    OBVIOUS
  <2>1. PICK t \in Tasks : ApiChanges(t)
    BY DEF Next, Begin, LookupReturns, Returns, ApiLists, ListReturns, ChangeReturns, Raises, Evict
  <2> QED
    BY <2>1 DEF ApiChanges, ReadOnlyServer
<1> QED
  BY <1>1, ReadOnlyServerHolds, PTL DEF Spec

(* The project remembered for a caller is that caller's own in that region,  *)
(* and the configured one the service account's in the default region, in    *)
(* whatever order lookups of several callers answer (project.py 28-55).      *)
THEOREM ProjectsOwnHolds == Spec => []ProjectsOwn
<1>1. ServerInv => ProjectsOwn
  BY DEF ServerInv
<1> QED
  BY <1>1, ServerInvariant, PTL

(* A list cached for a caller is of that caller's own project, or of none    *)
(* where the tool asks for no project: so no caller is ever served, under    *)
(* its own key, the resources of another's project.                          *)
CacheOfOwnProject == \A k \in Keys : cache[k] # None => k[2] \in {None, ProjectOf(k[1])}

(* Inductive with the same of the calls: the key of an entry is made of the  *)
(* caller and the project of the call that stores it.                        *)
CallsInOwnProject == \A t \in Tasks :
    call[t] # None => call[t].project \in {None, call[t].caller}

(* Running on, a call stays out of others' projects. *)
LEMMA RunInOwnProject ==
    ASSUME TypeOK, ProjectsOwn, CallsInOwnProject, NEW t \in Tasks, NEW c \in Call,
           NEW n \in 1 .. Len(c.plan) + 1, NEW entries, NEW ack \in Nat,
           Run(t, c, n, entries, ack), c.project \in {None, c.caller}
    PROVE  CallsInOwnProject'
<1> USE NoneAssumption
<1>1. PICK m \in n .. Len(c.plan) + 1 :
        /\ GoesTo(c, n, m)
        /\ call' = [call EXCEPT ![t] =
               IF m > Len(c.plan) THEN None
               ELSE [c EXCEPT !.at = m, !.project = ProjectAt(c, n, m), !.since = ack,
                              !.answer = None, !.made = 0]]
  BY DEF Run
<1>2. ProjectAt(c, n, m) \in {None, c.caller}
  <2>1. ASSUME NEW k \in n .. m - 1, c.plan[k] = "project" PROVE KnownProject(c.caller) = c.caller
    <3>1. Known(c.caller) /\ c.caller \in Callers
      BY <1>1, <2>1 DEF GoesTo, Awaits, Call
    <3> QED
      BY <3>1, KnownIsOwn
  <2> QED
    BY <2>1 DEF ProjectAt
<1> DEFINE d == [c EXCEPT !.at = m, !.project = ProjectAt(c, n, m), !.since = ack,
                          !.answer = None, !.made = 0]
<1>3. d.project = ProjectAt(c, n, m) /\ d.caller = c.caller
  BY DEF Call
<1>4. call'[t] = IF m > Len(c.plan) THEN None ELSE d
  BY <1>1 DEF TypeOK
<1>5. \A u \in Tasks : u # t => call'[u] = call[u]
  BY <1>1 DEF TypeOK
<1> HIDE DEF d
<1> QED
  BY <1>2, <1>3, <1>4, <1>5 DEF CallsInOwnProject

(* Every step keeps that calls and entries are in their callers' own       *)
(* projects.                                                               *)
LEMMA OwnProjectStep ==
    ServerInv /\ CallsInOwnProject /\ CacheOfOwnProject /\ [Next]_vars
      => CallsInOwnProject' /\ CacheOfOwnProject'
<1> SUFFICES ASSUME ServerInv, CallsInOwnProject, CacheOfOwnProject, [Next]_vars
             PROVE  CallsInOwnProject' /\ CacheOfOwnProject'
  OBVIOUS
<1>t. /\ TypeOK /\ ProjectsOwn /\ acked \in Nat
  BY DEF ServerInv, TypeOK
<1> USE NoneAssumption
<1>k. ASSUME cache' \in {cache, [k \in Keys |-> None]} PROVE CacheOfOwnProject'
  BY <1>k DEF CacheOfOwnProject
<1>1. ASSUME NEW t \in Tasks, NEW caller \in Callers, NEW plan \in Plans[watched],
             NEW valid \in Choice(plan, "check", TRUE), NEW refresh \in Choice(plan, "list", FALSE),
             Begin(t, caller, plan, valid, refresh)
      PROVE  CallsInOwnProject' /\ CacheOfOwnProject'
  <2> DEFINE c == [plan |-> plan, at |-> 1, caller |-> caller, valid |-> valid,
                   refresh |-> refresh, project |-> None, since |-> acked, answer |-> None,
                   made |-> 0]
  <2>1. plan \in Seq(StepKinds)
    BY <1>t, ToolServerAssumption DEF TypeOK
  <2>2. valid \in BOOLEAN /\ refresh \in BOOLEAN
    BY Zenon DEF Choice
  <2>3. 1 \in Nat \ {0} /\ 0 \in Nat
    OBVIOUS
  <2>4. c \in Call
    BY <1>t, <2>1, <2>2, <2>3, Zenon DEF Call
  <2>5. c.project = None /\ c.plan = plan
    OBVIOUS
  <2>6. 1 \in 1 .. Len(c.plan) + 1
    BY <2>1, <2>5, SMT
  <2>7. Run(t, c, 1, cache, acked)
    BY <1>1 DEF Begin
  <2>8. cache' \in {cache, [k \in Keys |-> None]}
    BY <1>1 DEF Begin, Run
  <2> HIDE DEF c
  <2> QED
    BY <1>t, <1>k, <2>4, <2>5, <2>6, <2>7, <2>8, RunInOwnProject
<1>2. ASSUME NEW t \in Tasks, LookupReturns(t) PROVE CallsInOwnProject' /\ CacheOfOwnProject'
  <2>1. call[t] # None
    BY <1>2 DEF LookupReturns, At
  <2> DEFINE c == [call[t] EXCEPT !.project = call[t].caller]
  <2>2. /\ call[t] \in Call /\ call[t].caller \in Callers
        /\ call[t].at + 1 \in 1 .. Len(call[t].plan) + 1
    BY <2>1, WaitingCall
  <2>3. c \in Call
    BY <2>2, Zenon DEF Call
  <2>4. /\ c.plan = call[t].plan /\ c.at = call[t].at /\ c.project = c.caller
    BY <2>2 DEF Call
  <2>5. Run(t, c, c.at + 1, cache, acked)
    BY <1>2, <2>4 DEF LookupReturns, ProjectOf
  <2>6. cache' \in {cache, [k \in Keys |-> None]}
    BY <1>2 DEF LookupReturns, Run
  <2> HIDE DEF c
  <2> QED
    BY <1>t, <1>k, <2>2, <2>3, <2>4, <2>5, <2>6, RunInOwnProject
<1>3. ASSUME NEW t \in Tasks, Returns(t) \/ ChangeReturns(t)
      PROVE  CallsInOwnProject' /\ CacheOfOwnProject'
  <2>1. call[t] # None /\ call[t].project \in {None, call[t].caller}
    BY <1>3 DEF Returns, ChangeReturns, At, CallsInOwnProject
  <2>2. /\ call[t] \in Call /\ call[t].at + 1 \in 1 .. Len(call[t].plan) + 1
        /\ call[t].made \in Nat
    BY <2>1, WaitingCall
  <2>3. acked' \in Nat
    BY <1>3, <1>t, <2>2 DEF Returns, ChangeReturns
  <2>4. /\ Run(t, call[t], call[t].at + 1, cache, acked) \/ Run(t, call[t], call[t].at + 1, cache, acked')
        /\ cache' \in {cache, [k \in Keys |-> None]}
    BY <1>3 DEF Returns, ChangeReturns, Run
  <2> QED
    BY <1>t, <1>k, <2>1, <2>2, <2>3, <2>4, RunInOwnProject
<1>4. ASSUME NEW t \in Tasks, ListReturns(t) PROVE CallsInOwnProject' /\ CacheOfOwnProject'
  <2>1. call[t] # None /\ call[t].project \in {None, call[t].caller}
    BY <1>4 DEF ListReturns, At, CallsInOwnProject
  <2>2. /\ call[t] \in Call /\ call[t].at + 1 \in 1 .. Len(call[t].plan) + 1
    BY <2>1, WaitingCall
  <2> DEFINE entry == [version |-> call[t].answer, overlapped |-> call[t].since # acked]
             entries == [cache EXCEPT ![Key(call[t])] = entry]
  <2>3. Run(t, call[t], call[t].at + 1, entries, acked)
    BY <1>4, Zenon DEF ListReturns
  <2>4. cache' \in {entries, [k \in Keys |-> None]}
    BY <2>3, Zenon DEF Run
  <2>5. \A k \in Keys : k # Key(call[t]) => entries[k] = cache[k]
    BY <1>t DEF TypeOK
  <2>6. Key(call[t])[2] \in {None, ProjectOf(Key(call[t])[1])}
    BY <2>1 DEF Key, ProjectOf
  <2> HIDE DEF entry, entries
  <2>7. CacheOfOwnProject'
    BY <2>4, <2>5, <2>6 DEF CacheOfOwnProject
  <2> QED
    BY <1>t, <2>1, <2>2, <2>3, <2>7, RunInOwnProject
<1>5. ASSUME NEW t \in Tasks, ApiLists(t) PROVE CallsInOwnProject' /\ CacheOfOwnProject'
  <2>1. call[t] # None /\ call[t] \in Call
    BY <1>5, WaitingCall DEF ApiLists, At
  <2>2. call' = [call EXCEPT ![t] = [call[t] EXCEPT !.answer = version]] /\ cache' = cache
    BY <1>5 DEF ApiLists
  <2>3. call'[t].project = call[t].project /\ call'[t].caller = call[t].caller
    BY <1>t, <2>1, <2>2 DEF TypeOK, Call
  <2> QED
    BY <1>t, <1>k, <2>1, <2>2, <2>3 DEF CallsInOwnProject, TypeOK
<1>6. ASSUME NEW t \in Tasks, ApiChanges(t) PROVE CallsInOwnProject' /\ CacheOfOwnProject'
  <2>1. call[t] # None /\ call[t] \in Call
    BY <1>6, WaitingCall DEF ApiChanges, At
  <2>2. call' = [call EXCEPT ![t] = [call[t] EXCEPT !.made = version + 1]] /\ cache' = cache
    BY <1>6 DEF ApiChanges
  <2>3. call'[t].project = call[t].project /\ call'[t].caller = call[t].caller
    BY <1>t, <2>1, <2>2 DEF TypeOK, Call
  <2> QED
    BY <1>t, <1>k, <2>1, <2>2, <2>3 DEF CallsInOwnProject, TypeOK
<1>7. ASSUME NEW t \in Tasks, Raises(t) PROVE CallsInOwnProject' /\ CacheOfOwnProject'
  BY <1>7, <1>t, <1>k DEF Raises, CallsInOwnProject, TypeOK
<1>8. ASSUME NEW k \in Keys, Evict(k) PROVE CallsInOwnProject' /\ CacheOfOwnProject'
  BY <1>8, <1>t DEF Evict, CallsInOwnProject, CacheOfOwnProject, TypeOK
<1>9. CASE UNCHANGED vars
  BY <1>9, <1>k DEF vars, CallsInOwnProject
<1> QED
  BY <1>1, <1>2, <1>3, <1>4, <1>5, <1>6, <1>7, <1>8, <1>9 DEF Next

(* No entry of the cache is of another caller's project (project.py        *)
(* 28-55, the keys of discovery_cache.py).                                 *)
THEOREM CacheOfOwnProjectHolds == Spec => []CacheOfOwnProject
<1>1. Init => CallsInOwnProject /\ CacheOfOwnProject
  BY DEF Init, CallsInOwnProject, CacheOfOwnProject
<1> QED
  BY <1>1, OwnProjectStep, ServerInvariant, PTL DEF Spec

=============================================================================
