---------------------------- MODULE ToolServer -----------------------------
(***************************************************************************)
(* A product server running its tools for several callers at once: the     *)
(* write guard, the project a call works in, one cached discovery list and *)
(* the changes of what it lists.  The tools come from a product's table;   *)
(* the lists do not touch each other, so one is watched per behaviour.     *)
(*                                                                         *)
(* A call is suspended only where it awaits a request.  A known project    *)
(* and a cached list are returned at once, so the guard, the checks and    *)
(* the invalidation happen in one step with the end of the await before    *)
(* them.                                                                   *)
(***************************************************************************)
EXTENDS Integers, Sequences, FiniteSets

CONSTANTS
    Tasks,          \* tool calls that may be under way at the same time
    Service,        \* the identity of the server's own credentials
    Callers,        \* <<identity, region>>: who calls, and for which region
    DefaultRegion,  \* config.default_region
    Plans,          \* Plans[list]: what the tools do, as far as list is concerned
    Watched,        \* the lists of interest
    None,
    MaxVersion      \* bound: no more changes than this

StepKinds == {"gate", "check", "project", "get", "list", "write", "change", "drop"}

ASSUME ToolServerAssumption ==
    /\ Watched \subseteq DOMAIN Plans
    /\ \A list \in Watched : Plans[list] \subseteq Seq(StepKinds)
    \* no handler reads a list after dropping it
    /\ \A list \in Watched : \A plan \in Plans[list] : \A n, m \in DOMAIN plan :
         n < m /\ plan[n] = "drop" => plan[m] # "list"
    /\ MaxVersion \in Nat

\* the platform has one project for each identity in each region
ProjectOf(caller) == caller

Entry == [version : Nat, overlapped : BOOLEAN]

\* since: what had been acknowledged when the list was looked up;
\* answer, made: what the request in flight has read or changed so far
Call == [plan : Seq(StepKinds), at : Nat \ {0}, caller : Callers, valid : BOOLEAN,
         refresh : BOOLEAN, project : Callers \cup {None}, since : Nat,
         answer : Nat \cup {None}, made : Nat]

ASSUME NoneAssumption == None \notin Callers \cup Nat \cup Entry \cup Call

VARIABLES
    allowWrite,  \* --allow-write
    watched,     \* the list this behaviour is about
    projectId,   \* config.project_id
    projects,    \* config.project_id_by_region, by caller
    version,     \* of the resources the list shows
    acked,       \* the last change a tool heard was done
    cache,       \* cache[caller, project]: the entry of the list, or None
    call         \* call[t]: the call of task t, or None

vars == <<allowWrite, watched, projectId, projects, version, acked, cache, call>>

Keys == Callers \X (Callers \cup {None})

Init ==
    /\ allowWrite \in BOOLEAN
    /\ watched \in Watched
    /\ projectId \in {None} \cup {c \in Callers : c = <<Service, DefaultRegion>>}
    /\ projects = [c \in Callers |-> None]
    /\ version = 0 /\ acked = 0
    /\ cache = [k \in Keys |-> None]
    /\ call = [t \in Tasks |-> None]

-----------------------------------------------------------------------------
\* mutated forms of the definitions below

\* the configured project taken for every caller of the default region
ConfiguredForAll(caller) == projectId # None /\ caller[2] = DefaultRegion

\* the answer of a lookup stored without waiting for it
StoreUnawaited(t) ==
    /\ call[t] # None /\ call[t].plan[call[t].at] = "list"
    /\ cache' = [cache EXCEPT ![<<call[t].caller, call[t].project>>] =
                                  [version |-> call[t].answer, overlapped |-> FALSE]]
    /\ call' = [call EXCEPT ![t] = None]
    /\ UNCHANGED <<allowWrite, watched, projectId, projects, version, acked>>

-----------------------------------------------------------------------------
(* The configured project is the service account's, in its region only.     *)
Configured(caller) == projectId # None /\ caller = <<Service, DefaultRegion>>

Known(caller) == Configured(caller) \/ projects[caller] # None

KnownProject(caller) == IF Configured(caller) THEN projectId ELSE projects[caller]

(* The key of a list: identity, region and project.                         *)
Key(c) == <<c.caller, c.project>>

(* A call that has done the steps before n and passes those before m: the   *)
(* project it works in, and whether step m suspends it.                     *)
ProjectAt(c, n, m) ==
    IF \E k \in n .. m - 1 : c.plan[k] = "project" THEN KnownProject(c.caller) ELSE c.project

Awaits(c, n, m) ==
    \/ c.plan[m] \in {"get", "write", "change"}
    \/ c.plan[m] = "project" /\ ~Known(c.caller)
    \/ c.plan[m] = "list" /\ (c.refresh \/ cache[<<c.caller, ProjectAt(c, n, m)>>] = None)

(* It goes on from n to its next await, at m, or to its end.                *)
GoesTo(c, n, m) ==
    /\ m <= Len(c.plan) => Awaits(c, n, m)
    /\ \A k \in n .. m - 1 : ~Awaits(c, n, k)

Passes(c, n, m, kind) == \E k \in n .. m - 1 : c.plan[k] = kind

(* Running the steps from n on, up to the next await: a guard or a check    *)
(* may raise, an invalidation empties the list for every caller.            *)
Run(t, c, n, entries, ack) == \E m \in n .. Len(c.plan) + 1 :
    /\ GoesTo(c, n, m)
    /\ Passes(c, n, m, "gate") => allowWrite
    /\ Passes(c, n, m, "check") => c.valid
    /\ cache' = IF Passes(c, n, m, "drop") THEN [k \in Keys |-> None] ELSE entries
    /\ call' = [call EXCEPT ![t] =
           IF m > Len(c.plan) THEN None
           ELSE [c EXCEPT !.at = m, !.project = ProjectAt(c, n, m), !.since = ack,
                          !.answer = None, !.made = 0]]

-----------------------------------------------------------------------------
(* A handler is called: by the MCP server, or directly, which is what its   *)
(* own guard is for.                                                        *)
Begin(t, caller, plan, valid, refresh) ==
    /\ call[t] = None
    /\ Run(t, [plan |-> plan, at |-> 1, caller |-> caller, valid |-> valid, refresh |-> refresh,
               project |-> None, since |-> acked, answer |-> None, made |-> 0], 1, cache, acked)
    /\ UNCHANGED <<allowWrite, watched, projectId, projects, version, acked>>

\* what a caller passes matters only to a handler that looks at it
Choice(plan, kind, default) ==
    IF \E n \in DOMAIN plan : plan[n] = kind THEN BOOLEAN ELSE {default}

At(t, kind) == call[t] # None /\ call[t].plan[call[t].at] = kind

(* GET /v1/projects answers with the caller's own: remembered by identity   *)
(* and region, and as the configured one for the service account.           *)
LookupReturns(t) ==
    /\ At(t, "project")
    /\ LET c == call[t] IN
       /\ projects' = [projects EXCEPT ![c.caller] = ProjectOf(c.caller)]
       /\ projectId' = IF c.caller = <<Service, DefaultRegion>> THEN ProjectOf(c.caller)
                       ELSE projectId
       /\ Run(t, [c EXCEPT !.project = ProjectOf(c.caller)], c.at + 1, cache, acked)
    /\ UNCHANGED <<allowWrite, watched, version, acked>>

(* A read, or a change the list does not show, is answered.                 *)
Returns(t) ==
    /\ At(t, "get") \/ At(t, "write")
    /\ Run(t, call[t], call[t].at + 1, cache, acked)
    /\ UNCHANGED <<allowWrite, watched, projectId, projects, version, acked>>

(* The API reads the list; the answer is stored when it arrives.            *)
ApiLists(t) ==
    /\ At(t, "list") /\ call[t].answer = None
    /\ call' = [call EXCEPT ![t].answer = version]
    /\ UNCHANGED <<allowWrite, watched, projectId, projects, version, acked, cache>>

ListReturns(t) ==
    /\ At(t, "list") /\ call[t].answer # None
    /\ LET c == call[t]
           entry == [version |-> c.answer, overlapped |-> c.since # acked]
       IN  Run(t, c, c.at + 1, [cache EXCEPT ![Key(c)] = entry], acked)
    /\ UNCHANGED <<allowWrite, watched, projectId, projects, version, acked>>

(* The API carries out a change of what the list shows; the handler goes on *)
(* when it is told.                                                         *)
ApiChanges(t) ==
    /\ At(t, "change") /\ call[t].made = 0
    /\ version < MaxVersion
    /\ version' = version + 1
    /\ call' = [call EXCEPT ![t].made = version + 1]
    /\ UNCHANGED <<allowWrite, watched, projectId, projects, acked, cache>>

ChangeReturns(t) ==
    /\ At(t, "change") /\ call[t].made # 0
    /\ acked' = IF call[t].made > acked THEN call[t].made ELSE acked
    /\ Run(t, call[t], call[t].at + 1, cache, acked')
    /\ UNCHANGED <<allowWrite, watched, projectId, projects, version>>

(* A request fails, the lookup finds no project, or the rest of the handler *)
(* raises.                                                                  *)
Raises(t) ==
    /\ call[t] # None
    /\ call' = [call EXCEPT ![t] = None]
    /\ UNCHANGED <<allowWrite, watched, projectId, projects, version, acked, cache>>

(* An entry expires or makes room.                                          *)
Evict(k) ==
    /\ cache[k] # None
    /\ cache' = [cache EXCEPT ![k] = None]
    /\ UNCHANGED <<allowWrite, watched, projectId, projects, version, acked, call>>

Next ==
    \/ \E t \in Tasks, caller \in Callers, plan \in Plans[watched] :
         \E valid \in Choice(plan, "check", TRUE), refresh \in Choice(plan, "list", FALSE) :
           Begin(t, caller, plan, valid, refresh)
    \/ \E t \in Tasks : LookupReturns(t) \/ Returns(t) \/ ApiLists(t) \/ ListReturns(t)
                        \/ ApiChanges(t) \/ ChangeReturns(t) \/ Raises(t)
    \/ \E k \in Keys : Evict(k)

Spec == Init /\ [][Next]_vars

-----------------------------------------------------------------------------
(* Types of the server's state and of the calls under way.                  *)
TypeOK ==
    /\ allowWrite \in BOOLEAN /\ watched \in Watched
    /\ projectId \in Callers \cup {None}
    /\ projects \in [Callers -> Callers \cup {None}]
    /\ version \in Nat /\ acked \in Nat
    /\ cache \in [Keys -> Entry \cup {None}]
    /\ call \in [Tasks -> Call \cup {None}]

(* Without --allow-write nothing that writes is ever sent, by whichever     *)
(* handler it is called (guards.py 12-20: "a second line of defence for     *)
(* direct handler calls").                                                  *)
ReadOnlyServer == \A t \in Tasks : At(t, "write") \/ At(t, "change") => allowWrite

(* A handler that checks its arguments has sent nothing, not even a project *)
(* lookup, when it refuses them.                                            *)
NothingSentUnchecked == \A t \in Tasks :
    call[t] # None /\ (\E n \in DOMAIN call[t].plan : call[t].plan[n] = "check") => call[t].valid

(* Once a handler has asked for its project, it works in the caller's own   *)
(* project of that region, whoever looked it up and however it was          *)
(* configured (project.py 28-30: "a passthrough user must never silently    *)
(* inherit it").                                                            *)
OwnProject == \A t \in Tasks :
    call[t] # None /\ (\E n \in 1 .. call[t].at - 1 : call[t].plan[n] = "project")
        => call[t].project = ProjectOf(call[t].caller)

(* A cached list shows every change that one of this server's own tools     *)
(* heard was done, unless its fetch overlapped the news: whatever tool      *)
(* makes such a change also invalidates the list.                           *)
ListShowsOwnChanges == \A k \in Keys :
    cache[k] # None /\ ~cache[k].overlapped => cache[k].version >= acked

=============================================================================
