----------------------------- MODULE ToolSteps -----------------------------
(***************************************************************************)
(* What a tool handler does, as the sequence of the calls that matter, in  *)
(* the order of the code, when nothing cuts it short.  A product's module  *)
(* defines one sequence per handler; ToolServer runs them.                 *)
(***************************************************************************)
EXTENDS Naturals, Sequences

Step(kind, of) == <<[kind |-> kind, of |-> of]>>

Gate == Step("gate", {})            \* require_write: raises without --allow-write
Registered == Step("gate", {})      \* the MCP server has the tool only with --allow-write
Check == Step("check", {})          \* validate_id and the like: raise on bad arguments
Project == Step("project", {})      \* await require_project_id
Get == Step("get", {})              \* await a read
Cached(list) == Step("list", {list})     \* await get_or_fetch of a discovery list
Change(what) == Step("change", what)     \* await a request that changes these resources
Drop(list) == Step("drop", {list})       \* invalidate

-----------------------------------------------------------------------------
(* A handler as far as one cached list is concerned: reads of other lists   *)
(* are reads, changes the list does not show are writes, and what is        *)
(* dropped from other lists does not matter.                                *)
Seen(list, shown, s) ==
    CASE s.kind = "list" /\ list \notin s.of      -> "get"
      [] s.kind = "change" /\ s.of \cap shown = {} -> "write"
      [] s.kind = "drop" /\ list \notin s.of      -> "skip"
      [] OTHER                                    -> s.kind

SeenBy(list, shown, tool) ==
    LET Kept(kind) == kind # "skip"
    IN  SelectSeq([n \in DOMAIN tool |-> Seen(list, shown, tool[n])], Kept)

-----------------------------------------------------------------------------
(* Three habits of a handler.  What it changes it changes behind the guard; *)
(* it checks its arguments before it sends anything; and after changing     *)
(* what a list shows it drops the list before it waits again.               *)
Guarded(plan) == \A n \in DOMAIN plan :
    plan[n] \in {"write", "change"} => \E g \in 1 .. n - 1 : plan[g] = "gate"

CheckedFirst(plan) == \A n \in DOMAIN plan, c \in DOMAIN plan :
    plan[c] = "check" /\ plan[n] \in {"project", "get", "list", "write", "change"}
        => \E k \in 1 .. n - 1 : plan[k] = "check"

Maintains(plan) == \A n \in DOMAIN plan : plan[n] = "change" =>
    \E d \in n + 1 .. Len(plan) :
        plan[d] = "drop" /\ \A k \in n + 1 .. d - 1 : plan[k] \in {"gate", "check"}

=============================================================================
