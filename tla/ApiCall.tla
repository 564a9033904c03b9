------------------------------ MODULE ApiCall ------------------------------
(***************************************************************************)
(* What a product server promises about one REST call: the API carries the *)
(* operation out at most Budget times, always as the principal that made   *)
(* the call, and the caller is told "ok" only if it was carried out.       *)
(* Nothing is promised about "error": the operation may have been carried  *)
(* out, and may still be after the caller was told.                        *)
(***************************************************************************)
EXTENDS Naturals

CONSTANTS Calls, Principals, Budget

VARIABLES
    status,   \* status[c]: "idle", "open", "ok" or "error"
    owner,    \* owner[c]: the principal on whose behalf c was opened
    runs      \* the executions: [call, n, as]

vars == <<status, owner, runs>>

Init ==
    /\ status = [c \in Calls |-> "idle"]
    /\ owner \in [Calls -> Principals]
    /\ runs = {}

Open(c) ==
    /\ status[c] = "idle"
    /\ status' = [status EXCEPT ![c] = "open"]
    /\ \E p \in Principals : owner' = [owner EXCEPT ![c] = p]
    /\ UNCHANGED runs

Run(c, n) ==
    /\ status[c] # "idle"
    /\ runs' = runs \cup {[call |-> c, n |-> n, as |-> owner[c]]}
    /\ UNCHANGED <<status, owner>>

Close(c, result) ==
    /\ status[c] = "open"
    /\ result = "ok" => \E r \in runs : r.call = c
    /\ status' = [status EXCEPT ![c] = result]
    /\ UNCHANGED <<owner, runs>>

Next == \E c \in Calls :
    \/ Open(c)
    \/ \E n \in 1..Budget : Run(c, n)
    \/ \E result \in {"ok", "error"} : Close(c, result)

Spec == Init /\ [][Next]_vars

=============================================================================
