----------------------------- MODULE BaseClient -----------------------------
(***************************************************************************)
(* The HTTP client every product server sends its API calls through        *)
(* (mcp-core http.py, BaseClient._request), together with the token        *)
(* manager it shares with every other call of the process.                 *)
(*                                                                         *)
(* Each call c is one _request, from entry to return or exception.  A call *)
(* made on behalf of an end user carries that user's token and never goes  *)
(* near the token manager; any other call uses the service account's.      *)
(*                                                                         *)
(* The network and the API are the environment.  A request may be lost, be *)
(* carried out after the client has given up on it, or be carried out and  *)
(* its answer lost.                                                        *)
(***************************************************************************)
EXTENDS TokenManager

CONSTANTS
    UserTokens,   \* bearer tokens of end users (HTTP passthrough)
    MAX_RETRIES

ASSUME ClientAssumption ==
    /\ MAX_RETRIES \in Nat
    /\ UserTokens \cap Token = {}
    /\ NoToken \notin UserTokens

(* Answers of the API, as far as the client tells them apart:               *)
(*   "ok"        success, with a body the client can decode (or none)       *)
(*   "garbled"   success, but the body is not JSON: resp.json() raises      *)
(*   "badToken"  401, or an error carrying IAM_VALIDATION_ERROR             *)
(*   "retryable" 500, 502, 503 or 504                                       *)
(*   "refused"   any other status that is not a success                     *)
Answers == {"ok", "garbled", "badToken", "retryable", "refused"}

VARIABLES
    pc,           \* pc[c]: "idle", "token", "waiting", "sleeping" or "done"
    user,         \* user[c]: user_token_var on entry, NoToken for the service
    attempt,      \* attempt[c]: the loop variable
    retriedAuth,  \* retriedAuth[c]: _retried_auth
    bearer,       \* bearer[c]: the token of the last request
    sends,        \* sends[c]: number of requests sent
    rejected,     \* rejected[c]: the service token whose refusal c refreshed
    outcome,      \* outcome[c]: "none", "ok" or "error"
    network,      \* requests sent and not handled: [call, n, token]
    applied,      \* requests the API carried out
    answer        \* answer[c]: the answer to the request c waits for, or "none"

clientVars == <<pc, user, attempt, retriedAuth, bearer, sends, rejected, outcome,
                network, applied, answer>>
vars == <<tokenVars, clientVars>>

Init ==
    /\ TokenInit
    /\ pc = [c \in Calls |-> "idle"]
    /\ user = [c \in Calls |-> NoToken]
    /\ attempt = [c \in Calls |-> 0]
    /\ retriedAuth = [c \in Calls |-> FALSE]
    /\ bearer = [c \in Calls |-> NoToken]
    /\ sends = [c \in Calls |-> 0]
    /\ rejected = [c \in Calls |-> NoToken]
    /\ outcome = [c \in Calls |-> "none"]
    /\ network = {} /\ applied = {}
    /\ answer = [c \in Calls |-> "none"]

-----------------------------------------------------------------------------
(* The end of a call, and the decision shared by the error branches: sleep  *)
(* and go round the loop, or give up after the last attempt.                *)
Finish(c, result) ==
    /\ pc' = [pc EXCEPT ![c] = "done"]
    /\ outcome' = [outcome EXCEPT ![c] = result]

\* the bound of the loop forgotten
RetryForever(c) ==
    /\ pc' = [pc EXCEPT ![c] = "sleeping"]
    /\ UNCHANGED outcome

RetryOrFail(c) ==
    \/ /\ attempt[c] < MAX_RETRIES
       /\ pc' = [pc EXCEPT ![c] = "sleeping"]
       /\ UNCHANGED outcome
    \/ /\ attempt[c] = MAX_RETRIES
       /\ Finish(c, "error")

(* Entry into _request: user_token_var is read once, for the whole call. *)
Start(c) ==
    /\ pc[c] = "idle"
    /\ pc' = [pc EXCEPT ![c] = "token"]
    /\ \E u \in UserTokens \cup {NoToken} : user' = [user EXCEPT ![c] = u]
    /\ UNCHANGED <<tokenVars, attempt, retriedAuth, bearer, sends, rejected, outcome,
                   network, applied, answer>>

(* The request leaves with the token of this attempt. *)
Send(c, token) ==
    /\ pc' = [pc EXCEPT ![c] = "waiting"]
    /\ bearer' = [bearer EXCEPT ![c] = token]
    /\ sends' = [sends EXCEPT ![c] = @ + 1]
    /\ network' = network \cup {[call |-> c, n |-> sends[c] + 1, token |-> token]}
    /\ UNCHANGED <<user, attempt, retriedAuth, rejected, outcome, applied, answer>>

SendAsUser(c) ==
    /\ pc[c] = "token" /\ user[c] # NoToken
    /\ Send(c, user[c])
    /\ UNCHANGED tokenVars

SendAsService(c) ==
    /\ pc[c] = "token" /\ user[c] = NoToken
    /\ GetTokenReturns(c)
    /\ Send(c, accessToken')

AwaitToken(c) ==
    /\ pc[c] = "token" /\ user[c] = NoToken
    /\ GetTokenWaits(c)
    /\ UNCHANGED clientVars

(* get_token is outside the try: its exception ends the call. *)
TokenUnavailable(c) ==
    /\ pc[c] = "token" /\ user[c] = NoToken
    /\ FetchFails(c)
    /\ Finish(c, "error")
    /\ UNCHANGED <<user, attempt, retriedAuth, bearer, sends, rejected, network, applied, answer>>

(* ConnectTimeout and ConnectError: the request never left.  ReadTimeout:   *)
(* it may be handled later, or have been handled and the answer be late.    *)
TransportFails(c) ==
    /\ pc[c] = "waiting"
    /\ RetryOrFail(c)
    /\ \/ network' = network
       \/ network' = network \ {r \in network : r.call = c /\ r.n = sends[c]}
    /\ answer' = [answer EXCEPT ![c] = "none"]
    /\ UNCHANGED <<tokenVars, user, attempt, retriedAuth, bearer, sends, rejected, applied>>

(* Any other httpx error is not caught: the call ends at once. *)
TransportBreaks(c) ==
    /\ pc[c] = "waiting"
    /\ Finish(c, "error")
    /\ answer' = [answer EXCEPT ![c] = "none"]
    /\ UNCHANGED <<tokenVars, user, attempt, retriedAuth, bearer, sends, rejected, network,
                   applied>>

-----------------------------------------------------------------------------
(* What the client does with each answer. *)
Answered(c, a) ==
    /\ pc[c] = "waiting" /\ answer[c] = a
    /\ answer' = [answer EXCEPT ![c] = "none"]

Succeed(c) ==
    /\ Answered(c, "ok")
    /\ Finish(c, "ok")
    /\ UNCHANGED <<tokenVars, user, attempt, retriedAuth, bearer, sends, rejected, network,
                   applied>>

Fail(c) ==
    /\ \/ Answered(c, "garbled") \/ Answered(c, "refused")
       \/ Answered(c, "badToken") /\ (user[c] # NoToken \/ retriedAuth[c])
    /\ Finish(c, "error")
    /\ UNCHANGED <<tokenVars, user, attempt, retriedAuth, bearer, sends, rejected, network,
                   applied>>

\* after the last attempt a server error is returned like a success
ServerErrorFallsThrough(c) ==
    /\ Answered(c, "retryable")
    /\ IF attempt[c] < MAX_RETRIES
       THEN pc' = [pc EXCEPT ![c] = "sleeping"] /\ UNCHANGED outcome
       ELSE Finish(c, "ok")
    /\ UNCHANGED <<tokenVars, user, attempt, retriedAuth, bearer, sends, rejected, network,
                   applied>>

ServerError(c) ==
    /\ Answered(c, "retryable")
    /\ RetryOrFail(c)
    /\ UNCHANGED <<tokenVars, user, attempt, retriedAuth, bearer, sends, rejected, network,
                   applied>>

\* the recursion without the invalidation: the same token is sent again
RefreshWithoutInvalidating(c) ==
    /\ Answered(c, "badToken")
    /\ user[c] = NoToken /\ ~retriedAuth[c]
    /\ UNCHANGED tokenVars
    /\ retriedAuth' = [retriedAuth EXCEPT ![c] = TRUE]
    /\ rejected' = [rejected EXCEPT ![c] = bearer[c]]
    /\ attempt' = [attempt EXCEPT ![c] = 0]
    /\ pc' = [pc EXCEPT ![c] = "token"]
    /\ UNCHANGED <<user, bearer, sends, outcome, network, applied>>

\* a rejected user token falls back on the service account
RefreshFallingBack(c) ==
    /\ Answered(c, "badToken")
    /\ ~retriedAuth[c]
    /\ Invalidate
    /\ user' = [user EXCEPT ![c] = NoToken]
    /\ retriedAuth' = [retriedAuth EXCEPT ![c] = TRUE]
    /\ rejected' = [rejected EXCEPT ![c] = bearer[c]]
    /\ attempt' = [attempt EXCEPT ![c] = 0]
    /\ pc' = [pc EXCEPT ![c] = "token"]
    /\ UNCHANGED <<bearer, sends, outcome, network, applied>>

(* The service token was refused for the first time: mark the cached token  *)
(* stale, whichever token that is by now, and start over with a new loop.   *)
Refresh(c) ==
    /\ Answered(c, "badToken")
    /\ user[c] = NoToken /\ ~retriedAuth[c]
    /\ Invalidate
    /\ retriedAuth' = [retriedAuth EXCEPT ![c] = TRUE]
    /\ rejected' = [rejected EXCEPT ![c] = bearer[c]]
    /\ attempt' = [attempt EXCEPT ![c] = 0]
    /\ pc' = [pc EXCEPT ![c] = "token"]
    /\ UNCHANGED <<user, bearer, sends, outcome, network, applied>>

(* The backoff is over. *)
Wake(c) ==
    /\ pc[c] = "sleeping"
    /\ attempt' = [attempt EXCEPT ![c] = @ + 1]
    /\ pc' = [pc EXCEPT ![c] = "token"]
    /\ UNCHANGED <<tokenVars, user, retriedAuth, bearer, sends, rejected, outcome, network,
                   applied, answer>>

-----------------------------------------------------------------------------
(* The API handles a request.  A server error may come from a gateway in    *)
(* front of an API that did its work.  Only the request its client still    *)
(* waits for is answered: the connections of the earlier ones are closed.   *)
ApiHandles(r, a) ==
    /\ r \in network
    /\ network' = network \ {r}
    /\ \/ a \in {"ok", "garbled", "retryable"} /\ applied' = applied \cup {r}
       \/ a \in {"badToken", "retryable", "refused"} /\ UNCHANGED applied
    /\ answer' = IF pc[r.call] = "waiting" /\ r.n = sends[r.call]
                 THEN [answer EXCEPT ![r.call] = a] ELSE answer
    /\ UNCHANGED <<tokenVars, pc, user, attempt, retriedAuth, bearer, sends, rejected, outcome>>

Environment ==
    \/ \E r \in network, a \in Answers : ApiHandles(r, a)
    \/ (Tick \/ \E c \in Calls : IamIssue(c)) /\ UNCHANGED clientVars

(* Every call has returned and the network is quiet. *)
Quiet ==
    /\ \A c \in Calls : pc[c] = "done"
    /\ network = {}
    /\ UNCHANGED vars

GettingToken(c) == SendAsUser(c) \/ SendAsService(c) \/ AwaitToken(c) \/ TokenUnavailable(c)
HandlingAnswer(c) == Succeed(c) \/ Fail(c) \/ ServerError(c) \/ Refresh(c)
LosingAnswer(c) == TransportFails(c) \/ TransportBreaks(c)

Next ==
    \/ \E c \in Calls : Start(c) \/ GettingToken(c) \/ HandlingAnswer(c) \/ LosingAnswer(c)
                        \/ Wake(c)
    \/ Environment
    \/ Quiet

(* A task that can go on does: the event loop runs it, httpx ends every     *)
(* request within its timeout, and a sleep ends.  The API need not answer.  *)
Fairness ==
    \A c \in Calls : /\ WF_vars(GettingToken(c))
                     /\ WF_vars(HandlingAnswer(c) \/ LosingAnswer(c))
                     /\ WF_vars(Wake(c))

Spec == Init /\ [][Next]_vars
FairSpec == Spec /\ Fairness

-----------------------------------------------------------------------------
Request == [call : Calls, n : Nat, token : Token \cup UserTokens]

(* Types of a call's locals (http.py 114-252) and of the network. *)
ClientTypeOK ==
    /\ pc \in [Calls -> {"idle", "token", "waiting", "sleeping", "done"}]
    /\ user \in [Calls -> UserTokens \cup {NoToken}]
    /\ attempt \in [Calls -> 0..MAX_RETRIES]
    /\ retriedAuth \in [Calls -> BOOLEAN]
    /\ bearer \in [Calls -> Token \cup UserTokens \cup {NoToken}]
    /\ sends \in [Calls -> Nat]
    /\ rejected \in [Calls -> Token \cup {NoToken}]
    /\ outcome \in [Calls -> {"none", "ok", "error"}]
    /\ network \subseteq Request /\ applied \subseteq Request
    /\ answer \in [Calls -> Answers \cup {"none"}]

Principal(token) == IF token \in UserTokens THEN token ELSE NoToken

(* Neither a request on the wire nor one the API carried out ever bears the *)
(* identity of anyone but its caller, over all the retries: a rejected user *)
(* token does not fall back on the service account (http.py 198-204) and no *)
(* call picks up another's token.                                           *)
NoIdentityMixing == \A r \in network \cup applied : Principal(r.token) = user[r.call]

(* The work one call can cause: a full loop before the refused token and    *)
(* another after it, but a single loop with a user's token.                 *)
SendBudget(c) == (MAX_RETRIES + 1) * (IF retriedAuth[c] THEN 2 ELSE 1)
SendsBounded == \A c \in Calls :
    /\ sends[c] <= SendBudget(c)
    /\ user[c] # NoToken => ~retriedAuth[c]

(* After a refresh the call never goes out again with the token that was    *)
(* refused, although other calls refresh, invalidate and store tokens too.  *)
RetryUsesNewToken == \A c \in Calls :
    retriedAuth[c] /\ pc[c] = "waiting" => bearer[c] # rejected[c]

(* A caller told "ok" has had its operation carried out, in spite of the    *)
(* requests it gave up on and the answers that came too late.               *)
OkMeansApplied == \A c \in Calls :
    outcome[c] = "ok" => \E r \in applied : r.call = c

(* A user's call neither refreshes nor invalidates the service account's    *)
(* token, whatever the API answers.                                         *)
UserCallsLeaveTokenAlone ==
    [][\A c \in Calls : user[c] # NoToken /\ pc'[c] # pc[c] => UNCHANGED tokenVars]_vars

(* Every call returns: no call waits for ever on the lock of the token      *)
(* manager, on an API that does not answer, or in the retry loop.           *)
CallsEnd == \A c \in Calls : pc[c] = "token" ~> pc[c] = "done"

(* The promise of ApiCall. *)
Promise == INSTANCE ApiCall WITH
    Principals <- UserTokens \cup {NoToken},
    Budget     <- 2 * (MAX_RETRIES + 1),
    status     <- [c \in Calls |-> IF pc[c] = "idle" THEN "idle"
                                   ELSE IF pc[c] = "done" THEN outcome[c] ELSE "open"],
    owner      <- user,
    runs       <- {[call |-> r.call, n |-> r.n, as |-> Principal(r.token)] : r \in applied}

KeepsPromise == Promise!Spec

=============================================================================
