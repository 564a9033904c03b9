--------------------------- MODULE TokenManager ---------------------------
(***************************************************************************)
(* The IAM token cache of mcp-core (auth.py, class TokenManager): one      *)
(* cached token, its deadline, and an asyncio.Lock around the refresh.     *)
(*                                                                         *)
(* Tasks run on one event loop, so a step is everything a task does from   *)
(* one await to the next.  get_token is therefore three kinds of step: the *)
(* entry (which may return at once, start the refresh, or queue on the     *)
(* lock), the resumption of the task at the head of the lock's queue, and  *)
(* the end of the POST to IAM.                                             *)
(*                                                                         *)
(* IAM and the clock are the environment.  A token is [id, exp]: ids grow  *)
(* in the order IAM issues them and exp is when IAM stops honouring it.    *)
(***************************************************************************)
EXTENDS Integers, Sequences

CONSTANTS
    Calls,        \* tasks that may be inside get_token at the same time
    NoCall,       \* the lock is free
    NoToken,      \* Python's None for _access_token
    NoReply,      \* IAM has not answered the POST yet
    Lifetimes,    \* the expiresIn values IAM may hand out
    MARGIN,       \* the 60 s subtracted from _expires_at
    TIMEOUT,      \* DEFAULT_TIMEOUT of the POST to IAM
    MaxClock,     \* bound: the clock stops here
    MaxTokens     \* bound: IAM issues no more tokens than this

ASSUME CallsAssumption == NoCall \notin Calls
ASSUME TimeAssumption ==
    /\ Lifetimes \subseteq Nat
    /\ MARGIN \in Nat /\ TIMEOUT \in Nat
    /\ TIMEOUT <= MARGIN            \* 30 s and 60 s in the code
    /\ MaxClock \in Nat /\ MaxTokens \in Nat

Token == [id : Nat \ {0}, exp : Nat]
Reply == [token : Token, at : Nat]  \* a token on its way, and when it was issued

ASSUME TokenAssumption == NoToken \notin Token /\ NoReply \notin Reply

VARIABLES
    accessToken,  \* self._access_token
    expiresAt,    \* self._expires_at
    lock,         \* self._lock: the task holding it, or NoCall
    waiters,      \* self._lock: tasks queued on it, first come first served
    phase,        \* phase[c]: where call c stands in get_token
    clock,        \* time.time()
    issued,       \* number of tokens IAM has issued
    reply         \* reply[c]: IAM's answer to the POST of c, in transit

cacheVars == <<accessToken, expiresAt>>
tokenVars == <<accessToken, expiresAt, lock, waiters, phase, clock, issued, reply>>

TokenInit ==
    /\ accessToken = NoToken
    /\ expiresAt = 0
    /\ lock = NoCall
    /\ waiters = << >>
    /\ phase = [c \in Calls |-> "idle"]
    /\ clock = 0
    /\ issued = 0
    /\ reply = [c \in Calls |-> NoReply]

-----------------------------------------------------------------------------
(* Mutated forms of the definitions below: each is a bug a maintainer could *)
(* plausibly introduce, and some property must tell it from the code.       *)

\* the safety margin forgotten
FreshWithoutMargin == accessToken # NoToken /\ clock < expiresAt

\* the refresh starts without taking the lock
FetchUnlocked(c) ==
    /\ phase' = [phase EXCEPT ![c] = "fetching"]
    /\ UNCHANGED <<lock, cacheVars, clock, issued, reply>>

\* the lock is kept when the POST fails
FetchFailsKeepingLock(c) ==
    /\ phase[c] = "fetching"
    /\ phase' = [phase EXCEPT ![c] = "idle"]
    /\ reply' = [reply EXCEPT ![c] = NoReply]
    /\ UNCHANGED <<lock, cacheVars, waiters, clock, issued>>

\* the deadline reset to None instead of 0
InvalidateToNone ==
    /\ expiresAt' = NoToken
    /\ UNCHANGED <<accessToken, lock, waiters, phase, clock, issued, reply>>

-----------------------------------------------------------------------------
(* The token that get_token may hand out without asking IAM. *)
Fresh == accessToken # NoToken /\ clock < expiresAt - MARGIN

(* get_token returns the cached token to c and leaves the lock free or as *)
(* it was.                                                                 *)
ReturnCached(c) ==
    /\ phase' = [phase EXCEPT ![c] = "idle"]
    /\ UNCHANGED <<cacheVars, lock, clock, issued, reply>>

(* c holds the lock and awaits the POST of _fetch_token. *)
StartFetch(c) ==
    /\ lock' = c
    /\ phase' = [phase EXCEPT ![c] = "fetching"]
    /\ UNCHANGED <<cacheVars, clock, issued, reply>>

(* Entry, first check: the fast path. *)
EnterFresh(c) ==
    /\ phase[c] = "idle"
    /\ Fresh
    /\ ReturnCached(c)
    /\ UNCHANGED waiters

(* Entry with a stale token and a free lock nobody queues for: asyncio.Lock *)
(* is taken without suspending, so the second check sees what the first saw.*)
EnterFetch(c) ==
    /\ phase[c] = "idle"
    /\ ~Fresh
    /\ lock = NoCall /\ waiters = << >>
    /\ StartFetch(c)
    /\ UNCHANGED waiters

(* Entry with a stale token while the lock is held or queued for. *)
EnterQueue(c) ==
    /\ phase[c] = "idle"
    /\ ~Fresh
    /\ lock # NoCall \/ waiters # << >>
    /\ phase' = [phase EXCEPT ![c] = "queued"]
    /\ waiters' = Append(waiters, c)
    /\ UNCHANGED <<cacheVars, lock, clock, issued, reply>>

(* The head of the queue resumes with the lock and checks a second time. *)
Granted(c) ==
    /\ lock = NoCall
    /\ waiters # << >> /\ Head(waiters) = c
    /\ waiters' = Tail(waiters)

\* the second check forgotten: whoever queued refreshes again
ResumeFetchUnchecked(c) == Granted(c) /\ StartFetch(c)

ResumeFresh(c) == Granted(c) /\ Fresh /\ ReturnCached(c)
ResumeFetch(c) == Granted(c) /\ ~Fresh /\ StartFetch(c)

(* IAM issues a token to the POST of c. *)
IamIssue(c) ==
    /\ phase[c] = "fetching" /\ reply[c] = NoReply
    /\ issued < MaxTokens
    /\ issued' = issued + 1
    /\ \E life \in Lifetimes :
         reply' = [reply EXCEPT ![c] = [token |-> [id |-> issued + 1, exp |-> clock + life],
                                        at    |-> clock]]
    /\ UNCHANGED <<cacheVars, lock, waiters, phase, clock>>

(* The answer arrives: the deadline is counted from now, not from the time *)
(* IAM issued the token.  The lock is released on the way out.             *)
FetchOk(c) ==
    /\ phase[c] = "fetching" /\ reply[c] # NoReply
    /\ accessToken' = reply[c].token
    /\ expiresAt' = clock + (reply[c].token.exp - reply[c].at)
    /\ lock' = NoCall
    /\ phase' = [phase EXCEPT ![c] = "idle"]
    /\ reply' = [reply EXCEPT ![c] = NoReply]
    /\ UNCHANGED <<waiters, clock, issued>>

(* Connection error, any other httpx error, or a status other than 200: *)
(* the exception leaves through "async with", which releases the lock.  *)
FetchFails(c) ==
    /\ phase[c] = "fetching"
    /\ lock' = NoCall
    /\ phase' = [phase EXCEPT ![c] = "idle"]
    /\ reply' = [reply EXCEPT ![c] = NoReply]
    /\ UNCHANGED <<cacheVars, waiters, clock, issued>>

(* What a client does to the manager when an API rejects a token. *)
Invalidate ==
    /\ expiresAt' = 0
    /\ UNCHANGED <<accessToken, lock, waiters, phase, clock, issued, reply>>

(* Time passes, but a POST does not outlive its timeout. *)
Tick ==
    /\ clock < MaxClock
    /\ \A c \in Calls : reply[c] # NoReply => clock - reply[c].at < TIMEOUT
    /\ clock' = clock + 1
    /\ UNCHANGED <<cacheVars, lock, waiters, phase, issued, reply>>

(* On these three what get_token returns is accessToken'. *)
GetTokenReturns(c) == EnterFresh(c) \/ ResumeFresh(c) \/ FetchOk(c)
GetTokenWaits(c)   == EnterFetch(c) \/ EnterQueue(c) \/ ResumeFetch(c)
GetTokenStep(c)    == GetTokenReturns(c) \/ GetTokenWaits(c) \/ FetchFails(c)

TokenNext ==
    \/ \E c \in Calls : GetTokenStep(c) \/ IamIssue(c)
    \/ Invalidate
    \/ Tick

(* A queued task resumes when the lock is its own, and every POST ends: *)
(* the event loop runs ready tasks and httpx enforces its timeout.      *)
TokenFairness ==
    \A c \in Calls : /\ WF_tokenVars(ResumeFresh(c) \/ ResumeFetch(c))
                     /\ WF_tokenVars(FetchOk(c) \/ FetchFails(c))

TokenSpec == TokenInit /\ [][TokenNext]_tokenVars /\ TokenFairness

-----------------------------------------------------------------------------
(* Types of the manager's state (auth.py 30-34) and of its environment. *)
TokenTypeOK ==
    /\ accessToken \in Token \cup {NoToken}
    /\ expiresAt \in Int
    /\ lock \in Calls \cup {NoCall}
    /\ waiters \in Seq(Calls)
    /\ phase \in [Calls -> {"idle", "queued", "fetching"}]
    /\ clock \in Nat /\ issued \in Nat
    /\ reply \in [Calls -> Reply \cup {NoReply}]

(* Concurrent tool calls that all find the token stale send one POST to IAM, *)
(* not one each: the lock of get_token.                                      *)
SingleFlight ==
    \A c, d \in Calls : phase[c] = "fetching" /\ phase[d] = "fetching" => c = d

(* Nobody is refreshing a token that is good: the check repeated under the   *)
(* lock makes those who queued use what the first one fetched.               *)
FetchOnlyWhenStale ==
    (\E c \in Calls : phase[c] = "fetching") => ~Fresh

(* A token served from the cache is one IAM still honours, although its      *)
(* deadline is counted from the arrival of the answer and is therefore later *)
(* than IAM's: the margin covers the time the answer may spend in transit.   *)
CachedTokenAlive == Fresh => clock < accessToken.exp

(* A token never replaces one that IAM issued after it. *)
TokensMoveForward ==
    [][accessToken' # accessToken =>
         accessToken = NoToken \/ accessToken'.id > accessToken.id]_tokenVars

(* Every call of get_token comes back, with a token or an exception, however *)
(* the POSTs of the calls before it in the queue end.                        *)
GetTokenEnds == \A c \in Calls : phase[c] # "idle" ~> phase[c] = "idle"

=============================================================================
