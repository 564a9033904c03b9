-------------------------- MODULE BaseClientProofs --------------------------
(***************************************************************************)
(* Proofs about TokenManager and about BaseClient, which drives it, for    *)
(* any number of concurrent calls, any set of users, any lifetimes of a    *)
(* token and any MAX_RETRIES.                                              *)
(*                                                                         *)
(* The token manager comes first.  Its inductive invariant adds to the     *)
(* properties who holds the lock, what an answer in transit looks like,    *)
(* and how far the cached deadline can run ahead of IAM's.                 *)
(***************************************************************************)
EXTENDS BaseClient, TLAPS

(* The lock is held exactly by the task that is refreshing. *)
LockHeldByFetcher == \A c \in Calls : phase[c] = "fetching" <=> lock = c

(* An answer in transit belongs to the task refreshing, is at most TIMEOUT  *)
(* old and carries a token younger than the cached one.                     *)
AnswerInTransit ==
    \A c \in Calls : reply[c] # NoReply =>
        /\ phase[c] = "fetching"
        /\ reply[c].at <= clock /\ clock - reply[c].at <= TIMEOUT
        /\ reply[c].at <= reply[c].token.exp
        /\ reply[c].token.id <= issued
        /\ accessToken # NoToken => accessToken.id < reply[c].token.id

(* The cached deadline is at most TIMEOUT later than IAM's. *)
DeadlineBounded ==
    accessToken # NoToken => /\ accessToken.id <= issued
                             /\ expiresAt <= accessToken.exp + TIMEOUT

TokenInv ==
    /\ TokenTypeOK
    /\ LockHeldByFetcher
    /\ AnswerInTransit
    /\ DeadlineBounded
    /\ FetchOnlyWhenStale

-----------------------------------------------------------------------------
(* It holds initially: nobody calls, and nothing is cached. *)
LEMMA TokenInitInv == TokenInit => TokenInv
  BY CallsAssumption DEF TokenInit, TokenInv, TokenTypeOK, LockHeldByFetcher,
     AnswerInTransit, DeadlineBounded, FetchOnlyWhenStale, Fresh

(* Every step of the manager keeps the types. *)
LEMMA TokenTypeStep == TokenTypeOK /\ [TokenNext]_tokenVars => TokenTypeOK'
<1> SUFFICES ASSUME TokenTypeOK, [TokenNext]_tokenVars PROVE TokenTypeOK'
  OBVIOUS
<1> USE DEF TokenTypeOK, cacheVars
<1>1. ASSUME NEW c \in Calls, EnterFresh(c) PROVE TokenTypeOK'
  BY <1>1 DEF EnterFresh, ReturnCached
<1>2. ASSUME NEW c \in Calls, EnterFetch(c) PROVE TokenTypeOK'
  BY <1>2 DEF EnterFetch, StartFetch
<1>3. ASSUME NEW c \in Calls, EnterQueue(c) PROVE TokenTypeOK'
  BY <1>3 DEF EnterQueue
<1>4. ASSUME NEW c \in Calls, ResumeFresh(c) PROVE TokenTypeOK'
  BY <1>4 DEF ResumeFresh, Granted, ReturnCached
<1>5. ASSUME NEW c \in Calls, ResumeFetch(c) PROVE TokenTypeOK'
  BY <1>5 DEF ResumeFetch, Granted, StartFetch
<1>6. ASSUME NEW c \in Calls, FetchOk(c) PROVE TokenTypeOK'
  <2>1. reply[c] \in Reply
    BY <1>6 DEF FetchOk
  <2>2. /\ reply[c].token \in Token /\ reply[c].token.exp \in Nat /\ reply[c].at \in Nat
    BY <2>1 DEF Reply, Token
  <2>3. expiresAt' \in Int
    BY <1>6, <2>2 DEF FetchOk
  <2>4. QED
    BY <1>6, <2>2, <2>3 DEF FetchOk
<1>7. ASSUME NEW c \in Calls, FetchFails(c) PROVE TokenTypeOK'
  BY <1>7 DEF FetchFails
<1>8. ASSUME NEW c \in Calls, IamIssue(c) PROVE TokenTypeOK'
  BY <1>8, TimeAssumption DEF IamIssue, Reply, Token
<1>9. CASE Invalidate
  BY <1>9 DEF Invalidate
<1>10. CASE Tick
  BY <1>10 DEF Tick
<1>11. CASE UNCHANGED tokenVars
  BY <1>11 DEF tokenVars
<1>12. QED
  BY <1>1, <1>2, <1>3, <1>4, <1>5, <1>6, <1>7, <1>8, <1>9, <1>10, <1>11
  DEF TokenNext, GetTokenStep, GetTokenReturns, GetTokenWaits

(* Every step of the manager keeps its invariant. *)
LEMMA TokenInvStep == TokenInv /\ [TokenNext]_tokenVars => TokenInv'
<1> SUFFICES ASSUME TokenInv, [TokenNext]_tokenVars PROVE TokenInv'
  OBVIOUS
<1> DEFINE Rest == LockHeldByFetcher /\ AnswerInTransit /\ DeadlineBounded /\ FetchOnlyWhenStale
<1>0. TokenTypeOK'
  BY TokenTypeStep DEF TokenInv
<1> SUFFICES Rest'
  BY <1>0 DEF TokenInv
<1> USE CallsAssumption, TimeAssumption, TokenAssumption
    DEF TokenInv, TokenTypeOK, LockHeldByFetcher, AnswerInTransit, DeadlineBounded,
        FetchOnlyWhenStale, Fresh, cacheVars, Token, Reply
<1>1. ASSUME NEW c \in Calls, EnterFresh(c) PROVE Rest'
  BY <1>1 DEF EnterFresh, ReturnCached
<1>2. ASSUME NEW c \in Calls, EnterFetch(c) PROVE Rest'
  BY <1>2 DEF EnterFetch, StartFetch
<1>3. ASSUME NEW c \in Calls, EnterQueue(c) PROVE Rest'
  BY <1>3 DEF EnterQueue
<1>4. ASSUME NEW c \in Calls, ResumeFresh(c) PROVE Rest'
  BY <1>4 DEF ResumeFresh, Granted, ReturnCached
<1>5. ASSUME NEW c \in Calls, ResumeFetch(c) PROVE Rest'
  BY <1>5 DEF ResumeFetch, Granted, StartFetch
<1>6. ASSUME NEW c \in Calls, FetchOk(c) PROVE Rest'
  BY <1>6 DEF FetchOk
<1>7. ASSUME NEW c \in Calls, FetchFails(c) PROVE Rest'
  BY <1>7 DEF FetchFails
<1>8. ASSUME NEW c \in Calls, IamIssue(c) PROVE Rest'
  BY <1>8 DEF IamIssue
<1>9. CASE Invalidate
  BY <1>9 DEF Invalidate
<1>10. CASE Tick
  BY <1>10 DEF Tick
<1>11. CASE UNCHANGED tokenVars
  BY <1>11 DEF tokenVars
<1>12. QED
  BY <1>1, <1>2, <1>3, <1>4, <1>5, <1>6, <1>7, <1>8, <1>9, <1>10, <1>11
  DEF TokenNext, GetTokenStep, GetTokenReturns, GetTokenWaits

-----------------------------------------------------------------------------
(* The manager's own behaviours satisfy the inductive invariant. *)
THEOREM TokenInvariant == TokenSpec => []TokenInv
  BY TokenInitInv, TokenInvStep, PTL DEF TokenSpec

(* Type correctness of the manager's state. *)
THEOREM TokenTypeCorrect == TokenSpec => []TokenTypeOK
<1>1. TokenInv => TokenTypeOK
  BY DEF TokenInv
<1>2. QED
  BY <1>1, TokenInvariant, PTL

(* One POST to IAM at a time, however many tool calls want a token at once. *)
LEMMA TokenInvSingleFlight == TokenInv => SingleFlight
  BY DEF TokenInv, LockHeldByFetcher, SingleFlight

(* At most one request to IAM is under way, for any number of calls        *)
(* (auth.py 46-49).                                                        *)
THEOREM SingleFlightHolds == TokenSpec => []SingleFlight
  BY TokenInvSingleFlight, TokenInvariant, PTL

(* No refresh while the cached token is good. *)
THEOREM FetchOnlyWhenStaleHolds == TokenSpec => []FetchOnlyWhenStale
<1>1. TokenInv => FetchOnlyWhenStale
  BY DEF TokenInv
<1>2. QED
  BY <1>1, TokenInvariant, PTL

(* A token served from the cache is alive at IAM, for every margin that is  *)
(* at least the timeout of the POST.                                        *)
LEMMA TokenInvAlive == TokenInv => CachedTokenAlive
<1> SUFFICES ASSUME TokenInv, Fresh PROVE clock < accessToken.exp
  BY DEF CachedTokenAlive
<1>1. accessToken \in Token /\ accessToken.exp \in Nat /\ expiresAt \in Int /\ clock \in Nat
  BY DEF TokenInv, TokenTypeOK, Fresh, Token
<1>2. clock < expiresAt - MARGIN /\ expiresAt <= accessToken.exp + TIMEOUT
  BY DEF Fresh, TokenInv, DeadlineBounded
<1>3. QED
  BY <1>1, <1>2, TimeAssumption

(* A token returned from the cache is not past its deadline at IAM, given  *)
(* that the margin covers the transit of an answer (auth.py 38-48, 67).    *)
THEOREM CachedTokenAliveHolds == TokenSpec => []CachedTokenAlive
  BY TokenInvAlive, TokenInvariant, PTL

(* A younger token is never replaced by an older one. *)
LEMMA TokenStepForward ==
  TokenInv /\ [TokenNext]_tokenVars =>
    [accessToken' # accessToken =>
       accessToken = NoToken \/ accessToken'.id > accessToken.id]_tokenVars
<1> SUFFICES ASSUME TokenInv, TokenNext, accessToken' # accessToken, accessToken # NoToken
             PROVE  accessToken'.id > accessToken.id
  OBVIOUS
<1>1. PICK c \in Calls : FetchOk(c)
  BY DEF TokenNext, GetTokenStep, GetTokenReturns, GetTokenWaits, EnterFresh, EnterFetch,
     EnterQueue, ResumeFresh, ResumeFetch, ReturnCached, StartFetch, FetchFails, IamIssue,
     Invalidate, Tick, cacheVars
<1>2. accessToken.id < reply[c].token.id /\ accessToken' = reply[c].token
  BY <1>1 DEF FetchOk, TokenInv, AnswerInTransit
<1>3. accessToken.id \in Nat /\ reply[c].token.id \in Nat
  BY <1>1 DEF FetchOk, TokenInv, TokenTypeOK, Token, Reply
<1>4. QED
  BY <1>2, <1>3

(* The cached token is only ever replaced by one issued later (auth.py     *)
(* 49, 65-67).                                                             *)
THEOREM TokensMoveForwardHolds == TokenSpec => TokensMoveForward
  BY TokenStepForward, TokenInvariant, PTL DEF TokensMoveForward, TokenSpec

-----------------------------------------------------------------------------
(* The queue of the lock.  GetTokenEnds needs fairness and stays with TLC,  *)
(* but what it rests on is safety: nobody who waits is missing from the     *)
(* queue, and the queue only moves up.                                      *)

(* Those who wait are those in the queue, once each, and a lock that is not *)
(* free is held by a task whose POST will end and release it.               *)
NobodyForgotten ==
    /\ \A c \in Calls : phase[c] = "queued" <=> \E i \in 1..Len(waiters) : waiters[i] = c
    /\ \A i, j \in 1..Len(waiters) : waiters[i] = waiters[j] => i = j
    /\ lock # NoCall => phase[lock] = "fetching"

(* A task that waits keeps its place or moves one up, until it is the first *)
(* and resumes; whoever comes later queues behind it.                       *)
QueueMovesUp ==
    [][\A i \in 1..Len(waiters) :
         \/ i \in 1..Len(waiters') /\ waiters'[i] = waiters[i]
         \/ i > 1 /\ i - 1 \in 1..Len(waiters') /\ waiters'[i - 1] = waiters[i]
         \/ i = 1 /\ phase'[waiters[1]] # "queued"]_tokenVars

(* A step of the queue: nothing, one more at the end, or the first leaves.  *)
LEMMA QueueSteps ==
  ASSUME TokenInv, TokenNext
  PROVE  \/ /\ waiters' = waiters
            /\ \A c \in Calls : phase[c] = "queued" <=> phase'[c] = "queued"
         \/ \E c \in Calls :
              /\ phase[c] # "queued" /\ phase' = [phase EXCEPT ![c] = "queued"]
              /\ waiters' = Append(waiters, c)
         \/ \E c \in Calls, p \in {"idle", "fetching"} :
              /\ waiters # << >> /\ Head(waiters) = c /\ waiters' = Tail(waiters)
              /\ phase' = [phase EXCEPT ![c] = p]
<1> USE DEF TokenInv, TokenTypeOK
<1>1. ASSUME NEW c \in Calls, EnterFresh(c) \/ EnterFetch(c) \/ FetchOk(c) \/ FetchFails(c)
      PROVE  /\ waiters' = waiters
             /\ \A d \in Calls : phase[d] = "queued" <=> phase'[d] = "queued"
  BY <1>1 DEF EnterFresh, ReturnCached, EnterFetch, StartFetch, FetchOk, FetchFails
<1>2. ASSUME NEW c \in Calls, EnterQueue(c)
      PROVE  /\ phase[c] # "queued" /\ phase' = [phase EXCEPT ![c] = "queued"]
             /\ waiters' = Append(waiters, c)
  BY <1>2 DEF EnterQueue
<1>3. ASSUME NEW c \in Calls, ResumeFresh(c)
      PROVE  /\ waiters # << >> /\ Head(waiters) = c /\ waiters' = Tail(waiters)
             /\ phase' = [phase EXCEPT ![c] = "idle"]
  BY <1>3 DEF ResumeFresh, Granted, ReturnCached
<1>4. ASSUME NEW c \in Calls, ResumeFetch(c)
      PROVE  /\ waiters # << >> /\ Head(waiters) = c /\ waiters' = Tail(waiters)
             /\ phase' = [phase EXCEPT ![c] = "fetching"]
  BY <1>4 DEF ResumeFetch, Granted, StartFetch
<1>5. ASSUME Invalidate \/ Tick \/ \E c \in Calls : IamIssue(c)
      PROVE  waiters' = waiters /\ phase' = phase
  BY <1>5 DEF Invalidate, Tick, IamIssue
<1>6. QED
  BY <1>1, <1>2, <1>3, <1>4, <1>5
  DEF TokenNext, GetTokenStep, GetTokenReturns, GetTokenWaits

(* Every step keeps NobodyForgotten and moves the queue up. *)
LEMMA QueueStep ==
  ASSUME TokenInv, NobodyForgotten, [TokenNext]_tokenVars
  PROVE  /\ \A c \in Calls : phase'[c] = "queued" <=> \E i \in 1..Len(waiters') : waiters'[i] = c
         /\ \A i, j \in 1..Len(waiters') : waiters'[i] = waiters'[j] => i = j
         /\ \A i \in 1..Len(waiters) :
              \/ i \in 1..Len(waiters') /\ waiters'[i] = waiters[i]
              \/ i > 1 /\ i - 1 \in 1..Len(waiters') /\ waiters'[i - 1] = waiters[i]
              \/ i = 1 /\ phase'[waiters[1]] # "queued"
<1> DEFINE Here(c)  == \E i \in 1..Len(waiters) : waiters[i] = c
           There(c) == \E i \in 1..Len(waiters') : waiters'[i] = c
           Goal == /\ \A c \in Calls : phase'[c] = "queued" <=> There(c)
                   /\ \A i, j \in 1..Len(waiters') : waiters'[i] = waiters'[j] => i = j
                   /\ \A i \in 1..Len(waiters) :
                        \/ i \in 1..Len(waiters') /\ waiters'[i] = waiters[i]
                        \/ i > 1 /\ i - 1 \in 1..Len(waiters') /\ waiters'[i - 1] = waiters[i]
                        \/ i = 1 /\ phase'[waiters[1]] # "queued"
<1> SUFFICES Goal
  OBVIOUS
<1>a. /\ waiters \in Seq(Calls) /\ phase \in [Calls -> {"idle", "queued", "fetching"}]
      /\ \A c \in Calls : phase[c] = "queued" <=> Here(c)
      /\ \A i, j \in 1..Len(waiters) : waiters[i] = waiters[j] => i = j
  BY DEF TokenInv, TokenTypeOK, NobodyForgotten
<1>b. Len(waiters) \in Nat /\ \A i \in 1..Len(waiters) : waiters[i] \in Calls
  BY <1>a
<1>1. CASE /\ waiters' = waiters
           /\ \A c \in Calls : phase[c] = "queued" <=> phase'[c] = "queued"
  BY <1>1, <1>a
<1>2. ASSUME NEW c \in Calls, phase[c] # "queued", phase' = [phase EXCEPT ![c] = "queued"],
             waiters' = Append(waiters, c)
      PROVE  Goal
  <2>1. /\ Len(waiters') = Len(waiters) + 1 /\ waiters'[Len(waiters) + 1] = c
        /\ \A i \in 1..Len(waiters) : waiters'[i] = waiters[i]
    BY <1>2, <1>a
  <2>2. ~Here(c)
    BY <1>2, <1>a
  <2>3. \A d \in Calls : There(d) <=> Here(d) \/ d = c
    BY <2>1, <1>b
  <2>4. \A i, j \in 1..Len(waiters') : waiters'[i] = waiters'[j] => i = j
    BY <2>1, <2>2, <1>a, <1>b
  <2>5. \A d \in Calls : phase'[d] = "queued" <=> phase[d] = "queued" \/ d = c
    BY <1>2, <1>a
  <2>6. \A i \in 1..Len(waiters) : i \in 1..Len(waiters')
    BY <2>1, <1>b
  <2>7. QED
    BY <2>1, <2>3, <2>4, <2>5, <2>6, <1>a
<1>3. ASSUME NEW c \in Calls, NEW p \in {"idle", "fetching"}, waiters # << >>,
             Head(waiters) = c, waiters' = Tail(waiters), phase' = [phase EXCEPT ![c] = p]
      PROVE  Goal
  <2>1. /\ Len(waiters) >= 1 /\ waiters[1] = c
        /\ Len(waiters') = Len(waiters) - 1
        /\ \A i \in 1..(Len(waiters) - 1) : waiters'[i] = waiters[i + 1]
    BY <1>3, <1>a
  <2>2. \A i \in 2..Len(waiters) : waiters[i] # c
    BY <2>1, <1>a, <1>b
  <2>3. \A d \in Calls : There(d) <=> Here(d) /\ d # c
    <3>1. ASSUME NEW d \in Calls, There(d) PROVE Here(d) /\ d # c
      BY <3>1, <2>1, <2>2, <1>b
    <3>2. ASSUME NEW d \in Calls, Here(d), d # c PROVE There(d)
      <4>1. PICK i \in 1..Len(waiters) : waiters[i] = d
        BY <3>2
      <4>2. i - 1 \in 1..Len(waiters') /\ waiters'[i - 1] = d
        BY <4>1, <3>2, <2>1, <1>b
      <4>3. QED
        BY <4>2
    <3>3. QED
      BY <3>1, <3>2
  <2>4. \A i, j \in 1..Len(waiters') : waiters'[i] = waiters'[j] => i = j
    BY <2>1, <1>a, <1>b
  <2>5. \A d \in Calls : phase'[d] = "queued" <=> phase[d] = "queued" /\ d # c
    BY <1>3, <1>a
  <2>6. ASSUME NEW i \in 1..Len(waiters), i # 1
        PROVE  i > 1 /\ i - 1 \in 1..Len(waiters') /\ waiters'[i - 1] = waiters[i]
    BY <2>1, <2>6, <1>b
  <2>7. phase'[waiters[1]] # "queued"
    BY <2>1, <2>5
  <2>8. QED
    BY <2>3, <2>4, <2>5, <2>6, <2>7, <1>a
<1>4. CASE UNCHANGED tokenVars
  BY <1>4, <1>1, <1>a DEF tokenVars
<1>5. QED
  BY <1>1, <1>2, <1>3, <1>4, QueueSteps

(* A task that waits for the lock is in its queue, and the lock in the hands *)
(* of a task that will release it: no call of get_token is lost.             *)
THEOREM NobodyForgottenHolds == TokenSpec => []NobodyForgotten
<1>1. TokenInit => NobodyForgotten
  BY DEF TokenInit, NobodyForgotten
<1>2. TokenInv' => (lock' # NoCall => phase'[lock'] = "fetching")
  BY DEF TokenInv, TokenTypeOK, LockHeldByFetcher
<1>3. TokenInv /\ TokenInv' /\ NobodyForgotten /\ [TokenNext]_tokenVars => NobodyForgotten'
  BY <1>2, QueueStep DEF NobodyForgotten
<1>4. QED
  BY <1>1, <1>3, TokenInvariant, PTL DEF TokenSpec

(* Nobody is overtaken in the queue of the lock. *)
THEOREM QueueMovesUpHolds == TokenSpec => QueueMovesUp
<1>1. TokenInv /\ NobodyForgotten /\ [TokenNext]_tokenVars =>
        [\A i \in 1..Len(waiters) :
           \/ i \in 1..Len(waiters') /\ waiters'[i] = waiters[i]
           \/ i > 1 /\ i - 1 \in 1..Len(waiters') /\ waiters'[i - 1] = waiters[i]
           \/ i = 1 /\ phase'[waiters[1]] # "queued"]_tokenVars
  BY QueueStep
<1>2. QED
  BY <1>1, TokenInvariant, NobodyForgottenHolds, PTL DEF QueueMovesUp, TokenSpec


(* The client drives the token manager only through the manager's own steps *)
(* so what is proved of the manager holds inside the client.                *)
LEMMA NextIsTokenStep == [Next]_vars => [TokenNext]_tokenVars
  BY DEF Next, vars, TokenNext, GetTokenStep, Start, GettingToken, SendAsUser, SendAsService,
     AwaitToken, TokenUnavailable, HandlingAnswer, Succeed, Fail, ServerError, Refresh,
     LosingAnswer, TransportFails, TransportBreaks, Wake, Environment, ApiHandles, Quiet

(* The manager's invariant holds inside the client. *)
THEOREM TokenInvariantInClient == Spec => []TokenInv
<1>1. Init => TokenInv
  BY TokenInitInv DEF Init
<1>2. TokenInv /\ [Next]_vars => TokenInv'
  BY TokenInvStep, NextIsTokenStep
<1>3. QED
  BY <1>1, <1>2, PTL DEF Spec

(* The client implements the manager's specification, its fairness apart:   *)
(* _request reaches the cached token, its deadline and the lock only through *)
(* get_token and the invalidation, so all that is proved of the manager       *)
(* holds of it inside the client.                                             *)
THEOREM ClientUsesTokenManager == Spec => TokenInit /\ [][TokenNext]_tokenVars
<1>1. Init => TokenInit
  BY DEF Init
<1>2. QED
  BY <1>1, NextIsTokenStep, PTL DEF Spec

(* Inside the client too there is one refresh at a time, only of a token     *)
(* that is stale, a token served from the cache is alive at IAM, and a token *)
(* is only replaced by a younger one.                                        *)
THEOREM ManagerKeepsItsPromisesInClient ==
  Spec => [](SingleFlight /\ FetchOnlyWhenStale /\ CachedTokenAlive) /\ TokensMoveForward
<1>1. TokenInv => SingleFlight /\ FetchOnlyWhenStale /\ CachedTokenAlive
  BY TokenInvSingleFlight, TokenInvAlive DEF TokenInv
<1>2. QED
  BY <1>1, TokenStepForward, TokenInvariantInClient, ClientUsesTokenManager, PTL
  DEF TokensMoveForward

-----------------------------------------------------------------------------
(* What get_token hands out is a token of IAM's, at least as young as the   *)
(* one cached before, and younger if the cached one was marked stale.       *)
LEMMA GetTokenResult ==
  ASSUME NEW c \in Calls, TokenInv, GetTokenReturns(c)
  PROVE  /\ accessToken' \in Token
         /\ accessToken # NoToken /\ expiresAt = 0 => accessToken.id < accessToken'.id
<1> USE TokenAssumption, TimeAssumption DEF TokenInv, TokenTypeOK
<1>1. CASE EnterFresh(c) \/ ResumeFresh(c)
  BY <1>1 DEF EnterFresh, ResumeFresh, ReturnCached, cacheVars, Fresh
<1>2. CASE FetchOk(c)
  BY <1>2 DEF FetchOk, Reply, AnswerInTransit
<1>3. QED
  BY <1>1, <1>2 DEF GetTokenReturns

(* The cached token only ages forward; in place, its deadline is kept or    *)
(* becomes 0.                                                               *)
LEMMA TokenAges ==
  ASSUME TokenInv, [TokenNext]_tokenVars, accessToken # NoToken
  PROVE  /\ accessToken \in Token /\ accessToken' \in Token
         /\ \/ accessToken.id < accessToken'.id
            \/ accessToken' = accessToken /\ (expiresAt' = expiresAt \/ expiresAt' = 0)
<1> USE DEF TokenInv, TokenTypeOK
<1>1. CASE \E c \in Calls : FetchOk(c)
  BY <1>1 DEF FetchOk, Reply, AnswerInTransit
<1>2. CASE UNCHANGED accessToken /\ (expiresAt' = expiresAt \/ expiresAt' = 0)
  BY <1>2
<1>3. QED
  BY <1>1, <1>2 DEF TokenNext, GetTokenStep, GetTokenReturns, GetTokenWaits, EnterFresh,
     EnterFetch, EnterQueue, ResumeFresh, ResumeFetch, ReturnCached, StartFetch, FetchFails,
     IamIssue, Invalidate, Tick, cacheVars, tokenVars

-----------------------------------------------------------------------------
(* The inductive invariant of the client, on top of the manager's.          *)

(* Only an attempt that is not the last one is slept off. *)
SleepersRetry == \A c \in Calls : pc[c] = "sleeping" => attempt[c] < MAX_RETRIES

(* The sends so far: the finished loop, the finished attempts, this one. *)
SendsSoFar(c) == (IF retriedAuth[c] THEN MAX_RETRIES + 1 ELSE 0) + attempt[c]
                 + (IF pc[c] \in {"idle", "token"} THEN 0 ELSE 1)
SendsCounted == \A c \in Calls :
    /\ sends[c] <= SendsSoFar(c)
    /\ user[c] # NoToken \/ pc[c] = "idle" => ~retriedAuth[c]

(* The request waited for bears the caller's token. *)
BearerOfCaller == \A c \in Calls : pc[c] = "waiting" =>
    IF user[c] # NoToken THEN bearer[c] = user[c]
    ELSE /\ bearer[c] \in Token /\ accessToken \in Token
         /\ bearer[c].id <= accessToken.id

(* The refused token is older than the cached one, or is stale. *)
RefusedIsPast == \A c \in Calls : retriedAuth[c] =>
    /\ rejected[c] \in Token /\ accessToken \in Token
    /\ rejected[c].id < accessToken.id \/ (rejected[c].id = accessToken.id /\ expiresAt = 0)
    /\ pc[c] = "waiting" => rejected[c].id < bearer[c].id

(* Requests are those of calls under way or done, numbered as they were     *)
(* sent, under their own identity.                                          *)
RequestsOfCallers ==
    /\ \A r \in network \cup applied : pc[r.call] # "idle" /\ r.n \in 1..sends[r.call]
    /\ NoIdentityMixing

(* An "ok" on its way, or already reported, was earned. *)
OkEarned == \A c \in Calls :
    answer[c] = "ok" \/ outcome[c] = "ok" => \E r \in applied : r.call = c

ClientInv ==
    /\ ClientTypeOK /\ SleepersRetry /\ SendsCounted /\ BearerOfCaller /\ RefusedIsPast
    /\ RequestsOfCallers /\ OkEarned

(* The client's invariant holds before any call. *)
LEMMA ClientInitInv == Init => ClientInv
  BY ClientAssumption DEF Init, ClientInv, ClientTypeOK, SleepersRetry, SendsCounted, SendsSoFar,
     BearerOfCaller, RefusedIsPast, RequestsOfCallers, NoIdentityMixing, OkEarned

(* Every step of the client keeps the types. *)
LEMMA ClientTypeStep == TokenInv /\ ClientInv /\ [Next]_vars => ClientTypeOK'
<1> SUFFICES ASSUME TokenInv, ClientInv, [Next]_vars PROVE ClientTypeOK'
  OBVIOUS
<1>0. ClientTypeOK /\ SleepersRetry /\ BearerOfCaller
  BY DEF ClientInv
<1> USE <1>0, ClientAssumption DEF ClientTypeOK, Request, Answers, clientVars
<1>1. ASSUME NEW c \in Calls, Start(c) PROVE ClientTypeOK'
  BY <1>1 DEF Start
<1>2. ASSUME NEW c \in Calls, NEW t \in Token \cup UserTokens, Send(c, t) PROVE ClientTypeOK'
  BY <1>2 DEF Send
<1>3. ASSUME NEW c \in Calls, SendAsUser(c) PROVE ClientTypeOK'
  BY <1>3, <1>2 DEF SendAsUser
<1>4. ASSUME NEW c \in Calls, SendAsService(c) PROVE ClientTypeOK'
  <2>1. accessToken' \in Token /\ Send(c, accessToken')
    BY <1>4, GetTokenResult DEF SendAsService
  <2>2. QED
    BY <2>1, <1>2
<1>5. ASSUME NEW c \in Calls, AwaitToken(c) PROVE ClientTypeOK'
  BY <1>5 DEF AwaitToken
<1>6. ASSUME NEW c \in Calls, TokenUnavailable(c) PROVE ClientTypeOK'
  BY <1>6 DEF TokenUnavailable, Finish
<1>7. ASSUME NEW c \in Calls, TransportFails(c) PROVE ClientTypeOK'
  BY <1>7 DEF TransportFails, RetryOrFail, Finish
<1>8. ASSUME NEW c \in Calls, TransportBreaks(c) PROVE ClientTypeOK'
  BY <1>8 DEF TransportBreaks, Finish
<1>9. ASSUME NEW c \in Calls, Succeed(c) \/ Fail(c) PROVE ClientTypeOK'
  BY <1>9 DEF Succeed, Fail, Answered, Finish
<1>10. ASSUME NEW c \in Calls, ServerError(c) PROVE ClientTypeOK'
  BY <1>10 DEF ServerError, Answered, RetryOrFail, Finish
<1>11. ASSUME NEW c \in Calls, Refresh(c) PROVE ClientTypeOK'
  BY <1>11 DEF Refresh, Answered, BearerOfCaller
<1>12. ASSUME NEW c \in Calls, Wake(c) PROVE ClientTypeOK'
  BY <1>12 DEF Wake, SleepersRetry
<1>13. ASSUME NEW r \in network, NEW a \in Answers, ApiHandles(r, a) PROVE ClientTypeOK'
  BY <1>13 DEF ApiHandles
<1>14. CASE UNCHANGED clientVars
  BY <1>14
<1>15. QED
  BY <1>1, <1>3, <1>4, <1>5, <1>6, <1>7, <1>8, <1>9, <1>10, <1>11, <1>12, <1>13, <1>14
  DEF Next, GettingToken, HandlingAnswer, LosingAnswer, Environment, Quiet, vars

(* Every step keeps that a call asleep has an attempt left. *)
LEMMA SleepersStep == TokenInv /\ ClientInv /\ [Next]_vars => SleepersRetry'
<1> SUFFICES ASSUME TokenInv, ClientInv, [Next]_vars PROVE SleepersRetry'
  OBVIOUS
<1>0. ClientTypeOK /\ SleepersRetry
  BY DEF ClientInv
<1> USE <1>0, ClientAssumption DEF ClientTypeOK, SleepersRetry, clientVars
<1>1. ASSUME NEW c \in Calls, Start(c) PROVE SleepersRetry'
  BY <1>1 DEF Start
<1>2. ASSUME NEW c \in Calls, SendAsUser(c) PROVE SleepersRetry'
  BY <1>2 DEF SendAsUser, Send
<1>3. ASSUME NEW c \in Calls, SendAsService(c) PROVE SleepersRetry'
  BY <1>3 DEF SendAsService, Send
<1>4. ASSUME NEW c \in Calls, AwaitToken(c) PROVE SleepersRetry'
  BY <1>4 DEF AwaitToken
<1>5. ASSUME NEW c \in Calls, TokenUnavailable(c) PROVE SleepersRetry'
  BY <1>5 DEF TokenUnavailable, Finish
<1>6. ASSUME NEW c \in Calls, TransportFails(c) PROVE SleepersRetry'
  BY <1>6 DEF TransportFails, RetryOrFail, Finish
<1>7. ASSUME NEW c \in Calls, TransportBreaks(c) PROVE SleepersRetry'
  BY <1>7 DEF TransportBreaks, Finish
<1>8. ASSUME NEW c \in Calls, Succeed(c) PROVE SleepersRetry'
  BY <1>8 DEF Succeed, Answered, Finish
<1>9. ASSUME NEW c \in Calls, Fail(c) PROVE SleepersRetry'
  BY <1>9 DEF Fail, Answered, Finish
<1>10. ASSUME NEW c \in Calls, ServerError(c) PROVE SleepersRetry'
  BY <1>10 DEF ServerError, Answered, RetryOrFail, Finish
<1>11. ASSUME NEW c \in Calls, Refresh(c) PROVE SleepersRetry'
  BY <1>11 DEF Refresh, Answered
<1>12. ASSUME NEW c \in Calls, Wake(c) PROVE SleepersRetry'
  BY <1>12 DEF Wake
<1>13. ASSUME NEW r \in network, NEW a \in Answers, ApiHandles(r, a) PROVE SleepersRetry'
  BY <1>13 DEF ApiHandles
<1>14. CASE UNCHANGED clientVars
  BY <1>14
<1>15. QED
  BY <1>1, <1>2, <1>3, <1>4, <1>5, <1>6, <1>7, <1>8, <1>9, <1>10, <1>11, <1>12, <1>13, <1>14
  DEF Next, GettingToken, HandlingAnswer, LosingAnswer, Environment, Quiet, vars

(* Every step keeps the count of what a call has sent. *)
LEMMA SendsStep == TokenInv /\ ClientInv /\ [Next]_vars => SendsCounted'
<1> SUFFICES ASSUME TokenInv, ClientInv, [Next]_vars PROVE SendsCounted'
  OBVIOUS
<1>0. ClientTypeOK /\ SleepersRetry /\ SendsCounted
  BY DEF ClientInv
<1> USE <1>0, ClientAssumption DEF ClientTypeOK, SleepersRetry, SendsCounted, SendsSoFar, clientVars
<1>1. ASSUME NEW c \in Calls, Start(c) PROVE SendsCounted'
  BY <1>1 DEF Start
<1>2. ASSUME NEW c \in Calls, SendAsUser(c) PROVE SendsCounted'
  BY <1>2 DEF SendAsUser, Send
<1>3. ASSUME NEW c \in Calls, SendAsService(c) PROVE SendsCounted'
  BY <1>3 DEF SendAsService, Send
<1>4. ASSUME NEW c \in Calls, AwaitToken(c) PROVE SendsCounted'
  BY <1>4 DEF AwaitToken
<1>5. ASSUME NEW c \in Calls, TokenUnavailable(c) PROVE SendsCounted'
  BY <1>5 DEF TokenUnavailable, Finish
<1>6. ASSUME NEW c \in Calls, TransportFails(c) PROVE SendsCounted'
  BY <1>6 DEF TransportFails, RetryOrFail, Finish
<1>7. ASSUME NEW c \in Calls, TransportBreaks(c) PROVE SendsCounted'
  BY <1>7 DEF TransportBreaks, Finish
<1>8. ASSUME NEW c \in Calls, Succeed(c) PROVE SendsCounted'
  BY <1>8 DEF Succeed, Answered, Finish
<1>9. ASSUME NEW c \in Calls, Fail(c) PROVE SendsCounted'
  BY <1>9 DEF Fail, Answered, Finish
<1>10. ASSUME NEW c \in Calls, ServerError(c) PROVE SendsCounted'
  BY <1>10 DEF ServerError, Answered, RetryOrFail, Finish
<1>11. ASSUME NEW c \in Calls, Refresh(c) PROVE SendsCounted'
  BY <1>11 DEF Refresh, Answered
<1>12. ASSUME NEW c \in Calls, Wake(c) PROVE SendsCounted'
  BY <1>12 DEF Wake
<1>13. ASSUME NEW r \in network, NEW a \in Answers, ApiHandles(r, a) PROVE SendsCounted'
  BY <1>13 DEF ApiHandles
<1>14. CASE UNCHANGED clientVars
  BY <1>14
<1>15. QED
  BY <1>1, <1>2, <1>3, <1>4, <1>5, <1>6, <1>7, <1>8, <1>9, <1>10, <1>11, <1>12, <1>13, <1>14
  DEF Next, GettingToken, HandlingAnswer, LosingAnswer, Environment, Quiet, vars

(* Every step keeps that a request is its caller's. *)
LEMMA RequestsStep == TokenInv /\ ClientInv /\ [Next]_vars => RequestsOfCallers'
<1> SUFFICES ASSUME TokenInv, ClientInv, [Next]_vars PROVE RequestsOfCallers'
  OBVIOUS
<1>0. ClientTypeOK /\ RequestsOfCallers
  BY DEF ClientInv
<1> USE <1>0, ClientAssumption DEF ClientTypeOK, Request, RequestsOfCallers, NoIdentityMixing, Principal, clientVars
<1>1. ASSUME NEW c \in Calls, Start(c) PROVE RequestsOfCallers'
  BY <1>1 DEF Start
<1>2. ASSUME NEW c \in Calls, SendAsUser(c) PROVE RequestsOfCallers'
  BY <1>2 DEF SendAsUser, Send
<1>3. ASSUME NEW c \in Calls, SendAsService(c) PROVE RequestsOfCallers'
  BY <1>3, GetTokenResult DEF SendAsService, Send
<1>4. ASSUME NEW c \in Calls, AwaitToken(c) PROVE RequestsOfCallers'
  BY <1>4 DEF AwaitToken
<1>5. ASSUME NEW c \in Calls, TokenUnavailable(c) PROVE RequestsOfCallers'
  BY <1>5 DEF TokenUnavailable, Finish
<1>6. ASSUME NEW c \in Calls, TransportFails(c) PROVE RequestsOfCallers'
  BY <1>6 DEF TransportFails, RetryOrFail, Finish
<1>7. ASSUME NEW c \in Calls, TransportBreaks(c) PROVE RequestsOfCallers'
  BY <1>7 DEF TransportBreaks, Finish
<1>8. ASSUME NEW c \in Calls, Succeed(c) PROVE RequestsOfCallers'
  BY <1>8 DEF Succeed, Answered, Finish
<1>9. ASSUME NEW c \in Calls, Fail(c) PROVE RequestsOfCallers'
  BY <1>9 DEF Fail, Answered, Finish
<1>10. ASSUME NEW c \in Calls, ServerError(c) PROVE RequestsOfCallers'
  BY <1>10 DEF ServerError, Answered, RetryOrFail, Finish
<1>11. ASSUME NEW c \in Calls, Refresh(c) PROVE RequestsOfCallers'
  BY <1>11 DEF Refresh, Answered
<1>12. ASSUME NEW c \in Calls, Wake(c) PROVE RequestsOfCallers'
  BY <1>12 DEF Wake
<1>13. ASSUME NEW r \in network, NEW a \in Answers, ApiHandles(r, a) PROVE RequestsOfCallers'
  BY <1>13 DEF ApiHandles
<1>14. CASE UNCHANGED clientVars
  BY <1>14
<1>15. QED
  BY <1>1, <1>2, <1>3, <1>4, <1>5, <1>6, <1>7, <1>8, <1>9, <1>10, <1>11, <1>12, <1>13, <1>14
  DEF Next, GettingToken, HandlingAnswer, LosingAnswer, Environment, Quiet, vars

(* Every step keeps that success was earned at the API. *)
LEMMA OkStep == TokenInv /\ ClientInv /\ [Next]_vars => OkEarned'
<1> SUFFICES ASSUME TokenInv, ClientInv, [Next]_vars PROVE OkEarned'
  OBVIOUS
<1>0. ClientTypeOK /\ OkEarned
  BY DEF ClientInv
<1> USE <1>0, ClientAssumption DEF ClientTypeOK, Request, OkEarned, clientVars
<1>1. ASSUME NEW c \in Calls, Start(c) PROVE OkEarned'
  BY <1>1 DEF Start
<1>2. ASSUME NEW c \in Calls, SendAsUser(c) PROVE OkEarned'
  BY <1>2 DEF SendAsUser, Send
<1>3. ASSUME NEW c \in Calls, SendAsService(c) PROVE OkEarned'
  BY <1>3 DEF SendAsService, Send
<1>4. ASSUME NEW c \in Calls, AwaitToken(c) PROVE OkEarned'
  BY <1>4 DEF AwaitToken
<1>5. ASSUME NEW c \in Calls, TokenUnavailable(c) PROVE OkEarned'
  BY <1>5 DEF TokenUnavailable, Finish
<1>6. ASSUME NEW c \in Calls, TransportFails(c) PROVE OkEarned'
  BY <1>6 DEF TransportFails, RetryOrFail, Finish
<1>7. ASSUME NEW c \in Calls, TransportBreaks(c) PROVE OkEarned'
  BY <1>7 DEF TransportBreaks, Finish
<1>8. ASSUME NEW c \in Calls, Succeed(c) PROVE OkEarned'
  BY <1>8 DEF Succeed, Answered, Finish
<1>9. ASSUME NEW c \in Calls, Fail(c) PROVE OkEarned'
  BY <1>9 DEF Fail, Answered, Finish
<1>10. ASSUME NEW c \in Calls, ServerError(c) PROVE OkEarned'
  BY <1>10 DEF ServerError, Answered, RetryOrFail, Finish
<1>11. ASSUME NEW c \in Calls, Refresh(c) PROVE OkEarned'
  BY <1>11 DEF Refresh, Answered
<1>12. ASSUME NEW c \in Calls, Wake(c) PROVE OkEarned'
  BY <1>12 DEF Wake
<1>13. ASSUME NEW r \in network, NEW a \in Answers, ApiHandles(r, a) PROVE OkEarned'
  BY <1>13 DEF ApiHandles
<1>14. CASE UNCHANGED clientVars
  BY <1>14
<1>15. QED
  BY <1>1, <1>2, <1>3, <1>4, <1>5, <1>6, <1>7, <1>8, <1>9, <1>10, <1>11, <1>12, <1>13, <1>14
  DEF Next, GettingToken, HandlingAnswer, LosingAnswer, Environment, Quiet, vars

(* The two conjuncts that relate a call's tokens to the manager's cache use  *)
(* how that cache may change: TokenAges for every step, GetTokenResult for   *)
(* the steps that hand a token out.                                          *)
LEMMA TokensStep ==
  TokenInv /\ ClientInv /\ [Next]_vars => BearerOfCaller' /\ RefusedIsPast'
<1> SUFFICES ASSUME TokenInv, ClientInv, [Next]_vars PROVE BearerOfCaller' /\ RefusedIsPast'
  OBVIOUS
<1>a. ClientTypeOK /\ BearerOfCaller /\ RefusedIsPast /\ SendsCounted
  BY DEF ClientInv
<1>b. accessToken # NoToken =>
        /\ accessToken \in Token /\ accessToken' \in Token
        /\ \/ accessToken.id < accessToken'.id
           \/ accessToken' = accessToken /\ (expiresAt' = expiresAt \/ expiresAt' = 0)
  BY TokenAges, NextIsTokenStep
<1>c. \A t \in Token : t # NoToken /\ t \notin UserTokens /\ t.id \in Nat
  BY TokenAssumption, ClientAssumption DEF Token
<1> DEFINE Kept(c) == /\ user'[c] = user[c] /\ bearer'[c] = bearer[c]
                      /\ retriedAuth'[c] = retriedAuth[c] /\ rejected'[c] = rejected[c]
                      /\ pc'[c] = "waiting" => pc[c] = "waiting"
           Good(c) == /\ (pc[c] = "waiting" =>
                             IF user[c] # NoToken THEN bearer[c] = user[c]
                             ELSE /\ bearer[c] \in Token /\ accessToken \in Token
                                  /\ bearer[c].id <= accessToken.id)
                      /\ (retriedAuth[c] =>
                             /\ rejected[c] \in Token /\ accessToken \in Token
                             /\ \/ rejected[c].id < accessToken.id
                                \/ rejected[c].id = accessToken.id /\ expiresAt = 0
                             /\ pc[c] = "waiting" => rejected[c].id < bearer[c].id)
<1>d. (\A c \in Calls : Good(c)') => BearerOfCaller' /\ RefusedIsPast'
  BY DEF BearerOfCaller, RefusedIsPast
<1>e. ASSUME NEW c \in Calls PROVE Good(c)
  BY <1>a DEF BearerOfCaller, RefusedIsPast
<1>f. ASSUME NEW c \in Calls, Kept(c) PROVE Good(c)'
  <2>1. Good(c)
    BY <1>e
  <2>2. QED
    BY <1>b, <1>c, <1>f, <2>1
<1>1. ASSUME NEW c \in Calls, Start(c) PROVE \A d \in Calls : Good(d)'
  <2>1. Good(c)'
    BY <1>1, <1>a DEF Start, ClientTypeOK, SendsCounted
  <2>2. ASSUME NEW d \in Calls, d # c PROVE Kept(d)
    BY <1>1, <2>2, <1>a DEF Start, ClientTypeOK
  <2>3. QED
    BY <2>1, <2>2, <1>f
<1>2. ASSUME NEW c \in Calls, SendAsUser(c) PROVE \A d \in Calls : Good(d)'
  <2>1. Good(c)'
    BY <1>2, <1>a DEF SendAsUser, Send, ClientTypeOK, SendsCounted
  <2>2. ASSUME NEW d \in Calls, d # c PROVE Kept(d)
    BY <1>2, <2>2, <1>a DEF SendAsUser, Send, ClientTypeOK
  <2>3. QED
    BY <2>1, <2>2, <1>f
<1>3. ASSUME NEW c \in Calls, SendAsService(c) PROVE \A d \in Calls : Good(d)'
  <2>1. /\ pc[c] = "token" /\ user[c] = NoToken /\ Send(c, accessToken')
        /\ accessToken' \in Token
        /\ accessToken # NoToken /\ expiresAt = 0 => accessToken.id < accessToken'.id
    BY <1>3, GetTokenResult DEF SendAsService
  <2>2. /\ bearer'[c] = accessToken' /\ user'[c] = NoToken
        /\ retriedAuth'[c] = retriedAuth[c] /\ rejected'[c] = rejected[c]
    BY <2>1, <1>a DEF Send, ClientTypeOK
  <2>3. retriedAuth[c] => rejected[c] \in Token /\ rejected[c].id < accessToken'.id
    BY <2>1, <1>b, <1>c, <1>e
  <2>4. Good(c)'
    BY <2>1, <2>2, <2>3, <1>c
  <2>5. ASSUME NEW d \in Calls, d # c PROVE Kept(d)
    BY <2>1, <2>5, <1>a DEF Send, ClientTypeOK
  <2>6. QED
    BY <2>4, <2>5, <1>f
<1>4. ASSUME NEW c \in Calls, Refresh(c) PROVE \A d \in Calls : Good(d)'
  <2>1. /\ pc[c] = "waiting" /\ user[c] = NoToken
        /\ accessToken' = accessToken /\ expiresAt' = 0
        /\ rejected'[c] = bearer[c] /\ pc'[c] = "token"
    BY <1>4, <1>a DEF Refresh, Answered, Invalidate, ClientTypeOK
  <2>2. Good(c)'
    BY <2>1, <1>c, <1>e
  <2>3. ASSUME NEW d \in Calls, d # c PROVE Kept(d)
    BY <1>4, <2>3, <1>a DEF Refresh, Answered, ClientTypeOK
  <2>4. QED
    BY <2>2, <2>3, <1>f
<1>5. ASSUME NEW c \in Calls,
             \/ AwaitToken(c) \/ TokenUnavailable(c) \/ LosingAnswer(c) \/ Succeed(c) \/ Fail(c)
             \/ ServerError(c) \/ Wake(c)
      PROVE  \A d \in Calls : Kept(d)
  BY <1>5, <1>a DEF AwaitToken, TokenUnavailable, LosingAnswer, TransportFails, TransportBreaks,
     Succeed, Fail, ServerError, Wake, Answered, RetryOrFail, Finish, clientVars, ClientTypeOK
<1>6. ASSUME Environment \/ Quiet \/ UNCHANGED vars PROVE \A d \in Calls : Kept(d)
  BY <1>6 DEF Environment, ApiHandles, Quiet, vars, clientVars
<1>7. QED
  BY <1>1, <1>2, <1>3, <1>4, <1>5, <1>6, <1>d, <1>f DEF Next, GettingToken, HandlingAnswer

(* Every step of the client keeps its invariant. *)
LEMMA ClientInvStep == TokenInv /\ ClientInv /\ [Next]_vars => ClientInv'
  BY ClientTypeStep, SleepersStep, SendsStep, RequestsStep, OkStep, TokensStep DEF ClientInv

(* The client's invariant holds in every reachable state. *)
THEOREM ClientInvariant == Spec => []ClientInv
<1>1. TokenInv /\ ClientInv /\ [Next]_vars => ClientInv'
  BY ClientInvStep
<1>2. QED
  BY <1>1, ClientInitInv, TokenInvariantInClient, PTL DEF Spec

-----------------------------------------------------------------------------
(* Type correctness of the calls and the network. *)
THEOREM ClientTypeCorrect == Spec => []ClientTypeOK
<1>1. ClientInv => ClientTypeOK
  BY DEF ClientInv
<1>2. QED
  BY <1>1, ClientInvariant, PTL

(* Every request, over every retry, bears the identity of its caller. *)
THEOREM NoIdentityMixingHolds == Spec => []NoIdentityMixing
<1>1. ClientInv => NoIdentityMixing
  BY DEF ClientInv, RequestsOfCallers
<1>2. QED
  BY <1>1, ClientInvariant, PTL

(* The number of requests of a call is bounded for every MAX_RETRIES. *)
LEMMA SendsCountedBounded == ClientInv => SendsBounded
<1> SUFFICES ASSUME ClientInv, NEW c \in Calls
             PROVE  sends[c] <= SendBudget(c) /\ (user[c] # NoToken => ~retriedAuth[c])
  BY DEF SendsBounded
<1>1. attempt[c] \in 0..MAX_RETRIES /\ sends[c] \in Nat /\ sends[c] <= SendsSoFar(c)
  BY DEF ClientInv, ClientTypeOK, SendsCounted
<1>2. QED
  BY <1>1, ClientAssumption DEF ClientInv, SendsCounted, SendsSoFar, SendBudget

(* A call sends one loop of requests, and one more if the token was        *)
(* refreshed, for any MAX_RETRIES (http.py, _request).                     *)
THEOREM SendsBoundedHolds == Spec => []SendsBounded
  BY SendsCountedBounded, ClientInvariant, PTL

(* A refreshed call never repeats the token that was refused. *)
LEMMA RefusedNotRepeated == ClientInv => RetryUsesNewToken
<1> SUFFICES ASSUME ClientInv, NEW c \in Calls, retriedAuth[c], pc[c] = "waiting"
             PROVE  bearer[c] # rejected[c]
  BY DEF RetryUsesNewToken
<1>1. rejected[c] \in Token /\ rejected[c].id < bearer[c].id
  BY DEF ClientInv, RefusedIsPast
<1>2. QED
  BY <1>1 DEF Token

(* A service token that was refused is not sent again by the same call     *)
(* (http.py, the refresh of _request).                                     *)
THEOREM RetryUsesNewTokenHolds == Spec => []RetryUsesNewToken
  BY RefusedNotRepeated, ClientInvariant, PTL

(* "ok" is reported only for an operation the API carried out. *)
THEOREM OkMeansAppliedHolds == Spec => []OkMeansApplied
<1>1. ClientInv => OkMeansApplied
  BY DEF ClientInv, OkEarned, OkMeansApplied
<1>2. QED
  BY <1>1, ClientInvariant, PTL

(* A user's call leaves the manager alone. *)
LEMMA UserCallStep ==
  ClientInv /\ [Next]_vars =>
    [\A c \in Calls : user[c] # NoToken /\ pc'[c] # pc[c] => UNCHANGED tokenVars]_vars
<1> SUFFICES ASSUME ClientInv, Next, NEW c \in Calls, user[c] # NoToken, pc'[c] # pc[c]
             PROVE  UNCHANGED tokenVars
  BY DEF vars
<1>1. ClientTypeOK
  BY DEF ClientInv
<1>2. CASE Environment \/ Quiet
  BY <1>2 DEF Environment, ApiHandles, Quiet, clientVars, vars
<1>3. ASSUME NEW d \in Calls, d # c,
             Start(d) \/ GettingToken(d) \/ HandlingAnswer(d) \/ LosingAnswer(d) \/ Wake(d)
      PROVE  FALSE
  BY <1>1, <1>3 DEF ClientTypeOK, Start, GettingToken, SendAsUser, SendAsService, AwaitToken,
     TokenUnavailable, HandlingAnswer, Succeed, Fail, ServerError, Refresh, LosingAnswer,
     TransportFails, TransportBreaks, Wake, Send, Finish, RetryOrFail, clientVars
<1>4. CASE Start(c) \/ GettingToken(c) \/ HandlingAnswer(c) \/ LosingAnswer(c) \/ Wake(c)
  BY <1>4 DEF Start, GettingToken, SendAsUser, SendAsService, AwaitToken, TokenUnavailable,
     HandlingAnswer, Succeed, Fail, ServerError, Refresh, LosingAnswer, TransportFails,
     TransportBreaks, Wake
<1>5. QED
  BY <1>2, <1>3, <1>4 DEF Next

(* No step of a user's call touches the service account's token (http.py,  *)
(* the passthrough of _request).                                           *)
THEOREM UserCallsLeaveTokenAloneHolds == Spec => UserCallsLeaveTokenAlone
  BY UserCallStep, ClientInvariant, PTL DEF UserCallsLeaveTokenAlone, Spec

-----------------------------------------------------------------------------
(* The client implements ApiCall: every step is a step of the promise or    *)
(* leaves it where it was.                                                  *)
Status == [c \in Calls |-> IF pc[c] = "idle" THEN "idle"
                           ELSE IF pc[c] = "done" THEN outcome[c] ELSE "open"]
Runs == {[call |-> r.call, n |-> r.n, as |-> Principal(r.token)] : r \in applied}

(* The client's initial states map to initial states of ApiCall. *)
LEMMA InitKeepsPromise == Init => Promise!Init
  BY DEF Init, Promise!Init

(* A step of the call c that ends it with a result is a Close of the promise. *)
LEMMA FinishCloses ==
  ASSUME ClientInv, NEW c \in Calls, NEW result \in {"ok", "error"},
         pc[c] \in {"token", "waiting"}, Finish(c, result), UNCHANGED <<user, applied>>,
         result = "ok" => \E r \in applied : r.call = c
  PROVE  Promise!Close(c, result)
<1>1. Status[c] = "open" /\ Status' = [Status EXCEPT ![c] = result]
  BY DEF Status, Finish, ClientInv, ClientTypeOK
<1>2. result = "ok" => \E r \in Runs : r.call = c
  <2> SUFFICES ASSUME result = "ok" PROVE \E r \in Runs : r.call = c
    OBVIOUS
  <2>1. PICK r \in applied : r.call = c
    OBVIOUS
  <2> DEFINE run == [call |-> r.call, n |-> r.n, as |-> Principal(r.token)]
  <2>2. run \in Runs /\ run.call = c
    BY <2>1 DEF Runs
  <2>3. QED
    BY <2>2
<1>3. QED
  BY <1>1, <1>2 DEF Promise!Close, Status, Runs

(* A step that goes on leaves the promise where it was. *)
LEMMA GoingOnStutters ==
  ASSUME ClientInv, UNCHANGED <<user, applied>>, NEW c \in Calls,
         pc[c] \in {"token", "waiting", "sleeping"}, UNCHANGED outcome,
         NEW p \in {"token", "waiting", "sleeping"}, pc' = [pc EXCEPT ![c] = p]
  PROVE  UNCHANGED Promise!vars
<1>1. Status' = Status
  BY DEF Status, ClientInv, ClientTypeOK
<1>2. QED
  BY <1>1 DEF Promise!vars, Status

(* Every step of the client maps to a step of ApiCall or to a stutter. *)
LEMMA StepKeepsPromise == ClientInv /\ [Next]_vars => [Promise!Next]_(Promise!vars)
<1> SUFFICES ASSUME ClientInv, [Next]_vars PROVE Promise!Next \/ UNCHANGED Promise!vars
  OBVIOUS
<1>0. ClientTypeOK
  BY DEF ClientInv
<1>1. ASSUME NEW c \in Calls, Start(c) PROVE Promise!Next
  <2>1. Status[c] = "idle" /\ Status' = [Status EXCEPT ![c] = "open"]
    BY <1>0, <1>1 DEF Start, Status, ClientTypeOK
  <2>2. Promise!Open(c)
    BY <1>1, <2>1 DEF Promise!Open, Start, Status
  <2>3. QED
    BY <2>2 DEF Promise!Next
<1>2. ASSUME NEW c \in Calls, GettingToken(c) PROVE Promise!Next \/ UNCHANGED Promise!vars
  <2>1. CASE SendAsUser(c) \/ SendAsService(c)
    BY <2>1, GoingOnStutters DEF SendAsUser, SendAsService, Send
  <2>2. CASE AwaitToken(c)
    BY <2>2 DEF AwaitToken, clientVars, Promise!vars
  <2>3. CASE TokenUnavailable(c)
    BY <2>3, FinishCloses DEF TokenUnavailable, Promise!Next
  <2>4. QED
    BY <1>2, <2>1, <2>2, <2>3 DEF GettingToken
<1>3. ASSUME NEW c \in Calls, HandlingAnswer(c) PROVE Promise!Next \/ UNCHANGED Promise!vars
  <2>1. CASE Succeed(c)
    BY <2>1, FinishCloses DEF Succeed, Answered, ClientInv, OkEarned, Promise!Next
  <2>2. CASE Fail(c)
    BY <2>2, FinishCloses DEF Fail, Answered, Promise!Next
  <2>3. CASE ServerError(c)
    BY <2>3, FinishCloses, GoingOnStutters DEF ServerError, Answered, RetryOrFail, Promise!Next
  <2>4. CASE Refresh(c)
    BY <2>4, GoingOnStutters DEF Refresh, Answered
  <2>5. QED
    BY <1>3, <2>1, <2>2, <2>3, <2>4 DEF HandlingAnswer
<1>4. ASSUME NEW c \in Calls, LosingAnswer(c) PROVE Promise!Next \/ UNCHANGED Promise!vars
  <2>1. CASE TransportFails(c)
    BY <2>1, FinishCloses, GoingOnStutters DEF TransportFails, RetryOrFail, Promise!Next
  <2>2. CASE TransportBreaks(c)
    BY <2>2, FinishCloses DEF TransportBreaks, Promise!Next
  <2>3. QED
    BY <1>4, <2>1, <2>2 DEF LosingAnswer
<1>5. ASSUME NEW c \in Calls, Wake(c) PROVE UNCHANGED Promise!vars
  BY <1>5, GoingOnStutters DEF Wake
<1>6. ASSUME NEW r \in network, NEW a \in Answers, ApiHandles(r, a)
      PROVE  Promise!Next \/ UNCHANGED Promise!vars
  <2>1. CASE UNCHANGED applied
    BY <1>6, <2>1 DEF ApiHandles, Promise!vars
  <2>2. CASE applied' = applied \cup {r}
    <3>1. /\ r.call \in Calls /\ r.n \in Nat /\ pc[r.call] # "idle"
          /\ r.n \in 1..sends[r.call] /\ Principal(r.token) = user[r.call]
      BY <1>0 DEF ClientInv, RequestsOfCallers, NoIdentityMixing, ClientTypeOK, Request
    <3>2. r.n \in 1..(2 * (MAX_RETRIES + 1))
      <4>1. sends[r.call] <= SendBudget(r.call) /\ sends[r.call] \in Nat
        BY <3>1, <1>0, SendsCountedBounded DEF SendsBounded, ClientTypeOK
      <4>2. SendBudget(r.call) <= 2 * (MAX_RETRIES + 1) /\ SendBudget(r.call) \in Nat
        BY ClientAssumption DEF SendBudget
      <4>3. QED
        BY <3>1, <4>1, <4>2, ClientAssumption
    <3>3. Runs' = Runs \cup {[call |-> r.call, n |-> r.n, as |-> user[r.call]]}
      BY <2>2, <3>1 DEF Runs, Principal
    <3>4. Status[r.call] # "idle" /\ Status' = Status /\ user' = user
      <4>1. pc[r.call] = "done" => outcome[r.call] # "idle"
        BY <3>1, <1>0 DEF ClientTypeOK
      <4>2. QED
        BY <1>6, <3>1, <4>1 DEF ApiHandles, Status
    <3>5. Promise!Run(r.call, r.n)
      BY <3>3, <3>4 DEF Promise!Run, Runs, Status
    <3>6. QED
      BY <3>1, <3>2, <3>5 DEF Promise!Next
  <2>3. QED
    BY <1>6, <2>1, <2>2 DEF ApiHandles
<1>7. CASE UNCHANGED clientVars
  BY <1>7 DEF clientVars, Promise!vars
<1>8. QED
  BY <1>1, <1>2, <1>3, <1>4, <1>5, <1>6, <1>7 DEF Next, Environment, Quiet, vars

(* The client implements ApiCall. *)
THEOREM ClientKeepsPromise == Spec => KeepsPromise
  BY InitKeepsPromise, StepKeepsPromise, ClientInvariant, PTL
  DEF KeepsPromise, Promise!Spec, Spec

=============================================================================
