--------------------------- MODULE DiscoveryCache ---------------------------
(***************************************************************************)
(* The cache of discovery results (mcp-core cache.py) as the product       *)
(* servers use it: one list tool with a TTL, called by several identities, *)
(* and the write tools that change what it lists and then invalidate it.   *)
(*                                                                         *)
(* The API's data is a version number: every change of the listed          *)
(* resources is the next version.  A task is one tool call: a read is the  *)
(* lookup, the answer of the API and the store, with other tasks running   *)
(* in between; a write is the change at the API and, if it is acknowledged,*)
(* the invalidation.                                                       *)
(***************************************************************************)
EXTENDS Naturals

CONSTANTS
    Tasks,       \* tool calls that may be under way at the same time
    Identities,  \* callers: the service account and end users
    Args,        \* region, project and filters of a call
    None,        \* no entry, no value
    TTL,         \* TTL_CONFIG[tool]
    MaxFetch,    \* bound: how long a fetch may take, retries included
    MaxClock,    \* bound: the clock stops here
    MaxVersion   \* bound: no more changes than this

ASSUME CacheAssumption ==
    /\ TTL \in Nat /\ MaxFetch \in Nat /\ MaxClock \in Nat /\ MaxVersion \in Nat

Keys == Identities \X Args  \* the scoped key: (current_identity(), key)

Value == [version : Nat, as : Identities, readAt : Nat]
\* forced: stored by a call with refresh=True
\* overlapped: a write was acknowledged between the lookup and the store
Entry == [value : Value, storedAt : Nat, forced : BOOLEAN, overlapped : BOOLEAN]

\* a read between its lookup, at time began with acked = since, and its store;
\* the API's answer is None until it comes
Read == [kind : {"read"}, key : Keys, refresh : BOOLEAN, since : Nat, began : Nat,
         answer : Value \cup {None}]
\* a write, and the version it made at the API, 0 until it is carried out
Write == [kind : {"write"}, made : Nat]
Served == [to : Identities, value : Value]

ASSUME NoneAssumption == None \notin Value \cup Entry \cup Read \cup Write \cup Served

VARIABLES
    clock,
    version,  \* the listed resources at the API
    acked,    \* the version of the last write a write tool reported as done
    cache,    \* cache[k]: the entry under k, or None
    call,     \* call[t]: the tool call t is in, or None
    served    \* what the step just taken returned to a reader, or None

vars == <<clock, version, acked, cache, call, served>>

Init ==
    /\ clock = 0 /\ version = 0 /\ acked = 0
    /\ cache = [k \in Keys |-> None]
    /\ call = [t \in Tasks |-> None]
    /\ served = None

-----------------------------------------------------------------------------
\* mutated forms of the definitions below

\* the core cache used without the identity in front of the key
UnscopedKey(i, a) == <<CHOOSE j \in Identities : TRUE, a>>

\* expiry checked against nothing
LiveForever(e) == e # None

\* the write tool forgets to invalidate
KeepAll == cache

-----------------------------------------------------------------------------
(* get_or_fetch of the product caches: the caller identity leads the key. *)
ScopedKey(i, a) == <<i, a>>

(* TTLCache: an entry is gone TTL seconds after it was stored; a lookup     *)
(* does not extend its life.                                                *)
Live(e) == e # None /\ clock < e.storedAt + TTL

(* A lookup that hits returns at once. *)
ReadHit(t, i, a) ==
    LET e == cache[ScopedKey(i, a)] IN
    /\ call[t] = None
    /\ Live(e)
    /\ served' = [to |-> i, value |-> e.value]
    /\ UNCHANGED <<clock, version, acked, cache, call>>

(* A miss, or refresh=True, which does not look: await fetch(). *)
ReadMiss(t, i, a, refresh) ==
    /\ call[t] = None
    /\ refresh \/ ~Live(cache[ScopedKey(i, a)])
    /\ call' = [call EXCEPT ![t] = [kind |-> "read", key |-> ScopedKey(i, a), refresh |-> refresh,
                                   since |-> acked, began |-> clock, answer |-> None]]
    /\ served' = None
    /\ UNCHANGED <<clock, version, acked, cache>>

Reading(t) == call[t] # None /\ call[t].kind = "read"

(* The API answers with what the caller's token sees now. *)
ApiReads(t) ==
    /\ Reading(t) /\ call[t].answer = None
    /\ call' = [call EXCEPT ![t].answer = [version |-> version, as |-> call[t].key[1],
                                          readAt |-> clock]]
    /\ served' = None
    /\ UNCHANGED <<clock, version, acked, cache>>

\* the fetch stored without being awaited
StoreUnawaited(t) ==
    /\ Reading(t) /\ call[t].answer = None
    /\ cache' = [cache EXCEPT ![call[t].key] = [value      |-> call[t].answer,
                                               storedAt   |-> clock,
                                               forced     |-> call[t].refresh,
                                               overlapped |-> FALSE]]
    /\ call' = [call EXCEPT ![t] = None]
    /\ served' = None
    /\ UNCHANGED <<clock, version, acked>>

(* The answer arrives: cache[key] = value, over whatever is there. *)
FetchReturns(t) ==
    /\ Reading(t) /\ call[t].answer # None
    /\ cache' = [cache EXCEPT ![call[t].key] = [value      |-> call[t].answer,
                                               storedAt   |-> clock,
                                               forced     |-> call[t].refresh,
                                               overlapped |-> call[t].since # acked]]
    /\ served' = [to |-> call[t].key[1], value |-> call[t].answer]
    /\ call' = [call EXCEPT ![t] = None]
    /\ UNCHANGED <<clock, version, acked>>

(* fetch() raises: nothing is stored. *)
FetchRaises(t) ==
    /\ Reading(t)
    /\ call' = [call EXCEPT ![t] = None]
    /\ served' = None
    /\ UNCHANGED <<clock, version, acked, cache>>

-----------------------------------------------------------------------------
(* invalidate(tool): every identity's entries go. *)
Cleared == [k \in Keys |-> None]

StartWrite(t) ==
    /\ call[t] = None
    /\ call' = [call EXCEPT ![t] = [kind |-> "write", made |-> 0]]
    /\ served' = None
    /\ UNCHANGED <<clock, version, acked, cache>>

Writing(t) == call[t] # None /\ call[t].kind = "write"

(* The API carries out the change. *)
ApiWrites(t) ==
    /\ Writing(t) /\ call[t].made = 0
    /\ version < MaxVersion
    /\ version' = version + 1
    /\ call' = [call EXCEPT ![t].made = version + 1]
    /\ served' = None
    /\ UNCHANGED <<clock, acked, cache>>

(* The acknowledgement arrives: the tool invalidates and reports success. *)
WriteReturns(t) ==
    /\ Writing(t) /\ call[t].made # 0
    /\ cache' = Cleared
    /\ acked' = IF call[t].made > acked THEN call[t].made ELSE acked
    /\ call' = [call EXCEPT ![t] = None]
    /\ served' = None
    /\ UNCHANGED <<clock, version>>

(* The call raises, whether or not the change was carried out: the          *)
(* invalidation is skipped.                                                 *)
WriteRaises(t) ==
    /\ Writing(t)
    /\ call' = [call EXCEPT ![t] = None]
    /\ served' = None
    /\ UNCHANGED <<clock, version, acked, cache>>

(* Someone changes the resources without this server: console, other tools. *)
OutsideChange ==
    /\ version < MaxVersion
    /\ version' = version + 1
    /\ served' = None
    /\ UNCHANGED <<clock, acked, cache, call>>

(* TTLCache makes room when it is full, and drops what has expired. *)
Evict(k) ==
    /\ cache[k] # None
    /\ cache' = [cache EXCEPT ![k] = None]
    /\ served' = None
    /\ UNCHANGED <<clock, version, acked, call>>

Tick ==
    /\ clock < MaxClock
    /\ \A t \in Tasks : Reading(t) => clock - call[t].began < MaxFetch
    /\ clock' = clock + 1
    /\ served' = None
    /\ UNCHANGED <<version, acked, cache, call>>

Next ==
    \/ \E t \in Tasks, i \in Identities, a \in Args :
         ReadHit(t, i, a) \/ \E refresh \in BOOLEAN : ReadMiss(t, i, a, refresh)
    \/ \E t \in Tasks : ApiReads(t) \/ FetchReturns(t) \/ FetchRaises(t) \/ StartWrite(t)
                        \/ ApiWrites(t) \/ WriteReturns(t) \/ WriteRaises(t)
    \/ OutsideChange
    \/ \E k \in Keys : Evict(k)
    \/ Tick

Spec == Init /\ [][Next]_vars

-----------------------------------------------------------------------------
(* Types of the cache and of the calls under way (cache.py 28-30, 43-53). *)
TypeOK ==
    /\ clock \in Nat /\ version \in Nat /\ acked \in Nat
    /\ cache \in [Keys -> Entry \cup {None}]
    /\ call \in [Tasks -> Read \cup Write \cup {None}]
    /\ served \in Served \cup {None}

(* Nobody is served what another identity's token fetched, through any      *)
(* sequence of hits, misses and stores (discovery_cache.py of each product: *)
(* "one user's cached results can never be served to another").             *)
IdentityIsolation == served # None => served.value.as = served.to

(* A result is never older than the TTL and one fetch: neither hits nor     *)
(* overlapping stores stretch it.                                           *)
BoundedStaleness == served # None => clock <= served.value.readAt + TTL + MaxFetch

(* The cache shows every acknowledged write of this server, to every        *)
(* identity, except through an entry whose fetch overlapped the             *)
(* acknowledgement.                                                         *)
CacheShowsAckedWrites == \A k \in Keys :
    cache[k] # None /\ ~cache[k].overlapped => cache[k].value.version >= acked

(* "A stale entry at worst omits one somebody just created, and `refresh`    *)
(* fixes that" (vdb discovery_cache.py 53-54): what a refresh stored is not *)
(* replaced by something older.                                             *)
RefreshFixesStaleness ==
    [][\A k \in Keys : cache[k] # None /\ cache[k].forced /\ cache'[k] # None
         => cache'[k].value.version >= cache[k].value.version]_vars

=============================================================================
