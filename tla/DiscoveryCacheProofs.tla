----------------------- MODULE DiscoveryCacheProofs -----------------------
(***************************************************************************)
(* What the discovery cache guarantees for any number of overlapping calls,*)
(* identities and arguments, and any TTL.                                  *)
(*                                                                         *)
(* None of the properties is inductive: what a hit returns depends on how  *)
(* the entry was stored, which depends on the fetch that stored it.  The   *)
(* invariant therefore says of every fetch under way whose answer it       *)
(* carries, how old it may be and what it must at least show, and of every *)
(* entry the same.                                                         *)
(***************************************************************************)
EXTENDS DiscoveryCache, TLAPS

(* A fetch under way is no older than MaxFetch; its answer was made for its *)
(* key's identity, after the lookup, and shows what was acknowledged then.  *)
ReadSound(t) == call[t] # None /\ call[t].kind = "read" =>
    /\ call[t].since <= acked
    /\ call[t].began <= clock /\ clock <= call[t].began + MaxFetch
    /\ call[t].answer # None =>
         /\ call[t].answer.as = call[t].key[1]
         /\ call[t].answer.version >= call[t].since
         /\ call[t].began <= call[t].answer.readAt

(* An entry holds what its own identity's token fetched. *)
EntrySound(k) == cache[k] # None =>
    /\ cache[k].value.as = k[1]
    /\ cache[k].storedAt <= cache[k].value.readAt + MaxFetch
    /\ ~cache[k].overlapped => cache[k].value.version >= acked

(* Nothing is acknowledged that the API has not done. *)
WriteSound(t) == call[t] # None /\ call[t].kind = "write" => call[t].made <= version

CacheInv ==
    /\ TypeOK
    /\ acked <= version
    /\ \A t \in Tasks : ReadSound(t) /\ WriteSound(t)
    /\ \A k \in Keys : EntrySound(k)
    /\ IdentityIsolation
    /\ BoundedStaleness

-----------------------------------------------------------------------------
(* The invariant holds of the empty cache. *)
LEMMA CacheInitInv == Init => CacheInv
  BY CacheAssumption, NoneAssumption, SMT
  DEF Init, CacheInv, TypeOK, ReadSound, WriteSound, EntrySound, IdentityIsolation,
      BoundedStaleness

(* Every step keeps the types. *)
LEMMA CacheTypeStep == TypeOK /\ [Next]_vars => TypeOK'
<1> SUFFICES ASSUME TypeOK, [Next]_vars PROVE TypeOK'
  OBVIOUS
<1> USE CacheAssumption, NoneAssumption DEF TypeOK
<1>1. ASSUME NEW t \in Tasks, NEW i \in Identities, NEW a \in Args, ReadHit(t, i, a)
      PROVE  TypeOK'
  <2>1. ScopedKey(i, a) \in Keys
    BY DEF ScopedKey, Keys
  <2>2. cache[ScopedKey(i, a)] \in Entry
    BY <1>1, <2>1 DEF ReadHit, Live
  <2>3. served' \in Served
    BY <1>1, <2>2, SMT DEF ReadHit, Served, Entry
  <2> QED
    BY <1>1, <2>3 DEF ReadHit
<1>2. ASSUME NEW t \in Tasks, NEW i \in Identities, NEW a \in Args,
             NEW refresh \in BOOLEAN, ReadMiss(t, i, a, refresh)
      PROVE  TypeOK'
  <2>1. ScopedKey(i, a) \in Keys
    BY DEF ScopedKey, Keys
  <2> QED
    BY <1>2, <2>1, SMT DEF ReadMiss, Read
<1>3. ASSUME NEW t \in Tasks, ApiReads(t) PROVE TypeOK'
  <2>1. call[t] \in Read
    BY <1>3, SMT DEF ApiReads, Reading, Write
  <2>2. call[t].key[1] \in Identities
    BY <2>1 DEF Read, Keys
  <2>3. call'[t] \in Read
    BY <1>3, <2>1, <2>2, SMT DEF ApiReads, Read, Value
  <2> QED
    BY <1>3, <2>3, SMT DEF ApiReads
<1>4. ASSUME NEW t \in Tasks, FetchReturns(t) PROVE TypeOK'
  <2>1. call[t] \in Read
    BY <1>4, SMT DEF FetchReturns, Reading, Write
  <2>2. call[t].key \in Keys /\ call[t].key[1] \in Identities
    BY <2>1 DEF Read, Keys
  <2>3. call[t].answer \in Value
    BY <1>4, <2>1 DEF FetchReturns, Read
  <2>4. cache'[call[t].key] \in Entry
    <3>1. (call[t].since # acked) \in BOOLEAN
      OBVIOUS
    <3>2. call[t].refresh \in BOOLEAN
      BY <2>1 DEF Read
    <3>3. [value |-> call[t].answer, storedAt |-> clock, forced |-> call[t].refresh,
           overlapped |-> call[t].since # acked] \in Entry
      BY <2>3, <3>1, <3>2, Zenon DEF Entry
    <3> QED
      BY <1>4, <2>2, <3>3 DEF FetchReturns
  <2>5. served' \in Served
    BY <1>4, <2>2, <2>3, SMT DEF FetchReturns, Served
  <2> QED
    BY <1>4, <2>2, <2>4, <2>5, SMT DEF FetchReturns
<1>5. ASSUME NEW t \in Tasks, FetchRaises(t) \/ WriteRaises(t) PROVE TypeOK'
  BY <1>5, SMT DEF FetchRaises, WriteRaises
<1>6. ASSUME NEW t \in Tasks, StartWrite(t) PROVE TypeOK'
  BY <1>6, SMT DEF StartWrite, Write
<1>7. ASSUME NEW t \in Tasks, ApiWrites(t) PROVE TypeOK'
  <2>1. call[t] \in Write
    BY <1>7, SMT DEF ApiWrites, Writing, Read
  <2>2. call'[t] \in Write
    BY <1>7, <2>1, SMT DEF ApiWrites, Write
  <2> QED
    BY <1>7, <2>2, SMT DEF ApiWrites
<1>8. ASSUME NEW t \in Tasks, WriteReturns(t) PROVE TypeOK'
  <2>1. call[t] \in Write
    BY <1>8, SMT DEF WriteReturns, Writing, Read
  <2> QED
    BY <1>8, <2>1, SMT DEF WriteReturns, Write, Cleared
<1>9. CASE OutsideChange
  BY <1>9, SMT DEF OutsideChange
<1>10. ASSUME NEW k \in Keys, Evict(k) PROVE TypeOK'
  BY <1>10, SMT DEF Evict
<1>11. CASE Tick
  BY <1>11, SMT DEF Tick
<1>12. CASE UNCHANGED vars
  BY <1>12 DEF vars
<1> QED
  BY <1>1, <1>2, <1>3, <1>4, <1>5, <1>6, <1>7, <1>8, <1>9, <1>10, <1>11, <1>12 DEF Next

(* Every step keeps the invariant.  Only the end of a fetch stores, only the *)
(* end of a write acknowledges, and that one empties the cache.             *)
LEMMA CacheInvStep == CacheInv /\ [Next]_vars => CacheInv'
<1> SUFFICES ASSUME CacheInv, [Next]_vars PROVE CacheInv'
  OBVIOUS
<1>0. TypeOK'
  BY CacheTypeStep DEF CacheInv
<1>t. TypeOK
  BY DEF CacheInv
<1>k. ASSUME NEW i \in Identities, NEW a \in Args
      PROVE  ScopedKey(i, a) \in Keys /\ ScopedKey(i, a)[1] = i
  BY DEF ScopedKey, Keys
<1> USE CacheAssumption, NoneAssumption
<1> DEFINE Rest == /\ acked <= version
                   /\ \A t \in Tasks : ReadSound(t) /\ WriteSound(t)
                   /\ \A k \in Keys : EntrySound(k)
<1>r. Rest
  BY DEF CacheInv
<1>q. ASSUME Rest', served' = None PROVE CacheInv'
  BY <1>0, <1>q DEF CacheInv, IdentityIsolation, BoundedStaleness
<1>1. ASSUME NEW t \in Tasks, NEW i \in Identities, NEW a \in Args, ReadHit(t, i, a)
      PROVE  CacheInv'
  <2>1. EntrySound(ScopedKey(i, a)) /\ cache[ScopedKey(i, a)] \in Entry
    BY <1>1, <1>k, <1>r, <1>t DEF ReadHit, Live, TypeOK
  <2>2. Rest'
    BY <1>1, <1>r DEF ReadHit, ReadSound, WriteSound, EntrySound
  <2>3. IdentityIsolation'
    BY <1>1, <1>k, <2>1, SMT DEF ReadHit, Live, EntrySound, IdentityIsolation
  <2>4. BoundedStaleness'
    BY <1>1, <1>t, <2>1, SMT
    DEF ReadHit, Live, EntrySound, BoundedStaleness, TypeOK, Entry, Value
  <2> QED
    BY <1>0, <2>2, <2>3, <2>4 DEF CacheInv
<1>2. ASSUME NEW t \in Tasks, NEW i \in Identities, NEW a \in Args,
             NEW refresh \in BOOLEAN, ReadMiss(t, i, a, refresh)
      PROVE  CacheInv'
  <2>1. ASSUME NEW u \in Tasks PROVE ReadSound(u)' /\ WriteSound(u)'
    <3>1. CASE u = t
      BY <1>2, <1>t, <3>1, SMT DEF ReadMiss, TypeOK, ReadSound, WriteSound
    <3>2. CASE u # t
      BY <1>2, <1>t, <1>r, <3>2, SMT DEF ReadMiss, TypeOK, ReadSound, WriteSound
    <3> QED
      BY <3>1, <3>2
  <2>2. Rest'
    BY <1>2, <1>r, <2>1 DEF ReadMiss, EntrySound
  <2> QED
    BY <1>2, <1>q, <2>2 DEF ReadMiss
<1>3. ASSUME NEW t \in Tasks, ApiReads(t) PROVE CacheInv'
  <2>1. call[t] \in Read
    BY <1>3, <1>t, SMT DEF ApiReads, Reading, Write, TypeOK
  <2>2. ASSUME NEW u \in Tasks PROVE ReadSound(u)' /\ WriteSound(u)'
    <3>1. CASE u = t
      BY <1>3, <1>t, <1>r, <2>1, <3>1, SMT
      DEF ApiReads, Reading, Read, TypeOK, ReadSound, WriteSound
    <3>2. CASE u # t
      BY <1>3, <1>t, <1>r, <3>2, SMT DEF ApiReads, TypeOK, ReadSound, WriteSound
    <3> QED
      BY <3>1, <3>2
  <2>3. Rest'
    BY <1>3, <1>r, <2>2 DEF ApiReads, EntrySound
  <2> QED
    BY <1>3, <1>q, <2>3 DEF ApiReads
<1>4. ASSUME NEW t \in Tasks, FetchReturns(t) PROVE CacheInv'
  <2>1. call[t] \in Read /\ call[t].key \in Keys
    BY <1>4, <1>t, SMT DEF FetchReturns, Reading, Read, Write, TypeOK
  <2>2. call[t].answer \in Value
    BY <1>4, <2>1 DEF FetchReturns, Read
  <2>3. ReadSound(t)
    BY <1>r
  <2>4. ASSUME NEW u \in Tasks PROVE ReadSound(u)' /\ WriteSound(u)'
    BY <1>4, <1>t, <1>r, SMT DEF FetchReturns, TypeOK, ReadSound, WriteSound
  <2>5. ASSUME NEW k \in Keys PROVE EntrySound(k)'
    <3>1. CASE k = call[t].key
      <4>1. cache'[k] = [value |-> call[t].answer, storedAt |-> clock,
                         forced |-> call[t].refresh, overlapped |-> call[t].since # acked]
        BY <1>4, <1>t, <3>1 DEF FetchReturns, TypeOK
      <4>2. clock <= call[t].answer.readAt + MaxFetch
        BY <1>4, <1>t, <2>1, <2>2, <2>3, SMT
        DEF FetchReturns, Reading, ReadSound, Read, Value, TypeOK
      <4>3. ~(call[t].since # acked) => call[t].answer.version >= acked
        BY <1>4, <1>t, <2>1, <2>2, <2>3, SMT
        DEF FetchReturns, Reading, ReadSound, Read, Value, TypeOK
      <4>4. acked' = acked
        BY <1>4 DEF FetchReturns
      <4>5. call[t].answer.as = k[1]
        BY <1>4, <2>3, <3>1 DEF FetchReturns, Reading, ReadSound
      <4> QED
        <5>1. /\ cache'[k].value = call[t].answer
              /\ cache'[k].storedAt = clock
          BY <4>1
        <5>2. cache'[k].overlapped = (call[t].since # acked)
          BY <4>1
        <5>3. ~cache'[k].overlapped => call[t].answer.version >= acked'
          BY <4>3, <4>4, <5>2, Zenon
        <5> QED
          BY <4>2, <4>5, <5>1, <5>3 DEF EntrySound
    <3>2. CASE k # call[t].key
      BY <1>4, <1>t, <1>r, <3>2, SMT DEF FetchReturns, TypeOK, EntrySound
    <3> QED
      BY <3>1, <3>2
  <2>6. Rest'
    BY <1>4, <1>r, <2>4, <2>5 DEF FetchReturns
  <2>7. IdentityIsolation'
    BY <1>4, <2>3, SMT DEF FetchReturns, Reading, ReadSound, IdentityIsolation
  <2>8. BoundedStaleness'
    BY <1>4, <1>t, <2>1, <2>2, <2>3, SMT
    DEF FetchReturns, Reading, ReadSound, BoundedStaleness, Read, Value, TypeOK
  <2> QED
    BY <1>0, <2>6, <2>7, <2>8 DEF CacheInv
<1>5. ASSUME NEW t \in Tasks, FetchRaises(t) \/ WriteRaises(t) \/ StartWrite(t)
      PROVE  CacheInv'
  <2>1. ASSUME NEW u \in Tasks PROVE ReadSound(u)' /\ WriteSound(u)'
    BY <1>5, <1>t, <1>r, SMT
    DEF FetchRaises, WriteRaises, StartWrite, TypeOK, ReadSound, WriteSound
  <2>2. Rest'
    BY <1>5, <1>r, <2>1 DEF FetchRaises, WriteRaises, StartWrite, EntrySound
  <2> QED
    BY <1>5, <1>q, <2>2 DEF FetchRaises, WriteRaises, StartWrite
<1>6. ASSUME NEW t \in Tasks, ApiWrites(t) PROVE CacheInv'
  <2>1. call[t] \in Write
    BY <1>6, <1>t, SMT DEF ApiWrites, Writing, Read, TypeOK
  <2>2. ASSUME NEW u \in Tasks PROVE ReadSound(u)' /\ WriteSound(u)'
    <3>1. CASE u = t
      BY <1>6, <1>t, <1>r, <2>1, <3>1, SMT
      DEF ApiWrites, Writing, Write, TypeOK, ReadSound, WriteSound
    <3>2. CASE u # t
      <4>1. WriteSound(u)'
        BY <1>6, <1>t, <1>r, <3>2, SMT DEF ApiWrites, TypeOK, WriteSound, Read, Write
      <4>2. ReadSound(u)'
        BY <1>6, <1>t, <1>r, <3>2, SMT DEF ApiWrites, TypeOK, ReadSound
      <4> QED
        BY <4>1, <4>2
    <3> QED
      BY <3>1, <3>2
  <2>3. Rest'
    BY <1>6, <1>t, <1>r, <2>2, SMT DEF ApiWrites, EntrySound, TypeOK
  <2> QED
    BY <1>6, <1>q, <2>3 DEF ApiWrites
<1>7. ASSUME NEW t \in Tasks, WriteReturns(t) PROVE CacheInv'
  <2>1. call[t] \in Write
    BY <1>7, <1>t, SMT DEF WriteReturns, Writing, Read, TypeOK
  <2>2. acked' \in Nat /\ acked <= acked' /\ acked' <= version
    BY <1>7, <1>t, <1>r, <2>1, SMT DEF WriteReturns, Writing, WriteSound, Write, TypeOK
  <2>3. ASSUME NEW u \in Tasks PROVE ReadSound(u)' /\ WriteSound(u)'
    <3>1. CASE u = t
      BY <1>7, <1>t, <3>1, SMT DEF WriteReturns, TypeOK, ReadSound, WriteSound
    <3>2. CASE u # t
      <4>1. call'[u] = call[u] /\ version' = version /\ clock' = clock
        BY <1>7, <1>t, <3>2 DEF WriteReturns, TypeOK
      <4>2. call[u] # None /\ call[u].kind = "read" => call[u].since \in Nat
        BY <1>t, SMT DEF TypeOK, Read, Write
      <4>3. call[u] # None /\ call[u].kind = "read" => call[u].since <= acked'
        BY <1>t, <1>r, <2>2, <4>2, SMT DEF ReadSound, TypeOK
      <4> QED
        BY <1>r, <4>1, <4>3 DEF ReadSound, WriteSound
    <3> QED
      BY <3>1, <3>2
  <2>4. Rest'
    BY <1>7, <1>r, <2>2, <2>3 DEF WriteReturns, EntrySound, Cleared
  <2> QED
    BY <1>7, <1>q, <2>4 DEF WriteReturns
<1>8. CASE OutsideChange
  <2>1. ASSUME NEW u \in Tasks PROVE ReadSound(u)' /\ WriteSound(u)'
    BY <1>8, <1>t, <1>r, SMT DEF OutsideChange, TypeOK, ReadSound, WriteSound, Read, Write
  <2>2. Rest'
    BY <1>8, <1>t, <1>r, <2>1, SMT DEF OutsideChange, EntrySound, TypeOK
  <2> QED
    BY <1>8, <1>q, <2>2 DEF OutsideChange
<1>9. ASSUME NEW k \in Keys, Evict(k) PROVE CacheInv'
  <2>1. Rest'
    BY <1>9, <1>t, <1>r, SMT DEF Evict, EntrySound, ReadSound, WriteSound, TypeOK
  <2> QED
    BY <1>9, <1>q, <2>1 DEF Evict
<1>10. CASE Tick
  <2>1. ASSUME NEW u \in Tasks PROVE ReadSound(u)'
    BY <1>10, <1>t, <1>r, SMT DEF Tick, Reading, ReadSound, TypeOK, Read, Write
  <2>2. Rest'
    BY <1>10, <1>r, <2>1 DEF Tick, EntrySound, WriteSound
  <2> QED
    BY <1>10, <1>q, <2>2 DEF Tick
<1>11. CASE UNCHANGED vars
  BY <1>11, <1>0
  DEF vars, CacheInv, ReadSound, WriteSound, EntrySound, IdentityIsolation, BoundedStaleness
<1> QED
  BY <1>1, <1>2, <1>3, <1>4, <1>5, <1>6, <1>7, <1>8, <1>9, <1>10, <1>11 DEF Next

-----------------------------------------------------------------------------
(* The invariant holds in every reachable state. *)
THEOREM CacheInvariant == Spec => []CacheInv
  BY CacheInitInv, CacheInvStep, PTL DEF Spec

(* Types of the cache and of the calls under way (cache.py 28-30, 43-53). *)
THEOREM CacheTypeCorrect == Spec => []TypeOK
<1>1. CacheInv => TypeOK
  BY DEF CacheInv
<1> QED
  BY <1>1, CacheInvariant, PTL

(* No identity is ever served what another one's token fetched             *)
(* (get_or_fetch of the product caches).                                   *)
THEOREM IdentityIsolationHolds == Spec => []IdentityIsolation
<1>1. CacheInv => IdentityIsolation
  BY DEF CacheInv
<1> QED
  BY <1>1, CacheInvariant, PTL

(* What a read returns is no older than the TTL and one fetch. *)
THEOREM BoundedStalenessHolds == Spec => []BoundedStaleness
<1>1. CacheInv => BoundedStaleness
  BY DEF CacheInv
<1> QED
  BY <1>1, CacheInvariant, PTL

(* Every cached entry whose fetch did not overlap an acknowledgement shows *)
(* every acknowledged write.                                               *)
THEOREM CacheShowsAckedWritesHolds == Spec => []CacheShowsAckedWrites
<1>1. CacheInv => CacheShowsAckedWrites
  BY DEF CacheInv, EntrySound, CacheShowsAckedWrites
<1> QED
  BY <1>1, CacheInvariant, PTL

-----------------------------------------------------------------------------
(* RefreshFixesStaleness is false of the code: a slow fetch may overwrite   *)
(* what a refresh stored.  What is true instead: a fetch is never older than *)
(* the lookup of its own call, and an entry is only replaced by older data   *)
(* by a fetch that was already under way when the entry's data were read.    *)

(* A value in the cache or on its way there. *)
Seen(v) ==
    \/ \E k \in Keys : cache[k] # None /\ cache[k].value = v
    \/ \E t \in Tasks : Reading(t) /\ call[t].answer # None /\ call[t].answer = v

(* What was read later shows no less. *)
ReadInOrder == \A v, w \in Value : Seen(v) /\ Seen(w) =>
    /\ v.version <= version /\ v.readAt <= clock
    /\ w.version < v.version => w.readAt <= v.readAt

(* The only step that makes a new value is the API's answer. *)
LEMMA SeenBefore ==
  ASSUME TypeOK, Next, NEW v \in Value, Seen(v)'
  PROVE  Seen(v) \/ (v.version = version /\ v.readAt = clock)
<1> USE NoneAssumption
<1>1. ASSUME NEW t \in Tasks, ApiReads(t) PROVE Seen(v) \/ (v.version = version /\ v.readAt = clock)
  <2>0. cache' = cache /\ \A u \in Tasks : u # t => call'[u] = call[u]
    BY <1>1 DEF ApiReads, TypeOK
  <2>1. CASE \E k \in Keys : cache'[k] # None /\ cache'[k].value = v
    BY <2>0, <2>1 DEF Seen
  <2>2. ASSUME NEW u \in Tasks, Reading(u)', call'[u].answer # None, call'[u].answer = v
        PROVE  Seen(v) \/ (v.version = version /\ v.readAt = clock)
    <3>1. CASE u # t
      <4>1. call'[u] = call[u]
        BY <2>0, <3>1
      <4>2. Reading(u) /\ call[u].answer # None /\ call[u].answer = v
        BY <2>2, <4>1 DEF Reading
      <4>3. QED
        BY <4>2 DEF Seen
    <3>2. CASE u = t
      <4>1. call'[t] = [call[t] EXCEPT !.answer = [version |-> version, as |-> call[t].key[1],
                                                   readAt |-> clock]]
        BY <1>1 DEF ApiReads, TypeOK
      <4>2. call[t] \in Read
        BY <1>1, SMT DEF ApiReads, Reading, TypeOK, Write
      <4>3. call'[t].answer = [version |-> version, as |-> call[t].key[1], readAt |-> clock]
        BY <4>1, <4>2 DEF Read
      <4>4. QED
        BY <2>2, <3>2, <4>3
    <3>3. QED
      BY <3>1, <3>2
  <2>3. QED
    BY <2>1, <2>2 DEF Seen
<1>2. ASSUME NEW t \in Tasks, FetchReturns(t) PROVE Seen(v)
  <2>1. call[t] \in Read /\ call[t].key \in Keys
    BY <1>2, SMT DEF FetchReturns, Reading, Read, Write, TypeOK
  <2>2. cache'[call[t].key].value = call[t].answer
    BY <1>2, <2>1 DEF FetchReturns, TypeOK
  <2>3. \A k \in Keys : k # call[t].key => cache'[k] = cache[k]
    BY <1>2 DEF FetchReturns, TypeOK
  <2>4. \A u \in Tasks : call'[u] = call[u] \/ call'[u] = None
    BY <1>2 DEF FetchReturns, TypeOK
  <2>5. CASE \E k \in Keys : cache'[k] # None /\ cache'[k].value = v
    BY <1>2, <2>2, <2>3, <2>5 DEF FetchReturns, Seen
  <2>6. CASE \E u \in Tasks : Reading(u)' /\ call'[u].answer # None /\ call'[u].answer = v
    BY <2>4, <2>6 DEF Seen, Reading
  <2>7. QED
    BY <2>5, <2>6 DEF Seen
<1>3. ASSUME NEW t \in Tasks, NEW i \in Identities, NEW a \in Args,
             ReadHit(t, i, a) \/ \E refresh \in BOOLEAN : ReadMiss(t, i, a, refresh)
      PROVE  Seen(v)
  BY <1>3 DEF ReadHit, ReadMiss, Seen, Reading, TypeOK
<1>4. ASSUME NEW t \in Tasks, FetchRaises(t) \/ WriteRaises(t) \/ StartWrite(t) \/ WriteReturns(t)
      PROVE  Seen(v)
  BY <1>4 DEF FetchRaises, WriteRaises, StartWrite, WriteReturns, Cleared, Seen, Reading, TypeOK
<1>5. ASSUME NEW t \in Tasks, ApiWrites(t) PROVE Seen(v)
  <2>1. call[t] \in Write
    BY <1>5, SMT DEF ApiWrites, Writing, Read, TypeOK
  <2>2. call'[t] \in Write
    BY <1>5, <2>1, CacheTypeStep, SMT DEF ApiWrites, Write, TypeOK
  <2>3. ~Reading(t)'
    BY <2>2 DEF Reading, Write
  <2>4. \A u \in Tasks : u # t => call'[u] = call[u]
    BY <1>5 DEF ApiWrites, TypeOK
  <2>5. QED
    BY <1>5, <2>3, <2>4 DEF ApiWrites, Seen, Reading
<1>6. ASSUME OutsideChange \/ Tick \/ \E k \in Keys : Evict(k) PROVE Seen(v)
  BY <1>6 DEF OutsideChange, Tick, Evict, Seen, Reading, TypeOK
<1>7. QED
  BY <1>1, <1>2, <1>3, <1>4, <1>5, <1>6 DEF Next

(* Every step keeps ReadInOrder: time and versions only grow. *)
LEMMA ReadInOrderStep == TypeOK /\ ReadInOrder /\ [Next]_vars => ReadInOrder'
<1> SUFFICES ASSUME TypeOK, ReadInOrder, [Next]_vars PROVE ReadInOrder'
  OBVIOUS
<1>1. CASE UNCHANGED vars
  BY <1>1 DEF vars, ReadInOrder, Seen, Reading
<1>2. CASE Next
  <2>0. version \in Nat /\ version' \in Nat /\ clock \in Nat /\ clock' \in Nat
    BY CacheTypeStep DEF TypeOK
  <2>a. /\ version' = version \/ version' = version + 1
        /\ clock' = clock \/ clock' = clock + 1
    BY <1>2, Zenon DEF Next, ReadHit, ReadMiss, ApiReads, FetchReturns, FetchRaises, StartWrite,
       ApiWrites, WriteReturns, WriteRaises, OutsideChange, Evict, Tick
  <2>1. version <= version' /\ clock <= clock'
    BY <2>0, <2>a
  <2>2. SUFFICES ASSUME NEW v \in Value, NEW w \in Value, Seen(v)', Seen(w)'
                 PROVE  /\ v.version <= version' /\ v.readAt <= clock'
                        /\ w.version < v.version => w.readAt <= v.readAt
    BY DEF ReadInOrder
  <2>3. /\ Seen(v) \/ (v.version = version /\ v.readAt = clock)
        /\ Seen(w) \/ (w.version = version /\ w.readAt = clock)
    BY <1>2, <2>2, SeenBefore
  <2>4. /\ v.version \in Nat /\ v.readAt \in Nat /\ w.version \in Nat /\ w.readAt \in Nat
    BY DEF Value
  <2>5. /\ Seen(v) => v.version <= version /\ v.readAt <= clock
        /\ Seen(w) => w.version <= version /\ w.readAt <= clock
        /\ Seen(v) /\ Seen(w) /\ w.version < v.version => w.readAt <= v.readAt
    BY DEF ReadInOrder
  <2>6. QED
    BY <2>0, <2>1, <2>3, <2>4, <2>5
<1>3. QED
  BY <1>1, <1>2

(* A fetch returns, and stores, nothing that lacks a write acknowledged      *)
(* before its call began, and an entry gives way to older data only if the   *)
(* fetch that brings them was asked for before the entry's own were read: a  *)
(* refresh is undone by calls it overlaps, never by a later one.             *)
LaterFetchShowsMore ==
    [][\A t \in Tasks : FetchReturns(t) =>
         /\ served'.value.version >= call[t].since
         /\ \A k \in Keys :
              cache[k] # None /\ cache'[k] # None
                /\ cache'[k].value.version < cache[k].value.version
              => k = call[t].key /\ call[t].began <= cache[k].value.readAt]_vars

(* Each fetch that returns is as LaterFetchShowsMore says. *)
LEMMA LaterFetchStep ==
  ASSUME CacheInv, ReadInOrder, NEW t \in Tasks, FetchReturns(t)
  PROVE  /\ served'.value.version >= call[t].since
         /\ \A k \in Keys :
              cache[k] # None /\ cache'[k] # None
                /\ cache'[k].value.version < cache[k].value.version
              => k = call[t].key /\ call[t].began <= cache[k].value.readAt
<1>t. TypeOK /\ ReadSound(t)
  BY DEF CacheInv
<1>1. /\ call[t] \in Read /\ call[t].key \in Keys /\ Reading(t) /\ call[t].answer # None
  BY <1>t, SMT DEF FetchReturns, Reading, Read, Write, TypeOK
<1>2. /\ call[t].answer \in Value /\ call[t].began \in Nat
  BY <1>1 DEF Read
<1>3. call[t].answer.version >= call[t].since /\ call[t].began <= call[t].answer.readAt
  BY <1>t, <1>1 DEF ReadSound, Reading
<1>4. served'.value.version >= call[t].since
  BY <1>3 DEF FetchReturns
<1>5. ASSUME NEW k \in Keys, cache[k] # None, cache'[k] # None,
             cache'[k].value.version < cache[k].value.version
      PROVE  k = call[t].key /\ call[t].began <= cache[k].value.readAt
  <2>1. cache[k] \in Entry /\ cache[k].value \in Value /\ cache[k].value.version \in Nat
    BY <1>t, <1>5 DEF TypeOK, Entry, Value
  <2>2. k # call[t].key => cache'[k] = cache[k]
    BY <1>t DEF FetchReturns, TypeOK
  <2>3. k = call[t].key
    BY <1>5, <2>1, <2>2
  <2>4. cache'[k].value = call[t].answer
    BY <1>t, <2>3 DEF FetchReturns, TypeOK
  <2>5. Seen(cache[k].value) /\ Seen(call[t].answer)
    BY <1>1, <1>5 DEF Seen
  <2>6. call[t].answer.readAt <= cache[k].value.readAt
    BY <1>2, <1>5, <2>1, <2>4, <2>5 DEF ReadInOrder
  <2>7. call[t].answer.readAt \in Nat /\ cache[k].value.readAt \in Nat
    BY <1>2, <2>1 DEF Value
  <2>8. QED
    BY <1>2, <1>3, <2>3, <2>6, <2>7
<1>6. QED
  BY <1>4, <1>5

(* A refresh is undone only by a fetch it overlaps, and no fetch lacks     *)
(* what was acknowledged before it (the product caches' get_or_fetch).     *)
THEOREM LaterFetchShowsMoreHolds == Spec => LaterFetchShowsMore
<1>1. Init => ReadInOrder
  BY NoneAssumption DEF Init, ReadInOrder, Seen, Reading
<1>2. CacheInv => TypeOK
  BY DEF CacheInv
<1>3. CacheInv /\ ReadInOrder /\ [Next]_vars =>
        [\A t \in Tasks : FetchReturns(t) =>
           /\ served'.value.version >= call[t].since
           /\ \A k \in Keys :
                cache[k] # None /\ cache'[k] # None
                  /\ cache'[k].value.version < cache[k].value.version
                => k = call[t].key /\ call[t].began <= cache[k].value.readAt]_vars
  BY LaterFetchStep
<1>4. QED
  BY <1>1, <1>2, <1>3, ReadInOrderStep, CacheInvariant, PTL DEF LaterFetchShowsMore, Spec

=============================================================================
