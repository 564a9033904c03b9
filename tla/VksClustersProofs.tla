------------------------- MODULE VksClustersProofs --------------------------
(***************************************************************************)
(* What reading a collection in pages and deleting a cluster guarantee for *)
(* any number of calls, items and pages.                                   *)
(*                                                                         *)
(* What a listing lacks or shows twice when it ends was decided whenever   *)
(* the collection changed under it: a removal before the cursor moves one  *)
(* item across it unread, an insertion moves one read item behind it.  The *)
(* invariant counts them: items before the cursor that were not collected, *)
(* and collected ones that will be met again.                              *)
(***************************************************************************)
EXTENDS VksClusters, FiniteSetTheorems, SequenceTheorems, TLAPS

Distinct(s) == \A j, k \in 1 .. Len(s) : s[j] = s[k] => j = k

(* How far a call has read; what lies before that and was not collected,    *)
(* what lies behind it and was; how many items were collected again.        *)
Mark(r) == r.page * PageSize
Skipped(r, s) == {x \in r.there : \E k \in 1 .. Len(s) : k <= Mark(r) /\ s[k] = x} \ ToSet(r.collected)
Ahead(r, s) == {x \in ToSet(r.collected) : \E k \in 1 .. Len(s) : k > Mark(r) /\ s[k] = x}
Again(c) == Len(c) - Cardinality(ToSet(c))

(* What is known of a cursor over the collection s, from which g are gone.  *)
ReadSound(r, s, g) ==
    /\ r.page <= Cardinality(Items) + 1
    /\ r.stage = "whole" => r.there \subseteq ToSet(s) /\ r.page = 0 /\ r.collected = <<>>
    /\ r.stage = "page" =>
          /\ r.there \subseteq ToSet(s)
          /\ ToSet(r.collected) \subseteq ToSet(s) \cup g
          /\ r.page <= Len(r.collected)
          /\ Len(r.collected) <= Cardinality(Items)
          /\ Len(r.collected) <= Mark(r)
          /\ Cardinality(Skipped(r, s)) <= r.removed
          /\ Again(r.collected) + Cardinality(Ahead(r, s)) <= r.inserted
    /\ r.stage = "done" =>
          /\ Cardinality(r.there \ ToSet(r.collected)) <= r.removed
          /\ Again(r.collected) <= r.inserted

CollectionSound ==
    /\ items \in Seq(Items) /\ Distinct(items)
    /\ gone \in SUBSET Items /\ ToSet(items) \cap gone = {}

-----------------------------------------------------------------------------
(* A page lies where it is expected.                                        *)
LEMMA FromItems ==
    ASSUME NEW n \in Nat, items \in Seq(Items)
    PROVE  /\ From(n) \in Seq(Items)
           /\ Len(From(n)) = IF n >= Len(items) THEN 0
                             ELSE IF n + PageSize <= Len(items) THEN PageSize ELSE Len(items) - n
           /\ \A k \in 1 .. Len(From(n)) : n + k \in 1 .. Len(items) /\ From(n)[k] = items[n + k]
<1> USE PageSizeAssumption
<1>1. Len(items) \in Nat
  OBVIOUS
<1>2. Min({n + PageSize, Len(items)}) = IF n + PageSize <= Len(items) THEN n + PageSize ELSE Len(items)
  <2> DEFINE a == n + PageSize
             b == Len(items)
  <2>1. a \in Nat /\ b \in Nat
    BY <1>1
  <2> HIDE DEF a, b
  <2>2. \E x \in {a, b} : \A y \in {a, b} : x =< y
    <3>1. CASE a <= b
      BY <2>1, <3>1
    <3>2. CASE b <= a
      BY <2>1, <3>2
    <3> QED
      BY <2>1, <3>1, <3>2
  <2>3. Min({a, b}) \in {a, b} /\ \A y \in {a, b} : Min({a, b}) =< y
    BY <2>2, Zenon DEF Min
  <2> QED
    BY <2>1, <2>3 DEF a, b
<1> DEFINE m == Min({n + PageSize, Len(items)})
<1>3. m \in Nat /\ m <= Len(items) /\ m <= n + PageSize /\ (m = n + PageSize \/ m = Len(items))
  BY <1>1, <1>2
<1>4. From(n) = SubSeq(items, n + 1, m)
  BY DEF From
<1> HIDE DEF m
<1>5. \A k \in n + 1 .. m : items[k] \in Items
  BY <1>1, <1>3
<1>6. /\ From(n) \in Seq(Items)
      /\ Len(From(n)) = IF n + 1 <= m THEN m - (n + 1) + 1 ELSE 0
      /\ \A k \in 1 .. m - (n + 1) + 1 : From(n)[k] = items[n + 1 + k - 1]
  BY <1>3, <1>4, <1>5, SubSeqProperties
<1>7. ASSUME NEW k \in 1 .. Len(From(n)) PROVE n + k \in 1 .. Len(items) /\ From(n)[k] = items[n + k]
  <2>1. k \in 1 .. m - (n + 1) + 1 /\ k \in Nat
    BY <1>3, <1>6
  <2>2. n + 1 + k - 1 = n + k
    BY <2>1
  <2> QED
    BY <1>1, <1>3, <1>6, <2>1, <2>2
<1>8. Len(From(n)) = IF n >= Len(items) THEN 0
                     ELSE IF n + PageSize <= Len(items) THEN PageSize ELSE Len(items) - n
  <2>1. m = IF n + PageSize <= Len(items) THEN n + PageSize ELSE Len(items)
    BY <1>2 DEF m
  <2> QED
    BY <1>1, <1>3, <1>6, <2>1
<1> QED
  BY <1>6, <1>7, <1>8

(* What inserting and removing do to the positions.                         *)
LEMMA InsertAtItems ==
    ASSUME items \in Seq(Items), NEW i \in Items, NEW n \in 1 .. Len(items) + 1
    PROVE  /\ InsertAt(items, n, i) \in Seq(Items)
           /\ Len(InsertAt(items, n, i)) = Len(items) + 1
           /\ \A k \in 1 .. Len(items) + 1 : InsertAt(items, n, i)[k] =
                IF k < n THEN items[k] ELSE IF k = n THEN i ELSE items[k - 1]
<1> DEFINE a == SubSeq(items, 1, n - 1)
           b == SubSeq(items, n, Len(items))
<1>0. Len(items) \in Nat /\ \A k \in 1 .. Len(items) : items[k] \in Items
  OBVIOUS
<1>1. a \in Seq(Items) /\ Len(a) = n - 1 /\ \A k \in 1 .. n - 1 : a[k] = items[k]
  BY <1>0
<1>2. b \in Seq(Items) /\ Len(b) = Len(items) - n + 1 /\ \A k \in 1 .. Len(items) - n + 1 : b[k] = items[n + k - 1]
  <2>1. \A k \in n .. Len(items) : items[k] \in Items
    BY <1>0
  <2>2. /\ b \in Seq(Items) /\ Len(b) = IF n <= Len(items) THEN Len(items) - n + 1 ELSE 0
        /\ \A k \in 1 .. Len(items) - n + 1 : b[k] = items[n + k - 1]
    BY <1>0, <2>1, SubSeqProperties
  <2> QED
    BY <1>0, <2>2
<1>3. InsertAt(items, n, i) = (a \o <<i>>) \o b
  BY DEF InsertAt
<1>4. <<i>> \in Seq(Items) /\ Len(<<i>>) = 1 /\ <<i>>[1] = i
  OBVIOUS
<1> HIDE DEF a, b
<1> DEFINE c == a \o <<i>>
<1>5. c \in Seq(Items) /\ Len(c) = n /\ \A k \in 1 .. n : c[k] = IF k < n THEN items[k] ELSE i
  BY <1>0, <1>1, <1>4, ConcatProperties
<1> HIDE DEF c
<1>6. /\ c \o b \in Seq(Items) /\ Len(c \o b) = Len(items) + 1
      /\ \A k \in 1 .. Len(items) + 1 : (c \o b)[k] = IF k <= n THEN c[k] ELSE b[k - n]
  <2>1. /\ c \o b \in Seq(Items) /\ Len(c \o b) = Len(c) + Len(b)
        /\ \A k \in 1 .. Len(c) + Len(b) : (c \o b)[k] = IF k <= Len(c) THEN c[k] ELSE b[k - Len(c)]
    BY <1>2, <1>5, ConcatProperties
  <2>2. Len(c) = n /\ Len(c) + Len(b) = Len(items) + 1
    BY <1>0, <1>2, <1>5
  <2> QED
    BY <2>1, <2>2
<1>7. ASSUME NEW k \in 1 .. Len(items) + 1, k > n PROVE b[k - n] = items[k - 1]
  <2>1. k - n \in 1 .. Len(items) - n + 1 /\ n + (k - n) - 1 = k - 1
    BY <1>0, <1>7
  <2> QED
    BY <1>2, <2>1
<1>8. ASSUME NEW k \in 1 .. Len(items) + 1
      PROVE  (c \o b)[k] = IF k < n THEN items[k] ELSE IF k = n THEN i ELSE items[k - 1]
  <2>1. k \in Nat /\ n \in Nat
    OBVIOUS
  <2>2. CASE k <= n
    <3>1. k \in 1 .. n /\ (c \o b)[k] = c[k]
      BY <1>6, <2>1, <2>2
    <3> QED
      BY <1>5, <2>1, <2>2, <3>1
  <2>3. CASE k > n
    <3>1. (c \o b)[k] = b[k - n] /\ b[k - n] = items[k - 1]
      BY <1>6, <1>7, <2>1, <2>3
    <3> QED
      BY <2>1, <2>3, <3>1
  <2>4. k <= n \/ k > n
    BY <2>1
  <2> QED
    BY <2>2, <2>3, <2>4, Zenon
<1>9. InsertAt(items, n, i) = c \o b
  BY <1>3 DEF c
<1> QED
  BY <1>6, <1>8, <1>9

(* The items of a sequence from which one is removed. *)
LEMMA RemoveAtItems ==
    ASSUME NEW S, NEW s \in Seq(S), NEW n \in 1 .. Len(s)
    PROVE  /\ RemoveAt(s, n) \in Seq(S)
           /\ Len(RemoveAt(s, n)) = Len(s) - 1
           /\ \A k \in 1 .. Len(s) - 1 : RemoveAt(s, n)[k] = IF k < n THEN s[k] ELSE s[k + 1]
<1> DEFINE a == SubSeq(s, 1, n - 1)
           b == SubSeq(s, n + 1, Len(s))
<1>0. Len(s) \in Nat /\ \A k \in 1 .. Len(s) : s[k] \in S
  OBVIOUS
<1>1. a \in Seq(S) /\ Len(a) = n - 1 /\ \A k \in 1 .. n - 1 : a[k] = s[k]
  BY <1>0
<1>2. b \in Seq(S) /\ Len(b) = Len(s) - n /\ \A k \in 1 .. Len(s) - n : b[k] = s[n + k]
  <2>1. \A k \in n + 1 .. Len(s) : s[k] \in S
    BY <1>0
  <2>2. /\ b \in Seq(S) /\ Len(b) = IF n + 1 <= Len(s) THEN Len(s) - (n + 1) + 1 ELSE 0
        /\ \A k \in 1 .. Len(s) - (n + 1) + 1 : b[k] = s[n + 1 + k - 1]
    BY <1>0, <2>1, SubSeqProperties
  <2> QED
    BY <1>0, <2>2
<1>3. RemoveAt(s, n) = a \o b
  BY DEF RemoveAt
<1> HIDE DEF a, b
<1>4. /\ a \o b \in Seq(S) /\ Len(a \o b) = Len(s) - 1
      /\ \A k \in 1 .. Len(s) - 1 : (a \o b)[k] = IF k <= n - 1 THEN a[k] ELSE b[k - (n - 1)]
  <2>1. /\ a \o b \in Seq(S) /\ Len(a \o b) = Len(a) + Len(b)
        /\ \A k \in 1 .. Len(a) + Len(b) : (a \o b)[k] = IF k <= Len(a) THEN a[k] ELSE b[k - Len(a)]
    BY <1>1, <1>2, ConcatProperties
  <2>2. Len(a) = n - 1 /\ Len(a) + Len(b) = Len(s) - 1
    BY <1>0, <1>1, <1>2
  <2> QED
    BY <2>1, <2>2
<1>5. ASSUME NEW k \in 1 .. Len(s) - 1, ~ (k < n) PROVE b[k - (n - 1)] = s[k + 1]
  <2>1. k - (n - 1) \in 1 .. Len(s) - n /\ n + (k - (n - 1)) = k + 1
    BY <1>0, <1>5
  <2> QED
    BY <1>2, <2>1
<1> QED
  BY <1>0, <1>1, <1>3, <1>4, <1>5

-----------------------------------------------------------------------------
(* The items of a sequence.                                                 *)
LEMMA ToSetFinite ==
    ASSUME NEW S, NEW s \in Seq(S)
    PROVE  /\ ToSet(s) = {s[k] : k \in 1 .. Len(s)}
           /\ ToSet(s) \subseteq S
           /\ IsFiniteSet(ToSet(s))
           /\ Cardinality(ToSet(s)) \in Nat
           /\ Cardinality(ToSet(s)) <= Len(s)
           /\ Distinct(s) => Cardinality(ToSet(s)) = Len(s)
<1>1. DOMAIN s = 1 .. Len(s) /\ Len(s) \in Nat /\ \A k \in 1 .. Len(s) : s[k] \in S
  OBVIOUS
<1>2. ToSet(s) = {s[k] : k \in 1 .. Len(s)}
  BY <1>1 DEF ToSet
<1> DEFINE f == [k \in 1 .. Len(s) |-> s[k]]
<1>3. f \in Surjection(1 .. Len(s), ToSet(s))
  BY <1>2 DEF Surjection
<1>4. IsFiniteSet(1 .. Len(s)) /\ Cardinality(1 .. Len(s)) = Len(s)
  <2>1. 1 \in Int /\ Len(s) \in Int
    BY <1>1
  <2>2. /\ IsFiniteSet(1 .. Len(s))
        /\ Cardinality(1 .. Len(s)) = IF 1 > Len(s) THEN 0 ELSE Len(s) - 1 + 1
    BY <2>1, FS_Interval, Zenon
  <2> QED
    BY <1>1, <2>2
<1>5. Distinct(s) => f \in Injection(1 .. Len(s), ToSet(s))
  BY <1>3 DEF Distinct, Injection, IsInjective, Surjection
<1> HIDE DEF f
<1>6. /\ IsFiniteSet(ToSet(s)) /\ Cardinality(ToSet(s)) <= Len(s)
      /\ Distinct(s) => Cardinality(ToSet(s)) = Len(s)
  BY <1>3, <1>4, <1>5, FS_Surjection
<1> QED
  BY <1>1, <1>2, <1>6, FS_CardinalityType

(* The items of two sequences put together. *)
LEMMA ToSetConcat ==
    ASSUME NEW S, NEW a \in Seq(S), NEW b \in Seq(S)
    PROVE  ToSet(a \o b) = ToSet(a) \cup ToSet(b)
<1> DEFINE c == a \o b
<1>1. /\ c \in Seq(S) /\ Len(c) = Len(a) + Len(b) /\ Len(a) \in Nat /\ Len(b) \in Nat
      /\ \A k \in 1 .. Len(a) + Len(b) : c[k] = IF k <= Len(a) THEN a[k] ELSE b[k - Len(a)]
  BY ConcatProperties
<1>2. /\ ToSet(a) = {a[k] : k \in 1 .. Len(a)} /\ ToSet(b) = {b[k] : k \in 1 .. Len(b)}
      /\ ToSet(c) = {c[k] : k \in 1 .. Len(c)}
  <2>1. ToSet(a) = {a[k] : k \in 1 .. Len(a)}
    BY ToSetFinite, Zenon
  <2>2. ToSet(b) = {b[k] : k \in 1 .. Len(b)}
    BY ToSetFinite, Zenon
  <2>3. ToSet(c) = {c[k] : k \in 1 .. Len(c)}
    BY <1>1, ToSetFinite, Zenon
  <2> QED
    BY <2>1, <2>2, <2>3
<1> HIDE DEF c
<1>3. ASSUME NEW x \in ToSet(c) PROVE x \in ToSet(a) \cup ToSet(b)
  <2>1. PICK k \in 1 .. Len(c) : x = c[k]
    BY <1>2, <1>3
  <2>2. CASE k <= Len(a)
    BY <1>1, <1>2, <2>1, <2>2
  <2>3. CASE ~ (k <= Len(a))
    <3>1. k - Len(a) \in 1 .. Len(b) /\ x = b[k - Len(a)]
      BY <1>1, <2>1, <2>3
    <3> QED
      BY <1>2, <3>1
  <2> QED
    BY <2>2, <2>3
<1>4. ASSUME NEW x \in ToSet(a) PROVE x \in ToSet(c)
  <2>1. PICK k \in 1 .. Len(a) : x = a[k]
    BY <1>2, <1>4
  <2>2. k \in 1 .. Len(c) /\ c[k] = a[k]
    BY <1>1
  <2> QED
    BY <1>2, <2>1, <2>2
<1>5. ASSUME NEW x \in ToSet(b) PROVE x \in ToSet(c)
  <2>1. PICK k \in 1 .. Len(b) : x = b[k]
    BY <1>2, <1>5
  <2>2. /\ k + Len(a) \in 1 .. Len(a) + Len(b) /\ ~ (k + Len(a) <= Len(a))
        /\ k + Len(a) - Len(a) = k
    BY <1>1
  <2>3. k + Len(a) \in 1 .. Len(c) /\ c[k + Len(a)] = b[k]
    BY <1>1, <2>2
  <2> QED
    BY <1>2, <2>1, <2>3
<1> QED
  BY <1>3, <1>4, <1>5 DEF c

(* An item is where it is.                                                  *)
LEMMA ItemsFinite == IsFiniteSet(Items) /\ Cardinality(Items) \in Nat
BY ItemsAssumption, FS_CardinalityType

(* A part of a finite set has no more elements than the set. *)
LEMMA FewerThan ==
    ASSUME NEW T, IsFiniteSet(T), NEW S \in SUBSET T
    PROVE  IsFiniteSet(S) /\ Cardinality(S) \in Nat /\ Cardinality(S) <= Cardinality(T)
BY FS_Subset, FS_CardinalityType

(* The collection is a finite list of at most all items. *)
LEMMA CollectionFacts ==
    ASSUME CollectionSound
    PROVE  /\ Len(items) \in Nat /\ Len(items) <= Cardinality(Items)
           /\ ToSet(items) = {items[k] : k \in 1 .. Len(items)}
           /\ IsFiniteSet(ToSet(items)) /\ ToSet(items) \subseteq Items
<1>1. items \in Seq(Items) /\ Distinct(items) /\ Len(items) \in Nat
  BY DEF CollectionSound
<1>2. /\ ToSet(items) = {items[k] : k \in 1 .. Len(items)}
      /\ IsFiniteSet(ToSet(items)) /\ ToSet(items) \subseteq Items
      /\ Cardinality(ToSet(items)) = Len(items)
  BY <1>1, ToSetFinite, Zenon
<1>3. Cardinality(ToSet(items)) <= Cardinality(Items)
  BY <1>2, ItemsFinite, FewerThan
<1> QED
  BY <1>1, <1>2, <1>3

(* Every field of a cursor may be replaced by a value of its type.          *)
LEMMA CursorFields ==
    ASSUME NEW r \in Cursor
    PROVE  /\ \A v \in {"off", "whole", "page", "done", "failed"} : [r EXCEPT !.stage = v] \in Cursor
           /\ \A v \in Nat : [r EXCEPT !.page = v] \in Cursor
           /\ \A v \in Seq(Items) : [r EXCEPT !.collected = v] \in Cursor
           /\ \A v \in SUBSET Items : [r EXCEPT !.there = v] \in Cursor
           /\ \A v \in Nat : [r EXCEPT !.removed = v] \in Cursor
           /\ \A v \in Nat : [r EXCEPT !.inserted = v] \in Cursor
<1>1. \A v \in {"off", "whole", "page", "done", "failed"} : [r EXCEPT !.stage = v] \in Cursor
  BY Zenon DEF Cursor
<1>2. \A v \in Nat : [r EXCEPT !.page = v] \in Cursor
  BY Zenon DEF Cursor
<1>3. \A v \in Seq(Items) : [r EXCEPT !.collected = v] \in Cursor
  BY Zenon DEF Cursor
<1>4. \A v \in SUBSET Items : [r EXCEPT !.there = v] \in Cursor
  BY Zenon DEF Cursor
<1>5. \A v \in Nat : [r EXCEPT !.removed = v] \in Cursor
  BY Zenon DEF Cursor
<1>6. \A v \in Nat : [r EXCEPT !.inserted = v] \in Cursor
  BY Zenon DEF Cursor
<1> QED
  BY <1>1, <1>2, <1>3, <1>4, <1>5, <1>6

(* One more page: what was skipped stays skipped at most, and what is       *)
(* collected again was ahead.                                               *)
NextCursor(d, r, batch, c, total) ==
    /\ batch = PageAt(r.page) /\ c = r.collected \o batch
    /\ d.page = r.page + 1 /\ d.collected = c /\ d.there = r.there
    /\ d.removed = r.removed /\ d.inserted = r.inserted
    /\ d.stage = IF More(batch, c, total) THEN "page" ELSE "done"

(* Taking a page keeps a cursor sound: what it skips for good was          *)
(* removed, and what it shows again was inserted.                          *)
LEMMA PageCounts ==
    ASSUME CollectionSound, NEW r \in Cursor, r.stage = "page", ReadSound(r, items, gone),
           NEW total \in Totals, NEW batch, NEW c, NEW d, NextCursor(d, r, batch, c, total)
    PROVE  ReadSound(d, items, gone)
<1> USE PageSizeAssumption
<1> DEFINE m == Mark(r)
           C == ToSet(r.collected)
           B == ToSet(batch)
<1>1. /\ r.page \in Nat /\ r.collected \in Seq(Items) /\ r.there \subseteq Items
      /\ r.removed \in Nat /\ r.inserted \in Nat /\ items \in Seq(Items)
  BY DEF Cursor, CollectionSound
<1>2. m \in Nat /\ (r.page + 1) * PageSize = m + PageSize /\ PageSize \in Nat
  BY <1>1 DEF Mark
<1>3. /\ batch \in Seq(Items) /\ Len(batch) \in Nat
      /\ Len(batch) = IF m >= Len(items) THEN 0
                      ELSE IF m + PageSize <= Len(items) THEN PageSize ELSE Len(items) - m
      /\ \A k \in 1 .. Len(batch) : m + k \in 1 .. Len(items) /\ batch[k] = items[m + k]
  <2>1. batch = From(m)
    BY DEF PageAt, Mark, NextCursor
  <2> HIDE DEF m
  <2>2. m \in Nat /\ items \in Seq(Items)
    BY <1>1, <1>2
  <2>3. /\ From(m) \in Seq(Items)
        /\ Len(From(m)) = IF m >= Len(items) THEN 0
                          ELSE IF m + PageSize <= Len(items) THEN PageSize ELSE Len(items) - m
        /\ \A k \in 1 .. Len(From(m)) : m + k \in 1 .. Len(items) /\ From(m)[k] = items[m + k]
    BY <2>2, FromItems
  <2>4. Len(From(m)) \in Nat
    BY <2>3, LenProperties
  <2> QED
    BY <2>1, <2>3, <2>4, Zenon
<1>p. Len(batch) <= PageSize /\ (Len(batch) < PageSize => m + PageSize >= Len(items))
  <2>1. Len(items) \in Nat
    BY <1>1
  <2>2. Len(batch) = IF m >= Len(items) THEN 0
                     ELSE IF m + PageSize <= Len(items) THEN PageSize ELSE Len(items) - m
    BY <1>3
  <2> HIDE DEF m
  <2> QED
    BY <1>2, <2>1, <2>2
<1>c. c = r.collected \o batch
  BY DEF NextCursor
<1>4. c \in Seq(Items) /\ Len(c) = Len(r.collected) + Len(batch) /\ Len(r.collected) \in Nat
  <2>1. c \in Seq(Items) /\ Len(c) = Len(r.collected) + Len(batch)
    BY <1>c, <1>1, <1>3, ConcatProperties, Zenon
  <2>2. Len(r.collected) \in Nat
    BY <1>1, LenProperties, Zenon
  <2> QED
    BY <2>1, <2>2
<1>5. /\ ToSet(c) = C \cup B
      /\ IsFiniteSet(C) /\ Cardinality(C) \in Nat /\ C \subseteq Items
      /\ IsFiniteSet(B) /\ Cardinality(B) \in Nat /\ B = {batch[k] : k \in 1 .. Len(batch)}
  <2>1. r.collected \in Seq(Items) /\ batch \in Seq(Items)
    BY <1>1, <1>3
  <2>2. ToSet(c) = C \cup B
    <3>1. ToSet(r.collected \o batch) = ToSet(r.collected) \cup ToSet(batch)
      BY <2>1, ToSetConcat
    <3> QED
      BY <1>c, <3>1, Zenon
  <2>3. IsFiniteSet(C) /\ Cardinality(C) \in Nat /\ C \subseteq Items
    BY <2>1, ToSetFinite, Zenon
  <2>4. IsFiniteSet(B) /\ Cardinality(B) \in Nat /\ B = {batch[k] : k \in 1 .. Len(batch)}
    BY <2>1, ToSetFinite, Zenon
  <2> QED
    BY <2>2, <2>3, <2>4
<1>6. Cardinality(B) = Len(batch)
  <2>1. Distinct(batch)
    <3> SUFFICES ASSUME NEW j \in 1 .. Len(batch), NEW k \in 1 .. Len(batch), batch[j] = batch[k]
                 PROVE  j = k
      BY DEF Distinct
    <3>1. /\ m + j \in 1 .. Len(items) /\ m + k \in 1 .. Len(items) /\ items[m + j] = items[m + k]
      BY <1>3
    <3>2. m + j = m + k
      BY <3>1 DEF CollectionSound, Distinct
    <3> QED
      BY <1>2, <1>3, <3>2
  <2> QED
    BY <1>3, <2>1, ToSetFinite
<1>7. /\ d.page = r.page + 1 /\ d.collected = c /\ d.there = r.there
      /\ d.removed = r.removed /\ d.inserted = r.inserted
      /\ d.stage = IF More(batch, c, total) THEN "page" ELSE "done"
  BY DEF NextCursor
<1>8. Mark(d) = m + PageSize
  BY <1>2, <1>7 DEF Mark
<1> HIDE DEF m, C, B
<1>9. ASSUME NEW k \in 1 .. Len(items), k > m, k <= m + PageSize PROVE items[k] \in B
  <2>1. k - m \in 1 .. Len(batch) /\ m + (k - m) = k
    BY <1>1, <1>2, <1>3, <1>9
  <2> QED
    BY <1>3, <1>5, <2>1
<1>10. Cardinality(Skipped(d, items)) \in Nat /\ Cardinality(Skipped(d, items)) <= r.removed
  <2>1. Skipped(d, items) \subseteq Skipped(r, items)
    <3> SUFFICES ASSUME NEW x \in r.there, x \notin C \cup B,
                        NEW k \in 1 .. Len(items), k <= m + PageSize, items[k] = x
                 PROVE  k <= m
      BY <1>5, <1>7, <1>8 DEF Skipped, C, m
    <3> QED
      BY <1>1, <1>2, <1>9
  <2>2. IsFiniteSet(Skipped(r, items)) /\ Cardinality(Skipped(r, items)) \in Nat
    <3>1. Skipped(r, items) \subseteq Items
      BY <1>1 DEF Skipped
    <3> QED
      BY <3>1, ItemsFinite, FewerThan
  <2>3. Cardinality(Skipped(r, items)) <= r.removed
    BY DEF ReadSound
  <2> QED
    BY <1>1, <2>1, <2>2, <2>3, FewerThan
<1>11. Again(c) + Cardinality(Ahead(d, items)) <= r.inserted /\ Cardinality(Ahead(d, items)) \in Nat
       /\ Again(c) \in Int
  <2> DEFINE U == C \cap B
             V == Ahead(d, items)
             W == Ahead(r, items)
  <2>1. U \subseteq W
    <3> SUFFICES ASSUME NEW x \in C, NEW k \in 1 .. Len(batch), x = batch[k]
                 PROVE  x \in W
      BY <1>5
    <3>1. m + k \in 1 .. Len(items) /\ items[m + k] = x /\ m + k > m
      BY <1>2, <1>3
    <3> QED
      BY <3>1 DEF Ahead, C, m
  <2>2. V \subseteq W /\ V \cap U = {}
    <3> SUFFICES ASSUME NEW x \in V PROVE x \notin B /\ x \in W
      BY Zenon
    <3>1. x \in C \cup B /\ \E k \in 1 .. Len(items) : k > m + PageSize /\ items[k] = x
      BY <1>5, <1>7, <1>8 DEF Ahead
    <3>2. PICK k \in 1 .. Len(items) : k > m + PageSize /\ items[k] = x
      BY <3>1
    <3>3. x \notin B
      <4> SUFFICES ASSUME NEW j \in 1 .. Len(batch), x = batch[j] PROVE FALSE
        BY <1>5
      <4>1. m + j \in 1 .. Len(items) /\ items[m + j] = items[k] /\ j <= PageSize
        BY <1>p, <1>3, <3>2
      <4>2. m + j = k
        BY <4>1 DEF CollectionSound, Distinct
      <4>3. j \in Nat /\ m \in Nat /\ PageSize \in Nat
        BY <1>2, <1>3
      <4> QED
        BY <3>2, <4>1, <4>2, <4>3
    <3>4. k > m
      BY <1>2, <3>2
    <3>5. x \in C
      BY <3>1, <3>3
    <3> QED
      BY <3>2, <3>3, <3>4, <3>5 DEF Ahead, C, m
  <2>3. W \subseteq C
    BY DEF Ahead, C
  <2> HIDE DEF V, W
  <2>4. /\ IsFiniteSet(W) /\ Cardinality(W) \in Nat
        /\ IsFiniteSet(U) /\ Cardinality(U) \in Nat
        /\ IsFiniteSet(V) /\ Cardinality(V) \in Nat
        /\ IsFiniteSet(U \cup V) /\ Cardinality(U \cup V) <= Cardinality(W)
    <3>1. U \subseteq C /\ V \subseteq C /\ U \cup V \subseteq W
      BY <2>1, <2>2, <2>3
    <3>2. IsFiniteSet(W) /\ Cardinality(W) \in Nat
      BY <1>5, <2>3, FewerThan
    <3>3. IsFiniteSet(U) /\ Cardinality(U) \in Nat
      BY <1>5, <3>1, FewerThan
    <3>4. IsFiniteSet(V) /\ Cardinality(V) \in Nat
      BY <1>5, <3>1, FewerThan
    <3>5. IsFiniteSet(U \cup V) /\ Cardinality(U \cup V) <= Cardinality(W)
      BY <3>1, <3>2, FewerThan
    <3> QED
      BY <3>2, <3>3, <3>4, <3>5
  <2>5. Cardinality(U \cup V) = Cardinality(U) + Cardinality(V)
    <3>1. Cardinality(U \cup V) = Cardinality(U) + Cardinality(V) - Cardinality(U \cap V)
      BY <2>4, FS_Union
    <3>2. Cardinality(U \cap V) = 0
      BY <2>2, FS_EmptySet
    <3> QED
      BY <2>4, <3>1, <3>2
  <2>6. Cardinality(C \cup B) = Cardinality(C) + Cardinality(B) - Cardinality(U)
    BY <1>5, FS_Union
  <2>7. Again(c) = Again(r.collected) + Cardinality(U)
    <3>1. Again(c) = Len(c) - Cardinality(C \cup B) /\ Again(r.collected) = Len(r.collected) - Cardinality(C)
      BY <1>5 DEF Again, C
    <3>2. Len(c) = Len(r.collected) + Len(batch) /\ Len(r.collected) \in Nat /\ Len(batch) \in Nat
      BY <1>3, <1>4
    <3>3. Cardinality(B) = Len(batch) /\ Cardinality(C) \in Nat /\ Cardinality(U) \in Nat
      BY <1>5, <1>6, <2>4
    <3> HIDE DEF U
    <3> QED
      BY <2>6, <3>1, <3>2, <3>3
  <2>8. Again(r.collected) + Cardinality(W) <= r.inserted
    BY DEF ReadSound, W
  <2>9. Again(r.collected) \in Int
    BY <1>4, <1>5 DEF Again, C
  <2> HIDE DEF U
  <2>10. Again(c) + Cardinality(V) <= r.inserted /\ Again(c) \in Int
    BY <1>1, <2>4, <2>5, <2>7, <2>8, <2>9
  <2> QED
    BY <2>4, <2>10 DEF V
<1>12. /\ r.page <= Len(r.collected) /\ Len(r.collected) <= Cardinality(Items)
       /\ Len(r.collected) <= m
       /\ r.there \subseteq ToSet(items) /\ C \subseteq ToSet(items) \cup gone
  BY DEF ReadSound, C, m
<1>13. B \subseteq ToSet(items)
  BY <1>3, <1>5, CollectionFacts
<1>14. d.page <= Cardinality(Items) + 1
  BY <1>1, <1>4, <1>7, <1>12, ItemsFinite
<1>15. Len(c) <= m + PageSize
  BY <1>1, <1>2, <1>3, <1>4, <1>12
<1>16. total \in Nat /\ total >= Len(items) /\ total <= Len(items) + 1
  BY <1>1 DEF Totals
<1>17. CASE More(batch, c, total)
  <2>1. batch # <<>> /\ Len(c) < total
    BY <1>17 DEF More
  <2>2. Len(batch) >= 1
    BY <1>3, <2>1
  <2>3. Len(items) \in Nat /\ Len(items) <= Cardinality(Items) /\ Cardinality(Items) \in Nat
    BY CollectionFacts, ItemsFinite
  <2>4. r.page + 1 <= Len(c)
    <3>1. r.page \in Nat /\ r.page <= Len(r.collected) /\ Len(batch) \in Nat
      BY <1>1, <1>3, <1>12
    <3> QED
      BY <1>4, <2>2, <3>1
  <2>5. Len(c) <= Cardinality(Items)
    <3>1. Len(c) \in Nat
      BY <1>4, LenProperties
    <3> QED
      BY <1>16, <2>1, <2>3, <3>1
  <2> QED
    BY <1>5, <1>7, <1>8, <1>10, <1>11, <1>12, <1>13, <1>14, <1>15, <1>17, <2>4, <2>5 DEF ReadSound
<1>18. CASE ~More(batch, c, total)
  <2>1. batch = <<>> \/ Len(c) >= total
    BY <1>3, <1>4, <1>16, <1>18 DEF More
  <2>2. m + PageSize >= Len(items)
    <3>1. CASE batch = <<>>
      <4>1. Len(batch) = 0 /\ PageSize > 0
        BY <3>1, <1>2
      <4> QED
        BY <1>p, <4>1
    <3>2. CASE Len(c) >= total
      <4>1. Len(c) \in Nat /\ Len(items) \in Nat
        BY <1>1, <1>4, LenProperties
      <4> QED
        BY <1>2, <1>15, <1>16, <3>2, <4>1
    <3> QED
      BY <2>1, <3>1, <3>2
  <2>3. r.there \ ToSet(c) \subseteq Skipped(d, items)
    <3> SUFFICES ASSUME NEW x \in r.there, x \notin ToSet(c) PROVE x \in Skipped(d, items)
      OBVIOUS
    <3>1. PICK k \in 1 .. Len(items) : x = items[k]
      BY <1>12, CollectionFacts
    <3>2. k <= Mark(d)
      BY <1>1, <1>2, <1>8, <2>2
    <3> QED
      BY <1>7, <3>1, <3>2 DEF Skipped
  <2>4. Cardinality(r.there \ ToSet(c)) <= r.removed
    <3>1. Skipped(d, items) \subseteq Items
      BY <1>1, <1>7 DEF Skipped
    <3>2. IsFiniteSet(Skipped(d, items))
      BY <3>1, ItemsFinite, FewerThan
    <3>3. /\ Cardinality(r.there \ ToSet(c)) \in Nat
          /\ Cardinality(r.there \ ToSet(c)) <= Cardinality(Skipped(d, items))
      BY <2>3, <3>2, FewerThan
    <3> QED
      BY <1>1, <1>10, <3>3
  <2>5. Again(c) <= r.inserted
    BY <1>1, <1>11
  <2> QED
    BY <1>7, <1>14, <1>18, <2>4, <2>5 DEF ReadSound
<1> QED
  BY <1>7, <1>17, <1>18

(* The next turn of the paging loop yields a cursor, and a sound one. *)
LEMMA PageSound ==
    ASSUME CollectionSound, NEW r \in Cursor, r.stage = "page", ReadSound(r, items, gone),
           NEW total \in Totals, NEW batch, batch = PageAt(r.page),
           NEW c, c = r.collected \o batch, NEW d,
           d = [r EXCEPT !.collected = c, !.page = @ + 1,
                         !.stage = IF More(batch, c, total) THEN "page" ELSE "done"]
    PROVE  d \in Cursor /\ ReadSound(d, items, gone)
<1>1. r.page \in Nat /\ r.collected \in Seq(Items)
  BY DEF Cursor
<1>2. c \in Seq(Items)
  <2>1. items \in Seq(Items) /\ r.page * PageSize \in Nat
    BY <1>1, PageSizeAssumption DEF CollectionSound
  <2>2. batch \in Seq(Items)
    BY <2>1, FromItems DEF PageAt
  <2> QED
    BY <1>1, <2>2, ConcatProperties, Zenon
<1>3. /\ d.page = r.page + 1 /\ d.collected = c /\ d.there = r.there
      /\ d.removed = r.removed /\ d.inserted = r.inserted
      /\ d.stage = IF More(batch, c, total) THEN "page" ELSE "done"
      /\ d \in Cursor
  <2> DEFINE stage == IF More(batch, c, total) THEN "page" ELSE "done"
  <2>1. stage \in {"page", "done"}
    OBVIOUS
  <2> HIDE DEF stage
  <2>2. d = [r EXCEPT !.collected = c, !.page = @ + 1, !.stage = stage]
    BY DEF stage
  <2>3. d \in Cursor
    <3>1. d = [[[r EXCEPT !.collected = c] EXCEPT !.page = r.page + 1] EXCEPT !.stage = stage]
      BY <2>2
    <3>2. r.page + 1 \in Nat /\ stage \in {"off", "whole", "page", "done", "failed"}
      BY <1>1, <2>1
    <3>3. [r EXCEPT !.collected = c] \in Cursor
      BY <1>2, CursorFields, Zenon
    <3>4. [[r EXCEPT !.collected = c] EXCEPT !.page = r.page + 1] \in Cursor
      BY <3>2, <3>3, CursorFields, Zenon
    <3>5. [[[r EXCEPT !.collected = c] EXCEPT !.page = r.page + 1] EXCEPT !.stage = stage] \in Cursor
      BY <3>2, <3>4, CursorFields, Zenon
    <3> QED
      BY <3>1, <3>5, Zenon
  <2> QED
    BY <2>2, <2>3 DEF Cursor, stage
<1>4. NextCursor(d, r, batch, c, total)
  BY <1>3, Zenon DEF NextCursor
<1> QED
  BY <1>3, <1>4, PageCounts, Zenon

(* A listing begins; and its bare request is answered.                      *)
LEMMA OffSound == Off \in Cursor /\ \A s, g : ReadSound(Off, s, g)
<1>1. Off \in Cursor
  <2>1. <<>> \in Seq(Items)
    OBVIOUS
  <2> QED
    BY <2>1, Zenon DEF Off, Cursor
<1> QED
  BY <1>1, ItemsFinite DEF Off, ReadSound

(* A cursor that is opened is sound. *)
LEMMA OpenedSound ==
    ASSUME CollectionSound, NEW t
    PROVE  Opened(t) \in Cursor /\ ReadSound(Opened(t), items, gone)
<1> DEFINE stage == IF service = "vks" THEN "page" ELSE "whole"
           d == [Off EXCEPT !.stage = stage, !.there = ToSet(items)]
<1>1. d = [[Off EXCEPT !.stage = stage] EXCEPT !.there = ToSet(items)] /\ d = Opened(t)
  BY DEF Opened
<1>2. stage \in {"page", "whole"}
  OBVIOUS
<1> HIDE DEF stage
<1>3. stage \in {"off", "whole", "page", "done", "failed"} /\ ToSet(items) \in SUBSET Items
  BY <1>2, CollectionFacts
<1>4. d \in Cursor
  BY <1>1, <1>3, CursorFields, OffSound, Zenon
<1>5. /\ d.stage = stage /\ d.page = 0 /\ d.collected = <<>> /\ d.there = ToSet(items)
      /\ d.removed = 0 /\ d.inserted = 0
  BY DEF Off
<1> HIDE DEF d
<1>6. Mark(d) = 0
  BY <1>5, PageSizeAssumption DEF Mark
<1>7. ToSet(<<>>) = {} /\ Cardinality({}) = 0 /\ Len(<<>>) = 0
  BY FS_EmptySet DEF ToSet
<1>8. Skipped(d, items) = {} /\ Ahead(d, items) = {} /\ Again(d.collected) = 0
  <2>1. Skipped(d, items) = {}
    BY <1>5, <1>6 DEF Skipped
  <2>2. Ahead(d, items) = {}
    BY <1>5, <1>7 DEF Ahead
  <2>3. Again(d.collected) = 0
    BY <1>5, <1>7 DEF Again
  <2> QED
    BY <2>1, <2>2, <2>3
<1>9. ReadSound(d, items, gone)
  BY <1>2, <1>5, <1>6, <1>7, <1>8, ItemsFinite DEF ReadSound
<1> QED
  BY <1>1, <1>4, <1>9

(* A cursor that has its first answer is sound. *)
LEMMA FirstSound ==
    ASSUME CollectionSound, NEW r \in Cursor, r.stage = "whole", ReadSound(r, items, gone),
           NEW answer \in {items, PageAt(0)}, NEW total \in Totals, NEW d,
           d = IF Len(answer) >= total THEN [r EXCEPT !.stage = "done", !.collected = answer]
                                       ELSE [r EXCEPT !.stage = "page"]
    PROVE  d \in Cursor /\ ReadSound(d, items, gone)
<1> USE PageSizeAssumption
<1>1. /\ r.there \subseteq ToSet(items) /\ r.page = 0 /\ r.collected = <<>>
      /\ r.removed \in Nat /\ r.inserted \in Nat /\ r.page <= Cardinality(Items) + 1
  BY DEF ReadSound, Cursor
<1>2. total \in Nat /\ total >= Len(items) /\ Len(items) \in Nat
  BY CollectionFacts DEF Totals
<1>3. ToSet(<<>>) = {} /\ Cardinality({}) = 0 /\ Len(<<>>) = 0
  BY FS_EmptySet DEF ToSet
<1>4. CASE Len(answer) >= total
  <2>1. answer \in Seq(Items) /\ answer = items
    <3>1. CASE answer = items
      BY <3>1 DEF CollectionSound
    <3>2. CASE answer = PageAt(0)
      <4>1. answer = From(0)
        BY <3>2 DEF PageAt
      <4>2. /\ answer \in Seq(Items)
            /\ Len(answer) = IF 0 >= Len(items) THEN 0
                             ELSE IF 0 + PageSize <= Len(items) THEN PageSize ELSE Len(items) - 0
            /\ \A k \in 1 .. Len(answer) : 0 + k \in 1 .. Len(items) /\ answer[k] = items[0 + k]
        BY <4>1, FromItems DEF CollectionSound
      <4>3. Len(answer) = Len(items)
        BY <1>2, <1>4, <4>2
      <4>4. \A k \in 1 .. Len(answer) : answer[k] = items[k]
        BY <4>2
      <4> QED
        BY <4>2, <4>3, <4>4, SeqEqual DEF CollectionSound
    <3> QED
      BY <3>1, <3>2
  <2>2. d = [[r EXCEPT !.stage = "done"] EXCEPT !.collected = answer]
    BY <1>4
  <2>3. d \in Cursor
    <3>1. [r EXCEPT !.stage = "done"] \in Cursor
      BY CursorFields
    <3>2. [[r EXCEPT !.stage = "done"] EXCEPT !.collected = answer] \in Cursor
      BY <2>1, <3>1, CursorFields, Zenon
    <3> QED
      BY <2>2, <3>2, Zenon
  <2>4. /\ d.stage = "done" /\ d.page = 0 /\ d.collected = items /\ d.there = r.there
        /\ d.removed = r.removed /\ d.inserted = r.inserted
    BY <1>1, <2>1, <2>2 DEF Cursor
  <2>5. r.there \ ToSet(items) = {}
    BY <1>1
  <2>6. Again(items) = 0
    BY <1>2, ToSetFinite DEF CollectionSound, Again
  <2> QED
    <3>1. /\ Cardinality(d.there \ ToSet(d.collected)) <= d.removed
          /\ Again(d.collected) <= d.inserted
      <4>1. d.there \ ToSet(d.collected) = {}
        BY <2>4, <2>5, Zenon
      <4>2. Cardinality(d.there \ ToSet(d.collected)) = 0
        BY <1>3, <4>1, Zenon
      <4>3. Again(d.collected) = 0 /\ d.removed \in Nat /\ d.inserted \in Nat
        BY <1>1, <2>4, <2>6
      <4> QED
        BY <4>2, <4>3
    <3>2. d.page <= Cardinality(Items) + 1
      BY <2>4, ItemsFinite
    <3> QED
      BY <2>3, <2>4, <3>1, <3>2 DEF ReadSound
<1>5. CASE ~ (Len(answer) >= total)
  <2>1. d = [r EXCEPT !.stage = "page"]
    BY <1>5
  <2>2. d \in Cursor
    BY <2>1, CursorFields, Zenon
  <2>3. /\ d.stage = "page" /\ d.page = 0 /\ d.collected = <<>> /\ d.there = r.there
        /\ d.removed = r.removed /\ d.inserted = r.inserted
    BY <1>1, <2>1 DEF Cursor
  <2>4. Mark(d) = 0
    BY <2>3 DEF Mark
  <2>5. Skipped(d, items) = {}
    BY <2>4 DEF Skipped
  <2>6. Ahead(d, items) = {}
    BY <1>3, <2>3 DEF Ahead
  <2>7. Again(d.collected) = 0
    BY <1>3, <2>3 DEF Again
  <2> QED
    <3>1. /\ Cardinality(Skipped(d, items)) <= d.removed
          /\ Again(d.collected) + Cardinality(Ahead(d, items)) <= d.inserted
      <4>1. Cardinality(Skipped(d, items)) = 0 /\ Cardinality(Ahead(d, items)) = 0
        BY <1>3, <2>5, <2>6, Zenon
      <4>2. d.removed \in Nat /\ d.inserted \in Nat
        BY <1>1, <2>3
      <4> QED
        BY <2>7, <4>1, <4>2
    <3>2. /\ d.page <= Cardinality(Items) + 1 /\ d.page <= Len(d.collected)
          /\ Len(d.collected) <= Cardinality(Items) /\ Len(d.collected) <= Mark(d)
      BY <1>3, <2>3, <2>4, ItemsFinite
    <3>3. d.there \subseteq ToSet(items) /\ ToSet(d.collected) \subseteq ToSet(items) \cup gone
      BY <1>1, <1>3, <2>3
    <3> QED
      BY <2>2, <2>3, <3>1, <3>2, <3>3 DEF ReadSound
<1> QED
  BY <1>4, <1>5

-----------------------------------------------------------------------------
(* The collection changes.                                                  *)
LEMMA CollectionInsert ==
    ASSUME CollectionSound, NEW i \in Items, i \notin ToSet(items) \cup gone,
           NEW n \in 1 .. Len(items) + 1, NEW s, s = InsertAt(items, n, i)
    PROVE  /\ s \in Seq(Items) /\ Distinct(s) /\ Len(s) = Len(items) + 1
           /\ \A k \in 1 .. Len(s) :
                s[k] = IF k < n THEN items[k] ELSE IF k = n THEN i ELSE items[k - 1]
           /\ ToSet(items) \subseteq ToSet(s) /\ ToSet(s) \cap gone = {}
<1>1. /\ items \in Seq(Items) /\ Len(items) \in Nat /\ n \in Nat
      /\ \A k \in 1 .. Len(items) : items[k] # i
      /\ ToSet(items) = {items[k] : k \in 1 .. Len(items)} /\ ToSet(items) \cap gone = {}
  BY CollectionFacts DEF CollectionSound
<1>2. /\ s \in Seq(Items) /\ Len(s) = Len(items) + 1
      /\ \A k \in 1 .. Len(s) :
           s[k] = IF k < n THEN items[k] ELSE IF k = n THEN i ELSE items[k - 1]
  <2>1. /\ InsertAt(items, n, i) \in Seq(Items)
        /\ Len(InsertAt(items, n, i)) = Len(items) + 1
        /\ \A k \in 1 .. Len(items) + 1 : InsertAt(items, n, i)[k] =
             IF k < n THEN items[k] ELSE IF k = n THEN i ELSE items[k - 1]
    <3>1. items \in Seq(Items)
      BY <1>1
    <3> QED
      BY <3>1, InsertAtItems
  <2> QED
    BY <2>1
<1>3. ToSet(s) = {s[k] : k \in 1 .. Len(s)}
  BY DEF ToSet
<1>4. Distinct(s)
  <2> SUFFICES ASSUME NEW j \in 1 .. Len(s), NEW k \in 1 .. Len(s), s[j] = s[k], j < k PROVE FALSE
    BY <1>1, <1>2 DEF Distinct
  <2>1. /\ j # n => s[j] = items[IF j < n THEN j ELSE j - 1] /\ (IF j < n THEN j ELSE j - 1) \in 1 .. Len(items)
        /\ k # n => s[k] = items[IF k < n THEN k ELSE k - 1] /\ (IF k < n THEN k ELSE k - 1) \in 1 .. Len(items)
        /\ j = n => s[j] = i
        /\ k = n => s[k] = i
    BY <1>1, <1>2
  <2>2. CASE j = n \/ k = n
    BY <1>1, <2>1, <2>2
  <2>3. CASE j # n /\ k # n
    <3>1. (IF j < n THEN j ELSE j - 1) = (IF k < n THEN k ELSE k - 1)
      BY <2>1, <2>3 DEF CollectionSound, Distinct
    <3> QED
      BY <1>1, <2>3, <3>1
  <2> QED
    BY <2>2, <2>3
<1>5. ASSUME NEW x \in ToSet(items) PROVE x \in ToSet(s)
  <2>1. PICK k \in 1 .. Len(items) : x = items[k]
    BY <1>1
  <2>2. /\ k < n => k \in 1 .. Len(s) /\ s[k] = x
        /\ ~ (k < n) => k + 1 \in 1 .. Len(s) /\ s[k + 1] = x
    BY <1>1, <1>2, <2>1
  <2> QED
    BY <1>3, <2>2
<1>6. ASSUME NEW x \in ToSet(s) PROVE x \in ToSet(items) \/ x = i
  <2>1. PICK k \in 1 .. Len(s) : x = s[k]
    BY <1>3
  <2>2. \/ x = i
        \/ k < n /\ k \in 1 .. Len(items) /\ x = items[k]
        \/ k - 1 \in 1 .. Len(items) /\ x = items[k - 1]
    <3>1. CASE k < n
      BY <1>1, <1>2, <2>1, <3>1
    <3>2. CASE k = n
      BY <1>1, <1>2, <2>1, <3>2
    <3>3. CASE k > n
      <4>1. ~ (k < n) /\ k # n /\ s[k] = items[k - 1]
        BY <1>1, <1>2, <3>3
      <4>2. k - 1 \in 1 .. Len(items)
        BY <1>1, <1>2, <3>3
      <4> QED
        BY <2>1, <4>1, <4>2
    <3> QED
      BY <1>1, <3>1, <3>2, <3>3
  <2> QED
    BY <1>1, <2>2
<1> QED
  BY <1>1, <1>2, <1>4, <1>5, <1>6

(* The collection after a removal: one item less, the later ones moved     *)
(* up.                                                                     *)
LEMMA CollectionDelete ==
    ASSUME CollectionSound, NEW n \in 1 .. Len(items), NEW s, s = RemoveAt(items, n)
    PROVE  /\ s \in Seq(Items) /\ Distinct(s) /\ Len(s) = Len(items) - 1 /\ items[n] \in Items
           /\ \A k \in 1 .. Len(s) : s[k] = IF k < n THEN items[k] ELSE items[k + 1]
           /\ ToSet(s) = ToSet(items) \ {items[n]}
<1>1. /\ items \in Seq(Items) /\ Len(items) \in Nat /\ n \in Nat /\ items[n] \in Items
      /\ ToSet(items) = {items[k] : k \in 1 .. Len(items)}
      /\ \A j, k \in 1 .. Len(items) : items[j] = items[k] => j = k
  BY CollectionFacts DEF CollectionSound, Distinct
<1>2. /\ s \in Seq(Items) /\ Len(s) = Len(items) - 1
      /\ \A k \in 1 .. Len(s) : s[k] = IF k < n THEN items[k] ELSE items[k + 1]
  <2>1. /\ RemoveAt(items, n) \in Seq(Items)
        /\ Len(RemoveAt(items, n)) = Len(items) - 1
        /\ \A k \in 1 .. Len(items) - 1 : RemoveAt(items, n)[k] =
             IF k < n THEN items[k] ELSE items[k + 1]
    <3>1. items \in Seq(Items)
      BY <1>1
    <3> QED
      BY <3>1, RemoveAtItems
  <2> QED
    BY <2>1
<1>3. ToSet(s) = {s[k] : k \in 1 .. Len(s)}
  BY DEF ToSet
<1>4. Distinct(s)
  <2> SUFFICES ASSUME NEW j \in 1 .. Len(s), NEW k \in 1 .. Len(s), s[j] = s[k], j < k PROVE FALSE
    BY <1>1, <1>2 DEF Distinct
  <2>1. /\ s[j] = items[IF j < n THEN j ELSE j + 1] /\ (IF j < n THEN j ELSE j + 1) \in 1 .. Len(items)
        /\ s[k] = items[IF k < n THEN k ELSE k + 1] /\ (IF k < n THEN k ELSE k + 1) \in 1 .. Len(items)
    BY <1>1, <1>2
  <2>2. (IF j < n THEN j ELSE j + 1) = (IF k < n THEN k ELSE k + 1)
    BY <1>1, <2>1
  <2> QED
    BY <1>1, <2>2
<1>5. ASSUME NEW x \in ToSet(items), x # items[n] PROVE x \in ToSet(s)
  <2>1. PICK k \in 1 .. Len(items) : x = items[k]
    BY <1>1
  <2>2. /\ k < n => k \in 1 .. Len(s) /\ s[k] = x
        /\ k > n => k - 1 \in 1 .. Len(s) /\ s[k - 1] = x
    BY <1>1, <1>2, <2>1
  <2> QED
    BY <1>1, <1>3, <1>5, <2>1, <2>2
<1>6. ASSUME NEW x \in ToSet(s) PROVE x \in ToSet(items) /\ x # items[n]
  <2>1. PICK k \in 1 .. Len(s) : x = s[k]
    BY <1>3
  <2>2. \E j \in 1 .. Len(items) : j # n /\ x = items[j]
    <3>1. CASE k < n
      BY <1>1, <1>2, <2>1, <3>1
    <3>2. CASE ~ (k < n)
      <4>1. k + 1 \in 1 .. Len(items) /\ k + 1 # n /\ x = items[k + 1]
        BY <1>1, <1>2, <2>1, <3>2
      <4> QED
        BY <4>1
    <3> QED
      BY <3>1, <3>2
  <2> QED
    BY <1>1, <2>2
<1> QED
  BY <1>1, <1>2, <1>4, <1>5, <1>6

(* An insertion moves at most one collected item behind the cursor.         *)
LEMMA InsertSound ==
    ASSUME CollectionSound, NEW i \in Items, i \notin ToSet(items) \cup gone,
           NEW n \in 1 .. Len(items) + 1, NEW s, s = InsertAt(items, n, i),
           NEW r \in Cursor, r.stage \in {"whole", "page"}, ReadSound(r, items, gone),
           NEW d, d = [r EXCEPT !.inserted = @ + 1]
    PROVE  d \in Cursor /\ ReadSound(d, s, gone)
<1> USE PageSizeAssumption
<1>1. /\ r.page \in Nat /\ r.collected \in Seq(Items) /\ r.there \subseteq Items
      /\ r.removed \in Nat /\ r.inserted \in Nat /\ Mark(r) \in Nat
  BY DEF Cursor, Mark
<1>2. d \in Cursor
  <2>1. r.inserted + 1 \in Nat
    BY <1>1
  <2> QED
    BY <2>1, CursorFields, Zenon
<1>3. /\ d.stage = r.stage /\ d.page = r.page /\ d.collected = r.collected /\ d.there = r.there
      /\ d.removed = r.removed /\ d.inserted = r.inserted + 1 /\ Mark(d) = Mark(r)
  BY DEF Cursor, Mark
<1>4. /\ s \in Seq(Items) /\ Len(s) = Len(items) + 1 /\ Len(items) \in Nat
      /\ \A k \in 1 .. Len(s) :
           s[k] = IF k < n THEN items[k] ELSE IF k = n THEN i ELSE items[k - 1]
      /\ ToSet(items) \subseteq ToSet(s)
  BY CollectionInsert, CollectionFacts
<1>5. CASE r.stage = "whole"
  BY <1>2, <1>3, <1>4, <1>5 DEF ReadSound
<1>6. CASE r.stage = "page"
  <2>1. /\ r.there \subseteq ToSet(items) /\ ToSet(r.collected) \subseteq ToSet(items) \cup gone
        /\ r.page <= Len(r.collected) /\ Len(r.collected) <= Cardinality(Items)
        /\ Len(r.collected) <= Mark(r) /\ r.page <= Cardinality(Items) + 1
        /\ Cardinality(Skipped(r, items)) <= r.removed
        /\ Again(r.collected) + Cardinality(Ahead(r, items)) <= r.inserted
    BY <1>6 DEF ReadSound
  <2>2. /\ IsFiniteSet(ToSet(r.collected)) /\ Cardinality(ToSet(r.collected)) \in Nat
        /\ Len(r.collected) \in Nat
    BY <1>1, ToSetFinite, LenProperties
  <2>3. Cardinality(Skipped(d, s)) <= r.removed
    <3>1. Skipped(d, s) \subseteq Skipped(r, items)
      <4> SUFFICES ASSUME NEW x \in r.there, NEW k \in 1 .. Len(s), k <= Mark(r), s[k] = x
                   PROVE  \E j \in 1 .. Len(items) : j <= Mark(r) /\ items[j] = x
        BY <1>3 DEF Skipped
      <4>1. x # i
        BY <2>1
      <4>2. \/ k < n /\ k \in 1 .. Len(items) /\ items[k] = x
            \/ k - 1 \in 1 .. Len(items) /\ items[k - 1] = x /\ k - 1 <= Mark(r)
        BY <1>1, <1>4, <4>1
      <4> QED
        BY <4>2
    <3>2. Skipped(r, items) \subseteq Items
      BY <1>1 DEF Skipped
    <3>3. IsFiniteSet(Skipped(r, items)) /\ Cardinality(Skipped(r, items)) \in Nat
      BY <3>2, ItemsFinite, FewerThan
    <3>4. Cardinality(Skipped(d, s)) \in Nat /\ Cardinality(Skipped(d, s)) <= Cardinality(Skipped(r, items))
      BY <3>1, <3>3, FewerThan
    <3> QED
      BY <1>1, <2>1, <3>3, <3>4
  <2>4. Again(r.collected) + Cardinality(Ahead(d, s)) <= r.inserted + 1
    <3> DEFINE y == items[Mark(r)]
    <3>1. Ahead(d, s) \subseteq Ahead(r, items) \cup {y}
      <4> SUFFICES ASSUME NEW x \in ToSet(r.collected), NEW k \in 1 .. Len(s), k > Mark(r), s[k] = x
                   PROVE  x = y \/ \E j \in 1 .. Len(items) : j > Mark(r) /\ items[j] = x
        BY <1>3 DEF Ahead
      <4>1. x # i
        BY <2>1
      <4>2. \/ k < n /\ k \in 1 .. Len(items) /\ items[k] = x
            \/ k - 1 \in 1 .. Len(items) /\ items[k - 1] = x
        BY <1>1, <1>4, <4>1
      <4>3. k - 1 = Mark(r) \/ k - 1 > Mark(r)
        <5>1. k \in Nat /\ Mark(r) \in Nat /\ k > Mark(r)
          BY <1>1
        <5> QED
          BY <5>1
      <4> QED
        BY <4>2, <4>3
    <3>2. IsFiniteSet(Ahead(r, items)) /\ Cardinality(Ahead(r, items)) \in Nat
      <4>1. Ahead(r, items) \subseteq ToSet(r.collected)
        BY DEF Ahead
      <4> QED
        BY <2>2, <4>1, FewerThan
    <3>3. /\ IsFiniteSet(Ahead(r, items) \cup {y})
          /\ Cardinality(Ahead(r, items) \cup {y}) <= Cardinality(Ahead(r, items)) + 1
      <4>1. /\ IsFiniteSet(Ahead(r, items) \cup {y})
            /\ Cardinality(Ahead(r, items) \cup {y}) =
                 IF y \in Ahead(r, items) THEN Cardinality(Ahead(r, items))
                                       ELSE Cardinality(Ahead(r, items)) + 1
        BY <3>2, FS_AddElement, Zenon
      <4> QED
        BY <3>2, <4>1
    <3>4. /\ Cardinality(Ahead(d, s)) \in Nat
          /\ Cardinality(Ahead(d, s)) <= Cardinality(Ahead(r, items) \cup {y})
          /\ Cardinality(Ahead(r, items) \cup {y}) \in Nat
      BY <3>1, <3>3, FewerThan
    <3>5. Again(r.collected) \in Int
      BY <2>2 DEF Again
    <3> HIDE DEF y
    <3> QED
      BY <1>1, <2>1, <3>2, <3>3, <3>4, <3>5
  <2>5. d.there \subseteq ToSet(s) /\ ToSet(d.collected) \subseteq ToSet(s) \cup gone
    BY <1>3, <1>4, <2>1
  <2> QED
    BY <1>2, <1>3, <1>6, <2>1, <2>3, <2>4, <2>5 DEF ReadSound
<1> QED
  BY <1>5, <1>6

(* A removal moves at most one item across the cursor unread.               *)
LEMMA DeleteSound ==
    ASSUME CollectionSound, NEW n \in 1 .. Len(items), NEW s, s = RemoveAt(items, n),
           NEW g, g = gone \cup {items[n]},
           NEW r \in Cursor, r.stage \in {"whole", "page"}, ReadSound(r, items, gone),
           NEW d, d = [r EXCEPT !.there = @ \ {items[n]}, !.removed = @ + 1]
    PROVE  d \in Cursor /\ ReadSound(d, s, g)
<1> USE PageSizeAssumption
<1>1. /\ r.page \in Nat /\ r.collected \in Seq(Items) /\ r.there \subseteq Items
      /\ r.removed \in Nat /\ r.inserted \in Nat /\ Mark(r) \in Nat
  BY DEF Cursor, Mark
<1>2. d \in Cursor
  <2>1. r.removed + 1 \in Nat /\ r.there \ {items[n]} \in SUBSET Items
    BY <1>1
  <2>2. [r EXCEPT !.there = r.there \ {items[n]}] \in Cursor
    BY <2>1, CursorFields, Zenon
  <2>3. [[r EXCEPT !.there = r.there \ {items[n]}] EXCEPT !.removed = r.removed + 1] \in Cursor
    BY <2>1, <2>2, CursorFields, Zenon
  <2>4. d = [[r EXCEPT !.there = r.there \ {items[n]}] EXCEPT !.removed = r.removed + 1]
    OBVIOUS
  <2> QED
    BY <2>3, <2>4, Zenon
<1>3. /\ d.stage = r.stage /\ d.page = r.page /\ d.collected = r.collected
      /\ d.there = r.there \ {items[n]}
      /\ d.removed = r.removed + 1 /\ d.inserted = r.inserted /\ Mark(d) = Mark(r)
  BY DEF Cursor, Mark
<1>4. /\ s \in Seq(Items) /\ Len(s) = Len(items) - 1 /\ Len(items) \in Nat
      /\ \A k \in 1 .. Len(s) : s[k] = IF k < n THEN items[k] ELSE items[k + 1]
      /\ ToSet(s) = ToSet(items) \ {items[n]}
  BY CollectionDelete, CollectionFacts
<1>5. CASE r.stage = "whole"
  BY <1>2, <1>3, <1>4, <1>5 DEF ReadSound
<1>6. CASE r.stage = "page"
  <2>1. /\ r.there \subseteq ToSet(items) /\ ToSet(r.collected) \subseteq ToSet(items) \cup gone
        /\ r.page <= Len(r.collected) /\ Len(r.collected) <= Cardinality(Items)
        /\ Len(r.collected) <= Mark(r) /\ r.page <= Cardinality(Items) + 1
        /\ Cardinality(Skipped(r, items)) <= r.removed
        /\ Again(r.collected) + Cardinality(Ahead(r, items)) <= r.inserted
    BY <1>6 DEF ReadSound
  <2>2. /\ IsFiniteSet(ToSet(r.collected)) /\ Cardinality(ToSet(r.collected)) \in Nat
        /\ Len(r.collected) \in Nat
    BY <1>1, ToSetFinite, LenProperties
  <2>3. Cardinality(Skipped(d, s)) <= r.removed + 1
    <3> DEFINE y == items[Mark(r) + 1]
    <3>1. Skipped(d, s) \subseteq Skipped(r, items) \cup {y}
      <4> SUFFICES ASSUME NEW x \in r.there, NEW k \in 1 .. Len(s), k <= Mark(r), s[k] = x
                   PROVE  x = y \/ \E j \in 1 .. Len(items) : j <= Mark(r) /\ items[j] = x
        BY <1>3 DEF Skipped
      <4>1. \/ k < n /\ k \in 1 .. Len(items) /\ items[k] = x
            \/ k + 1 \in 1 .. Len(items) /\ items[k + 1] = x
        BY <1>1, <1>4
      <4>2. k + 1 = Mark(r) + 1 \/ k + 1 <= Mark(r)
        BY <1>1
      <4> QED
        BY <4>1, <4>2
    <3>2. IsFiniteSet(Skipped(r, items)) /\ Cardinality(Skipped(r, items)) \in Nat
      <4>1. Skipped(r, items) \subseteq Items
        BY <1>1 DEF Skipped
      <4> QED
        BY <4>1, ItemsFinite, FewerThan
    <3>3. /\ IsFiniteSet(Skipped(r, items) \cup {y})
          /\ Cardinality(Skipped(r, items) \cup {y}) <= Cardinality(Skipped(r, items)) + 1
      <4>1. /\ IsFiniteSet(Skipped(r, items) \cup {y})
            /\ Cardinality(Skipped(r, items) \cup {y}) =
                 IF y \in Skipped(r, items) THEN Cardinality(Skipped(r, items))
                                       ELSE Cardinality(Skipped(r, items)) + 1
        BY <3>2, FS_AddElement, Zenon
      <4> QED
        BY <3>2, <4>1
    <3>4. /\ Cardinality(Skipped(d, s)) \in Nat
          /\ Cardinality(Skipped(d, s)) <= Cardinality(Skipped(r, items) \cup {y})
          /\ Cardinality(Skipped(r, items) \cup {y}) \in Nat
      BY <3>1, <3>3, FewerThan
    <3> HIDE DEF y
    <3> QED
      BY <1>1, <2>1, <3>2, <3>3, <3>4
  <2>4. Again(r.collected) + Cardinality(Ahead(d, s)) <= r.inserted
    <3>1. Ahead(d, s) \subseteq Ahead(r, items)
      <4> SUFFICES ASSUME NEW x \in ToSet(r.collected), NEW k \in 1 .. Len(s), k > Mark(r), s[k] = x
                   PROVE  \E j \in 1 .. Len(items) : j > Mark(r) /\ items[j] = x
        BY <1>3 DEF Ahead
      <4>1. k \in Nat /\ n \in Nat /\ Mark(r) \in Nat /\ Len(items) \in Nat
        BY <1>1, <1>4
      <4>2. CASE k < n
        <5>1. k \in 1 .. Len(items) /\ items[k] = x
          BY <1>4, <4>1, <4>2
        <5> QED
          BY <5>1
      <4>3. CASE ~ (k < n)
        <5>1. k + 1 \in 1 .. Len(items) /\ items[k + 1] = x
          BY <1>4, <4>1, <4>3
        <5>2. k + 1 > Mark(r)
          BY <4>1
        <5> QED
          BY <5>1, <5>2
      <4> QED
        BY <4>2, <4>3
    <3>2. IsFiniteSet(Ahead(r, items)) /\ Cardinality(Ahead(r, items)) \in Nat
      <4>1. Ahead(r, items) \subseteq ToSet(r.collected)
        BY DEF Ahead
      <4> QED
        BY <2>2, <4>1, FewerThan
    <3>3. Cardinality(Ahead(d, s)) \in Nat /\ Cardinality(Ahead(d, s)) <= Cardinality(Ahead(r, items))
      BY <3>1, <3>2, FewerThan
    <3>4. Again(r.collected) \in Int
      BY <2>2 DEF Again
    <3> QED
      BY <1>1, <2>1, <3>2, <3>3, <3>4
  <2>5. d.there \subseteq ToSet(s) /\ ToSet(d.collected) \subseteq ToSet(s) \cup g
    BY <1>3, <1>4, <2>1
  <2> QED
    BY <1>2, <1>3, <1>6, <2>1, <2>3, <2>4, <2>5 DEF ReadSound
<1> QED
  BY <1>5, <1>6

-----------------------------------------------------------------------------
(* What is known of the listings, of a call, and of all of it.              *)
ListInv ==
    /\ service \in {"vks", "vserver"}
    /\ CollectionSound
    /\ reads \in [Tasks -> Cursor]
    /\ \A t \in Tasks : ReadSound(reads[t], items, gone)

CallSound(c, r, state) ==
    /\ c.pc # "idle" => c.answer = "none" /\ c.tool # "none"
    /\ c.pc \in {"lookup", "listing", "name"} => c.done = FALSE
    /\ c.answer = "deleted" => c.done = TRUE
    /\ c.answer = "refused" => c.done = FALSE /\ r.collected # <<>>
    /\ c.done = TRUE => state = "gone"

CallsInv ==
    /\ cluster \in {"up", "gone"}
    /\ calls \in [Tasks -> Call]
    /\ \A t \in Tasks : CallSound(calls[t], reads[t], cluster)
    /\ \A t, u \in Tasks : calls[t].done = TRUE /\ calls[u].done = TRUE => t = u

VksInv == ListInv /\ CallsInv

-----------------------------------------------------------------------------
(* The fields of a call. *)
LEMMA CallFields ==
    ASSUME NEW c \in Call
    PROVE  /\ \A v \in {"none", "list_items", "list_nodegroups", "delete_cluster_dryrun",
                        "delete_cluster"} : [c EXCEPT !.tool = v] \in Call
           /\ \A v \in {"idle", "lookup", "listing", "name", "deleting"} : [c EXCEPT !.pc = v] \in Call
           /\ \A v \in BOOLEAN : [c EXCEPT !.done = v] \in Call
           /\ \A v \in {"none", "listed", "preview", "refused", "deleted", "error"} :
                [c EXCEPT !.answer = v] \in Call
<1>1. \A v \in {"none", "list_items", "list_nodegroups", "delete_cluster_dryrun",
                "delete_cluster"} : [c EXCEPT !.tool = v] \in Call
  BY Zenon DEF Call
<1>2. \A v \in {"idle", "lookup", "listing", "name", "deleting"} : [c EXCEPT !.pc = v] \in Call
  BY Zenon DEF Call
<1>3. \A v \in BOOLEAN : [c EXCEPT !.done = v] \in Call
  BY Zenon DEF Call
<1>4. \A v \in {"none", "listed", "preview", "refused", "deleted", "error"} :
        [c EXCEPT !.answer = v] \in Call
  BY Zenon DEF Call
<1> QED
  BY <1>1, <1>2, <1>3, <1>4

(* An idle task's call is one. *)
LEMMA NoCallType == NoCall \in Call
BY Zenon DEF NoCall, Call

(* A step of one listing, and of one call: the others keep what they know.  *)
LEMMA OneRead ==
    ASSUME ListInv, NEW t \in Tasks, NEW d \in Cursor, ReadSound(d, items, gone),
           reads' = [reads EXCEPT ![t] = d], UNCHANGED <<service, items, gone>>
    PROVE  ListInv' /\ reads'[t] = d /\ \A u \in Tasks \ {t} : reads'[u] = reads[u]
<1>1. reads' \in [Tasks -> Cursor] /\ reads'[t] = d /\ \A u \in Tasks \ {t} : reads'[u] = reads[u]
  BY DEF ListInv
<1>2. \A u \in Tasks : ReadSound(reads'[u], items, gone)
  BY <1>1 DEF ListInv
<1>3. CollectionSound'
  BY DEF ListInv, CollectionSound
<1> QED
  BY <1>1, <1>2, <1>3 DEF ListInv

(* What holds of all calls when only one has changed. *)
LEMMA OneCall ==
    ASSUME VksInv, ListInv', NEW t \in Tasks, NEW e \in Call,
           calls' = [calls EXCEPT ![t] = e], cluster' = cluster,
           \A u \in Tasks \ {t} : reads'[u] = reads[u],
           CallSound(e, reads'[t], cluster), e.done = TRUE => calls[t].done = TRUE
    PROVE  VksInv'
<1>1. calls' \in [Tasks -> Call] /\ calls'[t] = e /\ \A u \in Tasks \ {t} : calls'[u] = calls[u]
  BY DEF VksInv, CallsInv
<1>2. \A u \in Tasks : CallSound(calls'[u], reads'[u], cluster)
  BY <1>1 DEF VksInv, CallsInv
<1>3. ASSUME NEW u \in Tasks, NEW v \in Tasks, calls'[u].done = TRUE, calls'[v].done = TRUE
      PROVE  u = v
  <2>1. calls[u].done = TRUE /\ calls[v].done = TRUE
    BY <1>1, <1>3
  <2> QED
    BY <2>1 DEF VksInv, CallsInv
<1>4. CallsInv'
  BY <1>1, <1>2, <1>3 DEF VksInv, CallsInv
<1> QED
  BY <1>4 DEF VksInv

(* A call that answers is still a call. *)
LEMMA CallAnswers ==
    ASSUME VksInv, ListInv', NEW t \in Tasks,
           NEW a \in {"listed", "preview", "refused", "deleted", "error"}, Answers(t, a),
           cluster' = cluster, \A u \in Tasks \ {t} : reads'[u] = reads[u],
           a = "deleted" => calls[t].done = TRUE,
           a = "refused" => calls[t].done = FALSE /\ reads'[t].collected # <<>>
    PROVE  VksInv'
<1> DEFINE c == calls[t]
           e == [[c EXCEPT !.pc = "idle"] EXCEPT !.answer = a]
<1>1. c \in Call /\ CallSound(c, reads[t], cluster)
  BY DEF VksInv, CallsInv
<1>2. calls' = [calls EXCEPT ![t] = e]
  BY DEF Answers, VksInv, CallsInv
<1>3. e \in Call
  <2>1. [c EXCEPT !.pc = "idle"] \in Call
    BY <1>1, CallFields, Zenon
  <2> QED
    BY <2>1, CallFields, Zenon
<1>4. e.pc = "idle" /\ e.answer = a /\ e.done = c.done /\ e.tool = c.tool
  BY <1>1 DEF Call
<1> HIDE DEF e
<1>5. CallSound(e, reads'[t], cluster)
  BY <1>1, <1>4 DEF CallSound
<1> QED
  BY <1>2, <1>3, <1>4, <1>5, OneCall

(* A call that goes on to its next await is still a call. *)
LEMMA CallAwaits ==
    ASSUME VksInv, ListInv', NEW t \in Tasks, NEW pc \in {"listing", "name", "deleting"},
           Awaits(t, pc), calls[t].pc \in {"lookup", "listing"},
           cluster' = cluster, \A u \in Tasks \ {t} : reads'[u] = reads[u]
    PROVE  VksInv'
<1> DEFINE c == calls[t]
           e == [c EXCEPT !.pc = pc]
<1>1. c \in Call /\ CallSound(c, reads[t], cluster)
  BY DEF VksInv, CallsInv
<1>2. calls' = [calls EXCEPT ![t] = e]
  BY DEF Awaits, VksInv, CallsInv
<1>3. e \in Call
  BY <1>1, CallFields, Zenon
<1>4. e.pc = pc /\ e.answer = c.answer /\ e.done = c.done /\ e.tool = c.tool
  BY <1>1 DEF Call
<1> HIDE DEF e
<1>5. CallSound(e, reads'[t], cluster)
  BY <1>1, <1>4 DEF CallSound
<1> QED
  BY <1>2, <1>3, <1>4, <1>5, OneCall

-----------------------------------------------------------------------------
(* The invariant holds before any call. *)
LEMMA VksInitInv == Init => VksInv
<1> SUFFICES ASSUME Init PROVE VksInv
  OBVIOUS
<1>1. ToSet(<<>>) = {}
  BY DEF ToSet
<1>2. CollectionSound
  BY <1>1 DEF Init, CollectionSound, Distinct
<1>3. ListInv
  BY <1>2, OffSound DEF Init, ListInv
<1>4. /\ NoCall \in Call /\ NoCall.pc = "idle" /\ NoCall.answer = "none" /\ NoCall.done = FALSE
  BY NoCallType DEF NoCall
<1>5. CallsInv
  <2>1. \A t \in Tasks : calls[t] = NoCall /\ cluster = "up"
    BY DEF Init
  <2>2. calls \in [Tasks -> Call]
    BY <1>4 DEF Init
  <2>3. \A t \in Tasks : calls[t].done = FALSE /\ CallSound(calls[t], reads[t], cluster)
    BY <1>4, <2>1, Zenon DEF CallSound
  <2>4. FALSE # TRUE
    OBVIOUS
  <2>5. \A t, u \in Tasks : calls[t].done = TRUE /\ calls[u].done = TRUE => t = u
    BY <2>3, <2>4, Zenon
  <2>6. cluster \in {"up", "gone"}
    BY DEF Init
  <2> QED
    BY <2>2, <2>3, <2>5, <2>6 DEF CallsInv
<1> QED
  BY <1>3, <1>5 DEF VksInv

(* The beginning of a listing keeps the invariant. *)
LEMMA BeginsStep ==
    ASSUME VksInv, NEW t \in Tasks,
           NEW tool \in {"list_items", "list_nodegroups", "delete_cluster_dryrun", "delete_cluster"},
           NEW pc \in {"listing", "lookup"}, Begins(t, tool, pc)
    PROVE  VksInv'
<1> DEFINE d == IF pc = "listing" THEN Opened(t) ELSE Off
           e == [[NoCall EXCEPT !.tool = tool] EXCEPT !.pc = pc]
<1>1. d \in Cursor /\ ReadSound(d, items, gone)
  BY OffSound, OpenedSound DEF VksInv, ListInv
<1>2. ListInv' /\ \A u \in Tasks \ {t} : reads'[u] = reads[u]
  <2>1. reads' = [reads EXCEPT ![t] = d] /\ UNCHANGED <<service, items, gone>>
    BY DEF Begins
  <2> HIDE DEF d
  <2> QED
    BY <1>1, <2>1, OneRead DEF VksInv
<1>3. e \in Call
  <2>1. [NoCall EXCEPT !.tool = tool] \in Call
    BY NoCallType, CallFields, Zenon
  <2> QED
    BY <2>1, CallFields, Zenon
<1>4. e.pc = pc /\ e.answer = "none" /\ e.done = FALSE /\ e.tool = tool
  BY DEF NoCall
<1>5. calls' = [calls EXCEPT ![t] = e] /\ cluster' = cluster
  BY DEF Begins
<1> HIDE DEF e
<1>6. CallSound(e, reads'[t], cluster)
  BY <1>4 DEF CallSound
<1> QED
  BY <1>2, <1>3, <1>4, <1>5, <1>6, OneCall

(* The listing of a call goes on: whatever is answered, its cursor stays    *)
(* sound.                                                                   *)
LEMMA ReadAnswerSound ==
    ASSUME ListInv, NEW t \in Tasks, ReadAnswer(t)
    PROVE  ListInv' /\ \A u \in Tasks \ {t} : reads'[u] = reads[u]
<1>1. reads[t] \in Cursor /\ ReadSound(reads[t], items, gone) /\ CollectionSound
  BY DEF ListInv
<1>2. UNCHANGED <<service, items, gone>>
  BY DEF ReadAnswer
<1>3. \E d \in Cursor : ReadSound(d, items, gone) /\ reads' = [reads EXCEPT ![t] = d]
  <2>1. CASE FirstAnswer(t)
    <3>1. PICK answer \in {items, PageAt(0)}, total \in Totals :
            reads' = [reads EXCEPT ![t] =
                IF Len(answer) >= total THEN [@ EXCEPT !.stage = "done", !.collected = answer]
                                        ELSE [@ EXCEPT !.stage = "page"]]
      BY <2>1 DEF FirstAnswer
    <3> DEFINE r == reads[t]
               d == IF Len(answer) >= total THEN [r EXCEPT !.stage = "done", !.collected = answer]
                                            ELSE [r EXCEPT !.stage = "page"]
    <3>2. reads' = [reads EXCEPT ![t] = d]
      BY <3>1
    <3>3. r.stage = "whole"
      BY <2>1 DEF FirstAnswer
    <3>4. d \in Cursor /\ ReadSound(d, items, gone)
      BY <1>1, <3>3, FirstSound
    <3> HIDE DEF d
    <3> QED
      BY <3>2, <3>4
  <2>2. CASE PageAnswer(t)
    <3>1. PICK total \in Totals :
            reads' = [reads EXCEPT ![t] = [@ EXCEPT
                !.collected = reads[t].collected \o PageAt(reads[t].page),
                !.page = reads[t].page + 1,
                !.stage = IF More(PageAt(reads[t].page),
                                  reads[t].collected \o PageAt(reads[t].page), total)
                          THEN "page" ELSE "done"]]
      BY <2>2 DEF PageAnswer
    <3> DEFINE r == reads[t]
               batch == PageAt(r.page)
               c == r.collected \o batch
               d == [r EXCEPT !.collected = c, !.page = @ + 1,
                              !.stage = IF More(batch, c, total) THEN "page" ELSE "done"]
    <3>2. reads' = [reads EXCEPT ![t] = d]
      BY <3>1
    <3>3. r.stage = "page"
      BY <2>2 DEF PageAnswer
    <3>4. d \in Cursor /\ ReadSound(d, items, gone)
      BY <1>1, <3>3, PageSound
    <3> HIDE DEF d
    <3> QED
      BY <3>2, <3>4
  <2> QED
    BY <2>1, <2>2 DEF ReadAnswer
<1>4. PICK d \in Cursor : ReadSound(d, items, gone) /\ reads' = [reads EXCEPT ![t] = d]
  BY <1>3
<1> QED
  BY <1>2, <1>4, OneRead

(* A cursor whose page request fails is sound. *)
LEMMA ReadFailsSound ==
    ASSUME ListInv, NEW t \in Tasks, ReadFails(t)
    PROVE  ListInv' /\ \A u \in Tasks \ {t} : reads'[u] = reads[u]
<1> DEFINE d == [Off EXCEPT !.stage = "failed"]
<1>1. d \in Cursor
  BY OffSound, CursorFields, Zenon
<1>2. d.stage = "failed" /\ d.page = 0
  BY DEF Off
<1>3. reads' = [reads EXCEPT ![t] = d] /\ UNCHANGED <<service, items, gone>>
  BY DEF ReadFails
<1> HIDE DEF d
<1>4. ReadSound(d, items, gone)
  BY <1>2, ItemsFinite DEF ReadSound
<1> QED
  BY <1>1, <1>3, <1>4, OneRead

-----------------------------------------------------------------------------
(* The steps of the listing of a call, and of others' changes to the        *)
(* collection.                                                              *)
LEMMA ListingAnswersStep ==
    ASSUME VksInv, NEW t \in Tasks, ListingAnswers(t)
    PROVE  VksInv'
<1>1. ListInv' /\ \A u \in Tasks \ {t} : reads'[u] = reads[u]
  BY ReadAnswerSound DEF ListingAnswers, VksInv
<1>2. cluster' = cluster /\ calls[t].pc = "listing"
  BY DEF ListingAnswers
<1>3. calls[t] \in Call /\ CallSound(calls[t], reads[t], cluster)
  BY DEF VksInv, CallsInv
<1>4. calls[t].done = FALSE /\ calls[t].answer = "none"
  BY <1>2, <1>3 DEF CallSound
<1>5. CASE reads'[t].stage # "done"
  <2>1. calls' = calls
    BY <1>5 DEF ListingAnswers
  <2>2. calls' = [calls EXCEPT ![t] = calls[t]]
    BY <2>1 DEF VksInv, CallsInv
  <2>3. CallSound(calls[t], reads'[t], cluster)
    BY <1>3, <1>4 DEF CallSound
  <2> QED
    BY <1>1, <1>2, <1>3, <2>2, <2>3, OneCall
<1>6. CASE reads'[t].stage = "done"
  <2>1. AfterListing(t)
    BY <1>6 DEF ListingAnswers
  <2>2. CASE Answers(t, "listed")
    BY <1>1, <1>2, <2>2, CallAnswers
  <2>3. CASE Answers(t, "preview")
    BY <1>1, <1>2, <2>3, CallAnswers
  <2>4. CASE Awaits(t, "name")
    BY <1>1, <1>2, <2>4, CallAwaits
  <2>5. CASE Awaits(t, "deleting")
    BY <1>1, <1>2, <2>5, CallAwaits
  <2>6. CASE Answers(t, "refused") /\ reads'[t].collected # <<>>
    BY <1>1, <1>2, <1>4, <2>6, CallAnswers
  <2>7. CASE calls[t].tool = "list_items"
    BY <2>1, <2>2, <2>7 DEF AfterListing
  <2>8. CASE calls[t].tool = "list_nodegroups"
    BY <2>1, <2>4, <2>8 DEF AfterListing
  <2>9. CASE calls[t].tool = "delete_cluster_dryrun"
    BY <2>1, <2>3, <2>9 DEF AfterListing
  <2>10. CASE calls[t].tool = "delete_cluster"
    <3>1. CASE reads'[t].collected = <<>>
      BY <2>1, <2>5, <2>10, <3>1 DEF AfterListing
    <3>2. CASE reads'[t].collected # <<>>
      BY <2>1, <2>6, <2>10, <3>2 DEF AfterListing
    <3> QED
      BY <3>1, <3>2
  <2>11. calls[t].tool \in {"list_items", "list_nodegroups", "delete_cluster_dryrun", "delete_cluster"}
    BY <1>2, <1>3 DEF CallSound, Call
  <2> QED
    BY <2>7, <2>8, <2>9, <2>10, <2>11
<1> QED
  BY <1>5, <1>6

(* An insertion keeps the invariant. *)
LEMMA NodegroupCreatedStep ==
    ASSUME VksInv, NEW i \in Items, NEW n \in 1 .. Len(items) + 1, NodegroupCreated(i, n)
    PROVE  VksInv'
<1>1. /\ i \notin ToSet(items) \cup gone /\ items' = InsertAt(items, n, i)
      /\ reads' = [t \in Tasks |-> IF Reading(t) THEN [reads[t] EXCEPT !.inserted = @ + 1]
                                                 ELSE reads[t]]
      /\ service' = service /\ gone' = gone /\ cluster' = cluster /\ calls' = calls
  BY DEF NodegroupCreated, Insert
<1>2. CollectionSound /\ gone \in SUBSET Items
  BY DEF VksInv, ListInv, CollectionSound
<1>3. /\ items' \in Seq(Items) /\ Distinct(items') /\ ToSet(items') \cap gone = {}
  BY <1>1, <1>2, CollectionInsert
<1>4. CollectionSound'
  BY <1>1, <1>2, <1>3 DEF CollectionSound
<1>5. ASSUME NEW t \in Tasks
      PROVE  /\ reads'[t] \in Cursor /\ ReadSound(reads'[t], items', gone')
             /\ reads'[t].collected = reads[t].collected
  <2>1. reads[t] \in Cursor /\ ReadSound(reads[t], items, gone)
    BY DEF VksInv, ListInv
  <2>2. CASE Reading(t)
    <3>1. reads[t].stage \in {"whole", "page"}
      BY <2>2 DEF Reading
    <3>2. reads'[t] = [reads[t] EXCEPT !.inserted = @ + 1]
      BY <1>1, <2>2
    <3>3. reads'[t] \in Cursor /\ ReadSound(reads'[t], items', gone)
      BY <1>1, <1>2, <2>1, <3>1, <3>2, InsertSound
    <3>4. reads'[t].collected = reads[t].collected
      BY <2>1, <3>2 DEF Cursor
    <3> QED
      BY <1>1, <3>3, <3>4
  <2>3. CASE ~Reading(t)
    <3>1. reads'[t] = reads[t] /\ reads[t].stage \notin {"whole", "page"}
      BY <1>1, <2>3 DEF Reading
    <3> QED
      BY <2>1, <3>1 DEF ReadSound
  <2> QED
    BY <2>2, <2>3
<1>6. reads' \in [Tasks -> Cursor]
  <2>1. \A t \in Tasks : reads'[t] \in Cursor
    BY <1>5
  <2> QED
    BY <1>1, <2>1
<1>7. ListInv'
  BY <1>1, <1>4, <1>5, <1>6 DEF VksInv, ListInv
<1>8. CallsInv'
  BY <1>1, <1>5 DEF VksInv, CallsInv, CallSound
<1> QED
  BY <1>7, <1>8 DEF VksInv

(* A removal keeps the invariant. *)
LEMMA NodegroupDeletedStep ==
    ASSUME VksInv, NEW n \in 1 .. Len(items), NodegroupDeleted(n)
    PROVE  VksInv'
<1>1. /\ items' = RemoveAt(items, n) /\ gone' = gone \cup {items[n]}
      /\ reads' = [t \in Tasks |->
            IF Reading(t) THEN [reads[t] EXCEPT !.there = @ \ {items[n]}, !.removed = @ + 1]
                          ELSE reads[t]]
      /\ service' = service /\ cluster' = cluster /\ calls' = calls
  BY DEF NodegroupDeleted, Delete
<1>2. CollectionSound /\ gone \in SUBSET Items /\ ToSet(items) \cap gone = {}
  BY DEF VksInv, ListInv, CollectionSound
<1>3. /\ items' \in Seq(Items) /\ Distinct(items') /\ items[n] \in Items
      /\ ToSet(items') = ToSet(items) \ {items[n]}
  BY <1>1, <1>2, CollectionDelete
<1>4. CollectionSound'
  BY <1>1, <1>2, <1>3 DEF CollectionSound
<1>5. ASSUME NEW t \in Tasks
      PROVE  /\ reads'[t] \in Cursor /\ ReadSound(reads'[t], items', gone')
             /\ reads'[t].collected = reads[t].collected
  <2>1. reads[t] \in Cursor /\ ReadSound(reads[t], items, gone)
    BY DEF VksInv, ListInv
  <2>2. CASE Reading(t)
    <3>1. reads[t].stage \in {"whole", "page"}
      BY <2>2 DEF Reading
    <3>2. reads'[t] = [reads[t] EXCEPT !.there = @ \ {items[n]}, !.removed = @ + 1]
      BY <1>1, <2>2
    <3>3. reads'[t] \in Cursor /\ ReadSound(reads'[t], items', gone')
      BY <1>1, <1>2, <2>1, <3>1, <3>2, DeleteSound
    <3>4. reads'[t].collected = reads[t].collected
      BY <2>1, <3>2 DEF Cursor
    <3> QED
      BY <3>3, <3>4
  <2>3. CASE ~Reading(t)
    <3>1. reads'[t] = reads[t] /\ reads[t].stage \notin {"whole", "page"}
      BY <1>1, <2>3 DEF Reading
    <3> QED
      BY <2>1, <3>1 DEF ReadSound
  <2> QED
    BY <2>2, <2>3
<1>6. reads' \in [Tasks -> Cursor]
  <2>1. \A t \in Tasks : reads'[t] \in Cursor
    BY <1>5
  <2> QED
    BY <1>1, <2>1
<1>7. ListInv'
  BY <1>1, <1>4, <1>5, <1>6 DEF VksInv, ListInv
<1>8. CallsInv'
  BY <1>1, <1>5 DEF VksInv, CallsInv, CallSound
<1> QED
  BY <1>7, <1>8 DEF VksInv

(* The API deletes the cluster once: it was up, so no call had deleted it.  *)
LEMMA ApiDeletesStep ==
    ASSUME VksInv, NEW t \in Tasks, ApiDeletes(t)
    PROVE  VksInv'
<1> DEFINE c == calls[t]
           e == [c EXCEPT !.done = TRUE]
<1>1. c \in Call /\ CallSound(c, reads[t], cluster)
  BY DEF VksInv, CallsInv
<1>2. /\ c.pc = "deleting" /\ cluster = "up" /\ cluster' = "gone"
      /\ calls' = [calls EXCEPT ![t] = e] /\ UNCHANGED <<service, items, gone, reads>>
  BY DEF ApiDeletes, listVars
<1>3. e \in Call
  BY <1>1, CallFields, Zenon
<1>4. e.pc = c.pc /\ e.answer = c.answer /\ e.done = TRUE /\ e.tool = c.tool
  BY <1>1 DEF Call
<1> HIDE DEF e
<1>5. calls' \in [Tasks -> Call] /\ calls'[t] = e /\ \A u \in Tasks \ {t} : calls'[u] = calls[u]
  BY <1>2, <1>3 DEF VksInv, CallsInv
<1>6. c.answer = "none" /\ c.tool # "none"
  BY <1>1, <1>2 DEF CallSound
<1>7. \A u \in Tasks : calls[u].done # TRUE /\ CallSound(calls[u], reads[u], cluster)
  BY <1>2 DEF VksInv, CallsInv, CallSound
<1>8. CallSound(e, reads'[t], cluster')
  BY <1>2, <1>4, <1>6 DEF CallSound
<1>9. \A u \in Tasks \ {t} : CallSound(calls'[u], reads'[u], cluster')
  BY <1>2, <1>5, <1>7 DEF CallSound
<1>10. \A u, v \in Tasks : calls'[u].done = TRUE /\ calls'[v].done = TRUE => u = v
  BY <1>5, <1>7
<1>11. CallsInv'
  BY <1>2, <1>5, <1>8, <1>9, <1>10 DEF CallsInv
<1>12. ListInv'
  BY <1>2 DEF VksInv, ListInv, CollectionSound
<1> QED
  BY <1>11, <1>12 DEF VksInv

(* Every step keeps the invariant.                                          *)
LEMMA VksInvStep == VksInv /\ [Next]_vars => VksInv'
<1> SUFFICES ASSUME VksInv, [Next]_vars PROVE VksInv'
  OBVIOUS
<1>l. ASSUME UNCHANGED listVars PROVE ListInv' /\ \A u \in Tasks : reads'[u] = reads[u]
  BY <1>l DEF listVars, VksInv, ListInv, CollectionSound
<1>1. ASSUME NEW t \in Tasks, Starts(t) PROVE VksInv'
  BY <1>1, BeginsStep DEF Starts, ListItems, ListNodegroups, DeleteClusterDryrun, DeleteCluster
<1>2. ASSUME NEW t \in Tasks, ClusterFound(t) PROVE VksInv'
  <2>1. reads' = [reads EXCEPT ![t] = Opened(t)] /\ UNCHANGED <<service, items, gone, cluster>>
    BY <1>2 DEF ClusterFound
  <2>2. Opened(t) \in Cursor /\ ReadSound(Opened(t), items, gone)
    BY OpenedSound DEF VksInv, ListInv
  <2>3. ListInv' /\ \A u \in Tasks \ {t} : reads'[u] = reads[u]
    BY <2>1, <2>2, OneRead DEF VksInv
  <2> QED
    BY <1>2, <2>1, <2>3, CallAwaits DEF ClusterFound
<1>3. ASSUME NEW t \in Tasks, LookupRaises(t) PROVE VksInv'
  BY <1>3, <1>l, CallAnswers DEF LookupRaises
<1>4. ASSUME NEW t \in Tasks, ListingAnswers(t) PROVE VksInv'
  BY <1>4, ListingAnswersStep
<1>5. ASSUME NEW t \in Tasks, ListingRaises(t) PROVE VksInv'
  <2>1. ListInv' /\ (\A u \in Tasks \ {t} : reads'[u] = reads[u]) /\ cluster' = cluster
    BY <1>5, ReadFailsSound DEF ListingRaises, VksInv
  <2>2. calls[t].pc = "listing"
    BY <1>5 DEF ListingRaises
  <2>3. CASE Awaits(t, "deleting")
    BY <2>1, <2>2, <2>3, CallAwaits
  <2>4. CASE Answers(t, "error")
    BY <2>1, <2>4, CallAnswers
  <2>5. Awaits(t, "deleting") \/ Answers(t, "error")
    BY <1>5 DEF ListingRaises
  <2> QED
    BY <2>3, <2>4, <2>5
<1>6. ASSUME NEW t \in Tasks, NameAnswers(t) PROVE VksInv'
  BY <1>6, <1>l, CallAnswers DEF NameAnswers
<1>7. ASSUME NEW t \in Tasks, ApiDeletes(t) PROVE VksInv'
  BY <1>7, ApiDeletesStep
<1>8. ASSUME NEW t \in Tasks, DeleteAnswers(t) PROVE VksInv'
  <2>1. calls[t] \in Call
    BY DEF VksInv, CallsInv
  <2>2. calls[t].done \in BOOLEAN
    BY <2>1, Zenon DEF Call
  <2>3. calls[t].done = TRUE
    BY <1>8, <2>2, Zenon DEF DeleteAnswers
  <2>4. Answers(t, "deleted") /\ UNCHANGED <<listVars, cluster>>
    BY <1>8 DEF DeleteAnswers
  <2> QED
    BY <1>l, <2>3, <2>4, CallAnswers
<1>9. ASSUME NEW t \in Tasks, DeleteRaises(t) PROVE VksInv'
  BY <1>9, <1>l, CallAnswers DEF DeleteRaises
<1>10. ASSUME NEW i \in Items, NEW n \in 1 .. Len(items) + 1, NodegroupCreated(i, n) PROVE VksInv'
  BY <1>10, NodegroupCreatedStep
<1>11. ASSUME NEW n \in 1 .. Len(items), NodegroupDeleted(n) PROVE VksInv'
  BY <1>11, NodegroupDeletedStep
<1>12. ASSUME UNCHANGED vars PROVE VksInv'
  BY <1>12 DEF vars, VksInv, ListInv, CollectionSound, CallsInv, CallSound
<1> QED
  BY <1>1, <1>2, <1>3, <1>4, <1>5, <1>6, <1>7, <1>8, <1>9, <1>10, <1>11, <1>12 DEF Next

-----------------------------------------------------------------------------
(* The invariant holds in every reachable state: of a listing under way,    *)
(* the items before the cursor that were missed are no more than the        *)
(* removals, and the collected ones ahead of it no more than the            *)
(* insertions.                                                              *)
THEOREM VksInvariant == Spec => []VksInv
<1> QED
  BY VksInitInv, VksInvStep, PTL DEF Spec

(* The cursors, the collection and the calls have their types, and the      *)
(* paging loop ends: it never asks for more than one page beyond what there *)
(* could be.                                                                *)
THEOREM VksTypeCorrect == Spec => []TypeOK
<1>1. VksInv => TypeOK
  BY DEF VksInv, ListInv, CollectionSound, CallsInv, ReadSound, TypeOK, ListTypeOK
<1> QED
  BY <1>1, VksInvariant, PTL

(* "Agents always see the complete collection", as far as it is true: a     *)
(* finished listing lacks at most as many items as were removed under it,   *)
(* and repeats at most as many as were inserted.                            *)
THEOREM ListingAccurateHolds == Spec => []ListingAccurate
<1>1. VksInv => ListingAccurate
  BY DEF VksInv, ListInv, ReadSound, Again, ListingAccurate, Missing, Repeated
<1> QED
  BY <1>1, VksInvariant, PTL

(* A sequence with as many items as places has none twice. *)
LEMMA NoneTwice ==
    ASSUME NEW S, NEW s \in Seq(S)
    PROVE  Cardinality(ToSet(s)) = Len(s) => Distinct(s)
<1>1. /\ Len(s) \in Nat
      /\ ToSet(s) = {s[k] : k \in 1 .. Len(s)}
  BY ToSetFinite
<1> DEFINE f == [k \in 1 .. Len(s) |-> s[k]]
<1>2. f \in Surjection(1 .. Len(s), ToSet(s))
  BY <1>1 DEF Surjection
<1>3. IsFiniteSet(1 .. Len(s)) /\ Cardinality(1 .. Len(s)) = Len(s)
  <2>1. 1 \in Int /\ Len(s) \in Int
    BY <1>1
  <2>2. /\ IsFiniteSet(1 .. Len(s))
        /\ Cardinality(1 .. Len(s)) = IF 1 > Len(s) THEN 0 ELSE Len(s) - 1 + 1
    BY <2>1, FS_Interval, Zenon
  <2> QED
    BY <1>1, <2>2
<1> HIDE DEF f
<1>4. Cardinality(ToSet(s)) = Len(s) => f \in Injection(1 .. Len(s), ToSet(s))
  BY <1>2, <1>3, FS_Surjection
<1>5. Cardinality(ToSet(s)) = Len(s) => \A j, k \in 1 .. Len(s) : f[j] = f[k] => j = k
  BY <1>4 DEF Injection, IsInjective
<1> QED
  BY <1>5 DEF f, Distinct

(* "Agents always see the complete collection" holds word for word of a     *)
(* listing that nobody disturbs: if nothing was removed under it, it lacks  *)
(* nothing that was there from its first request to its last, and if        *)
(* nothing was inserted, it shows nothing twice.  Each condition suffices   *)
(* for its own half: what others insert hides nothing, what they remove     *)
(* repeats nothing.                                                         *)
THEOREM UndisturbedListingComplete ==
    Spec => [](\A t \in Tasks : reads[t].stage = "done" =>
                 /\ reads[t].removed = 0 => reads[t].there \subseteq ToSet(reads[t].collected)
                 /\ reads[t].inserted = 0 => Distinct(reads[t].collected))
<1>1. ASSUME VksInv, NEW t \in Tasks, reads[t].stage = "done"
      PROVE  /\ reads[t].removed = 0 => reads[t].there \subseteq ToSet(reads[t].collected)
             /\ reads[t].inserted = 0 => Distinct(reads[t].collected)
  <2>1. /\ reads[t] \in Cursor
        /\ Cardinality(reads[t].there \ ToSet(reads[t].collected)) <= reads[t].removed
        /\ Again(reads[t].collected) <= reads[t].inserted
    BY <1>1 DEF VksInv, ListInv, ReadSound
  <2>2. reads[t].there \in SUBSET Items /\ reads[t].collected \in Seq(Items)
    BY <2>1 DEF Cursor
  <2>3. ASSUME reads[t].removed = 0 PROVE reads[t].there \subseteq ToSet(reads[t].collected)
    <3>1. /\ IsFiniteSet(reads[t].there \ ToSet(reads[t].collected))
          /\ Cardinality(reads[t].there \ ToSet(reads[t].collected)) \in Nat
      BY <2>2, ItemsFinite, FewerThan
    <3>2. Cardinality(reads[t].there \ ToSet(reads[t].collected)) = 0
      BY <2>1, <2>3, <3>1
    <3>3. reads[t].there \ ToSet(reads[t].collected) = {}
      BY <3>1, <3>2, FS_EmptySet
    <3> QED
      BY <3>3
  <2>4. ASSUME reads[t].inserted = 0 PROVE Distinct(reads[t].collected)
    <3>1. /\ Cardinality(ToSet(reads[t].collected)) \in Nat
          /\ Cardinality(ToSet(reads[t].collected)) <= Len(reads[t].collected)
          /\ Len(reads[t].collected) \in Nat
      BY <2>2, ToSetFinite
    <3>2. Cardinality(ToSet(reads[t].collected)) = Len(reads[t].collected)
      BY <2>1, <2>4, <3>1 DEF Again
    <3> QED
      BY <2>2, <3>2, NoneTwice
  <2> QED
    BY <2>3, <2>4
<1>2. VksInv => \A t \in Tasks : reads[t].stage = "done" =>
                 /\ reads[t].removed = 0 => reads[t].there \subseteq ToSet(reads[t].collected)
                 /\ reads[t].inserted = 0 => Distinct(reads[t].collected)
  BY <1>1
<1> QED
  BY <1>2, VksInvariant, PTL

(* The answers of delete_cluster are true: deleted, by this call; refused,  *)
(* with node groups to name and nothing deleted.                            *)
THEOREM AnswersTrueHolds == Spec => []AnswersTrue
<1>1. ASSUME VksInv PROVE AnswersTrue
  <2>1. ASSUME NEW t \in Tasks
        PROVE  /\ calls[t].answer = "deleted" => cluster = "gone" /\ calls[t].done
               /\ calls[t].answer = "refused" => ~calls[t].done /\ reads[t].collected # <<>>
    <3>1. CallSound(calls[t], reads[t], cluster)
      BY <1>1 DEF VksInv, CallsInv
    <3> QED
      BY <3>1, Zenon DEF CallSound
  <2>2. ASSUME NEW t \in Tasks, NEW u \in Tasks,
               calls[t].answer = "deleted", calls[u].answer = "deleted"
        PROVE  t = u
    <3>1. calls[t].done = TRUE /\ calls[u].done = TRUE
      BY <1>1, <2>2 DEF VksInv, CallsInv, CallSound
    <3> QED
      BY <1>1, <3>1 DEF VksInv, CallsInv
  <2> QED
    BY <2>1, <2>2 DEF AnswersTrue
<1> QED
  BY <1>1, VksInvariant, PTL

=============================================================================
