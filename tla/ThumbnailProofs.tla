---------------------------- MODULE ThumbnailProofs ----------------------------
(***************************************************************************)
(* Theorems about ThumbnailCalls and ThumbnailService, for every number of    *)
(* images, sizes, calls, workers and decode slots.                         *)
(***************************************************************************)
EXTENDS ThumbnailService, WellFoundedInduction, SequenceTheorems, FiniteSetTheorems, TLAPS

\* d has no guard that c has not, and shows no other pixels.
Weaker(c, d, ks) ==
    /\ IsCache(d)
    /\ \A k \in ks : d.guard[k] = Cache!NoGuard
                        \/ (c.guard[k] # Cache!NoGuard /\ d.guard[k].rev = c.guard[k].rev)

\* Calls wait under their own key.
WaitersFit ==
    \A k \in Keys : \A i \in DOMAIN pending[k] : KeyOf(pending[k][i]) = k

\* Revisions are in order: a call is not older than it says, and an
\* invalidation does not run ahead of the commits.
RevisionsOrdered ==
    /\ \A e \in Elements : invalidated[e] <= committed[e]
    /\ \A c \in Calls : asks[c].since <= invalidated[ImageOf(KeyOf(c))]

\* Renditions belong to calls that were made.
NoneAhead == \A r \in 1..MaxAsks : r > Len(asks) => renditions[r].at = "none"

\* A rendition of the current generation fetched its state after the last
\* invalidation, one of the analysis after its call, and what a rendition has
\* ready is new enough for everyone it tells.
FreshRendition(r) ==
    /\ IsOpen(r) => renditions[r].gen <= generation[KeyOf(r)] \/ IsAnalysis(r)
    /\ renditions[r].at = "fetched" =>
          renditions[r].rev >= IF IsAnalysis(r) THEN asks[r].since
                               ELSE IF IsCanceled(r) THEN 0
                               ELSE invalidated[ImageOf(KeyOf(r))]
    /\ renditions[r].at = "concluded" => renditions[r].status # "none"
    /\ renditions[r].at = "concluded" /\ renditions[r].status = "ready" =>
          \A i \in DOMAIN renditions[r].calls :
             renditions[r].rev >= asks[renditions[r].calls[i]].since
RenditionsFresh == \A r \in Calls : FreshRendition(r)

ServedInv ==
    /\ TypeOK /\ WaitersFit /\ RevisionsOrdered
    /\ NoneAhead /\ RenditionsFresh /\ NothingStaleIsServed

----------------------------------------------------------------------------
\* Least and greatest naturals of a set, and induction stated with a set: the
\* provers cannot instantiate the library's, which takes an operator.

Less == {pair \in Nat \X Nat : pair[1] < pair[2]}

\* The order of the naturals, as a relation, is well-founded.
LEMMA LessIsWellFounded == IsWellFoundedOn(Less, Nat)
<1>1. OpToRel(<, Nat) = Less
  BY Zenon DEF OpToRel, Less
<1> QED
  BY <1>1, NatLessThanWellFounded, Zenon

\* A non-empty set of naturals has a least element.
LEMMA LeastElement ==
    ASSUME NEW T \in SUBSET Nat, T # {}
    PROVE  \E x \in T : \A y \in T : x <= y
<1>1. PICK x \in T : \A y \in T : ~ (<<y, x>> \in Less)
  BY WFMin, LessIsWellFounded, Zenon
<1>2. ASSUME NEW y \in T PROVE x <= y
  <2>1. <<y, x>> \notin Less
    BY <1>1
  <2>2. x \in Nat /\ y \in Nat
    OBVIOUS
  <2> QED
    BY <2>1, <2>2 DEF Less
<1> QED
  BY <1>2

\* A non-empty set of naturals below a bound has a greatest element.
LEMMA GreatestElement ==
    ASSUME NEW n \in Nat, NEW T \in SUBSET (0..n), T # {}
    PROVE  \E x \in T : \A y \in T : y <= x
<1> DEFINE Mirror == {k \in Nat : n - k \in T}
<1>1. Mirror # {}
  <2>1. PICK x \in T : TRUE
    OBVIOUS
  <2>2. n - (n - x) = x /\ n - x \in Nat
    OBVIOUS
  <2> QED
    BY <2>2
<1>2. PICK k \in Mirror : \A j \in Mirror : k <= j
  BY <1>1, LeastElement
<1>3. ASSUME NEW y \in T PROVE y <= n - k
  <2>1. n - (n - y) = y /\ n - y \in Nat
    OBVIOUS
  <2>2. n - y \in Mirror
    BY <2>1
  <2> QED
    BY <1>2, <2>2
<1> QED
  BY <1>2, <1>3

\* A set that holds 0 and, with each natural, its successor, holds them all.
LEMMA SetInduction ==
    ASSUME NEW S, 0 \in S, \A n \in Nat : n \in S => n + 1 \in S
    PROVE  Nat \subseteq S
<1> SUFFICES ASSUME Nat \ S # {} PROVE FALSE
  OBVIOUS
<1>1. PICK x \in Nat \ S : \A y \in Nat \ S : x <= y
  BY LeastElement
<1>2. x # 0
  OBVIOUS
<1>3. x - 1 \in Nat /\ x - 1 \in S
  BY <1>1, <1>2
<1> QED
  BY <1>3

----------------------------------------------------------------------------
\* The operations of the cache change guards as their names say
\* (thumbnail_service.cpp:588-611, 850-953).

LEMMA NoGuardTyped == Cache!NoGuard \in [rev : 0..MaxRevision, pins : Int]
  BY CallsAssumption DEF Cache!NoGuard

LEMMA Reordered ==
    ASSUME NEW c, IsCache(c), NEW order, NEW capacity
    PROVE  /\ IsCache([c EXCEPT !.order = order])
           /\ [c EXCEPT !.order = order].guard = c.guard
           /\ IsCache([c EXCEPT !.capacity = capacity, !.order = order])
           /\ [c EXCEPT !.capacity = capacity, !.order = order].guard = c.guard
  BY DEF IsCache

LEMMA Reguarded ==
    ASSUME NEW c, IsCache(c), NEW guard \in Guards
    PROVE  /\ IsCache([c EXCEPT !.guard = guard])
           /\ [c EXCEPT !.guard = guard].guard = guard
  BY DEF IsCache

LEMMA TouchKeepsGuards ==
    ASSUME NEW c, IsCache(c), NEW k
    PROVE  IsCache(Cache!Touch(c, k)) /\ Cache!Touch(c, k).guard = c.guard
  BY Reordered DEF Cache!Touch

LEMMA PinWeaker ==
    ASSUME NEW c, IsCache(c), NEW k \in Keys, c.guard[k] # Cache!NoGuard
    PROVE  Weaker(c, Cache!Pin(c, k), Keys)
<1> DEFINE t == Cache!Touch(c, k)
           g == [c.guard EXCEPT ![k].pins = @ + 1]
<1>1. IsCache(t) /\ t.guard = c.guard
  BY TouchKeepsGuards
<1>2. g \in Guards /\ c.guard \in Guards
  BY DEF IsCache, Guards
<1>3. Cache!Pin(c, k) = [t EXCEPT !.guard = g]
  <2> HIDE DEF t
  <2> QED
    BY <1>1 DEF Cache!Pin, t
<1>4. IsCache(Cache!Pin(c, k)) /\ Cache!Pin(c, k).guard = g
  BY <1>1, <1>2, <1>3, Reguarded
<1> QED
  BY <1>2, <1>4 DEF Weaker, Guards

LEMMA RemoveKeyWeaker ==
    ASSUME NEW c, IsCache(c), NEW k \in Keys
    PROVE  Weaker(c, Cache!RemoveKey(c, k), Keys)
<1> DEFINE g == [c.guard EXCEPT ![k] = Cache!NoGuard]
<1>1. g \in Guards /\ c.guard \in Guards
  BY NoGuardTyped DEF IsCache, Guards
<1>2. Cache!RemoveKey(c, k) = [c EXCEPT !.order = Cache!Without(c.order, {k}), !.guard = g]
  BY DEF Cache!RemoveKey
<1>3. IsCache(Cache!RemoveKey(c, k)) /\ Cache!RemoveKey(c, k).guard = g
  BY <1>1, <1>2 DEF IsCache
<1> QED
  BY <1>1, <1>3 DEF Weaker, Guards

LEMMA UnpinWeaker ==
    ASSUME NEW c, IsCache(c), NEW k \in Keys
    PROVE  Weaker(c, Cache!Unpin(c, k), Keys)
<1>1. CASE k \in Cache!Cached(c) /\ c.guard[k].pins > 1
  <2> DEFINE g == [c.guard EXCEPT ![k].pins = @ - 1]
  <2>1. g \in Guards /\ c.guard \in Guards
    BY DEF IsCache, Guards
  <2>2. Cache!Unpin(c, k) = [c EXCEPT !.guard = g]
    BY <1>1 DEF Cache!Unpin
  <2>3. IsCache(Cache!Unpin(c, k)) /\ Cache!Unpin(c, k).guard = g
    BY <2>1, <2>2, Reguarded
  <2>4. c.guard[k] # Cache!NoGuard
    BY <1>1 DEF Cache!Cached
  <2> QED
    BY <2>1, <2>3, <2>4 DEF Weaker, Guards
<1>2. CASE ~(k \in Cache!Cached(c) /\ c.guard[k].pins > 1)
  BY <1>2, RemoveKeyWeaker DEF Cache!Unpin
<1> QED
  BY <1>1, <1>2

\* An invalidation leaves no guard of its keys.
LEMMA ForgetWeaker ==
    ASSUME NEW c, IsCache(c), NEW ks
    PROVE  /\ Weaker(c, Cache!Forget(c, ks), Keys)
           /\ \A k \in Keys \cap ks : Cache!Forget(c, ks).guard[k] = Cache!NoGuard
<1> DEFINE g == [k \in Keys |-> IF k \in ks THEN Cache!NoGuard ELSE c.guard[k]]
<1>1. g \in Guards /\ c.guard \in Guards
  BY NoGuardTyped, SMTT(60) DEF IsCache, Guards
<1>2. PICK order : Cache!Forget(c, ks) = [c EXCEPT !.order = order, !.guard = g]
  BY DEF Cache!Forget
<1>3. IsCache(Cache!Forget(c, ks)) /\ Cache!Forget(c, ks).guard = g
  BY <1>1, <1>2 DEF IsCache
<1> QED
  BY <1>1, <1>3 DEF Weaker, Guards

LEMMA RecordAccessKeepsGuards ==
    ASSUME NEW c, IsCache(c), NEW k
    PROVE  IsCache(Cache!RecordAccess(c, k)) /\ Cache!RecordAccess(c, k).guard = c.guard
  BY TouchKeepsGuards, Reordered DEF Cache!RecordAccess

LEMMA ResizeKeepsGuards ==
    ASSUME NEW c, IsCache(c), NEW n
    PROVE  IsCache(Cache!Resize(c, n)) /\ Cache!Resize(c, n).guard = c.guard
<1>1. PICK order : Cache!Resize(c, n) = [c EXCEPT !.capacity = n, !.order = order]
  BY DEF Cache!Resize
<1> QED
  BY <1>1 DEF IsCache

LEMMA HandleEvictWeaker ==
    ASSUME NEW c, IsCache(c), NEW k
    PROVE  Weaker(c, Cache!HandleEvict(c, k), Keys)
<1>1. CASE k \in Cache!Pinned(c)
  <2> DEFINE r == Cache!Resize(c, Cache!Cardinality(Cache!Cached(c)) + PinnedBoost)
  <2>1. IsCache(r) /\ r.guard = c.guard
    BY ResizeKeepsGuards
  <2>2. Cache!HandleEvict(c, k) = Cache!RecordAccess(r, k)
    BY <1>1 DEF Cache!HandleEvict
  <2> HIDE DEF r
  <2> QED
    BY <2>1, <2>2, RecordAccessKeepsGuards DEF Weaker
<1>2. CASE k \notin Cache!Pinned(c)
  <2> DEFINE g == [c.guard EXCEPT ![k] = Cache!NoGuard]
  <2>1. g \in Guards /\ c.guard \in Guards
    BY NoGuardTyped DEF IsCache, Guards
  <2>2. Cache!HandleEvict(c, k) = [c EXCEPT !.guard = g]
    BY <1>2 DEF Cache!HandleEvict
  <2>3. IsCache(Cache!HandleEvict(c, k)) /\ Cache!HandleEvict(c, k).guard = g
    BY <2>1, <2>2, Reguarded
  <2> QED
    BY <2>1, <2>3 DEF Weaker, Guards
<1> QED
  BY <1>1, <1>2

\* Only the stored key gets a guard.
LEMMA StoreWeaker ==
    ASSUME NEW c, IsCache(c), NEW k \in Keys,
           NEW guard \in [rev : 0..MaxRevision, pins : Int]
    PROVE  /\ Weaker(c, Cache!Store(c, k, guard), Keys \ {k})
           /\ Cache!Store(c, k, guard).guard[k] = guard
<1> DEFINE filed == Cache!RecordAccess(c, k)
           swept == IF Cache!Overflows(c, k)
                    THEN Cache!HandleEvict(filed, Cache!Last(c.order)) ELSE filed
           g == [swept.guard EXCEPT ![k] = guard]
<1>1. IsCache(filed) /\ filed.guard = c.guard
  BY RecordAccessKeepsGuards
<1>2. Weaker(c, swept, Keys)
  <2> HIDE DEF filed
  <2>1. Weaker(filed, Cache!HandleEvict(filed, Cache!Last(c.order)), Keys)
    BY <1>1, HandleEvictWeaker
  <2> QED
    BY <1>1, <2>1 DEF Weaker
<1>3. Cache!Store(c, k, guard) = [swept EXCEPT !.guard = g]
  BY DEF Cache!Store
<1> HIDE DEF swept
<1>4. g \in Guards /\ swept.guard \in Guards
  BY <1>2 DEF Weaker, IsCache, Guards
<1>5. IsCache(Cache!Store(c, k, guard)) /\ Cache!Store(c, k, guard).guard = g
  BY <1>2, <1>3, <1>4, Reguarded DEF Weaker
<1> QED
  BY <1>2, <1>4, <1>5 DEF Weaker, Guards

----------------------------------------------------------------------------
\* The recursions of the cache: the functions that Without and HandleEvicts
\* define exist, so they do what their equations say.

LEMMA WithoutUnfolds ==
    ASSUME NEW S, NEW order \in Seq(S), NEW ks
    PROVE  \E kept :
              /\ kept[0] = << >>
              /\ \A i \in 1..Len(order) :
                    kept[i] = IF order[i] \in ks THEN kept[i - 1] ELSE Append(kept[i - 1], order[i])
              /\ Cache!Without(order, ks) = kept[Len(order)]
<1> DEFINE n == Len(order)
           Upto(f, m) ==
               f = [i \in 0..m |->
                      IF i = 0 THEN << >>
                      ELSE IF order[i] \in ks THEN f[i - 1] ELSE Append(f[i - 1], order[i])]
           T == {m \in Nat : \E f : Upto(f, m)}
           kept[i \in 0..n] ==
               IF i = 0 THEN << >>
               ELSE IF order[i] \in ks THEN kept[i - 1] ELSE Append(kept[i - 1], order[i])
<1>1. n \in Nat
  BY LenProperties
<1>2. 0 \in T
  <2>1. Upto([i \in 0..0 |-> << >>], 0)
    OBVIOUS
  <2> QED
    BY <2>1
<1>3. ASSUME NEW m \in Nat, m \in T PROVE m + 1 \in T
  <2>1. PICK f : Upto(f, m)
    BY <1>3
  <2> DEFINE last == IF order[m + 1] \in ks THEN f[m] ELSE Append(f[m], order[m + 1])
             g == [i \in 0..(m + 1) |-> IF i = m + 1 THEN last ELSE f[i]]
             h == [i \in 0..(m + 1) |->
                      IF i = 0 THEN << >>
                      ELSE IF order[i] \in ks THEN g[i - 1] ELSE Append(g[i - 1], order[i])]
  <2>2. ASSUME NEW i \in 0..(m + 1) PROVE g[i] = h[i]
    <3>1. CASE i = m + 1
      <4>1. g[i] = last /\ g[i - 1] = f[m] /\ i # 0
        BY <3>1
      <4>2. h[i] = last
        BY <3>1, <4>1
      <4> QED
        BY <4>1, <4>2
    <3>2. CASE i \in 1..m
      <4>1. g[i] = f[i] /\ g[i - 1] = f[i - 1]
        BY <3>2
      <4>2. f[i] = IF order[i] \in ks THEN f[i - 1] ELSE Append(f[i - 1], order[i])
        <5>1. i \in 0..m /\ i # 0
          BY <3>2
        <5> HIDE DEF g, h, last
        <5> QED
          BY <2>1, <5>1
      <4>3. h[i] = f[i]
        <5>1. i \in 0..(m + 1) /\ i # 0
          BY <3>2
        <5> HIDE DEF g
        <5> QED
          BY <4>1, <4>2, <5>1
      <4> HIDE DEF h, g
      <4> QED
        BY <4>1, <4>3
    <3>3. CASE i = 0
      BY <2>1, <3>3
    <3> QED
      BY <3>1, <3>2, <3>3
  <2>3. g = h
    BY <2>2
  <2>4. Upto(g, m + 1)
    <3> HIDE DEF g
    <3> QED
      BY <2>3
  <2> HIDE DEF g, Upto
  <2> QED
    BY <2>4
<1>4. \E f : Upto(f, n)
  <2> HIDE DEF T, Upto, n
  <2>1. Nat \subseteq T
    BY <1>2, <1>3, SetInduction
  <2> QED
    BY <1>1, <2>1 DEF T
<1> HIDE DEF n
<1>5. kept = [i \in 0..n |->
                IF i = 0 THEN << >>
                ELSE IF order[i] \in ks THEN kept[i - 1] ELSE Append(kept[i - 1], order[i])]
  <2>1. \E f : f = [i \in 0..n |->
                IF i = 0 THEN << >>
                ELSE IF order[i] \in ks THEN f[i - 1] ELSE Append(f[i - 1], order[i])]
    BY <1>4
  <2> QED
    BY <2>1
<1>6. Cache!Without(order, ks) = kept[n]
  BY DEF Cache!Without, n
<1> HIDE DEF kept
<1>7. kept[0] = << >>
  BY <1>1, <1>5
<1>8. ASSUME NEW i \in 1..n
      PROVE  kept[i] = IF order[i] \in ks THEN kept[i - 1] ELSE Append(kept[i - 1], order[i])
  <2>1. i \in 0..n /\ i # 0
    BY <1>1
  <2> QED
    BY <1>5, <2>1
<1> QED
  BY <1>6, <1>7, <1>8 DEF n

LEMMA HandleEvictsUnfolds ==
    ASSUME NEW c, NEW gone, Len(gone) \in Nat
    PROVE  \E swept :
              /\ swept[0] = c
              /\ \A i \in 1..Len(gone) : swept[i] = Cache!HandleEvict(swept[i - 1], gone[i])
              /\ Cache!HandleEvicts(c, gone) = swept[Len(gone)]
<1> DEFINE n == Len(gone)
           Upto(f, m) ==
               f = [i \in 0..m |->
                      IF i = 0 THEN c ELSE Cache!HandleEvict(f[i - 1], gone[i])]
           T == {m \in Nat : \E f : Upto(f, m)}
           swept[i \in 0..n] == IF i = 0 THEN c ELSE Cache!HandleEvict(swept[i - 1], gone[i])
<1>2. 0 \in T
  <2>1. Upto([i \in 0..0 |-> c], 0)
    OBVIOUS
  <2> QED
    BY <2>1
<1>3. ASSUME NEW m \in Nat, m \in T PROVE m + 1 \in T
  <2>1. PICK f : Upto(f, m)
    BY <1>3
  <2> DEFINE last == Cache!HandleEvict(f[m], gone[m + 1])
             g == [i \in 0..(m + 1) |-> IF i = m + 1 THEN last ELSE f[i]]
             h == [i \in 0..(m + 1) |->
                      IF i = 0 THEN c ELSE Cache!HandleEvict(g[i - 1], gone[i])]
  <2>2. ASSUME NEW i \in 0..(m + 1) PROVE g[i] = h[i]
    <3>1. CASE i = m + 1
      <4>1. g[i] = last /\ g[i - 1] = f[m] /\ i # 0
        BY <3>1
      <4>2. h[i] = last
        BY <3>1, <4>1
      <4> QED
        BY <4>1, <4>2
    <3>2. CASE i \in 1..m
      <4>1. g[i] = f[i] /\ g[i - 1] = f[i - 1]
        BY <3>2
      <4>2. f[i] = Cache!HandleEvict(f[i - 1], gone[i])
        BY <2>1, <3>2
      <4>3. h[i] = f[i]
        <5>1. i \in 0..(m + 1) /\ i # 0
          BY <3>2
        <5> HIDE DEF g
        <5> QED
          BY <4>1, <4>2, <5>1
      <4> HIDE DEF h, g
      <4> QED
        BY <4>1, <4>3
    <3>3. CASE i = 0
      BY <2>1, <3>3
    <3> QED
      BY <3>1, <3>2, <3>3
  <2>3. g = h
    BY <2>2
  <2>4. Upto(g, m + 1)
    <3> HIDE DEF g
    <3> QED
      BY <2>3
  <2> HIDE DEF g, Upto
  <2> QED
    BY <2>4
<1>4. \E f : Upto(f, n)
  <2> HIDE DEF T, Upto
  <2>1. Nat \subseteq T
    BY <1>2, <1>3, SetInduction
  <2> QED
    BY <2>1 DEF T
<1> HIDE DEF n
<1>5. swept = [i \in 0..n |->
                 IF i = 0 THEN c ELSE Cache!HandleEvict(swept[i - 1], gone[i])]
  <2>1. \E f : f = [i \in 0..n |->
                 IF i = 0 THEN c ELSE Cache!HandleEvict(f[i - 1], gone[i])]
    BY <1>4
  <2> QED
    BY <2>1
<1>6. Cache!HandleEvicts(c, gone) = swept[n]
  BY DEF Cache!HandleEvicts, n
<1> HIDE DEF swept
<1>7. swept[0] = c
  BY <1>5 DEF n
<1>8. ASSUME NEW i \in 1..n PROVE swept[i] = Cache!HandleEvict(swept[i - 1], gone[i])
  <2>1. i \in 0..n /\ i # 0
    BY DEF n
  <2> QED
    BY <1>5, <2>1
<1> QED
  BY <1>6, <1>7, <1>8 DEF n

----------------------------------------------------------------------------
\* A sequence that holds each element of a set once.
Lists(s, X) ==
    /\ s \in Seq(X)
    /\ \A i, j \in 1..Len(s) : s[i] = s[j] => i = j
    /\ \A x \in X : \E i \in 1..Len(s) : s[i] = x

LEMMA ListsHold ==
    ASSUME NEW s, NEW X, Lists(s, X)
    PROVE  /\ Len(s) \in Nat /\ DOMAIN s = 1..Len(s) /\ \A i \in 1..Len(s) : s[i] \in X
           /\ \A i, j \in 1..Len(s) : s[i] = s[j] => i = j
           /\ \A x \in X : \E i \in 1..Len(s) : s[i] = x
           /\ Cache!ToSet(s) = X /\ Cache!IsInjective(s)
<1>1. Len(s) \in Nat /\ DOMAIN s = 1..Len(s) /\ \A i \in 1..Len(s) : s[i] \in X
  BY LenProperties, ElementOfSeq DEF Lists
<1> QED
  BY <1>1 DEF Lists, Cache!ToSet, Cache!IsInjective

LEMMA ListsCount ==
    ASSUME NEW s, NEW X, Lists(s, X)
    PROVE  IsFiniteSet(X) /\ Cardinality(X) = Len(s)
<1> PICK n : n = Len(s)
  OBVIOUS
<1>1. /\ n \in Nat /\ DOMAIN s = 1..n /\ s \in [1..n -> X]
      /\ \A i, j \in 1..n : s[i] = s[j] => i = j
      /\ \A x \in X : \E i \in 1..n : s[i] = x
  BY LenProperties DEF Lists
<1>2. s \in Bijection(1..n, X)
  BY <1>1, Zenon DEF Bijection, Injection, Surjection, IsInjective
<1>3. ExistsBijection(1..n, X)
  BY <1>2 DEF ExistsBijection
<1>4. IsFiniteSet(1..n) /\ Cardinality(1..n) = n
  <2>1. 1 \in Int /\ n \in Int /\ n \in Nat
    BY <1>1
  <2>2. IsFiniteSet(1..n) /\ Cardinality(1..n) = IF 1 > n THEN 0 ELSE n - 1 + 1
    BY <2>1, FS_Interval
  <2> QED
    BY <2>1, <2>2
<1> QED
  BY <1>3, <1>4, FS_Bijection

LEMMA EmptyLists == Lists(<< >>, {})
  BY EmptySeq DEF Lists

LEMMA AppendLists ==
    ASSUME NEW s, NEW X, Lists(s, X), NEW x, x \notin X
    PROVE  Lists(Append(s, x), X \cup {x})
<1> DEFINE Y == X \cup {x}
           t == Append(s, x)
<1>1. /\ s \in Seq(Y) /\ Len(s) \in Nat /\ \A i \in 1..Len(s) : s[i] \in X
      /\ \A i, j \in 1..Len(s) : s[i] = s[j] => i = j
  <2>1. s \in Seq(Y)
    BY SeqMonotonic DEF Lists
  <2> QED
    BY <2>1, ListsHold
<1>2. /\ t \in Seq(Y) /\ Len(t) = Len(s) + 1
      /\ \A i \in 1..Len(s) : t[i] = s[i]
      /\ t[Len(s) + 1] = x
  BY <1>1, AppendProperties
<1> HIDE DEF t
<1>3. \A i, j \in 1..Len(t) : t[i] = t[j] => i = j
  BY <1>1, <1>2
<1>4. \A y \in Y : \E i \in 1..Len(t) : t[i] = y
  <2>1. ASSUME NEW y \in X PROVE \E i \in 1..Len(t) : t[i] = y
    <3>1. PICK i \in 1..Len(s) : s[i] = y
      BY DEF Lists
    <3> QED
      BY <1>1, <1>2, <3>1
  <2>2. Len(t) \in 1..Len(t) /\ t[Len(t)] = x
    BY <1>1, <1>2
  <2> QED
    BY <2>1, <2>2
<1> QED
  BY <1>2, <1>3, <1>4 DEF Lists, t

LEMMA PrependLists ==
    ASSUME NEW s, NEW X, Lists(s, X), NEW x, x \notin X
    PROVE  Lists(<<x>> \o s, X \cup {x})
<1> DEFINE Y == X \cup {x}
           t == <<x>> \o s
<1>1. /\ s \in Seq(Y) /\ Len(s) \in Nat /\ \A i \in 1..Len(s) : s[i] \in X
      /\ \A i, j \in 1..Len(s) : s[i] = s[j] => i = j
  <2>1. s \in Seq(Y)
    BY SeqMonotonic DEF Lists
  <2> QED
    BY <2>1, ListsHold
<1>2. <<x>> \in Seq(Y) /\ Len(<<x>>) = 1 /\ <<x>>[1] = x
  OBVIOUS
<1>3. /\ t \in Seq(Y) /\ Len(t) = Len(<<x>>) + Len(s)
      /\ \A i \in 1..Len(<<x>>) + Len(s) :
            t[i] = IF i <= Len(<<x>>) THEN <<x>>[i] ELSE s[i - Len(<<x>>)]
  BY <1>1, <1>2, ConcatProperties, ZenonT(60)
<1> HIDE DEF t
<1>4. Len(t) = Len(s) + 1 /\ t[1] = x /\ \A i \in 2..Len(t) : t[i] = s[i - 1] /\ i - 1 \in 1..Len(s)
  BY <1>1, <1>2, <1>3
<1>5. \A i, j \in 1..Len(t) : t[i] = t[j] => i = j
  <2>1. ASSUME NEW i \in 2..Len(t), NEW j \in 2..Len(t), t[i] = t[j] PROVE i = j
    <3>1. i - 1 = j - 1
      BY <1>1, <1>4, <2>1
    <3> QED
      BY <3>1
  <2>2. ASSUME NEW i \in 2..Len(t) PROVE t[i] # t[1]
    BY <1>1, <1>4
  <2>3. \A i \in 1..Len(t) : i = 1 \/ i \in 2..Len(t)
    BY <1>1, <1>4
  <2> QED
    BY <2>1, <2>2, <2>3
<1>6. \A y \in Y : \E i \in 1..Len(t) : t[i] = y
  <2>1. ASSUME NEW y \in X PROVE \E i \in 1..Len(t) : t[i] = y
    <3>1. PICK i \in 1..Len(s) : s[i] = y
      BY DEF Lists
    <3>2. i + 1 \in 2..Len(t) /\ i + 1 \in 1..Len(t) /\ (i + 1) - 1 = i
      BY <1>1, <1>4
    <3> QED
      BY <1>4, <3>1, <3>2
  <2>2. 1 \in 1..Len(t)
    BY <1>1, <1>4
  <2> QED
    BY <1>4, <2>1, <2>2
<1> QED
  BY <1>3, <1>5, <1>6 DEF Lists, t

LEMMA PrefixLists ==
    ASSUME NEW s, NEW X, Lists(s, X), NEW m \in 0..Len(s)
    PROVE  /\ Lists(SubSeq(s, 1, m), X \ {s[i] : i \in (m + 1)..Len(s)})
           /\ Len(SubSeq(s, 1, m)) = m
<1> DEFINE Y == X \ {s[i] : i \in (m + 1)..Len(s)}
           t == SubSeq(s, 1, m)
<1>1. /\ Len(s) \in Nat /\ m \in Nat /\ \A i \in 1..Len(s) : s[i] \in X
      /\ \A i, j \in 1..Len(s) : s[i] = s[j] => i = j
  BY ListsHold
<1>2. \A i \in 1..m : s[i] \in Y
  BY <1>1
<1>3. t \in Seq(Y) /\ Len(t) = m /\ \A i \in 1..m : t[i] = s[i]
  <2> HIDE DEF Y
  <2>1. 1 \in Int /\ m \in Int
    BY <1>1
  <2>2. /\ t \in Seq(Y)
        /\ Len(t) = IF 1 <= m THEN m - 1 + 1 ELSE 0
        /\ \A i \in 1..m - 1 + 1 : t[i] = s[1 + i - 1]
    BY <1>2, <2>1, SubSeqProperties
  <2> QED
    BY <1>1, <2>2
<1>4. \A y \in Y : \E i \in 1..m : s[i] = y
  <2>1. ASSUME NEW y \in Y PROVE \E i \in 1..m : s[i] = y
    <3>1. PICK i \in 1..Len(s) : s[i] = y
      BY DEF Lists
    <3>2. i \notin (m + 1)..Len(s)
      BY <3>1
    <3> QED
      BY <1>1, <3>1, <3>2
  <2> QED
    BY <2>1
<1> HIDE DEF t, Y
<1>5. \A i, j \in 1..m : t[i] = t[j] => i = j
  BY <1>1, <1>3
<1>6. Lists(t, Y)
  BY <1>3, <1>4, <1>5 DEF Lists
<1> QED
  BY <1>3, <1>6 DEF t, Y

LEMMA FrontLists ==
    ASSUME NEW s, NEW X, Lists(s, X), s # << >>
    PROVE  /\ Lists(Cache!Front(s), X \ {Cache!Last(s)}) /\ Cache!Last(s) \in X
           /\ Len(Cache!Front(s)) = Len(s) - 1 /\ Len(s) >= 1
<1>1. Len(s) \in Nat /\ Len(s) >= 1 /\ \A i \in 1..Len(s) : s[i] \in X
  BY ListsHold, EmptySeq DEF Lists
<1>2. Len(s) - 1 \in 0..Len(s) /\ ((Len(s) - 1) + 1)..Len(s) = {Len(s)}
  BY <1>1
<1>3. {s[i] : i \in ((Len(s) - 1) + 1)..Len(s)} = {Cache!Last(s)}
  BY <1>2 DEF Cache!Last
<1>4. /\ Lists(SubSeq(s, 1, Len(s) - 1), X \ {s[i] : i \in ((Len(s) - 1) + 1)..Len(s)})
      /\ Len(SubSeq(s, 1, Len(s) - 1)) = Len(s) - 1
  BY <1>2, PrefixLists
<1>5. Cache!Last(s) \in X
  BY <1>1 DEF Cache!Last
<1> QED
  BY <1>1, <1>3, <1>4, <1>5 DEF Cache!Front

LEMMA WithoutLists ==
    ASSUME NEW s, NEW X, Lists(s, X), NEW ks
    PROVE  Lists(Cache!Without(s, ks), X \ ks)
<1> DEFINE Upto(m) == {s[i] : i \in 1..m}
<1>1. /\ Len(s) \in Nat /\ \A i \in 1..Len(s) : s[i] \in X
      /\ \A i, j \in 1..Len(s) : s[i] = s[j] => i = j
  BY ListsHold
<1>2. PICK kept :
         /\ kept[0] = << >>
         /\ \A i \in 1..Len(s) :
               kept[i] = IF s[i] \in ks THEN kept[i - 1] ELSE Append(kept[i - 1], s[i])
         /\ Cache!Without(s, ks) = kept[Len(s)]
  BY WithoutUnfolds DEF Lists
<1> DEFINE T == {m \in Nat : m <= Len(s) => Lists(kept[m], Upto(m) \ ks)}
<1>3. 0 \in T
  <2>1. Upto(0) \ ks = {}
    OBVIOUS
  <2> QED
    BY <1>2, <2>1, EmptyLists
<1>4. ASSUME NEW m \in Nat, m \in T, m + 1 <= Len(s)
      PROVE  Lists(kept[m + 1], Upto(m + 1) \ ks)
  <2>1. Lists(kept[m], Upto(m) \ ks)
    BY <1>1, <1>4
  <2>2. Upto(m + 1) = Upto(m) \cup {s[m + 1]}
    <3>1. 1..(m + 1) = (1..m) \cup {m + 1}
      OBVIOUS
    <3> QED
      BY <3>1
  <2>3. m + 1 \in 1..Len(s) /\ (m + 1) - 1 = m
    BY <1>1, <1>4
  <2>4. s[m + 1] \notin Upto(m)
    BY <1>1, <2>3
  <2> HIDE DEF Upto
  <2>5. CASE s[m + 1] \in ks
    <3>1. kept[m + 1] = kept[m] /\ Upto(m + 1) \ ks = Upto(m) \ ks
      BY <1>2, <2>2, <2>3, <2>5
    <3> QED
      BY <2>1, <3>1
  <2>6. CASE s[m + 1] \notin ks
    <3>1. /\ kept[m + 1] = Append(kept[m], s[m + 1])
          /\ Upto(m + 1) \ ks = (Upto(m) \ ks) \cup {s[m + 1]}
      BY <1>2, <2>2, <2>3, <2>6
    <3> QED
      BY <2>1, <2>4, <3>1, AppendLists
  <2> QED
    BY <2>5, <2>6
<1>5. Nat \subseteq T
  <2>1. ASSUME NEW m \in Nat, m \in T PROVE m + 1 \in T
    <3>1. m + 1 <= Len(s) => Lists(kept[m + 1], Upto(m + 1) \ ks)
      <4> HIDE DEF Upto, T
      <4> QED
        BY <1>4, <2>1
    <3> HIDE DEF Upto
    <3> QED
      BY <3>1
  <2> HIDE DEF T
  <2> QED
    BY <1>3, <2>1, SetInduction
<1>6. Upto(Len(s)) = X
  BY <1>1, SMTT(60) DEF Lists
<1>7. Lists(kept[Len(s)], Upto(Len(s)) \ ks)
  <2>1. Len(s) \in T
    <3> HIDE DEF T
    <3> QED
      BY <1>1, <1>5
  <2> HIDE DEF Upto
  <2> QED
    BY <1>1, <2>1
<1> QED
  BY <1>2, <1>6, <1>7

LEMMA MoveToFrontLists ==
    ASSUME NEW s, NEW X, Lists(s, X), NEW x
    PROVE  Lists(<<x>> \o Cache!Without(s, {x}), X \cup {x})
<1>1. Lists(Cache!Without(s, {x}), X \ {x})
  BY WithoutLists
<1>2. (X \ {x}) \cup {x} = X \cup {x}
  OBVIOUS
<1> QED
  BY <1>1, <1>2, PrependLists

----------------------------------------------------------------------------
\* The cache as the service keeps it: the list holds every guarded key once and
\* fits in its capacity, and every guard is pinned by somebody.
Sound(c) ==
    /\ IsCache(c)
    /\ Lists(c.order, Cache!Cached(c))
    /\ c.capacity \in Nat \ {0} /\ Len(c.order) <= c.capacity
    /\ \A k \in Cache!Cached(c) : c.guard[k].pins >= 1

LEMMA CardinalitySame == \A S : Cache!Cardinality(S) = Cardinality(S)
  BY DEF Cache!Cardinality, Cardinality

\* An operation that leaves fewer guards, and their keys in the list.
LEMMA FewerSound ==
    ASSUME NEW c, Sound(c), NEW d, IsCache(d), d.capacity = c.capacity,
           Cache!Cached(d) \subseteq Cache!Cached(c), Lists(d.order, Cache!Cached(d)),
           \A k \in Cache!Cached(d) : d.guard[k].pins >= 1
    PROVE  Sound(d)
<1> DEFINE X == Cache!Cached(c)
           Y == Cache!Cached(d)
<1>1. IsFiniteSet(X) /\ Cardinality(X) = Len(c.order) /\ Len(c.order) \in Nat
  BY ListsCount, ListsHold DEF Sound
<1>2. Cardinality(Y) = Len(d.order) /\ Len(d.order) \in Nat
  BY ListsCount, ListsHold
<1>3. Y \subseteq X
  OBVIOUS
<1>4. Cardinality(Y) <= Cardinality(X)
  <2> HIDE DEF X, Y
  <2> QED
    BY <1>1, <1>3, FS_Subset
<1> QED
  BY <1>1, <1>2, <1>4 DEF Sound

LEMMA EmptySound ==
    ASSUME NEW n \in Nat \ {0}
    PROVE  Sound(Cache!EmptyCache(n))
<1> DEFINE c == Cache!EmptyCache(n)
<1>1. c.order = << >> /\ c.capacity = n /\ c.guard = [k \in Keys |-> Cache!NoGuard]
  BY DEF Cache!EmptyCache
<1>2. IsCache(c) /\ Cache!Cached(c) = {}
  BY <1>1, NoGuardTyped DEF IsCache, Guards, Cache!Cached, Cache!EmptyCache
<1> HIDE DEF c
<1>3. Lists(c.order, Cache!Cached(c)) /\ Len(c.order) = 0
  BY <1>1, <1>2, EmptyLists
<1>4. Sound(c)
  BY <1>1, <1>2, <1>3 DEF Sound
<1> QED
  BY <1>4 DEF c

LEMMA TouchMoves ==
    ASSUME NEW c, IsCache(c), NEW X, Lists(c.order, X), NEW k
    PROVE  /\ IsCache(Cache!Touch(c, k)) /\ Cache!Touch(c, k).guard = c.guard
           /\ Cache!Touch(c, k).capacity = c.capacity
           /\ Lists(Cache!Touch(c, k).order, X \cup {k})
<1> DEFINE o == <<k>> \o Cache!Without(c.order, {k})
<1>1. Cache!Touch(c, k) = [c EXCEPT !.order = o]
  BY DEF Cache!Touch
<1>2. Lists(o, X \cup {k})
  BY MoveToFrontLists
<1> HIDE DEF o
<1> QED
  BY <1>1, <1>2 DEF IsCache

LEMMA PinSound ==
    ASSUME NEW c, Sound(c), NEW k \in Cache!Cached(c)
    PROVE  Sound(Cache!Pin(c, k)) /\ Cache!Cached(Cache!Pin(c, k)) = Cache!Cached(c)
<1> DEFINE t == Cache!Touch(c, k)
           g == [c.guard EXCEPT ![k].pins = @ + 1]
           d == Cache!Pin(c, k)
<1>1. /\ IsCache(t) /\ t.guard = c.guard /\ t.capacity = c.capacity
      /\ Lists(t.order, Cache!Cached(c))
  <2>1. Cache!Cached(c) \cup {k} = Cache!Cached(c)
    OBVIOUS
  <2>2. IsCache(c) /\ Lists(c.order, Cache!Cached(c))
    BY DEF Sound
  <2>3. /\ IsCache(t) /\ t.guard = c.guard /\ t.capacity = c.capacity
        /\ Lists(t.order, Cache!Cached(c) \cup {k})
    BY <2>2, TouchMoves
  <2> QED
    BY <2>1, <2>3
<1>2. k \in Keys /\ c.guard[k].pins >= 1 /\ c.guard \in Guards
  BY DEF Sound, Cache!Cached, IsCache
<1> HIDE DEF t
<1>3. d = [t EXCEPT !.guard = g]
  BY <1>1 DEF Cache!Pin, t
<1>4. g \in Guards /\ \A x \in Keys : x # k => g[x] = c.guard[x]
  BY <1>2 DEF Guards
<1>5. g[k].pins = c.guard[k].pins + 1 /\ g[k].pins >= 2 /\ g[k] # Cache!NoGuard
  BY <1>2 DEF Guards, Cache!NoGuard
<1>6. IsCache(d) /\ d.guard = g /\ d.order = t.order /\ d.capacity = c.capacity
  BY <1>1, <1>3, <1>4 DEF IsCache
<1> HIDE DEF d, g
<1>7. Cache!Cached(d) = Cache!Cached(c)
  BY <1>4, <1>5, <1>6 DEF Cache!Cached
<1>8. \A x \in Cache!Cached(d) : d.guard[x].pins >= 1
  <2>1. \A x \in Cache!Cached(c) : x \in Keys /\ c.guard[x].pins >= 1
    BY DEF Sound, Cache!Cached
  <2>2. g[k].pins \in Int /\ g[k].pins >= 1
    BY <1>2, <1>4, <1>5 DEF Guards
  <2> QED
    BY <1>4, <1>6, <1>7, <2>1, <2>2
<1>9. Sound(d)
  BY <1>1, <1>6, <1>7, <1>8, FewerSound
<1> QED
  BY <1>7, <1>9 DEF d

\* Keys leave the list and the table together.
LEMMA ForgetSound ==
    ASSUME NEW c, Sound(c), NEW ks
    PROVE  /\ Sound(Cache!Forget(c, ks))
           /\ Cache!Cached(Cache!Forget(c, ks)) = Cache!Cached(c) \ ks
<1> DEFINE o == Cache!Without(c.order, ks)
           g == [k \in Keys |-> IF k \in ks THEN Cache!NoGuard ELSE c.guard[k]]
           d == Cache!Forget(c, ks)
<1>1. g \in Guards /\ c.guard \in Guards
  BY NoGuardTyped DEF Sound, IsCache, Guards
<1>2. Lists(o, Cache!Cached(c) \ ks)
  BY WithoutLists DEF Sound
<1>3. d = [c EXCEPT !.order = o, !.guard = g]
  BY DEF Cache!Forget
<1> HIDE DEF o, d
<1>4. IsCache(d) /\ d.guard = g /\ d.order = o /\ d.capacity = c.capacity
  <2> HIDE DEF g
  <2> QED
    BY <1>1, <1>3 DEF IsCache, Sound
<1>5. Cache!Cached(d) = Cache!Cached(c) \ ks
  BY <1>4 DEF Cache!Cached
<1>6. \A x \in Cache!Cached(d) : d.guard[x].pins >= 1
  BY <1>4, <1>5 DEF Sound, Cache!Cached
<1>7. Sound(d)
  BY <1>2, <1>4, <1>5, <1>6, FewerSound
<1> QED
  BY <1>5, <1>7 DEF d

LEMMA RemoveKeySound ==
    ASSUME NEW c, Sound(c), NEW k \in Keys
    PROVE  /\ Sound(Cache!RemoveKey(c, k))
           /\ Cache!Cached(Cache!RemoveKey(c, k)) = Cache!Cached(c) \ {k}
<1>1. c.guard \in [Keys -> [rev : 0..MaxRevision, pins : Int]]
  BY DEF Sound, IsCache, Guards
<1>2. [c.guard EXCEPT ![k] = Cache!NoGuard]
         = [x \in Keys |-> IF x \in {k} THEN Cache!NoGuard ELSE c.guard[x]]
  BY <1>1
<1>3. Cache!RemoveKey(c, k) = Cache!Forget(c, {k})
  BY <1>2 DEF Cache!RemoveKey, Cache!Forget
<1> QED
  BY <1>3, ForgetSound

LEMMA UnpinSound ==
    ASSUME NEW c, Sound(c), NEW k \in Keys
    PROVE  /\ Sound(Cache!Unpin(c, k))
           /\ Cache!Cached(c) \ {k} \subseteq Cache!Cached(Cache!Unpin(c, k))
<1>1. CASE k \in Cache!Cached(c) /\ c.guard[k].pins > 1
  <2> DEFINE g == [c.guard EXCEPT ![k].pins = @ - 1]
             d == Cache!Unpin(c, k)
  <2>1. c.guard \in Guards
    BY DEF Sound, IsCache
  <2>2. d = [c EXCEPT !.guard = g]
    BY <1>1 DEF Cache!Unpin
  <2>3. g \in Guards /\ \A x \in Keys : x # k => g[x] = c.guard[x]
    BY <2>1 DEF Guards
  <2>4. g[k].pins = c.guard[k].pins - 1 /\ g[k].pins >= 1 /\ g[k] # Cache!NoGuard
    BY <1>1, <2>1 DEF Guards, Cache!NoGuard
  <2>5. IsCache(d) /\ d.guard = g /\ d.order = c.order /\ d.capacity = c.capacity
    BY <2>2, <2>3 DEF IsCache, Sound
  <2> HIDE DEF d, g
  <2>6. Cache!Cached(d) = Cache!Cached(c)
    BY <1>1, <2>3, <2>4, <2>5 DEF Cache!Cached
  <2>7. \A x \in Cache!Cached(d) : d.guard[x].pins >= 1
    BY <2>3, <2>4, <2>5, <2>6 DEF Sound, Cache!Cached
  <2>8. Lists(d.order, Cache!Cached(d))
    BY <2>5, <2>6 DEF Sound
  <2>9. Sound(d)
    BY <2>5, <2>6, <2>7, <2>8, FewerSound
  <2> QED
    BY <2>6, <2>9 DEF d
<1>2. CASE ~(k \in Cache!Cached(c) /\ c.guard[k].pins > 1)
  BY <1>2, RemoveKeySound DEF Cache!Unpin
<1> QED
  BY <1>1, <1>2

\* Storing into a full list makes room for the key it displaces, which is
\* pinned like every other.
LEMMA StoreSound ==
    ASSUME NEW c, Sound(c), NEW k \in Keys,
           NEW guard \in [rev : 0..MaxRevision, pins : Int], guard.pins >= 1
    PROVE  /\ Sound(Cache!Store(c, k, guard))
           /\ Cache!Cached(c) \subseteq Cache!Cached(Cache!Store(c, k, guard))
<1> DEFINE X == Cache!Cached(c)
           filed == Cache!RecordAccess(c, k)
           oldest == Cache!Last(c.order)
           swept == IF Cache!Overflows(c, k) THEN Cache!HandleEvict(filed, oldest) ELSE filed
           g == [c.guard EXCEPT ![k] = guard]
           d == Cache!Store(c, k, guard)
<1>1. /\ IsCache(c) /\ Lists(c.order, X) /\ c.capacity \in Nat \ {0}
      /\ Len(c.order) \in Nat /\ Len(c.order) <= c.capacity
      /\ IsFiniteSet(X) /\ Cardinality(X) = Len(c.order) /\ Cache!ToSet(c.order) = X
  BY ListsHold, ListsCount DEF Sound
<1>2. d = [swept EXCEPT !.guard[k] = guard]
  BY DEF Cache!Store
<1>3. /\ IsCache(swept) /\ swept.guard = c.guard /\ Lists(swept.order, X \cup {k})
      /\ swept.capacity \in Nat \ {0} /\ Len(swept.order) <= swept.capacity
  <2>1. CASE Cache!Overflows(c, k)
    <3> DEFINE room == Cardinality(X) + PinnedBoost
               r == Cache!Resize(filed, room)
    <3>1. k \notin X /\ Len(c.order) = c.capacity /\ c.order # << >>
      BY <1>1, <2>1 DEF Cache!Overflows, Cache!Listed
    <3>2. /\ Lists(Cache!Front(c.order), X \ {oldest}) /\ oldest \in X
          /\ Len(Cache!Front(c.order)) = Len(c.order) - 1 /\ Len(c.order) >= 1
      BY <1>1, <3>1, FrontLists
    <3>3. filed = [c EXCEPT !.order = <<k>> \o Cache!Front(c.order)]
      BY <2>1 DEF Cache!RecordAccess
    <3>4. Lists(<<k>> \o Cache!Front(c.order), (X \ {oldest}) \cup {k})
      BY <3>1, <3>2, PrependLists
    <3>5. /\ IsCache(filed) /\ filed.guard = c.guard /\ filed.capacity = c.capacity
          /\ filed.order = <<k>> \o Cache!Front(c.order)
      BY <1>1, <3>3 DEF IsCache
    <3>6. Len(filed.order) = Len(c.order)
      <4>1. /\ Len(filed.order) \in Nat
            /\ Len(filed.order) = Cardinality((X \ {oldest}) \cup {k})
        <5>1. Lists(filed.order, (X \ {oldest}) \cup {k})
          BY <3>4, <3>5
        <5> HIDE DEF filed, X, oldest
        <5>2. Len(filed.order) \in Nat
          BY <5>1, ListsHold
        <5> QED
          BY <5>1, <5>2, ListsCount
      <4>2. /\ IsFiniteSet(X \ {oldest}) /\ Cardinality(X \ {oldest}) = Cardinality(X) - 1
            /\ k \notin X \ {oldest}
        BY <1>1, <3>1, <3>2, FS_RemoveElement
      <4>3. Cardinality((X \ {oldest}) \cup {k}) = Cardinality(X \ {oldest}) + 1
        <5> HIDE DEF X, oldest
        <5> QED
          BY <4>2, FS_AddElement
      <4> QED
        BY <1>1, <4>1, <4>2, <4>3
    <3> HIDE DEF filed, oldest
    <3>7. Cache!Cached(filed) = X /\ oldest \in Cache!Pinned(filed)
      BY <3>2, <3>5 DEF Cache!Cached, Cache!Pinned, Sound, IsCache, Guards
    <3>8. room \in Nat /\ room > c.capacity
      BY <1>1, <3>1, CallsAssumption
    <3>9. /\ IsCache(r) /\ r.guard = c.guard /\ r.capacity = room /\ r.order = filed.order
      <4> HIDE DEF room
      <4>1. ~(Len(filed.order) > room)
        BY <1>1, <3>6, <3>8
      <4>2. r = [filed EXCEPT !.capacity = room, !.order = filed.order]
        BY <4>1 DEF Cache!Resize
      <4> HIDE DEF r
      <4> QED
        BY <3>5, <4>2 DEF IsCache
    <3>10. swept = Cache!RecordAccess(r, oldest)
      <4>1. Cache!HandleEvict(filed, oldest) = Cache!RecordAccess(r, oldest)
        BY <3>7, CardinalitySame DEF Cache!HandleEvict
      <4> QED
        BY <2>1, <4>1
    <3> HIDE DEF r, room
    <3>11. swept = Cache!Touch(r, oldest)
      <4>1. ~Cache!Overflows(r, oldest)
        BY <1>1, <3>1, <3>6, <3>8, <3>9 DEF Cache!Overflows
      <4> QED
        BY <3>10, <4>1 DEF Cache!RecordAccess
    <3>12. ((X \ {oldest}) \cup {k}) \cup {oldest} = X \cup {k}
      BY <3>2
    <3> HIDE DEF swept, X
    <3>13. /\ IsCache(swept) /\ swept.guard = r.guard /\ swept.capacity = r.capacity
           /\ Lists(swept.order, X \cup {k})
      <4>1. IsCache(r) /\ Lists(r.order, (X \ {oldest}) \cup {k})
        BY <3>4, <3>5, <3>9
      <4>2. Lists(swept.order, ((X \ {oldest}) \cup {k}) \cup {oldest})
        BY <3>11, <4>1, TouchMoves
      <4>3. IsCache(swept) /\ swept.guard = r.guard /\ swept.capacity = r.capacity
        BY <3>11, <4>1, TouchMoves
      <4> QED
        BY <3>12, <4>2, <4>3
    <3>14. Len(swept.order) = Cardinality(X) + 1
      <4>1. Len(swept.order) = Cardinality(X \cup {k})
        BY <3>13, ListsCount
      <4> QED
        BY <1>1, <3>1, <4>1, FS_AddElement
    <3> QED
      BY <1>1, <3>8, <3>9, <3>13, <3>14, CallsAssumption DEF room
  <2>2. CASE ~Cache!Overflows(c, k)
    <3>1. swept = Cache!Touch(c, k)
      BY <2>2 DEF Cache!RecordAccess
    <3> HIDE DEF swept, filed, oldest
    <3>2. /\ IsCache(swept) /\ swept.guard = c.guard /\ swept.capacity = c.capacity
          /\ Lists(swept.order, X \cup {k})
      BY <1>1, <3>1, TouchMoves
    <3>3. Len(swept.order) = Cardinality(X \cup {k})
      BY <3>2, ListsCount
    <3>4. CASE k \in X
      <4>1. X \cup {k} = X
        BY <3>4
      <4> QED
        BY <1>1, <3>2, <3>3, <4>1
    <3>5. CASE k \notin X
      <4>1. Len(c.order) < c.capacity
        <5>1. c.order = << >> => Len(c.order) = 0
          OBVIOUS
        <5> QED
          BY <1>1, <2>2, <3>5, <5>1 DEF Cache!Overflows, Cache!Listed
      <4>2. Cardinality(X \cup {k}) = Cardinality(X) + 1
        <5> HIDE DEF X
        <5> QED
          BY <1>1, <3>5, FS_AddElement
      <4> QED
        BY <1>1, <3>2, <3>3, <4>1, <4>2
    <3> QED
      BY <3>4, <3>5
  <2> QED
    BY <2>1, <2>2
<1> HIDE DEF swept, d
<1>4. g \in Guards /\ c.guard \in Guards /\ guard # Cache!NoGuard
  BY <1>1 DEF IsCache, Guards, Cache!NoGuard
<1>5. /\ IsCache(d) /\ d.guard = g /\ d.order = swept.order /\ d.capacity = swept.capacity
  BY <1>2, <1>3, <1>4 DEF IsCache
<1>6. Cache!Cached(d) = X \cup {k}
  BY <1>4, <1>5 DEF Cache!Cached, Guards
<1>7. \A x \in Cache!Cached(d) : d.guard[x].pins >= 1
  BY <1>4, <1>5, <1>6 DEF Cache!Cached, Guards, Sound
<1>8. Sound(d)
  BY <1>3, <1>5, <1>6, <1>7 DEF Sound
<1> QED
  BY <1>6, <1>8 DEF d

\* A resize keeps the pinned keys, which are all: it evicts nothing.
LEMMA ResizeCacheSound ==
    ASSUME NEW c, Sound(c), NEW wanted \in Capacities
    PROVE  /\ Sound(Cache!ResizeCache(c, wanted))
           /\ Cache!ResizeCache(c, wanted).guard = c.guard
<1> DEFINE X == Cache!Cached(c)
           n == IF wanted < Cardinality(X) THEN Cardinality(X) ELSE wanted
           d == Cache!ResizeCache(c, wanted)
<1>1. /\ IsCache(c) /\ Lists(c.order, X) /\ c.capacity \in Nat \ {0}
      /\ Len(c.order) \in Nat /\ Len(c.order) <= c.capacity
      /\ Cardinality(X) = Len(c.order)
  BY ListsHold, ListsCount DEF Sound
<1>2. Cache!Pinned(c) = X
  BY <1>1 DEF Cache!Pinned, Sound, IsCache, Guards, Cache!Cached
<1>3. n \in Nat \ {0} /\ Len(c.order) <= n
  BY <1>1, CallsAssumption
<1>4. d = Cache!HandleEvicts(Cache!ResizeWithEvict(c, n), Cache!EvictedByResize(c, n))
  BY <1>2, CardinalitySame DEF Cache!ResizeCache
<1> HIDE DEF n, d, X
<1>5. Cache!EvictedByResize(c, n) = << >>
  BY <1>3 DEF Cache!EvictedByResize
<1>6. d = Cache!ResizeWithEvict(c, n)
  <2>1. Len(<< >>) = 0
    OBVIOUS
  <2> QED
    BY <1>4, <1>5, <2>1, HandleEvictsUnfolds
<1>7. /\ IsCache(d) /\ d.guard = c.guard /\ d.capacity = n
      /\ Lists(d.order, X) /\ Len(d.order) <= n
  <2>1. CASE n > c.capacity
    <3>1. d = [c EXCEPT !.capacity = n, !.order = c.order]
      <4>1. ~(Len(c.order) > n)
        BY <1>1, <1>3
      <4>2. d = Cache!Resize(c, n)
        BY <1>6, <2>1 DEF Cache!ResizeWithEvict
      <4> QED
        BY <4>1, <4>2 DEF Cache!Resize
    <3> QED
      BY <1>1, <1>3, <3>1 DEF IsCache
  <2>2. CASE ~(n > c.capacity)
    <3> DEFINE all == SubSeq(c.order, 1, Len(c.order))
    <3>1. (IF Len(c.order) < n THEN Len(c.order) ELSE n) = Len(c.order)
      BY <1>1, <1>3
    <3>2. d = [c EXCEPT !.capacity = n, !.order = all]
      BY <1>6, <2>2, <3>1 DEF Cache!ResizeWithEvict
    <3>3. Len(c.order) \in 0..Len(c.order)
      BY <1>1
    <3>4. Lists(all, X \ {c.order[i] : i \in (Len(c.order) + 1)..Len(c.order)})
          /\ Len(all) = Len(c.order)
      BY <1>1, <3>3, PrefixLists
    <3>5. X \ {c.order[i] : i \in (Len(c.order) + 1)..Len(c.order)} = X
      BY <1>1
    <3> HIDE DEF all
    <3>6. IsCache(d) /\ d.guard = c.guard /\ d.capacity = n /\ d.order = all
      BY <1>1, <3>2 DEF IsCache
    <3> QED
      BY <1>3, <3>4, <3>5, <3>6
  <2> QED
    BY <2>1, <2>2
<1>8. Cache!Cached(d) = X /\ \A k \in X : d.guard[k].pins >= 1
  BY <1>7 DEF Cache!Cached, X, Sound
<1>9. Sound(d)
  BY <1>3, <1>7, <1>8 DEF Sound
<1> QED
  BY <1>7, <1>9 DEF d

----------------------------------------------------------------------------
\* Answers.

\* Posting keeps what is posted and adds an answer for each of who.
PostedTo(n, who, status, rev) ==
    /\ posted' \in Seq(AnswersOf(n))
    /\ Len(posted) \in Nat /\ Len(who) \in Nat /\ Len(posted') = Len(posted) + Len(who)
    /\ \A i \in 1..Len(posted) : posted'[i] = posted[i]
    /\ \A i \in 1..Len(who) :
          posted'[Len(posted) + i] = [call |-> who[i], status |-> status, rev |-> rev]

LEMMA PostAppends ==
    ASSUME NEW n \in Nat, posted \in Seq(AnswersOf(n)), NEW who \in Seq(1..n),
           NEW status \in {"ready", "canceled", "error"}, NEW rev \in 0..MaxRevision,
           Post(who, status, rev)
    PROVE  PostedTo(n, who, status, rev)
<1> DEFINE new == Answers(who, status, rev)
<1>1. /\ new \in Seq(AnswersOf(n)) /\ Len(new) = Len(who)
      /\ \A i \in 1..Len(who) : new[i] = [call |-> who[i], status |-> status, rev |-> rev]
  <2>1. Len(who) \in Nat /\ \A i \in 1..Len(who) : who[i] \in 1..n
    BY LenProperties, ElementOfSeq
  <2>2. \A i \in 1..Len(who) : [call |-> who[i], status |-> status, rev |-> rev] \in AnswersOf(n)
    BY <2>1 DEF AnswersOf
  <2>3. new \in Seq(AnswersOf(n))
    BY <2>1, <2>2 DEF Answers
  <2> QED
    BY <2>1, <2>3 DEF Answers
<1> HIDE DEF new
<1>2. posted' = posted \o new
  BY DEF Post, new
<1>3. Len(posted) \in Nat /\ Len(who) \in Nat
  BY LenProperties
<1>4. /\ posted \o new \in Seq(AnswersOf(n))
      /\ Len(posted \o new) = Len(posted) + Len(new)
      /\ \A i \in 1..Len(posted) + Len(new) :
            (posted \o new)[i] = IF i <= Len(posted) THEN posted[i] ELSE new[i - Len(posted)]
  <2>1. new \in Seq(AnswersOf(n)) /\ posted \in Seq(AnswersOf(n))
    BY <1>1
  <2> QED
    BY <2>1, ConcatProperties, Zenon
<1>5. ASSUME NEW i \in 1..Len(who)
      PROVE  posted'[Len(posted) + i] = [call |-> who[i], status |-> status, rev |-> rev]
  <2>1. /\ Len(posted) + i \in 1..Len(posted) + Len(new)
        /\ ~(Len(posted) + i <= Len(posted)) /\ (Len(posted) + i) - Len(posted) = i
    BY <1>1, <1>3
  <2>2. posted'[Len(posted) + i] = new[(Len(posted) + i) - Len(posted)]
    BY <1>2, <1>4, <2>1
  <2> QED
    BY <1>1, <2>1, <2>2
<1>6. \A i \in 1..Len(posted) : posted'[i] = posted[i]
  BY <1>1, <1>2, <1>3, <1>4
<1> QED
  BY <1>1, <1>2, <1>3, <1>4, <1>5, <1>6 DEF PostedTo

\* The calls of a finite set in some order, each once.
LEMMA SetToSeqOrders ==
    ASSUME NEW S, IsFiniteSet(S)
    PROVE  /\ SetToSeq(S) \in Seq(S)
           /\ IsInjective(SetToSeq(S))
<1>1. Cardinality(S) \in Nat /\ ExistsBijection(1..Cardinality(S), S)
  BY FS_CardinalityType
<1>2. PICK f \in [1..Cardinality(S) -> S] : IsInjective(f)
  BY <1>1 DEF ExistsBijection, Bijection, Injection, IsInjective
<1>3. /\ SetToSeq(S) \in [1..Cardinality(S) -> S]
      /\ IsInjective(SetToSeq(S))
  BY <1>2 DEF SetToSeq
<1> QED
  BY <1>1, <1>3, SeqDef

----------------------------------------------------------------------------
\* More calls.

LEMMA FiledGrows ==
    ASSUME NEW n \in Nat, NEW m \in Nat, n <= m, Filed(n)
    PROVE  Filed(m)
<1>1. 1..n \subseteq 1..m
  OBVIOUS
<1>2. Seq(1..n) \subseteq Seq(1..m)
  BY <1>1, SeqMonotonic
<1>3. AnswersOf(n) \subseteq AnswersOf(m) /\ RenditionsOf(n) \subseteq RenditionsOf(m)
  BY <1>1, <1>2 DEF AnswersOf, RenditionsOf
<1>4. posted \in Seq(AnswersOf(n)) => posted \in Seq(AnswersOf(m))
  BY <1>3, SeqMonotonic
<1> QED
  BY <1>1, <1>2, <1>3, <1>4 DEF Filed

\* A new call is the last of asks.
LEMMA AskAppends ==
    ASSUME Asked, Kept, NEW k \in Keys, NEW kind \in {"thumbnail", "analysis"}, Ask(k, kind)
    PROVE  /\ Asked' /\ Len(asks) \in Nat
           /\ Len(asks') = Len(asks) + 1 /\ Len(asks') \in 1..MaxAsks
           /\ \A c \in Calls : asks'[c] = asks[c]
           /\ asks'[Len(asks')] = [key |-> k, kind |-> kind, since |-> invalidated[ImageOf(k)]]
<1> DEFINE new == [key |-> k, kind |-> kind, since |-> invalidated[ImageOf(k)]]
<1>1. new \in AskRecords
  BY DEF AskRecords, Kept, ImageOf, Keys
<1>2. asks' = Append(asks, new) /\ Len(asks) < MaxAsks
  BY DEF Ask
<1> HIDE DEF new
<1>3. /\ Append(asks, new) \in Seq(AskRecords) /\ Len(asks) \in Nat
      /\ Len(Append(asks, new)) = Len(asks) + 1
      /\ \A i \in 1..Len(asks) : Append(asks, new)[i] = asks[i]
      /\ Append(asks, new)[Len(asks) + 1] = new
  BY <1>1, AppendProperties DEF Asked
<1> QED
  BY <1>2, <1>3, CallsAssumption DEF Asked, Calls, new

----------------------------------------------------------------------------
\* What the steps of every action share.

LEMMA WeakerFresh ==
    ASSUME CacheIsFresh, Weaker(cache, cache', Keys), UNCHANGED invalidated
    PROVE  IsCache(cache)' /\ CacheIsFresh'
<1>1. IsCache(cache)'
  BY DEF Weaker, IsCache, Guards
<1> QED
  BY <1>1 DEF Weaker, CacheIsFresh, Cache!Cached, ImageOf

\* Answers new enough for the calls they go to.
LEMMA PostFresh ==
    ASSUME NEW n \in Nat, posted \in Seq(AnswersOf(n)), NEW who \in Seq(1..n),
           NEW status \in {"ready", "canceled", "error"}, NEW rev \in 0..MaxRevision,
           Post(who, status, rev),
           \A i \in 1..Len(posted) :
              posted[i].status = "ready" => posted[i].rev >= asks'[posted[i].call].since,
           status = "ready" => \A i \in 1..Len(who) : rev >= asks'[who[i]].since
    PROVE  posted' \in Seq(AnswersOf(n)) /\ AnswersAreFresh'
<1>1. PostedTo(n, who, status, rev)
  BY PostAppends
<1>2. ASSUME NEW i \in 1..Len(posted'), posted'[i].status = "ready"
      PROVE  posted'[i].rev >= asks'[posted'[i].call].since
  <2>1. CASE i <= Len(posted)
    BY <1>1, <1>2, <2>1 DEF PostedTo
  <2>2. CASE ~(i <= Len(posted))
    <3>1. i - Len(posted) \in 1..Len(who) /\ Len(posted) + (i - Len(posted)) = i
      BY <1>1, <2>2 DEF PostedTo
    <3>2. posted'[i] = [call |-> who[i - Len(posted)], status |-> status, rev |-> rev]
      BY <1>1, <3>1 DEF PostedTo
    <3> QED
      BY <1>2, <3>1, <3>2
  <2> QED
    BY <2>1, <2>2
<1> QED
  BY <1>1, <1>2 DEF AnswersAreFresh, PostedTo

\* The calls waiting for some keys, in some order.
LEMMA WaitersOf ==
    ASSUME NEW n \in Nat, pending \in [Keys -> Seq(1..n)], NEW ks \in SUBSET Keys
    PROVE  /\ UNION {ToSet(pending[k]) : k \in ks} \subseteq 1..n
           /\ SetToSeq(UNION {ToSet(pending[k]) : k \in ks}) \in Seq(1..n)
<1> DEFINE S == UNION {ToSet(pending[k]) : k \in ks}
<1>1. ASSUME NEW k \in ks PROVE ToSet(pending[k]) \subseteq 1..n
  <2>1. pending[k] \in Seq(1..n)
    OBVIOUS
  <2> QED
    BY <2>1, ElementOfSeq, LenProperties DEF ToSet
<1>2. S \subseteq 1..n
  BY <1>1
<1>3. IsFiniteSet(S)
  <2>1. IsFiniteSet(1..n)
    BY FS_Interval
  <2> QED
    BY <1>2, <2>1, FS_Subset
<1>4. SetToSeq(S) \in Seq(S)
  BY <1>3, SetToSeqOrders
<1> QED
  BY <1>2, <1>4, SeqMonotonic

----------------------------------------------------------------------------
\* One lemma per action: what calls are served with stays fresh.

\* A rendition is as fresh as before when neither its record nor what it is
\* measured by changes.
Measures == <<asks, generation, invalidated>>
LEMMA FreshStays ==
    ASSUME NEW r, FreshRendition(r), UNCHANGED Measures, renditions'[r] = renditions[r]
    PROVE  FreshRendition(r)'
  BY DEF FreshRendition, Measures, IsOpen, IsAnalysis, IsCanceled, KeyOf, ImageOf

\* Steps that leave the answers, the calls and the order of revisions alone.
LEMMA Typed ==
    ASSUME ServedInv
    PROVE  /\ Len(asks) \in Nat /\ Len(asks) <= MaxAsks /\ MaxAsks \in Nat
           /\ Asked /\ Filed(Len(asks)) /\ Kept
           /\ \A r \in Calls : /\ r \in 1..MaxAsks /\ KeyOf(r) \in Keys
                               /\ ImageOf(KeyOf(r)) \in Elements
                               /\ asks[r].since \in 0..MaxRevision
<1>1. Asked /\ Filed(Len(asks)) /\ Kept
  BY DEF ServedInv, TypeOK
<1>2. Len(asks) \in Nat /\ \A r \in 1..Len(asks) : asks[r] \in AskRecords
  BY <1>1, LenProperties, ElementOfSeq DEF Asked
<1>3. MaxAsks \in Nat /\ Len(asks) <= MaxAsks
  BY <1>1, CallsAssumption DEF Asked
<1>4. ASSUME NEW r \in Calls
      PROVE  r \in 1..MaxAsks /\ KeyOf(r) \in Keys /\ ImageOf(KeyOf(r)) \in Elements
             /\ asks[r].since \in 0..MaxRevision
  BY <1>2, <1>3 DEF Calls, AskRecords, KeyOf, ImageOf, Keys
<1> QED
  BY <1>1, <1>2, <1>3, <1>4

\* Second section of GetThumbnailDetailed.
LEMMA JoinOrStartServes ==
    ASSUME ServedInv, NEW r \in Calls, JoinOrStart(r)
    PROVE  ServedInv'
<1> DEFINE k == KeyOf(r)
<1>1. /\ Len(asks) \in Nat /\ Len(asks) <= MaxAsks /\ r \in 1..MaxAsks /\ k \in Keys
      /\ Asked /\ Filed(Len(asks)) /\ Kept
  BY Typed
<1>2. /\ pending' = [pending EXCEPT ![k] = Append(@, r)]
      /\ missed' = missed \ {r}
      /\ UNCHANGED <<asks, releasing, cache, generation, analyses, canceled, posted, imageVars>>
      /\ renditions' = IF pending[k] # << >> THEN renditions
                       ELSE [renditions EXCEPT ![r] = NewRendition(generation[k])]
  BY DEF JoinOrStart
<1>3. /\ pending[k] \in Seq(1..Len(asks)) /\ r \in 1..Len(asks)
      /\ Append(pending[k], r) \in Seq(1..Len(asks))
      /\ DOMAIN Append(pending[k], r) = 1..Len(pending[k]) + 1
      /\ DOMAIN pending[k] = 1..Len(pending[k]) /\ Len(pending[k]) \in Nat
      /\ \A i \in 1..Len(pending[k]) : Append(pending[k], r)[i] = pending[k][i]
      /\ Append(pending[k], r)[Len(pending[k]) + 1] = r
  <2>1. pending[k] \in Seq(1..Len(asks)) /\ r \in 1..Len(asks)
    BY <1>1 DEF Filed, Calls
  <2>2. /\ Append(pending[k], r) \in Seq(1..Len(asks))
        /\ Len(Append(pending[k], r)) = Len(pending[k]) + 1
        /\ \A i \in 1..Len(pending[k]) : Append(pending[k], r)[i] = pending[k][i]
        /\ Append(pending[k], r)[Len(pending[k]) + 1] = r
    BY <2>1, AppendProperties
  <2> QED
    BY <2>1, <2>2, LenProperties
<1>4. NewRendition(generation[k]) \in RenditionsOf(Len(asks))
      /\ NewRendition(generation[k]).at = "started"
      /\ NewRendition(generation[k]).gen = generation[k]
  <2>1. << >> \in Seq(1..Len(asks)) /\ generation[k] \in 0..MaxGeneration
    BY <1>1, EmptySeq DEF Kept
  <2> QED
    BY <2>1, CallsAssumption DEF NewRendition, Rendition, RenditionsOf
<1>5. TypeOK'
  <2>1. Filed(Len(asks))'
    BY <1>1, <1>2, <1>3, <1>4 DEF Filed, RenditionsOf, imageVars
  <2>2. Asked' /\ Kept'
    BY <1>1, <1>2 DEF Asked, Kept, IsCache, imageVars
  <2> QED
    BY <2>1, <2>2 DEF TypeOK
<1>6. WaitersFit'
  <2>1. ASSUME NEW q \in Keys, NEW i \in DOMAIN pending'[q] PROVE asks[pending'[q][i]].key = q
    <3>1. CASE q = k
      BY <1>1, <1>2, <1>3, <2>1, <3>1, SMTT(60) DEF ServedInv, WaitersFit, KeyOf, Filed
    <3>2. CASE q # k
      BY <1>1, <1>2, <2>1, <3>2 DEF ServedInv, WaitersFit, KeyOf, Filed
    <3> QED
      BY <3>1, <3>2
  <2> QED
    BY <1>2, <2>1 DEF WaitersFit, KeyOf
<1>7. NoneAhead'
  BY <1>1, <1>2 DEF ServedInv, NoneAhead, Filed, Calls
<1>8. RenditionsFresh'
  <2>1. ASSUME NEW q \in Calls PROVE FreshRendition(q)'
    <3>1. CASE renditions'[q] = renditions[q]
      BY <1>2, <3>1, FreshStays, SMTT(60) DEF ServedInv, Measures, imageVars, RenditionsFresh
    <3>2. CASE q = r /\ renditions'[q] = NewRendition(generation[k])
      BY <1>1, <1>2, <1>4, <3>2, SMTT(60) DEF FreshRendition, IsOpen, IsAnalysis, KeyOf, Kept
    <3> QED
      BY <1>1, <1>2, <3>1, <3>2, Typed DEF Filed
  <2> QED
    BY <1>2, <2>1 DEF RenditionsFresh, FreshRendition, Calls
<1> QED
  BY <1>2, <1>5, <1>6, <1>7, <1>8
     DEF ServedInv, RevisionsOrdered, NothingStaleIsServed, CacheIsFresh, AnswersAreFresh,
         Cache!Cached, KeyOf, ImageOf, Calls, imageVars

\* A step that changes the record of one rendition.
LEMMA OneRendition ==
    ASSUME ServedInv, UNCHANGED Measures, NEW r \in Calls,
           NEW rendition \in RenditionsOf(Len(asks)), Set(r, rendition), FreshRendition(r)'
    PROVE  /\ renditions' \in [1..MaxAsks -> RenditionsOf(Len(asks))]
           /\ renditions'[r] = rendition
           /\ NoneAhead' /\ RenditionsFresh'
<1>1. /\ Len(asks) \in Nat /\ r \in 1..MaxAsks
      /\ renditions \in [1..MaxAsks -> RenditionsOf(Len(asks))]
  BY Typed DEF Filed
<1>2. renditions' = [renditions EXCEPT ![r] = rendition] /\ UNCHANGED asks
  BY DEF Set, Measures
<1>3. ASSUME NEW q \in Calls PROVE FreshRendition(q)'
  <2>1. CASE q # r
    <3>1. q \in 1..MaxAsks /\ FreshRendition(q)
      BY Typed DEF ServedInv, RenditionsFresh
    <3>2. renditions'[q] = renditions[q]
      BY <1>1, <1>2, <2>1, <3>1
    <3> QED
      BY <3>1, <3>2, FreshStays
  <2> QED
    BY <2>1
<1>4. RenditionsFresh'
  BY <1>2, <1>3 DEF RenditionsFresh, FreshRendition, Calls
<1> QED
  BY <1>1, <1>2, <1>4 DEF ServedInv, NoneAhead, Calls

\* Calls that stop waiting leave the others under their key.
LEMMA WaitersStay ==
    ASSUME NEW n, pending \in [Keys -> Seq(1..n)], WaitersFit, UNCHANGED asks,
           \E ks : pending' = [k \in Keys |-> IF k \in ks THEN << >> ELSE pending[k]]
    PROVE  pending' \in [Keys -> Seq(1..n)] /\ WaitersFit'
<1>1. PICK ks : pending' = [k \in Keys |-> IF k \in ks THEN << >> ELSE pending[k]]
  OBVIOUS
<1>2. << >> \in Seq(1..n) /\ Len(<< >>) = 0 /\ DOMAIN << >> = {}
  BY EmptySeq
<1>3. pending' \in [Keys -> Seq(1..n)]
  BY <1>1, <1>2
<1>4. ASSUME NEW k \in Keys, NEW i \in DOMAIN pending'[k] PROVE asks[pending'[k][i]].key = k
  <2>1. CASE k \in ks
    BY <1>1, <1>2, <1>4, <2>1
  <2>2. CASE k \notin ks
    BY <1>1, <1>4, <2>2 DEF WaitersFit, KeyOf
  <2> QED
    BY <2>1, <2>2
<1> QED
  BY <1>3, <1>4 DEF WaitersFit, KeyOf

LEMMA FetchServes ==
    ASSUME ServedInv, NEW r \in Calls, Fetch(r)
    PROVE  ServedInv'
<1> DEFINE new == [renditions[r] EXCEPT !.at = "fetched", !.rev = committed[ImageOf(KeyOf(r))]]
<1>1. /\ Asked /\ Filed(Len(asks)) /\ Kept /\ r \in 1..MaxAsks
      /\ Len(asks) \in Nat /\ ImageOf(KeyOf(r)) \in Elements /\ KeyOf(r) \in Keys
  BY Typed
<1>2. /\ renditions[r] \in RenditionsOf(Len(asks)) /\ renditions[r].at = "started"
      /\ committed[ImageOf(KeyOf(r))] \in 0..MaxRevision
      /\ invalidated[ImageOf(KeyOf(r))] \in 0..MaxRevision
      /\ invalidated[ImageOf(KeyOf(r))] <= committed[ImageOf(KeyOf(r))]
      /\ asks[r].since <= invalidated[ImageOf(KeyOf(r))] /\ asks[r].since \in 0..MaxRevision
      /\ FreshRendition(r)
  BY <1>1, Typed DEF Filed, Kept, Fetch, ServedInv, RevisionsOrdered, RenditionsFresh
<1>3. /\ new \in RenditionsOf(Len(asks)) /\ new.at = "fetched" /\ new.gen = renditions[r].gen
      /\ new.rev = committed[ImageOf(KeyOf(r))]
  BY <1>2 DEF RenditionsOf
<1>4. /\ Set(r, new)
      /\ UNCHANGED <<callVars, cacheVars, analyses, canceled, posted, imageVars>>
  BY DEF Fetch
<1> HIDE DEF new
<1>5. renditions'[r] = new
  BY <1>1, <1>4 DEF Set, Filed
<1>6. FreshRendition(r)'
  BY <1>2, <1>3, <1>4, <1>5, CallsAssumption
     DEF FreshRendition, IsOpen, IsAnalysis, IsCanceled, KeyOf, ImageOf, callVars, cacheVars, imageVars
<1>7. /\ renditions' \in [1..MaxAsks -> RenditionsOf(Len(asks))]
      /\ NoneAhead' /\ RenditionsFresh'
  BY <1>3, <1>4, <1>6, OneRendition DEF Measures, callVars, cacheVars, imageVars
<1> QED
  BY <1>1, <1>4, <1>7
     DEF ServedInv, TypeOK, Asked, Filed, Kept, IsCache, WaitersFit, RevisionsOrdered,
         NothingStaleIsServed, CacheIsFresh, AnswersAreFresh,
         Cache!Cached, KeyOf, ImageOf, Calls, callVars, cacheVars, imageVars

\* A rendition that is over, or that has failed, shows nobody anything.
LEMMA OverTyped == Over \in RenditionsOf(Len(asks)) /\ Over.at = "over"
<1>1. << >> \in Seq(1..Len(asks))
  BY EmptySeq
<1> QED
  BY <1>1, CallsAssumption DEF Over, Rendition, RenditionsOf

LEMMA FailServes ==
    ASSUME ServedInv, NEW r \in Calls, NEW status \in {"canceled", "error"}, Fail(r, status)
    PROVE  ServedInv'
<1> DEFINE ended(who) == [renditions[r] EXCEPT !.at = "concluded", !.calls = who, !.status = status]
<1>1. /\ Asked /\ Filed(Len(asks)) /\ Kept /\ r \in 1..MaxAsks
      /\ Len(asks) \in Nat /\ ImageOf(KeyOf(r)) \in Elements /\ KeyOf(r) \in Keys
  BY Typed
<1>2. /\ UNCHANGED <<callVars, cache, generation, canceled, posted, imageVars>>
      /\ analyses' \subseteq analyses
      /\ \/ UNCHANGED pending
         \/ pending' = [pending EXCEPT ![KeyOf(r)] = << >>]
      /\ \/ Set(r, ended(<<r>>))
         \/ Set(r, ended(pending[KeyOf(r)]))
         \/ Set(r, Over)
  BY DEF Fail, Fails, Abandon, Conclude
<1>3. renditions[r] \in RenditionsOf(Len(asks)) /\ r \in 1..Len(asks)
      /\ pending[KeyOf(r)] \in Seq(1..Len(asks)) /\ << >> \in Seq(1..Len(asks))
      /\ <<r>> \in Seq(1..Len(asks))
  BY <1>1, EmptySeq, SMTT(60) DEF Filed, Calls
<1>4. ASSUME NEW who \in Seq(1..Len(asks))
      PROVE  /\ ended(who) \in RenditionsOf(Len(asks))
             /\ ended(who).at = "concluded" /\ ended(who).status = status
  BY <1>3 DEF RenditionsOf
<1>5. PICK new \in RenditionsOf(Len(asks)) :
         /\ Set(r, new)
         /\ new.at = "over" \/ (new.at = "concluded" /\ new.status \notin {"ready", "none"})
  <2> HIDE DEF ended
  <2>1. CASE Set(r, Over)
    BY <2>1, OverTyped
  <2>2. CASE Set(r, ended(<<r>>))
    BY <1>3, <1>4, <2>2
  <2>3. CASE Set(r, ended(pending[KeyOf(r)]))
    BY <1>3, <1>4, <2>3
  <2> QED
    BY <1>2, <2>1, <2>2, <2>3
<1>6. renditions'[r] = new
  BY <1>1, <1>5 DEF Set, Filed
<1>7. FreshRendition(r)'
  BY <1>5, <1>6 DEF FreshRendition, IsOpen
<1>8. /\ renditions' \in [1..MaxAsks -> RenditionsOf(Len(asks))]
      /\ NoneAhead' /\ RenditionsFresh'
  BY <1>2, <1>5, <1>7, OneRendition DEF Measures, callVars, imageVars
<1>9. pending' \in [Keys -> Seq(1..Len(asks))] /\ WaitersFit'
  <2>1. UNCHANGED asks /\ pending \in [Keys -> Seq(1..Len(asks))] /\ WaitersFit
    BY <1>1, <1>2 DEF Filed, ServedInv, callVars
  <2>2. CASE UNCHANGED pending
    BY <2>1, <2>2 DEF WaitersFit, KeyOf
  <2>3. CASE pending' = [pending EXCEPT ![KeyOf(r)] = << >>]
    <3>1. pending' = [k \in Keys |-> IF k \in {KeyOf(r)} THEN << >> ELSE pending[k]]
      BY <2>1, <2>3
    <3> QED
      BY <2>1, <3>1, WaitersStay
  <2> QED
    BY <1>2, <2>2, <2>3
<1> QED
  BY <1>1, <1>2, <1>8, <1>9
     DEF ServedInv, TypeOK, Asked, Filed, Kept, IsCache, RevisionsOrdered,
         NothingStaleIsServed, CacheIsFresh, AnswersAreFresh,
         Cache!Cached, KeyOf, ImageOf, Calls, callVars, imageVars

\* What a rendition delivers is from after the last invalidation: for an image
\* of the grid since its generation is the current one.
LEMMA PixelsAreFresh ==
    ASSUME ServedInv, NEW r \in Calls, renditions[r].at = "fetched"
    PROVE  /\ IsAnalysis(r) => renditions[r].rev >= asks[r].since
           /\ ~IsAnalysis(r) /\ ~IsCanceled(r) =>
                 /\ renditions[r].rev >= invalidated[ImageOf(KeyOf(r))]
                 /\ \A i \in DOMAIN pending[KeyOf(r)] :
                       renditions[r].rev >= asks[pending[KeyOf(r)][i]].since
<1>1. /\ Filed(Len(asks)) /\ Kept /\ r \in 1..MaxAsks
      /\ ImageOf(KeyOf(r)) \in Elements /\ KeyOf(r) \in Keys
  BY Typed
<1>2. FreshRendition(r)
  BY DEF ServedInv, RenditionsFresh
<1>3. /\ renditions[r] \in RenditionsOf(Len(asks)) /\ renditions[r].rev \in 0..MaxRevision
      /\ invalidated[ImageOf(KeyOf(r))] \in 0..MaxRevision
      /\ pending[KeyOf(r)] \in Seq(1..Len(asks))
  BY <1>1 DEF Filed, RenditionsOf, Kept
<1>4. ASSUME NEW i \in DOMAIN pending[KeyOf(r)], ~IsAnalysis(r), ~IsCanceled(r)
      PROVE  renditions[r].rev >= asks[pending[KeyOf(r)][i]].since
  <2> DEFINE c == pending[KeyOf(r)][i]
  <2>1. c \in Calls
    BY <1>3, <1>4, ElementOfSeq, LenProperties DEF Calls
  <2>2. KeyOf(c) = KeyOf(r)
    BY <1>1, <1>4 DEF ServedInv, WaitersFit
  <2>3. asks[c].since <= invalidated[ImageOf(KeyOf(r))] /\ asks[c].since \in 0..MaxRevision
    BY <2>1, <2>2, Typed DEF ServedInv, RevisionsOrdered
  <2>4. renditions[r].rev >= invalidated[ImageOf(KeyOf(r))]
    BY <1>2, <1>4 DEF FreshRendition
  <2> QED
    BY <1>3, <2>3, <2>4, CallsAssumption
<1> QED
  BY <1>2, <1>4 DEF FreshRendition

LEMMA DeliverPixelsServes ==
    ASSUME ServedInv, NEW r \in Calls, DeliverPixels(r)
    PROVE  ServedInv'
<1> DEFINE k == KeyOf(r)
           ready(who) == [renditions[r] EXCEPT !.at = "concluded", !.calls = who, !.status = "ready"]
           guard(who) == [rev |-> renditions[r].rev, pins |-> Len(who)]
<1>1. /\ Asked /\ Filed(Len(asks)) /\ Kept /\ r \in 1..MaxAsks
      /\ Len(asks) \in Nat /\ ImageOf(k) \in Elements /\ k \in Keys
  BY Typed
<1>2. /\ renditions[r].at = "fetched" /\ Delivers(r)
      /\ UNCHANGED <<callVars, generation, canceled, posted, imageVars>>
  BY DEF DeliverPixels
<1>3. renditions[r] \in RenditionsOf(Len(asks)) /\ r \in 1..Len(asks)
      /\ pending[k] \in Seq(1..Len(asks)) /\ <<r>> \in Seq(1..Len(asks))
      /\ Len(<<r>>) = 1 /\ <<r>>[1] = r /\ DOMAIN <<r>> = 1..1
      /\ renditions[r].rev \in 0..MaxRevision /\ IsCache(cache) /\ analyses \subseteq 1..Len(asks)
  <2>1. r \in 1..Len(asks) /\ <<r>> \in Seq(1..Len(asks))
    BY DEF Calls
  <2>2. Len(<<r>>) = 1 /\ <<r>>[1] = r /\ DOMAIN <<r>> = 1..1
    OBVIOUS
  <2>3. renditions[r] \in RenditionsOf(Len(asks)) /\ pending[k] \in Seq(1..Len(asks))
        /\ IsCache(cache) /\ analyses \subseteq 1..Len(asks)
    BY <1>1 DEF Filed, Kept
  <2>4. renditions[r].rev \in 0..MaxRevision
    BY <2>3 DEF RenditionsOf
  <2> QED
    BY <2>1, <2>2, <2>3, <2>4
<1>4. ASSUME NEW who \in Seq(1..Len(asks)), Set(r, ready(who)),
             \A i \in DOMAIN who : renditions[r].rev >= asks[who[i]].since
      PROVE  /\ renditions' \in [1..MaxAsks -> RenditionsOf(Len(asks))]
             /\ NoneAhead' /\ RenditionsFresh'
  <2>1. /\ ready(who) \in RenditionsOf(Len(asks))
        /\ ready(who).at = "concluded" /\ ready(who).status = "ready"
        /\ ready(who).calls = who /\ ready(who).rev = renditions[r].rev
    BY <1>3 DEF RenditionsOf
  <2> HIDE DEF ready
  <2>2. renditions'[r] = ready(who)
    BY <1>1, <1>4 DEF Set, Filed
  <2>3. FreshRendition(r)'
    BY <1>2, <1>4, <2>1, <2>2 DEF FreshRendition, IsOpen, callVars
  <2> QED
    BY <1>2, <1>4, <2>1, <2>3, OneRendition DEF Measures, callVars, imageVars
<1>5. CASE IsAnalysis(r)
  <2>1. Set(r, ready(<<r>>)) /\ analyses' \subseteq analyses /\ UNCHANGED <<cache, pending>>
    BY <1>2, <1>5 DEF Delivers, PublishAnalysis, Conclude
  <2>2. renditions[r].rev >= asks[r].since
    BY <1>2, <1>5, PixelsAreFresh
  <2>3. /\ renditions' \in [1..MaxAsks -> RenditionsOf(Len(asks))]
        /\ NoneAhead' /\ RenditionsFresh'
    <3> HIDE DEF ready
    <3>1. \A i \in DOMAIN <<r>> : renditions[r].rev >= asks[<<r>>[i]].since
      BY <1>3, <2>2
    <3> QED
      BY <1>3, <1>4, <2>1, <3>1
  <2> QED
    BY <1>1, <1>2, <2>1, <2>3
       DEF ServedInv, TypeOK, Asked, Filed, Kept, IsCache, RevisionsOrdered, WaitersFit,
           NothingStaleIsServed, CacheIsFresh, AnswersAreFresh,
           Cache!Cached, KeyOf, ImageOf, Calls, callVars, imageVars
<1>6. CASE ~IsAnalysis(r) /\ (IsCanceled(r) \/ pending[k] = << >>)
  <2>1. Set(r, Over) /\ UNCHANGED <<cache, pending, analyses>>
    BY <1>2, <1>6 DEF Delivers, Abandon
  <2>2. FreshRendition(r)'
    BY <1>1, <2>1, OverTyped DEF FreshRendition, IsOpen, Set, Filed
  <2>3. /\ renditions' \in [1..MaxAsks -> RenditionsOf(Len(asks))]
        /\ NoneAhead' /\ RenditionsFresh'
    BY <1>2, <2>1, <2>2, OverTyped, OneRendition DEF Measures, callVars, imageVars
  <2> QED
    BY <1>1, <1>2, <2>1, <2>3
       DEF ServedInv, TypeOK, Asked, Filed, Kept, IsCache, RevisionsOrdered, WaitersFit,
           NothingStaleIsServed, CacheIsFresh, AnswersAreFresh,
           Cache!Cached, KeyOf, ImageOf, Calls, callVars, imageVars
<1>7. CASE ~IsAnalysis(r) /\ ~IsCanceled(r) /\ pending[k] # << >>
  <2> DEFINE who == pending[k]
  <2>1. /\ Set(r, ready(who)) /\ UNCHANGED analyses
        /\ pending' = [pending EXCEPT ![k] = << >>]
        /\ cache' = Cache!Store(cache, k, guard(who))
    BY <1>2, <1>7 DEF Delivers, Publish, Conclude
  <2>2. /\ renditions[r].rev >= invalidated[ImageOf(k)]
        /\ \A i \in DOMAIN who : renditions[r].rev >= asks[who[i]].since
    BY <1>2, <1>7, PixelsAreFresh
  <2>3. /\ renditions' \in [1..MaxAsks -> RenditionsOf(Len(asks))]
        /\ NoneAhead' /\ RenditionsFresh'
    <3> HIDE DEF ready
    <3> QED
      BY <1>3, <1>4, <2>1, <2>2
  <2>4. pending' \in [Keys -> Seq(1..Len(asks))] /\ WaitersFit'
    <3>1. pending' = [q \in Keys |-> IF q \in {k} THEN << >> ELSE pending[q]]
      BY <1>1, <2>1 DEF Filed
    <3> QED
      BY <1>1, <1>2, <3>1, WaitersStay DEF ServedInv, Filed, callVars
  <2>5. IsCache(cache)' /\ CacheIsFresh'
    <3>1. guard(who) \in [rev : 0..MaxRevision, pins : Int] /\ guard(who).rev = renditions[r].rev
      BY <1>3, LenProperties
    <3>2. /\ Weaker(cache, cache', Keys \ {k})
          /\ cache'.guard[k] = guard(who)
      <4> HIDE DEF guard
      <4> QED
        BY <1>1, <1>3, <2>1, <3>1, StoreWeaker
    <3>3. IsCache(cache)'
      BY <3>2 DEF Weaker, IsCache, Guards
    <3>4. ASSUME NEW q \in Keys, cache'.guard[q] # Cache!NoGuard
          PROVE  cache'.guard[q].rev >= invalidated[ImageOf(q)]
      <4>1. CASE q = k
        BY <2>2, <3>1, <3>2, <4>1
      <4>2. CASE q # k
        BY <3>2, <3>4, <4>2 DEF Weaker, ServedInv, NothingStaleIsServed, CacheIsFresh, Cache!Cached
      <4> QED
        BY <4>1, <4>2
    <3> QED
      BY <1>2, <3>3, <3>4 DEF CacheIsFresh, Cache!Cached, ImageOf, imageVars
  <2> QED
    BY <1>1, <1>2, <2>1, <2>3, <2>4, <2>5
       DEF ServedInv, TypeOK, Asked, Filed, Kept, RevisionsOrdered,
           NothingStaleIsServed, AnswersAreFresh, KeyOf, ImageOf, Calls, callVars, imageVars
<1> QED
  BY <1>5, <1>6, <1>7

\* The callbacks of a rendition carry what it concluded with.
LEMMA AnswerServes ==
    ASSUME ServedInv, NEW r \in Calls, Answer(r)
    PROVE  ServedInv'
<1>1. /\ Asked /\ Filed(Len(asks)) /\ Kept /\ r \in 1..MaxAsks /\ Len(asks) \in Nat
  BY Typed
<1>2. /\ renditions[r].at = "concluded" /\ Set(r, Over)
      /\ Post(renditions[r].calls, renditions[r].status, renditions[r].rev)
      /\ UNCHANGED <<callVars, cacheVars, analyses, canceled, imageVars>>
  BY DEF Answer
<1>3. /\ renditions[r] \in RenditionsOf(Len(asks)) /\ posted \in Seq(AnswersOf(Len(asks)))
      /\ FreshRendition(r) /\ AnswersAreFresh
  BY <1>1 DEF Filed, ServedInv, NothingStaleIsServed, RenditionsFresh
<1>4. /\ renditions[r].calls \in Seq(1..Len(asks)) /\ renditions[r].rev \in 0..MaxRevision
      /\ renditions[r].status \in {"none", "ready", "canceled", "error"}
  BY <1>3 DEF RenditionsOf
<1>5. renditions[r].status # "none"
  BY <1>2, <1>3 DEF FreshRendition
<1>6. posted' \in Seq(AnswersOf(Len(asks))) /\ AnswersAreFresh'
  <2> DEFINE who == renditions[r].calls
             status == renditions[r].status
             rev == renditions[r].rev
  <2>1. DOMAIN who = 1..Len(who)
    BY <1>4, LenProperties
  <2>2. \A i \in 1..Len(posted) :
           posted[i].status = "ready" => posted[i].rev >= asks'[posted[i].call].since
    BY <1>2, <1>3 DEF AnswersAreFresh, callVars
  <2>3. status = "ready" => \A i \in 1..Len(who) : rev >= asks'[who[i]].since
    BY <1>2, <1>3, <2>1 DEF FreshRendition, callVars
  <2>4. who \in Seq(1..Len(asks)) /\ status \in {"ready", "canceled", "error"}
        /\ rev \in 0..MaxRevision /\ Post(who, status, rev)
    BY <1>2, <1>4, <1>5
  <2> HIDE DEF who, status, rev
  <2> QED
    BY <1>1, <1>3, <2>2, <2>3, <2>4, PostFresh
<1>7. FreshRendition(r)'
  BY <1>1, <1>2, OverTyped DEF FreshRendition, IsOpen, Set, Filed
<1>8. /\ renditions' \in [1..MaxAsks -> RenditionsOf(Len(asks))]
      /\ NoneAhead' /\ RenditionsFresh'
  BY <1>2, <1>7, OverTyped, OneRendition DEF Measures, callVars, cacheVars, imageVars
<1> QED
  BY <1>1, <1>2, <1>6, <1>8
     DEF ServedInv, TypeOK, Asked, Filed, Kept, IsCache, RevisionsOrdered, WaitersFit,
         NothingStaleIsServed, CacheIsFresh,
         Cache!Cached, KeyOf, ImageOf, Calls, callVars, cacheVars, imageVars

LEMMA LoseServes ==
    ASSUME ServedInv, NEW rs \in SUBSET Calls, Lose(rs)
    PROVE  ServedInv'
<1>1. /\ Asked /\ Filed(Len(asks)) /\ Kept /\ Len(asks) \in Nat
      /\ \A r \in Calls : r \in 1..MaxAsks
  BY Typed
<1>2. /\ renditions' = [r \in 1..MaxAsks |-> IF r \in rs THEN Over ELSE renditions[r]]
      /\ UNCHANGED <<callVars, cacheVars, analyses, canceled, posted, imageVars>>
  BY <1>1 DEF Lose, Filed
<1>3. renditions' \in [1..MaxAsks -> RenditionsOf(Len(asks))]
  BY <1>1, <1>2, OverTyped DEF Filed
<1>4. ASSUME NEW r \in Calls PROVE FreshRendition(r)'
  <2>1. CASE r \in rs
    BY <1>1, <1>2, <2>1, OverTyped DEF FreshRendition, IsOpen
  <2>2. CASE r \notin rs
    <3>1. renditions'[r] = renditions[r]
      BY <1>1, <1>2, <2>2
    <3> QED
      BY <1>2, <3>1, FreshStays DEF ServedInv, RenditionsFresh, Measures, callVars, cacheVars, imageVars
  <2> QED
    BY <2>1, <2>2
<1>5. RenditionsFresh'
  BY <1>2, <1>4 DEF RenditionsFresh, Calls, callVars
<1>6. NoneAhead'
  BY <1>1, <1>2 DEF ServedInv, NoneAhead, Calls, callVars
<1> QED
  BY <1>1, <1>2, <1>3, <1>5, <1>6
     DEF ServedInv, TypeOK, Asked, Filed, Kept, IsCache, RevisionsOrdered, WaitersFit,
         NothingStaleIsServed, CacheIsFresh, AnswersAreFresh,
         Cache!Cached, KeyOf, ImageOf, Calls, callVars, cacheVars, imageVars

\* A new generation of some keys: what was rendered for an older one will not
\* be published, so it need not be fresh.
LEMMA SupersedeServes ==
    ASSUME ServedInv, NEW ks \in SUBSET Keys, Supersede(ks), UNCHANGED <<asks, renditions>>,
           invalidated' \in [Elements -> 0..MaxRevision],
           \A e \in Elements : invalidated'[e] >= invalidated[e],
           \A k \in Keys : k \notin ks => invalidated'[ImageOf(k)] = invalidated[ImageOf(k)]
    PROVE  /\ pending' \in [Keys -> Seq(1..Len(asks))] /\ WaitersFit'
           /\ generation' \in [Keys -> 0..MaxGeneration]
           /\ NoneAhead' /\ RenditionsFresh'
<1>1. /\ Asked /\ Filed(Len(asks)) /\ Kept /\ Len(asks) \in Nat
      /\ \A r \in Calls : r \in 1..MaxAsks /\ KeyOf(r) \in Keys
  BY Typed
<1>2. /\ \A k \in ks : generation[k] < MaxGeneration
      /\ generation' = [k \in Keys |-> generation[k] + (IF k \in ks THEN 1 ELSE 0)]
      /\ pending' = [k \in Keys |-> IF k \in ks THEN << >> ELSE pending[k]]
  BY DEF Supersede
<1>3. pending' \in [Keys -> Seq(1..Len(asks))] /\ WaitersFit'
  BY <1>1, <1>2, WaitersStay DEF Filed, ServedInv
<1>4. generation \in [Keys -> 0..MaxGeneration] /\ MaxGeneration \in Nat
  BY <1>1, CallsAssumption DEF Kept
<1>5. ASSUME NEW k \in Keys
      PROVE  /\ generation'[k] \in 0..MaxGeneration /\ generation'[k] >= generation[k]
             /\ k \in ks => generation'[k] > generation[k]
             /\ k \notin ks => generation'[k] = generation[k]
  BY <1>2, <1>4
<1>6. generation' \in [Keys -> 0..MaxGeneration]
  BY <1>2, <1>5
<1>7. ASSUME NEW r \in Calls PROVE FreshRendition(r)'
  <2>1. /\ renditions[r] \in RenditionsOf(Len(asks)) /\ KeyOf(r) \in Keys
        /\ FreshRendition(r)
    BY <1>1 DEF Filed, ServedInv, RenditionsFresh
  <2>2. renditions[r].gen \in 0..MaxGeneration /\ renditions[r].rev \in 0..MaxRevision
    BY <2>1 DEF RenditionsOf
  <2>3. /\ KeyOf(r)' = KeyOf(r) /\ IsAnalysis(r)' = IsAnalysis(r) /\ IsOpen(r)' = IsOpen(r)
    BY DEF KeyOf, IsAnalysis, IsOpen
  <2>4. IsOpen(r) => renditions[r].gen <= generation'[KeyOf(r)] \/ IsAnalysis(r)
    BY <1>4, <1>5, <2>1, <2>2 DEF FreshRendition
  <2>5. ASSUME renditions[r].at = "fetched", ~IsAnalysis(r),
               generation'[KeyOf(r)] = renditions[r].gen
        PROVE  renditions[r].rev >= invalidated'[ImageOf(KeyOf(r))]
    <3>1. renditions[r].gen <= generation[KeyOf(r)]
      BY <2>1, <2>5 DEF FreshRendition, IsOpen
    <3>2. KeyOf(r) \notin ks
      BY <1>4, <1>5, <2>1, <2>2, <2>5, <3>1
    <3>3. generation[KeyOf(r)] = renditions[r].gen
      BY <1>5, <2>1, <2>5, <3>2
    <3> QED
      BY <2>1, <2>5, <3>2, <3>3 DEF FreshRendition, IsCanceled
  <2> QED
    BY <2>1, <2>2, <2>3, <2>4, <2>5 DEF FreshRendition, IsCanceled, KeyOf, ImageOf
<1>8. RenditionsFresh'
  BY <1>7 DEF RenditionsFresh, Calls
<1> QED
  BY <1>3, <1>6, <1>8 DEF ServedInv, NoneAhead

\* Supersede with the images as they are.
LEMMA CancelServes ==
    ASSUME ServedInv, NEW ks \in SUBSET Keys, Supersede(ks),
           UNCHANGED <<asks, missed, cache, workVars, canceled, imageVars>>,
           releasing' \subseteq Keys,
           NEW who \in Seq(1..Len(asks)), Post(who, "canceled", 0)
    PROVE  ServedInv'
<1>1. /\ Asked /\ Filed(Len(asks)) /\ Kept /\ Len(asks) \in Nat
      /\ \A r \in Calls : asks[r].since \in 0..MaxRevision
  BY Typed
<1>2. /\ pending' \in [Keys -> Seq(1..Len(asks))] /\ WaitersFit'
      /\ generation' \in [Keys -> 0..MaxGeneration]
      /\ NoneAhead' /\ RenditionsFresh'
  <2>1. \A e \in Elements : invalidated[e] >= invalidated[e]
    BY <1>1 DEF Kept
  <2> QED
    BY <1>1, <2>1, SupersedeServes DEF workVars, imageVars, Kept
<1>3. posted' \in Seq(AnswersOf(Len(asks))) /\ AnswersAreFresh'
  <2>1. 0 \in 0..MaxRevision
    BY CallsAssumption
  <2>2. posted \in Seq(AnswersOf(Len(asks)))
    BY <1>1 DEF Filed
  <2>3. \A i \in 1..Len(posted) :
           posted[i].status = "ready" => posted[i].rev >= asks'[posted[i].call].since
    BY DEF ServedInv, NothingStaleIsServed, AnswersAreFresh
  <2> QED
    BY <1>1, <2>1, <2>2, <2>3, PostFresh
<1> QED
  BY <1>1, <1>2, <1>3
     DEF ServedInv, TypeOK, Asked, Filed, Kept, IsCache, RevisionsOrdered,
         NothingStaleIsServed, CacheIsFresh,
         Cache!Cached, KeyOf, ImageOf, Calls, workVars, imageVars

\* CancelPending of a key or an image, and the first half of ReleaseThumbnail.
LEMMA CancellationsServe ==
    ASSUME ServedInv,
           (\E k \in Keys : CancelPending(k) \/ BeginRelease(k))
              \/ (\E e \in Elements : CancelImage(e))
    PROVE  ServedInv'
<1>1. /\ Filed(Len(asks)) /\ Kept /\ Len(asks) \in Nat
      /\ \A k \in Keys : pending[k] \in Seq(1..Len(asks))
  BY Typed DEF Filed
<1>2. ASSUME NEW k \in Keys, CancelPending(k) \/ BeginRelease(k) PROVE ServedInv'
  <2>1. /\ Supersede({k}) /\ Post(pending[k], "canceled", 0) /\ {k} \in SUBSET Keys
        /\ UNCHANGED <<asks, missed, cache, workVars, canceled, imageVars>>
        /\ releasing' \subseteq Keys
    BY <1>1, <1>2 DEF CancelPending, BeginRelease, CancelKey, callVars, Kept
  <2> QED
    BY <1>1, <2>1, CancelServes
<1>3. ASSUME NEW e \in Elements, CancelImage(e) PROVE ServedInv'
  <2> DEFINE who == SetToSeq(UNION {ToSet(pending[k]) : k \in TiersOf(e)})
  <2>1. TiersOf(e) \in SUBSET Keys
    BY DEF TiersOf
  <2>2. who \in Seq(1..Len(asks))
    BY <1>1, <2>1, WaitersOf DEF Filed
  <2>3. /\ Supersede(TiersOf(e)) /\ Post(who, "canceled", 0)
        /\ UNCHANGED <<asks, missed, cache, workVars, canceled, imageVars>>
        /\ releasing' \subseteq Keys
    BY <1>1, <1>3 DEF CancelImage, callVars, Kept
  <2> HIDE DEF who
  <2> QED
    BY <2>1, <2>2, <2>3, CancelServes
<1> QED
  BY <1>2, <1>3

LEMMA InvalidateServes ==
    ASSUME ServedInv, NEW e \in Elements, InvalidateThumbnail(e)
    PROVE  ServedInv'
<1>1. /\ Asked /\ Filed(Len(asks)) /\ Kept /\ Len(asks) \in Nat
      /\ \A r \in Calls : KeyOf(r) \in Keys /\ ImageOf(KeyOf(r)) \in Elements
                          /\ asks[r].since \in 0..MaxRevision
  BY Typed
<1>2. /\ Supersede(TiersOf(e)) /\ TiersOf(e) \in SUBSET Keys
      /\ cache' = Cache!Forget(cache, TiersOf(e))
      /\ invalidated' = [invalidated EXCEPT ![e] = committed[e]]
      /\ dropped' = dropped \cup UNION {ToSet(pending[k]) : k \in TiersOf(e)}
      /\ UNCHANGED <<callVars, workVars, canceled, posted, committed>>
  BY DEF InvalidateThumbnail, TiersOf
<1>3. ASSUME NEW f \in Elements
      PROVE  /\ invalidated'[f] \in 0..MaxRevision /\ invalidated'[f] >= invalidated[f]
             /\ invalidated'[f] <= committed[f]
             /\ f # e => invalidated'[f] = invalidated[f]
  BY <1>1, <1>2 DEF Kept, ServedInv, RevisionsOrdered
<1>4. invalidated' \in [Elements -> 0..MaxRevision]
  BY <1>1, <1>2, <1>3 DEF Kept
<1>5. \A k \in Keys : k \notin TiersOf(e) =>
          ImageOf(k) # e /\ invalidated'[ImageOf(k)] = invalidated[ImageOf(k)]
  BY <1>3 DEF TiersOf, ImageOf, Keys
<1>6. /\ pending' \in [Keys -> Seq(1..Len(asks))] /\ WaitersFit'
      /\ generation' \in [Keys -> 0..MaxGeneration]
      /\ NoneAhead' /\ RenditionsFresh'
  BY <1>2, <1>3, <1>4, <1>5, SupersedeServes DEF callVars, workVars
<1>7. IsCache(cache)' /\ CacheIsFresh'
  <2>1. /\ Weaker(cache, cache', Keys)
        /\ \A k \in Keys \cap TiersOf(e) : cache'.guard[k] = Cache!NoGuard
    BY <1>1, <1>2, ForgetWeaker DEF Kept
  <2>2. IsCache(cache)'
    BY <2>1 DEF Weaker, IsCache, Guards
  <2>3. ASSUME NEW k \in Keys, cache'.guard[k] # Cache!NoGuard
        PROVE  cache'.guard[k].rev >= invalidated'[ImageOf(k)]
    BY <1>5, <2>1, <2>3 DEF Weaker, ServedInv, NothingStaleIsServed, CacheIsFresh, Cache!Cached
  <2> QED
    BY <2>2, <2>3 DEF CacheIsFresh, Cache!Cached, ImageOf
<1>8. dropped' \subseteq 1..Len(asks)
  BY <1>1, <1>2, WaitersOf DEF Filed
<1>9. RevisionsOrdered'
  <2>1. ASSUME NEW c \in Calls PROVE asks[c].since <= invalidated'[ImageOf(KeyOf(c))]
    <3>1. /\ asks[c].since <= invalidated[ImageOf(KeyOf(c))]
          /\ invalidated[ImageOf(KeyOf(c))] \in 0..MaxRevision
      BY <1>1 DEF ServedInv, RevisionsOrdered, Kept
    <3> QED
      BY <1>1, <1>3, <3>1
  <2> QED
    BY <1>2, <1>3, <2>1 DEF RevisionsOrdered, Calls, KeyOf, ImageOf, callVars
<1> QED
  BY <1>1, <1>2, <1>4, <1>6, <1>7, <1>8, <1>9
     DEF ServedInv, TypeOK, Asked, Filed, Kept, NothingStaleIsServed, AnswersAreFresh,
         Calls, callVars, workVars

\* The second half of ReleaseThumbnail, and a new capacity.
LEMMA CacheOperationsServe ==
    ASSUME ServedInv, Sound(cache),
           (\E k \in Keys : EndRelease(k)) \/ (\E n \in Capacities : ResizeCache(n))
    PROVE  ServedInv'
<1>1. Asked /\ Filed(Len(asks)) /\ Kept
  BY Typed
<1>2. /\ Weaker(cache, cache', Keys) /\ releasing' \subseteq Keys
      /\ UNCHANGED <<asks, missed, pending, generation, workVars, canceled, posted, imageVars>>
  <2>1. CASE \E k \in Keys : EndRelease(k)
    BY <1>1, <2>1, UnpinWeaker DEF EndRelease, Kept
  <2>2. ASSUME NEW n \in Capacities, ResizeCache(n)
        PROVE  Weaker(cache, cache', Keys)
    <3>1. Sound(cache') /\ cache'.guard = cache.guard
      BY <2>2, ResizeCacheSound DEF ResizeCache
    <3> QED
      BY <3>1 DEF Weaker, Sound
  <2> QED
    BY <1>1, <2>1, <2>2 DEF ResizeCache, Kept, callVars
<1>3. IsCache(cache)' /\ CacheIsFresh'
  BY <1>2, WeakerFresh DEF ServedInv, NothingStaleIsServed, imageVars
<1>4. RenditionsFresh'
  BY <1>2, FreshStays DEF ServedInv, RenditionsFresh, Measures, Calls, workVars, imageVars
<1> QED
  BY <1>1, <1>2, <1>3, <1>4
     DEF ServedInv, TypeOK, Asked, Filed, Kept, RevisionsOrdered, WaitersFit, NoneAhead,
         NothingStaleIsServed, AnswersAreFresh, KeyOf, ImageOf, Calls, workVars, imageVars

LEMMA AnalysisAndCommitServe ==
    ASSUME ServedInv,
           (\E r \in Calls : CancelAnalysisRendition(r) \/ ReleaseAnalysisRendition(r))
              \/ (\E e \in Elements : Commit(e))
    PROVE  ServedInv'
<1>1. Asked /\ Filed(Len(asks)) /\ Kept
  BY Typed
<1>2. /\ UNCHANGED <<callVars, cacheVars, renditions, posted, invalidated, dropped>>
      /\ canceled' \subseteq 1..Len(asks) /\ analyses' \subseteq 1..Len(asks)
  BY <1>1 DEF CancelAnalysisRendition, ReleaseAnalysisRendition, Commit,
              Filed, Calls, workVars, imageVars
<1>3. /\ committed' \in [Elements -> 0..MaxRevision]
      /\ \A e \in Elements : invalidated[e] <= committed'[e]
  <2>1. CASE UNCHANGED committed
    BY <1>1, <2>1 DEF Kept, ServedInv, RevisionsOrdered
  <2>2. ASSUME NEW e \in Elements, Commit(e)
        PROVE  /\ committed' \in [Elements -> 0..MaxRevision]
               /\ \A f \in Elements : invalidated[f] <= committed'[f]
    BY <1>1, <2>2, CallsAssumption DEF Commit, Kept, ServedInv, RevisionsOrdered
  <2> QED
    BY <2>1, <2>2 DEF CancelAnalysisRendition, ReleaseAnalysisRendition, imageVars
<1>4. RenditionsFresh'
  BY <1>2, FreshStays DEF ServedInv, RenditionsFresh, Measures, Calls, callVars, cacheVars
<1> QED
  BY <1>1, <1>2, <1>3, <1>4
     DEF ServedInv, TypeOK, Asked, Filed, Kept, IsCache, RevisionsOrdered, WaitersFit, NoneAhead,
         NothingStaleIsServed, CacheIsFresh, AnswersAreFresh, Cache!Cached,
         KeyOf, ImageOf, Calls, callVars, cacheVars

\* A call leaves the earlier ones, and what is on its way for them, alone.
LEMMA AskServes ==
    ASSUME ServedInv, NEW k \in Keys, NEW kind \in {"thumbnail", "analysis"}, Ask(k, kind),
           UNCHANGED <<pending, generation, imageVars>>
    PROVE  /\ Asked' /\ Filed(Len(asks')) /\ Len(asks) \in Nat
           /\ Len(asks') = Len(asks) + 1 /\ Len(asks') \in 1..MaxAsks
           /\ asks'[Len(asks')] = [key |-> k, kind |-> kind, since |-> invalidated[ImageOf(k)]]
           /\ WaitersFit' /\ RevisionsOrdered'
           /\ \A r \in Calls : renditions'[r] = renditions[r] => FreshRendition(r)'
           /\ \A i \in 1..Len(posted) :
                 posted[i].status = "ready" => posted[i].rev >= asks'[posted[i].call].since
<1>1. Asked /\ Filed(Len(asks)) /\ Kept /\ \A r \in Calls : r \in 1..MaxAsks
  BY Typed
<1>2. /\ Asked' /\ Len(asks) \in Nat
      /\ Len(asks') = Len(asks) + 1 /\ Len(asks') \in 1..MaxAsks
      /\ \A c \in Calls : asks'[c] = asks[c]
      /\ asks'[Len(asks')] = [key |-> k, kind |-> kind, since |-> invalidated[ImageOf(k)]]
  BY <1>1, AskAppends
<1>3. Filed(Len(asks'))
  BY <1>1, <1>2, FiledGrows
<1>4. WaitersFit'
  <2>1. ASSUME NEW q \in Keys, NEW i \in DOMAIN pending[q] PROVE asks'[pending[q][i]].key = q
    <3>1. pending[q] \in Seq(1..Len(asks))
      BY <1>1 DEF Filed
    <3>2. pending[q][i] \in Calls
      BY <2>1, <3>1, ElementOfSeq, LenProperties DEF Calls
    <3> QED
      BY <1>2, <2>1, <3>2 DEF ServedInv, WaitersFit, KeyOf
  <2> QED
    BY <2>1 DEF WaitersFit, KeyOf
<1>5. RevisionsOrdered'
  <2>1. ASSUME NEW c \in 1..Len(asks') PROVE asks'[c].since <= invalidated[ImageOf(asks'[c].key)]
    <3>1. CASE c \in Calls
      BY <1>2, <3>1 DEF ServedInv, RevisionsOrdered, KeyOf
    <3>2. CASE c = Len(asks')
      BY <1>1, <1>2, <3>2 DEF Kept, ImageOf, Keys
    <3> QED
      BY <1>2, <3>1, <3>2 DEF Calls
  <2> QED
    BY <2>1 DEF ServedInv, RevisionsOrdered, Calls, KeyOf, ImageOf, imageVars
<1>6. ASSUME NEW r \in Calls, renditions'[r] = renditions[r] PROVE FreshRendition(r)'
  <2>1. /\ renditions[r].calls \in Seq(1..Len(asks)) /\ FreshRendition(r)
        /\ DOMAIN renditions[r].calls = 1..Len(renditions[r].calls)
    <3>1. renditions[r] \in RenditionsOf(Len(asks))
      BY <1>1 DEF Filed
    <3> QED
      BY <3>1, LenProperties DEF ServedInv, RenditionsFresh, RenditionsOf
  <2>2. \A i \in DOMAIN renditions[r].calls : renditions[r].calls[i] \in Calls
    BY <2>1, ElementOfSeq DEF Calls
  <2>3. asks'[r] = asks[r]
    BY <1>2
  <2> QED
    BY <1>2, <1>6, <2>1, <2>2, <2>3
       DEF FreshRendition, IsOpen, IsAnalysis, IsCanceled, KeyOf, ImageOf, imageVars
<1>7. ASSUME NEW i \in 1..Len(posted), posted[i].status = "ready"
      PROVE  posted[i].rev >= asks'[posted[i].call].since
  <2>1. posted[i] \in AnswersOf(Len(asks))
    BY <1>1, ElementOfSeq DEF Filed
  <2>2. posted[i].call \in Calls
    BY <2>1 DEF AnswersOf, Calls
  <2> QED
    BY <1>2, <1>7, <2>2 DEF ServedInv, NothingStaleIsServed, AnswersAreFresh
<1> QED
  BY <1>2, <1>3, <1>4, <1>5, <1>6, <1>7

\* First section of GetThumbnailDetailed.
LEMMA GetThumbnailServes ==
    ASSUME ServedInv, NEW k \in Keys, GetThumbnail(k)
    PROVE  ServedInv'
<1> PICK n : n = Len(asks')
  OBVIOUS
<1>1. Asked /\ Filed(Len(asks)) /\ Kept /\ IsCache(cache)
  BY Typed DEF Kept
<1>2. /\ Ask(k, "thumbnail")
      /\ UNCHANGED <<pending, generation, workVars, canceled, releasing, imageVars>>
  BY DEF GetThumbnail
<1>3. /\ Asked' /\ Filed(n) /\ Len(asks) \in Nat /\ n = Len(asks) + 1 /\ n \in 1..MaxAsks
      /\ asks'[n] = [key |-> k, kind |-> "thumbnail", since |-> invalidated[ImageOf(k)]]
      /\ WaitersFit' /\ RevisionsOrdered'
      /\ \A r \in Calls : renditions'[r] = renditions[r] => FreshRendition(r)'
      /\ \A i \in 1..Len(posted) :
            posted[i].status = "ready" => posted[i].rev >= asks'[posted[i].call].since
  BY <1>2, AskServes
<1>4. RenditionsFresh'
  <2>1. renditions'[n].at = "none"
    BY <1>2, <1>3 DEF ServedInv, NoneAhead, workVars
  <2>2. FreshRendition(n)'
    BY <2>1 DEF FreshRendition, IsOpen
  <2> QED
    BY <1>2, <1>3, <2>2 DEF RenditionsFresh, Calls, workVars
<1>5. NoneAhead'
  BY <1>2, <1>3 DEF ServedInv, NoneAhead, workVars
<1>6. /\ IsCache(cache)' /\ CacheIsFresh' /\ missed' \subseteq 1..n
      /\ posted' \in Seq(AnswersOf(n)) /\ AnswersAreFresh'
  <2>1. CASE k \in Cache!Cached(cache)
    <3>1. /\ cache' = Cache!Pin(cache, k) /\ UNCHANGED missed
          /\ Post(<<n>>, "ready", cache.guard[k].rev) /\ cache.guard[k] # Cache!NoGuard
      BY <2>1 DEF GetThumbnail, Cache!Cached
    <3>2. Weaker(cache, cache', Keys)
      BY <1>1, <3>1, PinWeaker
    <3>3. IsCache(cache)' /\ CacheIsFresh'
      BY <1>2, <3>2, WeakerFresh DEF ServedInv, NothingStaleIsServed, imageVars
    <3>4. <<n>> \in Seq(1..n) /\ Len(<<n>>) = 1 /\ <<n>>[1] = n
      BY <1>3
    <3>5. cache.guard[k].rev \in 0..MaxRevision /\ cache.guard[k].rev >= asks'[n].since
      BY <1>1, <1>3, <2>1 DEF IsCache, Guards, ServedInv, NothingStaleIsServed, CacheIsFresh
    <3>6. posted \in Seq(AnswersOf(n)) /\ missed \subseteq 1..n
      BY <1>3 DEF Filed
    <3>7. posted' \in Seq(AnswersOf(n)) /\ AnswersAreFresh'
      <4> DEFINE who == <<n>>
      <4>1. \A i \in 1..Len(who) : cache.guard[k].rev >= asks'[who[i]].since
        BY <3>4, <3>5
      <4> HIDE DEF who
      <4>2. who \in Seq(1..n) /\ Post(who, "ready", cache.guard[k].rev)
        BY <3>1, <3>4 DEF who
      <4>3. n \in Nat /\ "ready" \in {"ready", "canceled", "error"}
        BY <1>3
      <4>4. \A i \in 1..Len(posted) :
               posted[i].status = "ready" => posted[i].rev >= asks'[posted[i].call].since
        BY <1>3
      <4> QED
        BY <3>5, <3>6, <4>1, <4>2, <4>3, <4>4, PostFresh
    <3> QED
      BY <3>1, <3>3, <3>6, <3>7
  <2>2. CASE k \notin Cache!Cached(cache)
    <3>1. /\ cache' = Cache!RemoveKey(cache, k) /\ missed' = missed \cup {n} /\ UNCHANGED posted
      BY <2>2 DEF GetThumbnail
    <3>2. IsCache(cache)' /\ CacheIsFresh'
      BY <1>1, <1>2, <3>1, RemoveKeyWeaker, WeakerFresh DEF ServedInv, NothingStaleIsServed, imageVars
    <3>3. missed' \subseteq 1..n /\ posted' \in Seq(AnswersOf(n))
      <4>1. missed \subseteq 1..n /\ posted \in Seq(AnswersOf(n)) /\ n \in 1..n
        BY <1>3 DEF Filed
      <4> QED
        BY <3>1, <4>1
    <3>4. AnswersAreFresh'
      BY <1>3, <3>1 DEF AnswersAreFresh
    <3> QED
      BY <3>2, <3>3, <3>4
  <2> QED
    BY <2>1, <2>2
<1>7. Filed(n)' /\ Kept'
  BY <1>1, <1>2, <1>3, <1>6 DEF Filed, Kept, workVars, imageVars
<1> QED
  BY <1>3, <1>4, <1>5, <1>6, <1>7 DEF ServedInv, TypeOK, NothingStaleIsServed

LEMMA RequestAnalysisServes ==
    ASSUME ServedInv, NEW k \in Elements \X AnalysisTiers, RequestAnalysisRendition(k)
    PROVE  ServedInv'
<1> PICK n : n = Len(asks')
  OBVIOUS
<1>1. Asked /\ Filed(Len(asks)) /\ Kept /\ k \in Keys
  BY Typed, CallsAssumption DEF Keys
<1>2. /\ Ask(k, "analysis") /\ renditions' = [renditions EXCEPT ![n] = NewRendition(0)]
      /\ analyses' = analyses \cup {n}
      /\ UNCHANGED <<missed, releasing, cacheVars, canceled, posted, imageVars>>
  BY DEF RequestAnalysisRendition
<1>3. /\ Asked' /\ Filed(n) /\ Len(asks) \in Nat /\ n = Len(asks) + 1 /\ n \in 1..MaxAsks
      /\ asks'[n] = [key |-> k, kind |-> "analysis", since |-> invalidated[ImageOf(k)]]
      /\ WaitersFit' /\ RevisionsOrdered'
      /\ \A r \in Calls : renditions'[r] = renditions[r] => FreshRendition(r)'
      /\ \A i \in 1..Len(posted) :
            posted[i].status = "ready" => posted[i].rev >= asks'[posted[i].call].since
  BY <1>1, <1>2, AskServes DEF cacheVars
<1>4. /\ NewRendition(0) \in RenditionsOf(n) /\ NewRendition(0).at = "started"
  BY EmptySeq, CallsAssumption DEF NewRendition, Rendition, RenditionsOf
<1>5. /\ renditions' \in [1..MaxAsks -> RenditionsOf(n)]
      /\ renditions'[n] = NewRendition(0)
      /\ \A r \in 1..MaxAsks : r # n => renditions'[r] = renditions[r]
  BY <1>2, <1>3, <1>4 DEF Filed
<1>6. RenditionsFresh'
  <2>1. FreshRendition(n)'
    BY <1>3, <1>4, <1>5 DEF FreshRendition, IsOpen, IsAnalysis
  <2>2. ASSUME NEW r \in Calls PROVE FreshRendition(r)'
    BY <1>3, <1>5, Typed, SMTT(60) DEF Calls
  <2> QED
    BY <1>3, <2>1, <2>2 DEF RenditionsFresh, Calls
<1>7. NoneAhead'
  BY <1>3, <1>5 DEF ServedInv, NoneAhead
<1>8. Filed(n)' /\ Kept'
  BY <1>1, <1>2, <1>3, <1>5 DEF Filed, Kept, IsCache, cacheVars, imageVars
<1> QED
  BY <1>2, <1>3, <1>6, <1>7, <1>8
     DEF ServedInv, TypeOK, NothingStaleIsServed, CacheIsFresh, AnswersAreFresh,
         Cache!Cached, ImageOf, cacheVars, imageVars

----------------------------------------------------------------------------
LEMMA InitServes ==
    ASSUME Init
    PROVE  ServedInv /\ Sound(cache)
<1>1. /\ asks = << >> /\ Len(asks) = 0 /\ Calls = {} /\ posted = << >> /\ Len(posted) = 0
  BY DEF Init, Calls
<1>2. PICK c \in Capacities : cache = Cache!EmptyCache(c)
  BY DEF Init
<1>3. IsCache(cache) /\ Cache!Cached(cache) = {}
  BY <1>2, NoGuardTyped DEF Cache!EmptyCache, IsCache, Guards, Cache!Cached
<1>4. /\ \A n : << >> \in Seq(1..n) /\ << >> \in Seq(AskRecords) /\ << >> \in Seq(AnswersOf(n))
      /\ DOMAIN << >> = {}
  BY EmptySeq
<1>5. NoRendition \in RenditionsOf(0) /\ NoRendition.at = "none"
  BY <1>4, CallsAssumption DEF NoRendition, Rendition, RenditionsOf
<1>6. Asked /\ Kept
  BY <1>1, <1>3, <1>4, CallsAssumption DEF Init, Asked, Kept
<1>7. Filed(Len(asks)) /\ NoneAhead
  BY <1>1, <1>4, <1>5 DEF Init, Filed, NoneAhead
<1>8. WaitersFit
  BY <1>4 DEF Init, WaitersFit
<1>9. Sound(cache)
  BY <1>2, EmptySound, CallsAssumption
<1> QED
  BY <1>1, <1>3, <1>6, <1>7, <1>8, <1>9
     DEF Init, ServedInv, TypeOK, RevisionsOrdered, RenditionsFresh,
         NothingStaleIsServed, CacheIsFresh, AnswersAreFresh

\* Only a release of the key, or an invalidation, which gives it a new
\* generation, takes a guard out of the table.
GuardsStay ==
    \A k \in Cache!Cached(cache) :
       k \notin releasing /\ generation'[k] = generation[k] => k \in Cache!Cached(cache')

LEMMA NextKeepsSound ==
    ASSUME ServedInv, Sound(cache), [CallsNext]_calls
    PROVE  Sound(cache') /\ GuardsStay
<1>1. CASE UNCHANGED cache
  BY <1>1 DEF GuardsStay
<1>2. ASSUME NEW k \in Keys, GetThumbnail(k) PROVE Sound(cache') /\ GuardsStay
  BY <1>2, PinSound, RemoveKeySound DEF GetThumbnail, GuardsStay
<1>3. ASSUME NEW k \in Keys, EndRelease(k) PROVE Sound(cache') /\ GuardsStay
  BY <1>3, UnpinSound DEF EndRelease, GuardsStay
<1>4. ASSUME NEW e \in Elements, InvalidateThumbnail(e) PROVE Sound(cache') /\ GuardsStay
  <2>1. generation \in [Keys -> 0..MaxGeneration]
    BY Typed DEF Kept
  <2>2. Sound(cache') /\ Cache!Cached(cache') = Cache!Cached(cache) \ TiersOf(e)
    BY <1>4, ForgetSound DEF InvalidateThumbnail
  <2>3. \A k \in Keys : k \in TiersOf(e) => generation'[k] = generation[k] + 1
    BY <1>4 DEF InvalidateThumbnail, Supersede
  <2>4. \A k \in Keys : k \in TiersOf(e) => generation'[k] # generation[k]
    BY <2>1, <2>3, CallsAssumption
  <2>5. Cache!Cached(cache) \subseteq Keys
    BY DEF Cache!Cached
  <2> QED
    BY <2>2, <2>4, <2>5 DEF GuardsStay
<1>5. ASSUME NEW n \in Capacities, ResizeCache(n) PROVE Sound(cache') /\ GuardsStay
  BY <1>5, ResizeCacheSound DEF ResizeCache, GuardsStay, Cache!Cached
<1>6. ASSUME NEW r \in Calls, DeliverPixels(r) PROVE Sound(cache') /\ GuardsStay
  <2> DEFINE who == pending[KeyOf(r)]
  <2>1. /\ KeyOf(r) \in Keys /\ r \in 1..MaxAsks /\ who \in Seq(1..Len(asks))
        /\ renditions[r] \in RenditionsOf(Len(asks))
    BY Typed DEF Filed
  <2>2. CASE UNCHANGED cache
    BY <2>2 DEF GuardsStay
  <2>3. CASE who # << >> /\ Publish(r, who)
    <3> DEFINE guard == [rev |-> renditions[r].rev, pins |-> Len(who)]
    <3>1. Len(who) \in Nat /\ Len(who) >= 1 /\ renditions[r].rev \in 0..MaxRevision
      BY <2>1, <2>3, LenProperties, EmptySeq DEF RenditionsOf
    <3>2. guard \in [rev : 0..MaxRevision, pins : Int] /\ guard.pins >= 1
      BY <3>1
    <3>3. cache' = Cache!Store(cache, KeyOf(r), guard)
      BY <2>3 DEF Publish
    <3> HIDE DEF guard
    <3>4. Sound(cache') /\ Cache!Cached(cache) \subseteq Cache!Cached(cache')
      BY <2>1, <3>2, <3>3, StoreSound
    <3> QED
      BY <3>4 DEF GuardsStay
  <2> QED
    BY <1>6, <2>2, <2>3 DEF DeliverPixels, Delivers, PublishAnalysis, Abandon
<1>7. ASSUME NEW r \in Calls, NEW status, Fail(r, status) PROVE UNCHANGED cache
  BY <1>7 DEF Fail, Fails, Abandon
<1>8. CASE Caller
  BY <1>1, <1>2, <1>4, <1>5, <1>8
     DEF Caller, RequestAnalysisRendition, CancelAnalysisRendition, ReleaseAnalysisRendition,
         CancelPending, BeginRelease, CancelImage, Commit, cacheVars
<1>9. CASE Finish
  BY <1>1, <1>3, <1>9 DEF Finish, JoinOrStart
<1>10. ASSUME NEW r \in Calls, Render(r) \/ ShutOut(r) PROVE Sound(cache') /\ GuardsStay
  BY <1>1, <1>6, <1>7, <1>10 DEF Render, ShutOut, GiveUp, Fetch, Answer, cacheVars
<1>11. ASSUME NEW rs, Lose(rs) PROVE UNCHANGED cache
  BY <1>11 DEF Lose, cacheVars
<1> QED
  BY <1>1, <1>8, <1>9, <1>10, <1>11 DEF CallsNext, calls, cacheVars

LEMMA NextServes ==
    ASSUME ServedInv, Sound(cache), [CallsNext]_calls
    PROVE  ServedInv'
<1>1. CASE UNCHANGED calls
  <2>1. RenditionsFresh'
    BY <1>1, FreshStays
       DEF ServedInv, RenditionsFresh, Measures, Calls, calls, callVars, cacheVars, workVars, imageVars
  <2> QED
    BY <1>1, <2>1
       DEF ServedInv, TypeOK, Asked, Filed, Kept, IsCache, RevisionsOrdered, WaitersFit, NoneAhead,
           NothingStaleIsServed, CacheIsFresh, AnswersAreFresh, Cache!Cached, KeyOf, ImageOf, Calls,
           calls, callVars, cacheVars, workVars, imageVars
<1>2. CASE Caller
  BY <1>2, GetThumbnailServes, RequestAnalysisServes, CancellationsServe, InvalidateServes,
     CacheOperationsServe, AnalysisAndCommitServe DEF Caller
<1>3. CASE Finish
  BY <1>3, JoinOrStartServes, CacheOperationsServe DEF Finish
<1>4. ASSUME NEW r \in Calls, Render(r) \/ ShutOut(r) PROVE ServedInv'
  BY <1>4, FetchServes, DeliverPixelsServes, FailServes, AnswerServes DEF Render, ShutOut, GiveUp
<1>5. ASSUME NEW rs \in SUBSET Calls, Lose(rs) PROVE ServedInv'
  BY <1>5, LoseServes
<1> QED
  BY <1>1, <1>2, <1>3, <1>4, <1>5 DEF CallsNext

\* What callers, pools and editor keep, in whatever order they act.
LEMMA CallsAreServed == CallsSpec => [](ServedInv /\ Sound(cache))
<1>1. Init => ServedInv /\ Sound(cache)
  BY InitServes
<1>2. (ServedInv /\ Sound(cache)) /\ [CallsNext]_calls => (ServedInv /\ Sound(cache))'
  BY NextServes, NextKeepsSound
<1> QED
  BY <1>1, <1>2, PTL DEF CallsSpec

\* Whatever callers, pools and editor do, and in whatever order, the variables
\* of the service keep their types.
THEOREM CallsKeepTypes == CallsSpec => []TypeOK
<1>1. ServedInv => TypeOK
  BY DEF ServedInv
<1> QED
  BY <1>1, CallsAreServed, PTL

\* No call is answered, and nothing is kept to answer a call, with pixels older
\* than the last invalidation of the image before the call: a rendition that
\* was on its way when InvalidateThumbnail gave its key a new generation
\* publishes nothing (thumbnail_service.cpp:284-299, 647-679, 883-905).
THEOREM CallsServeNothingStale == CallsSpec => []NothingStaleIsServed
<1>1. ServedInv => NothingStaleIsServed
  BY DEF ServedInv
<1> QED
  BY <1>1, CallsAreServed, PTL

\* The recency list and the table of guards hold the same keys, each key once,
\* and the list fits in its capacity, whatever is pinned, published over a full
\* list, released, invalidated or resized (thumbnail_service.cpp:588-611,
\* 850-953, lru_cache.hpp).
THEOREM CallsKeepCacheConsistent == CallsSpec => []CacheIsConsistent
<1>1. Sound(cache) => CacheIsConsistent
  BY ListsHold DEF Sound, CacheIsConsistent, Cache!Consistent
<1> QED
  BY <1>1, CallsAreServed, PTL

\* A guard somebody has pinned leaves the table by a release of its key or an
\* invalidation of its image only: an eviction files its key again, in a list
\* with room for it (thumbnail_service.cpp:859-880, 936-953).
THEOREM CallsKeepPinned == CallsSpec => PinnedStays
<1>1. ASSUME Sound(cache) PROVE Cache!Pinned(cache) = Cache!Cached(cache)
  BY <1>1 DEF Sound, Cache!Pinned, Cache!Cached, IsCache, Guards
<1>2. ASSUME Sound(cache') PROVE Cache!Pinned(cache') = Cache!Cached(cache')
  BY <1>2 DEF Sound, Cache!Pinned, Cache!Cached, IsCache, Guards
<1>3. (ServedInv /\ Sound(cache)) /\ [CallsNext]_calls
        => [\A k \in Cache!Pinned(cache) :
               k \notin releasing /\ generation'[k] = generation[k]
                  => k \in Cache!Pinned(cache')]_calls
  BY <1>1, <1>2, NextKeepsSound DEF GuardsStay
<1> QED
  BY <1>3, CallsAreServed, PTL DEF CallsSpec, PinnedStays

----------------------------------------------------------------------------
\* Where a call is.  It has missed and is between the two sections, it waits
\* for a key, a concluded rendition owes it an answer, its own rendition for
\* the analysis is under way, or it was told; an invalidation or a closing pool
\* may drop it.

Waiting(k) == ToSet(pending[k])
Due(r)     == IF renditions[r].at = "concluded" THEN ToSet(renditions[r].calls) ELSE {}
Analysed   == {r \in Calls : IsAnalysis(r) /\ IsOpen(r)}
Told       == {posted[i].call : i \in 1..Len(posted)}

\* The sets M, A and T and those of the families W and D share no element.
Apart(M, A, T, W, D) ==
    /\ M \cap A = {} /\ M \cap T = {} /\ A \cap T = {}
    /\ \A k \in Keys : W[k] \cap M = {} /\ W[k] \cap A = {} /\ W[k] \cap T = {}
    /\ \A r \in 1..MaxAsks : D[r] \cap M = {} /\ D[r] \cap A = {} /\ D[r] \cap T = {}
    /\ \A k \in Keys, r \in 1..MaxAsks : W[k] \cap D[r] = {}
    /\ \A k, l \in Keys : k # l => W[k] \cap W[l] = {}
    /\ \A r, q \in 1..MaxAsks : r # q => D[r] \cap D[q] = {}

AllWaiting == [k \in Keys |-> Waiting(k)]
AllDue     == [r \in 1..MaxAsks |-> Due(r)]
InOnePlace == Apart(missed, Analysed, Told, AllWaiting, AllDue)

\* A call is in one place, and there once.
OnceInv ==
    /\ AnsweredOnce /\ InOnePlace
    /\ \A k \in Keys : Lists(pending[k], Waiting(k))
    /\ \A r \in 1..MaxAsks :
          renditions[r].at = "concluded" => Lists(renditions[r].calls, Due(r))
    /\ \A c \in missed : ~IsAnalysis(c)

LEMMA PlacesAreCalls ==
    ASSUME ServedInv
    PROVE  /\ missed \subseteq Calls /\ Analysed \subseteq Calls /\ Told \subseteq Calls
           /\ \A k \in Keys : AllWaiting[k] \subseteq Calls
           /\ \A r \in 1..MaxAsks : AllDue[r] \subseteq Calls
<1>1. Filed(Len(asks)) /\ Len(asks) \in Nat
  BY Typed
<1>2. ASSUME NEW s \in Seq(1..Len(asks)) PROVE ToSet(s) \subseteq Calls
  BY ElementOfSeq, LenProperties DEF ToSet, Calls
<1>3. Told \subseteq Calls
  <2>1. \A i \in 1..Len(posted) : posted[i] \in AnswersOf(Len(asks))
    BY <1>1, ElementOfSeq DEF Filed
  <2> QED
    BY <2>1 DEF Told, AnswersOf, Calls
<1>4. \A k \in Keys : AllWaiting[k] \subseteq Calls
  BY <1>1, <1>2 DEF Filed, AllWaiting, Waiting
<1>5. ASSUME NEW r \in 1..MaxAsks PROVE AllDue[r] \subseteq Calls
  <2>1. renditions[r].calls \in Seq(1..Len(asks))
    BY <1>1 DEF Filed, RenditionsOf
  <2> QED
    BY <1>2, <2>1 DEF AllDue, Due
<1> QED
  BY <1>1, <1>3, <1>4, <1>5 DEF Filed, Analysed, Calls

\* Answers to calls that were told nothing, each once.
LEMMA PostOnce ==
    ASSUME NEW n \in Nat, posted \in Seq(AnswersOf(n)), NEW who \in Seq(1..n),
           NEW status \in {"ready", "canceled", "error"}, NEW rev \in 0..MaxRevision,
           Post(who, status, rev), AnsweredOnce,
           IsInjective(who), ToSet(who) \cap Told = {}
    PROVE  AnsweredOnce' /\ Told' = Told \cup ToSet(who)
<1>1. PostedTo(n, who, status, rev)
  BY PostAppends
<1>2. DOMAIN who = 1..Len(who)
  BY LenProperties
<1> DEFINE a == Len(posted)
           b == Len(who)
<1>3. /\ a \in Nat /\ b \in Nat /\ Len(posted') = a + b
      /\ \A i \in 1..a : posted'[i].call = posted[i].call
      /\ \A i \in 1..b : posted'[a + i].call = who[i]
  <2>1. a \in Nat /\ b \in Nat /\ Len(posted') = a + b
    BY <1>1 DEF PostedTo
  <2>2. \A i \in 1..a : posted'[i] = posted[i]
    BY <1>1 DEF PostedTo
  <2>3. \A i \in 1..b : posted'[a + i] = [call |-> who[i], status |-> status, rev |-> rev]
    BY <1>1 DEF PostedTo
  <2> HIDE DEF a, b
  <2>4. ASSUME NEW i \in 1..b PROVE posted'[a + i].call = who[i]
    <3>1. posted'[a + i] = [call |-> who[i], status |-> status, rev |-> rev]
      BY <2>3
    <3> QED
      BY <3>1
  <2> QED
    BY <2>1, <2>2, <2>4
<1>4. \A i \in 1..b, j \in 1..b : who[i] = who[j] => i = j
  BY <1>2 DEF IsInjective
<1>5. \A i \in 1..a, j \in 1..b : posted[i].call # who[j]
  BY <1>2 DEF Told, ToSet
<1>6. \A i, j \in 1..a : posted[i].call = posted[j].call => i = j
  BY DEF AnsweredOnce
<1>7. \A i \in 1..a + b : i \in 1..a \/ (i - a \in 1..b /\ i = a + (i - a))
  BY <1>3
<1> HIDE DEF a, b
<1>8. ASSUME NEW i \in 1..a + b, NEW j \in 1..a + b, posted'[i].call = posted'[j].call
      PROVE  i = j
  <2>1. CASE i \in 1..a /\ j \in 1..a
    BY <1>3, <1>6, <1>8, <2>1
  <2>2. CASE i \in 1..a /\ j - a \in 1..b /\ j = a + (j - a)
    <3>1. posted'[j].call = who[j - a]
      BY <1>3, <2>2
    <3> QED
      BY <1>3, <1>5, <1>8, <2>2, <3>1
  <2>3. CASE j \in 1..a /\ i - a \in 1..b /\ i = a + (i - a)
    <3>1. posted'[i].call = who[i - a]
      BY <1>3, <2>3
    <3> QED
      BY <1>3, <1>5, <1>8, <2>3, <3>1
  <2>4. CASE i - a \in 1..b /\ i = a + (i - a) /\ j - a \in 1..b /\ j = a + (j - a)
    <3>1. posted'[i].call = who[i - a] /\ posted'[j].call = who[j - a]
      BY <1>3, <2>4
    <3>2. i - a = j - a
      BY <1>4, <1>8, <2>4, <3>1
    <3> QED
      BY <1>3, <3>2
  <2> QED
    BY <1>7, <2>1, <2>2, <2>3, <2>4
<1>9. AnsweredOnce'
  BY <1>3, <1>8 DEF AnsweredOnce
<1>10. Told' = Told \cup ToSet(who)
  <2>1. ASSUME NEW x \in Told' PROVE x \in Told \cup ToSet(who)
    <3>1. PICK i \in 1..a + b : posted'[i].call = x
      BY <1>3 DEF Told
    <3>2. CASE i \in 1..a
      BY <1>3, <3>1, <3>2 DEF Told, a
    <3>3. CASE i - a \in 1..b /\ i = a + (i - a)
      <4>1. who[i - a] = x
        BY <1>3, <3>1, <3>3
      <4> QED
        BY <1>2, <3>3, <4>1 DEF ToSet, b
    <3> QED
      BY <1>7, <3>2, <3>3
  <2>2. ASSUME NEW x \in Told PROVE x \in Told'
    <3>1. PICK i \in 1..a : posted[i].call = x
      BY DEF Told, a
    <3>2. i \in 1..a + b /\ posted'[i].call = x
      BY <1>3, <3>1
    <3> QED
      BY <1>3, <3>2 DEF Told
  <2>3. ASSUME NEW x \in ToSet(who) PROVE x \in Told'
    <3>1. PICK i \in 1..b : who[i] = x
      BY <1>2 DEF ToSet, b
    <3>2. a + i \in 1..a + b
      <4>1. a \in Nat /\ b \in Nat /\ i \in 1..b
        BY <1>3
      <4> QED
        BY <4>1
    <3>3. posted'[a + i].call = x
      BY <1>3, <3>1
    <3> QED
      BY <1>3, <3>2, <3>3 DEF Told
  <2> QED
    BY <2>1, <2>2, <2>3
<1> QED
  BY <1>9, <1>10

LEMMA SingleLists ==
    ASSUME NEW x
    PROVE  Lists(<<x>>, {x}) /\ ToSet(<<x>>) = {x} /\ IsInjective(<<x>>)
<1>1. <<x>> \in Seq({x}) /\ Len(<<x>>) = 1 /\ <<x>>[1] = x /\ DOMAIN <<x>> = {1}
  OBVIOUS
<1> QED
  BY <1>1 DEF Lists, ToSet, IsInjective

\* What a listed set is in the words of the model.
LEMMA ListsMean ==
    ASSUME NEW s, NEW X, Lists(s, X)
    PROVE  ToSet(s) = X /\ IsInjective(s)
  BY ListsHold DEF ToSet, IsInjective

LEMMA OnceMeans ==
    ASSUME OnceInv
    PROVE  /\ \A k \in Keys : AllWaiting[k] = ToSet(pending[k]) /\ IsInjective(pending[k])
           /\ \A r \in 1..MaxAsks :
                 /\ renditions[r].at = "concluded" =>
                       AllDue[r] = ToSet(renditions[r].calls) /\ IsInjective(renditions[r].calls)
                 /\ renditions[r].at # "concluded" => AllDue[r] = {}
<1>1. ASSUME NEW k \in Keys PROVE AllWaiting[k] = ToSet(pending[k]) /\ IsInjective(pending[k])
  <2>1. Lists(pending[k], Waiting(k))
    BY DEF OnceInv
  <2> QED
    BY <2>1, ListsMean DEF AllWaiting, Waiting
<1>2. ASSUME NEW r \in 1..MaxAsks, renditions[r].at = "concluded"
      PROVE  AllDue[r] = ToSet(renditions[r].calls) /\ IsInjective(renditions[r].calls)
  <2>1. Lists(renditions[r].calls, Due(r))
    BY <1>2 DEF OnceInv
  <2> QED
    BY <1>2, <2>1, ListsMean DEF AllDue, Due
<1>3. ASSUME NEW r \in 1..MaxAsks, renditions[r].at # "concluded" PROVE AllDue[r] = {}
  BY <1>3 DEF AllDue, Due
<1> QED
  BY <1>1, <1>2, <1>3

\* Nothing is put anywhere.
LEMMA ApartShrinks ==
    ASSUME NEW M, NEW A, NEW T, NEW W, NEW D, Apart(M, A, T, W, D),
           NEW M2 \in SUBSET M, NEW A2 \in SUBSET A, NEW T2 \in SUBSET T, NEW W2, NEW D2,
           \A k \in Keys : W2[k] \subseteq W[k], \A r \in 1..MaxAsks : D2[r] \subseteq D[r]
    PROVE  Apart(M2, A2, T2, W2, D2)
<1>1. /\ M \cap A = {} /\ M \cap T = {} /\ A \cap T = {}
      /\ \A k \in Keys : W[k] \cap M = {} /\ W[k] \cap A = {} /\ W[k] \cap T = {}
      /\ \A r \in 1..MaxAsks : D[r] \cap M = {} /\ D[r] \cap A = {} /\ D[r] \cap T = {}
      /\ \A k \in Keys, r \in 1..MaxAsks : W[k] \cap D[r] = {}
      /\ \A k, l \in Keys : k # l => W[k] \cap W[l] = {}
      /\ \A r, q \in 1..MaxAsks : r # q => D[r] \cap D[q] = {}
  BY Zenon DEF Apart
<1>2. /\ M2 \cap A2 = {} /\ M2 \cap T2 = {} /\ A2 \cap T2 = {}
  BY <1>1
<1>3. \A k \in Keys : W2[k] \cap M2 = {} /\ W2[k] \cap A2 = {} /\ W2[k] \cap T2 = {}
  BY <1>1
<1>4. \A r \in 1..MaxAsks : D2[r] \cap M2 = {} /\ D2[r] \cap A2 = {} /\ D2[r] \cap T2 = {}
  BY <1>1
<1>5. \A k \in Keys, r \in 1..MaxAsks : W2[k] \cap D2[r] = {}
  BY <1>1
<1>6. \A k, l \in Keys : k # l => W2[k] \cap W2[l] = {}
  BY <1>1
<1>7. \A r, q \in 1..MaxAsks : r # q => D2[r] \cap D2[q] = {}
  BY <1>1
<1> QED
  BY <1>2, <1>3, <1>4, <1>5, <1>6, <1>7, Zenon DEF Apart

\* Calls from nowhere else go to one place.
LEMMA ApartGrows ==
    ASSUME NEW M, NEW A, NEW T, NEW W, NEW D, Apart(M, A, T, W, D), NEW G,
           G \cap M = {}, G \cap A = {}, G \cap T = {},
           \A k \in Keys : G \cap W[k] = {}, \A r \in 1..MaxAsks : G \cap D[r] = {}
    PROVE  /\ Apart(M \cup G, A, T, W, D) /\ Apart(M, A \cup G, T, W, D)
           /\ Apart(M, A, T \cup G, W, D)
  BY DEF Apart

LEMMA ApartWaits ==
    ASSUME NEW M, NEW A, NEW T, NEW W, NEW D, Apart(M, A, T, W, D), NEW G,
           G \cap M = {}, G \cap A = {}, G \cap T = {},
           \A k \in Keys : G \cap W[k] = {}, \A r \in 1..MaxAsks : G \cap D[r] = {},
           NEW x \in Keys, NEW W2,
           \A k \in Keys : W2[k] = IF k = x THEN W[k] \cup G ELSE W[k]
    PROVE  Apart(M, A, T, W2, D)
  BY DEF Apart

LEMMA ApartOwes ==
    ASSUME NEW M, NEW A, NEW T, NEW W, NEW D, Apart(M, A, T, W, D), NEW G,
           G \cap M = {}, G \cap A = {}, G \cap T = {},
           \A k \in Keys : G \cap W[k] = {}, \A r \in 1..MaxAsks : G \cap D[r] = {},
           NEW x \in 1..MaxAsks, NEW D2,
           \A r \in 1..MaxAsks : D2[r] = IF r = x THEN D[r] \cup G ELSE D[r]
    PROVE  Apart(M, A, T, W, D2)
  BY DEF Apart

\* Steps that put no call anywhere.
LEMMA QuietOnce ==
    ASSUME OnceInv, UNCHANGED <<asks, posted, pending>>, missed' \subseteq missed,
           \A r \in 1..MaxAsks :
              renditions'[r].at = "concluded" =>
                 renditions[r].at = "concluded" /\ renditions'[r].calls = renditions[r].calls,
           \A r \in Calls : IsOpen(r)' => IsOpen(r)
    PROVE  OnceInv'
<1>1. Told' = Told /\ Calls' = Calls /\ \A c \in Calls : IsAnalysis(c)' <=> IsAnalysis(c)
  BY DEF Told, Calls, IsAnalysis
<1>2. Analysed' \subseteq Analysed
  BY <1>1 DEF Analysed
<1>3. \A k \in Keys : AllWaiting'[k] = AllWaiting[k]
  BY DEF AllWaiting, Waiting
<1>4. \A r \in 1..MaxAsks : AllDue'[r] \subseteq AllDue[r]
  BY DEF AllDue, Due
<1>5. InOnePlace'
  <2>1. Apart(missed, Analysed, Told, AllWaiting, AllDue)
    BY DEF OnceInv, InOnePlace
  <2>2. Apart(missed', Analysed', Told', AllWaiting', AllDue')
    BY <1>1, <1>2, <1>3, <1>4, <2>1, ApartShrinks
  <2> QED
    BY <2>2 DEF InOnePlace
<1>6. \A k \in Keys : Lists(pending'[k], Waiting(k)')
  BY DEF OnceInv, Waiting
<1>7. \A r \in 1..MaxAsks :
         renditions'[r].at = "concluded" => Lists(renditions'[r].calls, Due(r)')
  BY DEF OnceInv, Due
<1>8. \A c \in missed' : ~IsAnalysis(c)'
  BY DEF OnceInv, IsAnalysis
<1>9. AnsweredOnce'
  BY DEF OnceInv, AnsweredOnce
<1> QED
  BY <1>5, <1>6, <1>7, <1>8, <1>9 DEF OnceInv, Lists

\* A rendition that ends in whose place its calls are put.
LEMMA EndOnce ==
    ASSUME ServedInv, OnceInv, NEW r \in Calls, IsOpen(r), NEW status,
           UNCHANGED <<asks, missed, posted>>,
           \/ /\ IsAnalysis(r) /\ Conclude(r, <<r>>, status) /\ UNCHANGED pending
           \/ /\ Abandon(r)
           \/ /\ ~IsAnalysis(r) /\ Conclude(r, pending[KeyOf(r)], status)
              /\ pending' = [pending EXCEPT ![KeyOf(r)] = << >>]
    PROVE  OnceInv'
<1>1. /\ r \in 1..MaxAsks /\ KeyOf(r) \in Keys
      /\ pending \in [Keys -> Seq(1..Len(asks))]
      /\ renditions \in [1..MaxAsks -> RenditionsOf(Len(asks))]
  BY Typed DEF Filed
<1>2. renditions[r].at # "concluded" /\ AllDue[r] = {}
  BY <1>1, OnceMeans DEF IsOpen
<1>3. /\ Told' = Told /\ Calls' = Calls
      /\ \A c \in Calls : IsAnalysis(c)' <=> IsAnalysis(c)
      /\ AnsweredOnce' /\ \A c \in missed' : ~IsAnalysis(c)'
  BY DEF OnceInv, Told, Calls, IsAnalysis, AnsweredOnce
<1>4. Apart(missed, Analysed, Told, AllWaiting, AllDue)
  BY DEF OnceInv, InOnePlace
<1>5. CASE Abandon(r)
  <2>1. renditions' = [renditions EXCEPT ![r] = Over] /\ Over.at = "over"
    BY <1>5 DEF Abandon, Set, Over, Rendition
  <2>2. /\ \A q \in 1..MaxAsks : q # r => renditions'[q] = renditions[q]
        /\ renditions'[r].at = "over"
    BY <1>1, <2>1
  <2> QED
    BY <1>5, <2>2, QuietOnce, Typed DEF Abandon, IsOpen
<1>6. ASSUME NEW who, Conclude(r, who, status)
      PROVE  /\ renditions'[r].at = "concluded" /\ renditions'[r].calls = who
             /\ \A q \in 1..MaxAsks : q # r => renditions'[q] = renditions[q]
             /\ Analysed' = Analysed \ {r}
             /\ \A q \in 1..MaxAsks :
                   AllDue'[q] = IF q = r THEN AllDue[q] \cup ToSet(who) ELSE AllDue[q]
  <2> DEFINE new == [renditions[r] EXCEPT !.at = "concluded", !.calls = who, !.status = status]
  <2>1. renditions' = [renditions EXCEPT ![r] = new]
    BY <1>6 DEF Conclude, Set
  <2>2. new.at = "concluded" /\ new.calls = who
    BY <1>1 DEF RenditionsOf
  <2> HIDE DEF new
  <2>3. /\ renditions'[r] = new
        /\ \A q \in 1..MaxAsks : q # r => renditions'[q] = renditions[q]
    BY <1>1, <2>1
  <2>4. Analysed' = Analysed \ {r}
    BY <1>3, <2>2, <2>3, Typed DEF Analysed, IsOpen
  <2>5. \A q \in 1..MaxAsks :
           Due(q)' = IF q = r THEN AllDue[q] \cup ToSet(who) ELSE AllDue[q]
    BY <1>2, <2>2, <2>3 DEF Due, AllDue
  <2> QED
    BY <2>2, <2>3, <2>4, <2>5 DEF AllDue
<1>7. ASSUME NEW who, NEW X, Lists(who, X), Conclude(r, who, status)
      PROVE  \A q \in 1..MaxAsks :
                renditions'[q].at = "concluded" => Lists(renditions'[q].calls, Due(q)')
  <2>1. ToSet(who) = X
    BY <1>7, ListsMean
  <2>2. CASE TRUE
    BY <1>6, <1>7, <2>1 DEF Due, OnceInv
  <2> QED
    BY <2>2
<1>8. CASE IsAnalysis(r) /\ Conclude(r, <<r>>, status) /\ UNCHANGED pending
  <2>1. r \in Analysed
    BY <1>8 DEF Analysed
  <2>2. Apart(missed, Analysed \ {r}, Told, AllWaiting, AllDue)
    BY <1>4, ApartShrinks
  <2>3. /\ {r} \cap missed = {} /\ {r} \cap (Analysed \ {r}) = {} /\ {r} \cap Told = {}
        /\ \A k \in Keys : {r} \cap AllWaiting[k] = {}
        /\ \A q \in 1..MaxAsks : {r} \cap AllDue[q] = {}
    BY <1>4, <2>1 DEF Apart
  <2>5. Lists(<<r>>, {r}) /\ ToSet(<<r>>) = {r}
    BY SingleLists
  <2>6. AllWaiting' = AllWaiting
    BY <1>8 DEF AllWaiting, Waiting
  <2>7. InOnePlace'
    <3> DEFINE A == Analysed \ {r}
               G == {r}
    <3>1. /\ Apart(missed, A, Told, AllWaiting, AllDue)
          /\ G \cap missed = {} /\ G \cap A = {} /\ G \cap Told = {}
          /\ \A k \in Keys : G \cap AllWaiting[k] = {}
          /\ \A q \in 1..MaxAsks : G \cap AllDue[q] = {}
      BY <2>2, <2>3
    <3>2. \A q \in 1..MaxAsks : AllDue'[q] = IF q = r THEN AllDue[q] \cup G ELSE AllDue[q]
      BY <1>6, <1>8, <2>5
    <3>3. Analysed' = A
      BY <1>6, <1>8
    <3> HIDE DEF A, G
    <3>4. Apart(missed, A, Told, AllWaiting, AllDue')
      BY <1>1, <3>1, <3>2, ApartOwes
    <3> QED
      BY <1>3, <2>6, <3>3, <3>4 DEF InOnePlace
  <2>8. \A k \in Keys : Lists(pending'[k], Waiting(k)')
    BY <1>8 DEF OnceInv, Waiting
  <2> QED
    BY <1>3, <1>7, <1>8, <2>5, <2>7, <2>8 DEF OnceInv
<1>9. CASE /\ ~IsAnalysis(r) /\ Conclude(r, pending[KeyOf(r)], status)
           /\ pending' = [pending EXCEPT ![KeyOf(r)] = << >>]
  <2> DEFINE key == KeyOf(r)
             G == AllWaiting[key]
             W2 == [k \in Keys |-> IF k = key THEN {} ELSE AllWaiting[k]]
  <2>1. Apart(missed, Analysed \ {r}, Told, W2, AllDue)
    BY <1>4, ApartShrinks
  <2>2. /\ G \cap missed = {} /\ G \cap (Analysed \ {r}) = {} /\ G \cap Told = {}
        /\ \A k \in Keys : G \cap W2[k] = {}
        /\ \A q \in 1..MaxAsks : G \cap AllDue[q] = {}
    BY <1>1, <1>4 DEF Apart
  <2>4. G = ToSet(pending[key]) /\ Lists(pending[key], G)
    BY <1>1 DEF OnceInv, AllWaiting, Waiting
  <2>5. ToSet(<< >>) = {} /\ Lists(<< >>, {})
    BY EmptyLists, ListsMean
  <2>6. \A k \in Keys : pending'[k] = IF k = key THEN << >> ELSE pending[k]
    BY <1>1, <1>9
  <2>7. AllWaiting' = W2
    BY <2>5, <2>6 DEF AllWaiting, Waiting
  <2>8. InOnePlace'
    <3> DEFINE A == Analysed \ {r}
    <3>1. /\ Apart(missed, A, Told, W2, AllDue)
          /\ G \cap missed = {} /\ G \cap A = {} /\ G \cap Told = {}
          /\ \A k \in Keys : G \cap W2[k] = {}
          /\ \A q \in 1..MaxAsks : G \cap AllDue[q] = {}
      BY <2>1, <2>2
    <3> HIDE DEF G, W2
    <3>2. \A q \in 1..MaxAsks : AllDue'[q] = IF q = r THEN AllDue[q] \cup G ELSE AllDue[q]
      BY <1>6, <1>9, <2>4
    <3>3. Analysed' = A
      BY <1>6, <1>9
    <3> HIDE DEF A
    <3>4. Apart(missed, A, Told, W2, AllDue')
      BY <1>1, <3>1, <3>2, ApartOwes
    <3> QED
      BY <1>3, <2>7, <3>3, <3>4 DEF InOnePlace
  <2>9. \A k \in Keys : Lists(pending'[k], Waiting(k)')
    BY <2>5, <2>6 DEF OnceInv, Waiting
  <2>10. \A q \in 1..MaxAsks :
            renditions'[q].at = "concluded" => Lists(renditions'[q].calls, Due(q)')
    BY <1>7, <1>9, <2>4
  <2> QED
    BY <1>3, <2>8, <2>9, <2>10 DEF OnceInv
<1> QED
  BY <1>5, <1>8, <1>9

\* A delivered answer: the calls of a concluded rendition were told.
LEMMA AnswerOnce ==
    ASSUME ServedInv, OnceInv, NEW r \in Calls, Answer(r)
    PROVE  OnceInv'
<1> DEFINE who == renditions[r].calls
           D2 == [q \in 1..MaxAsks |-> IF q = r THEN {} ELSE AllDue[q]]
<1>1. /\ r \in 1..MaxAsks /\ Len(asks) \in Nat
      /\ renditions \in [1..MaxAsks -> RenditionsOf(Len(asks))]
      /\ posted \in Seq(AnswersOf(Len(asks)))
  BY Typed DEF Filed
<1>2. /\ renditions[r].at = "concluded"
      /\ Post(who, renditions[r].status, renditions[r].rev)
      /\ renditions' = [renditions EXCEPT ![r] = Over] /\ Over.at = "over"
      /\ UNCHANGED <<asks, missed, pending>>
  BY DEF Answer, Set, Over, Rendition, callVars, cacheVars
<1>3. /\ renditions[r] \in RenditionsOf(Len(asks)) /\ renditions[r].status # "none"
      /\ FreshRendition(r)
  BY <1>1, <1>2 DEF ServedInv, RenditionsFresh, FreshRendition
<1>4. /\ who \in Seq(1..Len(asks)) /\ renditions[r].rev \in 0..MaxRevision
      /\ renditions[r].status \in {"ready", "canceled", "error"}
  BY <1>3 DEF RenditionsOf
<1>5. Apart(missed, Analysed, Told, AllWaiting, AllDue)
  BY DEF OnceInv, InOnePlace
<1>6. IsInjective(who) /\ ToSet(who) = AllDue[r]
  BY <1>1, <1>2, OnceMeans
<1>7. AnsweredOnce' /\ Told' = Told \cup AllDue[r]
  <2>1. ToSet(who) \cap Told = {} /\ AnsweredOnce
    BY <1>1, <1>5, <1>6 DEF Apart, OnceInv
  <2> HIDE DEF who
  <2> QED
    BY <1>1, <1>2, <1>4, <1>6, <2>1, PostOnce
<1>8. \A q \in 1..MaxAsks : renditions'[q] = IF q = r THEN Over ELSE renditions[q]
  BY <1>1, <1>2
<1>9. AllDue' = D2 /\ Analysed' \subseteq Analysed /\ AllWaiting' = AllWaiting
  <2>1. AllDue' = D2
    BY <1>2, <1>8 DEF AllDue, Due
  <2>2. Analysed' \subseteq Analysed
    BY <1>2, <1>8, Typed DEF Analysed, IsOpen, IsAnalysis, Calls
  <2> QED
    BY <1>2, <2>1, <2>2 DEF AllWaiting, Waiting
<1>10. InOnePlace'
  <2> DEFINE G == AllDue[r]
  <2>1. Apart(missed, Analysed', Told, AllWaiting, D2)
    BY <1>5, <1>9, ApartShrinks
  <2>2. /\ G \cap missed = {} /\ G \cap Analysed' = {} /\ G \cap Told = {}
        /\ \A k \in Keys : G \cap AllWaiting[k] = {}
        /\ \A q \in 1..MaxAsks : G \cap D2[q] = {}
    BY <1>1, <1>5, <1>9 DEF Apart
  <2> HIDE DEF G, D2
  <2>3. Apart(missed, Analysed', Told \cup G, AllWaiting, D2)
    BY <2>1, <2>2, ApartGrows
  <2> QED
    BY <1>2, <1>7, <1>9, <2>3 DEF InOnePlace, G
<1>11. \A k \in Keys : Lists(pending'[k], Waiting(k)')
  BY <1>2 DEF OnceInv, Waiting
<1>12. \A q \in 1..MaxAsks :
          renditions'[q].at = "concluded" => Lists(renditions'[q].calls, Due(q)')
  BY <1>2, <1>8 DEF OnceInv, Due
<1>13. \A c \in missed' : ~IsAnalysis(c)'
  BY <1>2 DEF OnceInv, IsAnalysis
<1> QED
  BY <1>7, <1>10, <1>11, <1>12, <1>13 DEF OnceInv

\* The second section makes the call wait.
LEMMA JoinOnce ==
    ASSUME ServedInv, OnceInv, NEW r \in Calls, JoinOrStart(r)
    PROVE  OnceInv'
<1> DEFINE key == KeyOf(r)
           W2 == [k \in Keys |-> IF k = key THEN AllWaiting[k] \cup {r} ELSE AllWaiting[k]]
<1>1. /\ r \in 1..MaxAsks /\ key \in Keys
      /\ pending \in [Keys -> Seq(1..Len(asks))]
      /\ renditions \in [1..MaxAsks -> RenditionsOf(Len(asks))]
  BY Typed DEF Filed
<1>2. /\ r \in missed /\ missed' = missed \ {r}
      /\ pending' = [pending EXCEPT ![key] = Append(@, r)]
      /\ UNCHANGED <<asks, posted>>
      /\ \/ renditions' = renditions
         \/ renditions' = [renditions EXCEPT ![r] = NewRendition(generation[key])]
  BY DEF JoinOrStart
<1>3. /\ Told' = Told /\ Calls' = Calls /\ AnsweredOnce' /\ ~IsAnalysis(r)
      /\ \A c \in Calls : IsAnalysis(c)' <=> IsAnalysis(c)
      /\ \A c \in missed' : ~IsAnalysis(c)'
  BY <1>2 DEF OnceInv, Told, Calls, IsAnalysis, AnsweredOnce
<1>4. /\ \A q \in 1..MaxAsks : q # r => renditions'[q] = renditions[q]
      /\ renditions'[r] = renditions[r] \/ renditions'[r].at = "started"
  <2>1. NewRendition(generation[key]).at = "started"
    BY DEF NewRendition, Rendition
  <2> HIDE DEF key
  <2>2. CASE renditions' = renditions
    BY <2>2
  <2>3. CASE renditions' = [renditions EXCEPT ![r] = NewRendition(generation[key])]
    BY <1>1, <2>1, <2>3
  <2> QED
    BY <1>2, <2>2, <2>3
<1>5. Apart(missed, Analysed, Told, AllWaiting, AllDue)
  BY DEF OnceInv, InOnePlace
<1>6. Analysed' \subseteq Analysed /\ \A q \in 1..MaxAsks : AllDue'[q] \subseteq AllDue[q]
  <2>1. Analysed' \subseteq Analysed
    BY <1>3, <1>4, Typed DEF Analysed, IsOpen
  <2>2. \A q \in 1..MaxAsks : AllDue'[q] \subseteq AllDue[q]
    BY <1>4 DEF AllDue, Due
  <2> QED
    BY <2>1, <2>2
<1>7. \A k \in Keys : pending'[k] = IF k = key THEN Append(pending[k], r) ELSE pending[k]
  BY <1>1, <1>2
<1>8. Lists(Append(pending[key], r), AllWaiting[key] \cup {r})
      /\ ToSet(Append(pending[key], r)) = AllWaiting[key] \cup {r}
  <2>1. Lists(pending[key], AllWaiting[key])
    BY <1>1 DEF OnceInv, AllWaiting
  <2>2. r \notin AllWaiting[key]
    BY <1>1, <1>2, <1>5 DEF Apart
  <2> HIDE DEF key
  <2> QED
    BY <2>1, <2>2, AppendLists, ListsMean
<1>9. AllWaiting' = W2
  BY <1>7, <1>8 DEF AllWaiting, Waiting
<1>10. InOnePlace'
  <2>1. Apart(missed', Analysed', Told, AllWaiting, AllDue')
    BY <1>2, <1>5, <1>6, ApartShrinks
  <2> DEFINE G == {r}
  <2>2. /\ G \cap missed' = {} /\ G \cap Analysed' = {} /\ G \cap Told = {}
        /\ \A k \in Keys : G \cap AllWaiting[k] = {}
        /\ \A q \in 1..MaxAsks : G \cap AllDue'[q] = {}
    BY <1>2, <1>5, <1>6 DEF Apart
  <2>3. \A k \in Keys : W2[k] = IF k = key THEN AllWaiting[k] \cup G ELSE AllWaiting[k]
    OBVIOUS
  <2> HIDE DEF G, W2, key
  <2>4. Apart(missed', Analysed', Told, W2, AllDue')
    BY <1>1, <2>1, <2>2, <2>3, ApartWaits
  <2> QED
    BY <1>3, <1>9, <2>4 DEF InOnePlace
<1>11. \A k \in Keys : Lists(pending'[k], Waiting(k)')
  BY <1>7, <1>8 DEF OnceInv, Waiting
<1>12. \A q \in 1..MaxAsks :
          renditions'[q].at = "concluded" => Lists(renditions'[q].calls, Due(q)')
  BY <1>4 DEF OnceInv, Due
<1> QED
  BY <1>3, <1>10, <1>11, <1>12 DEF OnceInv

\* Calls leave the keys ks, and are told or dropped.
LEMMA SupersedeOnce ==
    ASSUME ServedInv, OnceInv, NEW ks, Supersede(ks),
           UNCHANGED <<asks, missed, renditions>>, AnsweredOnce',
           Told' \subseteq Told \cup UNION {AllWaiting[k] : k \in Keys \cap ks}
    PROVE  OnceInv'
<1> DEFINE W2 == [k \in Keys |-> IF k \in ks THEN {} ELSE AllWaiting[k]]
           G == UNION {AllWaiting[k] : k \in Keys \cap ks}
<1>1. Apart(missed, Analysed, Told, AllWaiting, AllDue)
  BY DEF OnceInv, InOnePlace
<1>2. \A k \in Keys : pending'[k] = IF k \in ks THEN << >> ELSE pending[k]
  BY DEF Supersede
<1>3. ToSet(<< >>) = {} /\ Lists(<< >>, {})
  BY EmptyLists, ListsMean
<1>4. AllWaiting' = W2 /\ AllDue' = AllDue /\ Analysed' = Analysed
  BY <1>2, <1>3 DEF AllWaiting, Waiting, AllDue, Due, Analysed, Calls, IsAnalysis, IsOpen
<1>5. InOnePlace'
  <2>1. Apart(missed, Analysed, Told, W2, AllDue)
    BY <1>1, ApartShrinks
  <2>2. /\ G \cap missed = {} /\ G \cap Analysed = {} /\ G \cap Told = {}
        /\ \A k \in Keys : G \cap W2[k] = {}
        /\ \A q \in 1..MaxAsks : G \cap AllDue[q] = {}
    BY <1>1 DEF Apart
  <2> HIDE DEF G, W2
  <2>3. Apart(missed, Analysed, Told \cup G, W2, AllDue)
    BY <2>1, <2>2, ApartGrows
  <2>4. Told' \subseteq Told \cup G
    BY DEF G
  <2>5. Apart(missed, Analysed, Told', W2, AllDue)
    BY <2>3, <2>4, ApartShrinks
  <2> QED
    BY <1>4, <2>5 DEF InOnePlace
<1>6. \A k \in Keys : Lists(pending'[k], Waiting(k)')
  BY <1>2, <1>3 DEF OnceInv, Waiting
<1>7. \A r \in 1..MaxAsks :
         renditions'[r].at = "concluded" => Lists(renditions'[r].calls, Due(r)')
  BY DEF OnceInv, Due
<1>8. \A c \in missed' : ~IsAnalysis(c)'
  BY DEF OnceInv, IsAnalysis
<1> QED
  BY <1>5, <1>6, <1>7, <1>8 DEF OnceInv

\* A new call is nowhere yet.
LEMMA AskOnce ==
    ASSUME ServedInv, OnceInv, NEW k \in Keys, NEW kind \in {"thumbnail", "analysis"}, Ask(k, kind),
           UNCHANGED pending,
           \A r \in Calls : renditions'[r] = renditions[r],
           \A r \in 1..MaxAsks : r # Len(asks') => renditions'[r] = renditions[r],
           renditions'[Len(asks')].at # "concluded",
           \/ /\ kind = "thumbnail" /\ missed' \subseteq missed \cup {Len(asks')}
              /\ UNCHANGED posted
           \/ /\ kind = "thumbnail" /\ UNCHANGED missed
              /\ AnsweredOnce' /\ Told' = Told \cup {Len(asks')}
           \/ /\ kind = "analysis" /\ UNCHANGED <<missed, posted>>
    PROVE  OnceInv'
<1>0. PICK n : n = Len(asks')
  OBVIOUS
<1> DEFINE G == {n}
<1>1. /\ Len(asks) \in Nat /\ n = Len(asks) + 1 /\ n \in 1..MaxAsks
      /\ \A c \in Calls : asks'[c] = asks[c]
      /\ asks'[n].kind = kind
  <2>1. Asked /\ Kept
    BY Typed
  <2>2. /\ Len(asks) \in Nat /\ Len(asks') = Len(asks) + 1 /\ Len(asks') \in 1..MaxAsks
        /\ \A c \in Calls : asks'[c] = asks[c]
        /\ asks'[Len(asks')] = [key |-> k, kind |-> kind, since |-> invalidated[ImageOf(k)]]
    BY <2>1, AskAppends
  <2> QED
    BY <1>0, <2>2
<1>2. n \notin Calls /\ Calls' = Calls \cup {n} /\ \A c \in Calls : c \in 1..MaxAsks
  BY <1>0, <1>1, Typed DEF Calls
<1>3. /\ G \cap missed = {} /\ G \cap Analysed = {} /\ G \cap Told = {}
      /\ \A q \in Keys : G \cap AllWaiting[q] = {}
      /\ \A r \in 1..MaxAsks : G \cap AllDue[r] = {}
  BY <1>2, PlacesAreCalls
<1>4. Apart(missed, Analysed, Told, AllWaiting, AllDue)
  BY DEF OnceInv, InOnePlace
<1>5. AllWaiting' = AllWaiting /\ \A r \in 1..MaxAsks : AllDue'[r] \subseteq AllDue[r]
  BY <1>0 DEF AllWaiting, Waiting, AllDue, Due
<1>6. \A c \in Calls : (IsAnalysis(c)' <=> IsAnalysis(c)) /\ (IsOpen(c)' <=> IsOpen(c))
  BY <1>1 DEF IsAnalysis, IsOpen
<1>7. /\ kind = "thumbnail" => Analysed' \subseteq Analysed
      /\ Analysed' \subseteq Analysed \cup G
  BY <1>1, <1>2, <1>6 DEF Analysed, IsAnalysis
<1>8. /\ Apart(missed \cup G, Analysed, Told, AllWaiting, AllDue)
      /\ Apart(missed, Analysed \cup G, Told, AllWaiting, AllDue)
      /\ Apart(missed, Analysed, Told \cup G, AllWaiting, AllDue)
  <2> HIDE DEF G
  <2> QED
    BY <1>3, <1>4, ApartGrows
<1>9. AnsweredOnce' /\ (UNCHANGED posted => Told' = Told)
  BY DEF OnceInv, AnsweredOnce, Told
<1>10. InOnePlace'
  <2> HIDE DEF G
  <2>1. CASE kind = "thumbnail" /\ missed' \subseteq missed \cup G /\ UNCHANGED posted
    <3>1. /\ missed' \subseteq missed \cup G /\ Analysed' \subseteq Analysed /\ Told' \subseteq Told
          /\ \A q \in Keys : AllWaiting'[q] \subseteq AllWaiting[q]
          /\ \A r \in 1..MaxAsks : AllDue'[r] \subseteq AllDue[r]
      BY <1>5, <1>7, <1>9, <2>1
    <3> QED
      BY <1>8, <3>1, ApartShrinks DEF InOnePlace
  <2>2. CASE kind = "thumbnail" /\ UNCHANGED missed /\ Told' = Told \cup G
    <3>1. /\ missed' \subseteq missed /\ Analysed' \subseteq Analysed /\ Told' \subseteq Told \cup G
          /\ \A q \in Keys : AllWaiting'[q] \subseteq AllWaiting[q]
          /\ \A r \in 1..MaxAsks : AllDue'[r] \subseteq AllDue[r]
      BY <1>5, <1>7, <2>2
    <3> QED
      BY <1>8, <3>1, ApartShrinks DEF InOnePlace
  <2>3. CASE kind = "analysis" /\ UNCHANGED <<missed, posted>>
    <3>1. /\ missed' \subseteq missed /\ Analysed' \subseteq Analysed \cup G /\ Told' \subseteq Told
          /\ \A q \in Keys : AllWaiting'[q] \subseteq AllWaiting[q]
          /\ \A r \in 1..MaxAsks : AllDue'[r] \subseteq AllDue[r]
      BY <1>5, <1>7, <1>9, <2>3
    <3> QED
      BY <1>8, <3>1, ApartShrinks DEF InOnePlace
  <2> QED
    BY <1>0, <2>1, <2>2, <2>3 DEF G
<1>11. \A q \in Keys : Lists(pending'[q], Waiting(q)')
  BY DEF OnceInv, Waiting
<1>12. \A r \in 1..MaxAsks :
          renditions'[r].at = "concluded" => Lists(renditions'[r].calls, Due(r)')
  BY <1>0 DEF OnceInv, Due
<1>13. \A c \in missed' : ~IsAnalysis(c)'
  <2>1. ~IsAnalysis(n)' \/ kind = "analysis"
    BY <1>1 DEF IsAnalysis
  <2>2. \A c \in missed : c \in Calls /\ ~IsAnalysis(c)
    BY PlacesAreCalls DEF OnceInv
  <2> QED
    BY <1>0, <1>6, <2>1, <2>2
<1> QED
  BY <1>9, <1>10, <1>11, <1>12, <1>13 DEF OnceInv

LEMMA CallsOnce ==
    ASSUME ServedInv, OnceInv,
           (\E k \in Keys : GetThumbnail(k))
              \/ (\E k \in Elements \X AnalysisTiers : RequestAnalysisRendition(k))
    PROVE  OnceInv'
<1>1. Asked /\ Kept /\ Filed(Len(asks)) /\ Len(asks) \in Nat /\ Len(asks) <= MaxAsks
  BY Typed
<1>2. ASSUME NEW k \in Keys, GetThumbnail(k) PROVE OnceInv'
  <2> DEFINE n == Len(asks')
  <2>1. /\ Ask(k, "thumbnail") /\ UNCHANGED <<pending, renditions>>
        /\ \/ UNCHANGED missed /\ Post(<<n>>, "ready", cache.guard[k].rev)
           \/ missed' = missed \cup {n} /\ UNCHANGED posted
    BY <1>2 DEF GetThumbnail, workVars
  <2>2. n \in 1..MaxAsks /\ n = Len(asks) + 1 /\ Filed(n)
    <3>1. /\ Len(asks') = Len(asks) + 1 /\ Len(asks') \in 1..MaxAsks
      BY <1>1, <2>1, AskAppends
    <3>2. Len(asks') \in Nat /\ Len(asks) <= Len(asks')
      BY <1>1, <3>1
    <3> QED
      BY <1>1, <3>1, <3>2, FiledGrows
  <2>3. renditions[n].at # "concluded"
    BY <1>1, <2>2 DEF ServedInv, NoneAhead
  <2>4. CASE UNCHANGED missed /\ Post(<<n>>, "ready", cache.guard[k].rev)
    <3>1. /\ posted \in Seq(AnswersOf(n)) /\ <<n>> \in Seq(1..n) /\ n \in Nat
          /\ cache.guard[k].rev \in 0..MaxRevision
      BY <1>1, <2>2 DEF Filed, Kept, IsCache, Guards
    <3>2. /\ IsInjective(<<n>>) /\ ToSet(<<n>>) = {n} /\ {n} \cap Told = {} /\ AnsweredOnce
      <4>1. Told \subseteq 1..Len(asks) /\ n \notin 1..Len(asks)
        BY <1>1, <2>2, PlacesAreCalls DEF Calls
      <4>2. AnsweredOnce
        BY DEF OnceInv
      <4>3. IsInjective(<<n>>) /\ ToSet(<<n>>) = {n}
        BY SingleLists
      <4> QED
        BY <4>1, <4>2, <4>3
    <3> HIDE DEF n
    <3>3. AnsweredOnce' /\ Told' = Told \cup {n}
      <4>1. ToSet(<<n>>) \cap Told = {}
        BY <3>2
      <4>2. AnsweredOnce' /\ Told' = Told \cup ToSet(<<n>>)
        BY <2>4, <3>1, <3>2, <4>1, PostOnce
      <4> QED
        BY <3>2, <4>2
    <3> QED
      BY <2>1, <2>3, <2>4, <3>3, AskOnce DEF n
  <2>5. CASE missed' = missed \cup {n} /\ UNCHANGED posted
    BY <2>1, <2>3, <2>5, AskOnce
  <2> QED
    BY <2>1, <2>4, <2>5
<1>3. ASSUME NEW k \in Elements \X AnalysisTiers, RequestAnalysisRendition(k) PROVE OnceInv'
  <2> DEFINE n == Len(asks')
  <2>1. /\ Ask(k, "analysis") /\ UNCHANGED <<pending, missed, posted>>
        /\ renditions' = [renditions EXCEPT ![n] = NewRendition(0)] /\ k \in Keys
    BY <1>3, CallsAssumption DEF RequestAnalysisRendition, cacheVars, Keys
  <2>2. n \in 1..MaxAsks /\ n = Len(asks) + 1 /\ n \notin Calls
    <3>1. Len(asks') = Len(asks) + 1 /\ Len(asks') \in 1..MaxAsks
      BY <1>1, <2>1, AskAppends
    <3> QED
      BY <1>1, <3>1 DEF Calls
  <2>3. NewRendition(0).at = "started"
    BY DEF NewRendition, Rendition
  <2>4. DOMAIN renditions = 1..MaxAsks
    BY <1>1 DEF Filed
  <2> HIDE DEF n
  <2>5. /\ \A r \in 1..MaxAsks : r # n => renditions'[r] = renditions[r]
        /\ renditions'[n].at # "concluded"
    BY <2>1, <2>2, <2>3, <2>4
  <2>6. \A r \in Calls : renditions'[r] = renditions[r]
    BY <2>2, <2>5, Typed
  <2> QED
    BY <2>1, <2>5, <2>6, AskOnce DEF n
<1> QED
  BY <1>2, <1>3

LEMMA SupersessionsOnce ==
    ASSUME ServedInv, OnceInv,
           \/ \E k \in Keys : CancelPending(k) \/ BeginRelease(k)
           \/ \E e \in Elements : CancelImage(e) \/ InvalidateThumbnail(e)
    PROVE  OnceInv'
<1>1. /\ Kept /\ Len(asks) \in Nat /\ posted \in Seq(AnswersOf(Len(asks)))
      /\ pending \in [Keys -> Seq(1..Len(asks))] /\ AnsweredOnce
      /\ Apart(missed, Analysed, Told, AllWaiting, AllDue)
  BY Typed DEF Filed, OnceInv, InOnePlace
<1>2. ASSUME NEW ks \in SUBSET Keys, Supersede(ks), NEW who \in Seq(1..Len(asks)),
             IsInjective(who), ToSet(who) \subseteq UNION {AllWaiting[k] : k \in ks},
             Post(who, "canceled", 0), UNCHANGED <<asks, missed, renditions>>
      PROVE  OnceInv'
  <2>1. ToSet(who) \cap Told = {}
    BY <1>1, <1>2 DEF Apart
  <2>2. 0 \in 0..MaxRevision
    BY CallsAssumption
  <2>3. AnsweredOnce' /\ Told' = Told \cup ToSet(who)
    BY <1>1, <1>2, <2>1, <2>2, PostOnce
  <2>4. Keys \cap ks = ks
    BY <1>2
  <2>5. Told' \subseteq Told \cup UNION {AllWaiting[k] : k \in Keys \cap ks}
    BY <1>2, <2>3, <2>4
  <2> QED
    BY <1>2, <2>3, <2>5, SupersedeOnce
<1>3. ASSUME NEW k \in Keys, CancelPending(k) \/ BeginRelease(k) PROVE OnceInv'
  <2>1. /\ Supersede({k}) /\ Post(pending[k], "canceled", 0)
        /\ UNCHANGED <<asks, missed, renditions>>
    BY <1>3 DEF CancelPending, BeginRelease, CancelKey, callVars, workVars
  <2>2. /\ pending[k] \in Seq(1..Len(asks)) /\ IsInjective(pending[k])
        /\ ToSet(pending[k]) \subseteq UNION {AllWaiting[q] : q \in {k}}
    BY <1>1, OnceMeans
  <2> QED
    BY <1>2, <2>1, <2>2
<1>4. ASSUME NEW e \in Elements, CancelImage(e) PROVE OnceInv'
  <2> DEFINE S == UNION {ToSet(pending[k]) : k \in TiersOf(e)}
  <2>1. /\ Supersede(TiersOf(e)) /\ Post(SetToSeq(S), "canceled", 0)
        /\ UNCHANGED <<asks, missed, renditions>>
    BY <1>4 DEF CancelImage, callVars, workVars
  <2>2. TiersOf(e) \in SUBSET Keys
    BY DEF TiersOf
  <2>3. S \subseteq 1..Len(asks) /\ SetToSeq(S) \in Seq(1..Len(asks))
    BY <1>1, <2>2, WaitersOf
  <2>4. IsFiniteSet(S)
    <3>1. IsFiniteSet(1..Len(asks))
      BY <1>1, FS_Interval
    <3> QED
      BY <2>3, <3>1, FS_Subset
  <2>5. S \subseteq UNION {AllWaiting[k] : k \in TiersOf(e)}
    <3>1. \A k \in TiersOf(e) : AllWaiting[k] = ToSet(pending[k])
      BY <2>2, OnceMeans
    <3> QED
      BY <3>1
  <2> HIDE DEF S
  <2>6. SetToSeq(S) \in Seq(S) /\ IsInjective(SetToSeq(S))
    BY <2>4, SetToSeqOrders
  <2>7. ToSet(SetToSeq(S)) \subseteq S
    BY <2>6, ElementOfSeq, LenProperties DEF ToSet
  <2>8. ToSet(SetToSeq(S)) \subseteq UNION {AllWaiting[k] : k \in TiersOf(e)}
    BY <2>5, <2>7
  <2> QED
    BY <1>2, <2>1, <2>2, <2>3, <2>6, <2>8
<1>5. ASSUME NEW e \in Elements, InvalidateThumbnail(e) PROVE OnceInv'
  <2>1. Supersede(TiersOf(e)) /\ UNCHANGED <<asks, missed, renditions, posted>>
    BY <1>5 DEF InvalidateThumbnail, callVars, workVars
  <2>2. AnsweredOnce' /\ Told' = Told
    BY <1>1, <2>1 DEF AnsweredOnce, Told
  <2> QED
    BY <2>1, <2>2, SupersedeOnce
<1> QED
  BY <1>3, <1>4, <1>5

LEMMA NextOnce ==
    ASSUME ServedInv, OnceInv, [CallsNext]_calls
    PROVE  OnceInv'
<1>1. CASE UNCHANGED <<asks, posted, pending, missed, renditions>>
  BY <1>1, QuietOnce DEF IsOpen
<1>2. CASE Caller
  BY <1>1, <1>2, CallsOnce, SupersessionsOnce
     DEF Caller, CancelAnalysisRendition, ReleaseAnalysisRendition, Commit, ResizeCache,
         callVars, cacheVars, workVars
<1>3. CASE Finish
  BY <1>1, <1>3, JoinOnce DEF Finish, EndRelease, callVars, workVars
<1>4. ASSUME NEW r \in Calls, Fetch(r) PROVE OnceInv'
  <2> DEFINE new == [renditions[r] EXCEPT !.at = "fetched", !.rev = committed[ImageOf(KeyOf(r))]]
  <2>1. /\ renditions' = [renditions EXCEPT ![r] = new] /\ IsOpen(r)
        /\ UNCHANGED <<asks, posted, pending, missed>>
    BY <1>4 DEF Fetch, Set, IsOpen, callVars, cacheVars
  <2>2. r \in 1..MaxAsks /\ renditions \in [1..MaxAsks -> RenditionsOf(Len(asks))]
    BY Typed DEF Filed
  <2>3. new.at = "fetched"
    BY <2>2 DEF RenditionsOf
  <2> HIDE DEF new
  <2>4. renditions'[r] = new /\ \A q \in 1..MaxAsks : q # r => renditions'[q] = renditions[q]
    BY <2>1, <2>2
  <2> QED
    BY <2>1, <2>3, <2>4, QuietOnce, Typed DEF IsOpen
<1>5. ASSUME NEW r \in Calls, NEW status, Fail(r, status) PROVE OnceInv'
  <2>1. /\ IsOpen(r) /\ Fails(r, status) /\ UNCHANGED <<asks, missed, posted>>
    BY <1>5 DEF Fail, callVars
  <2> QED
    BY <2>1, EndOnce DEF Fails, Abandon
<1>6. ASSUME NEW r \in Calls, DeliverPixels(r) PROVE OnceInv'
  <2>1. IsOpen(r) /\ Delivers(r) /\ UNCHANGED <<asks, missed, posted>>
    BY <1>6 DEF DeliverPixels, callVars, IsOpen
  <2> QED
    BY <2>1, EndOnce DEF Delivers, PublishAnalysis, Publish
<1>7. ASSUME NEW rs \in SUBSET Calls, Lose(rs) PROVE OnceInv'
  <2>1. /\ renditions' = [r \in DOMAIN renditions |-> IF r \in rs THEN Over ELSE renditions[r]]
        /\ UNCHANGED <<asks, posted, pending, missed>> /\ Over.at = "over"
    BY <1>7 DEF Lose, callVars, cacheVars, Over, Rendition
  <2>2. DOMAIN renditions = 1..MaxAsks
    BY Typed DEF Filed
  <2>3. \A r \in 1..MaxAsks : renditions'[r] = IF r \in rs THEN Over ELSE renditions[r]
    BY <2>1, <2>2
  <2> QED
    BY <2>1, <2>3, QuietOnce, Typed DEF IsOpen
<1>8. ASSUME NEW r \in Calls, Render(r) \/ ShutOut(r) PROVE OnceInv'
  BY <1>4, <1>5, <1>6, <1>8, AnswerOnce DEF Render, ShutOut, GiveUp
<1> QED
  BY <1>1, <1>2, <1>3, <1>7, <1>8 DEF CallsNext, calls, callVars, cacheVars, workVars

LEMMA InitOnce ==
    ASSUME Init
    PROVE  OnceInv
<1>1. /\ missed = {} /\ posted = << >> /\ Len(posted) = 0 /\ Calls = {}
      /\ \A k \in Keys : pending[k] = << >>
      /\ \A r \in 1..MaxAsks : renditions[r].at = "none"
  BY DEF Init, Calls, NoRendition, Rendition
<1>2. ToSet(<< >>) = {} /\ Lists(<< >>, {})
  BY EmptyLists, ListsMean
<1>3. /\ Analysed = {} /\ Told = {}
      /\ \A k \in Keys : AllWaiting[k] = {} /\ Lists(pending[k], Waiting(k))
      /\ \A r \in 1..MaxAsks : AllDue[r] = {}
  BY <1>1, <1>2, SMTT(60) DEF Analysed, Told, AllWaiting, Waiting, AllDue, Due
<1>4. InOnePlace
  BY <1>1, <1>3 DEF InOnePlace, Apart
<1> QED
  BY <1>1, <1>3, <1>4 DEF OnceInv, AnsweredOnce

\* No call is answered twice: at any moment it is at most in one place, waiting
\* for its key, owed an answer by one rendition, told, or between the sections,
\* and every action moves it from one to the next
\* (thumbnail_service.cpp:284-336, 647-692, 806-853, 883-896).
THEOREM CallsAnswerOnce == CallsSpec => []AnsweredOnce
<1>1. Init => OnceInv
  BY InitOnce
<1>2. ServedInv /\ OnceInv /\ [CallsNext]_calls => OnceInv'
  BY NextOnce
<1>3. OnceInv => AnsweredOnce
  BY DEF OnceInv
<1> QED
  BY <1>1, <1>2, <1>3, CallsAreServed, PTL DEF CallsSpec

----------------------------------------------------------------------------
\* Who waits is served.

Servers(k) ==
    {r \in Calls : IsOpen(r) /\ ~IsAnalysis(r) /\ KeyOf(r) = k /\ ~IsCanceled(r)}

\* One rendition serves who waits for a key, and none a key nobody waits for.
Served(k) ==
    /\ pending[k] = << >> => Servers(k) = {}
    /\ pending[k] # << >> => \E r \in Calls : Servers(k) = {r}
AllServed == \A k \in Keys : Served(k)

LEMMA ServersStay ==
    ASSUME AllServed, UNCHANGED pending, \A k \in Keys : Servers(k)' = Servers(k),
           Calls \subseteq Calls'
    PROVE  AllServed'
  BY DEF AllServed, Served

\* An open rendition of a key is of its current generation or an older one.
LEMMA GenerationsRun ==
    ASSUME ServedInv
    PROVE  /\ generation \in [Keys -> Nat]
           /\ \A r \in Calls : IsOpen(r) /\ ~IsAnalysis(r) =>
                 renditions[r].gen \in Nat /\ renditions[r].gen <= generation[KeyOf(r)]
<1>1. /\ generation \in [Keys -> 0..MaxGeneration]
      /\ renditions \in [1..MaxAsks -> RenditionsOf(Len(asks))]
  BY Typed DEF Kept, Filed
<1>2. ASSUME NEW r \in Calls, IsOpen(r), ~IsAnalysis(r)
      PROVE  renditions[r].gen \in Nat /\ renditions[r].gen <= generation[KeyOf(r)]
  <2>1. FreshRendition(r) /\ r \in 1..MaxAsks
    BY Typed DEF ServedInv, RenditionsFresh
  <2> QED
    BY <1>1, <1>2, <2>1, CallsAssumption DEF FreshRendition, RenditionsOf
<1> QED
  BY <1>1, <1>2, CallsAssumption

LEMMA AskWaits ==
    ASSUME ServedInv, AllServed, UNCHANGED <<pending, generation>>,
           NEW k \in Keys, NEW kind \in {"thumbnail", "analysis"}, Ask(k, kind),
           \A r \in Calls : renditions'[r] = renditions[r],
           kind = "analysis" \/ UNCHANGED renditions
    PROVE  AllServed'
<1>0. PICK n : n = Len(asks')
  OBVIOUS
<1>1. /\ Len(asks) \in Nat /\ n = Len(asks) + 1 /\ n \in 1..MaxAsks
      /\ \A c \in Calls : asks'[c] = asks[c]
      /\ asks'[n].kind = kind
  <2>1. Asked /\ Kept
    BY Typed
  <2>2. /\ Len(asks) \in Nat /\ Len(asks') = Len(asks) + 1 /\ Len(asks') \in 1..MaxAsks
        /\ \A c \in Calls : asks'[c] = asks[c]
        /\ asks'[Len(asks')] = [key |-> k, kind |-> kind, since |-> invalidated[ImageOf(k)]]
    BY <2>1, AskAppends
  <2> QED
    BY <1>0, <2>2
<1>2. n \notin Calls /\ Calls' = Calls \cup {n}
  BY <1>0, <1>1 DEF Calls
<1>3. renditions[n].at = "none"
  BY <1>1 DEF ServedInv, NoneAhead
<1>4. \A q \in Keys : n \notin Servers(q)'
  BY <1>1, <1>3 DEF Servers, IsOpen, IsAnalysis
<1>5. \A q \in Keys : Servers(q)' = Servers(q)
  <2>1. \A c \in Calls : /\ IsOpen(c)' <=> IsOpen(c)
                         /\ IsAnalysis(c)' <=> IsAnalysis(c)
                         /\ KeyOf(c)' = KeyOf(c)
                         /\ ~IsAnalysis(c) => (IsCanceled(c)' <=> IsCanceled(c))
    BY <1>1 DEF IsOpen, IsAnalysis, KeyOf, IsCanceled
  <2> QED
    BY <1>2, <1>4, <2>1 DEF Servers
<1> QED
  BY <1>2, <1>5, ServersStay

LEMMA SupersedeWaits ==
    ASSUME ServedInv, AllServed, NEW ks, Supersede(ks), UNCHANGED <<asks, renditions>>
    PROVE  AllServed'
<1>1. \A k \in Keys : /\ generation'[k] = generation[k] + (IF k \in ks THEN 1 ELSE 0)
                      /\ pending'[k] = IF k \in ks THEN << >> ELSE pending[k]
  BY DEF Supersede
<1>2. /\ generation \in [Keys -> Nat]
      /\ \A r \in Calls : IsOpen(r) /\ ~IsAnalysis(r) =>
            renditions[r].gen \in Nat /\ renditions[r].gen <= generation[KeyOf(r)]
  BY GenerationsRun
<1>3. ASSUME NEW k \in Keys, k \in ks PROVE Servers(k)' = {}
  <2>1. generation'[k] = generation[k] + 1 /\ generation[k] \in Nat
    BY <1>1, <1>2, <1>3
  <2>2. \A r \in Calls :
           IsOpen(r) /\ ~IsAnalysis(r) /\ KeyOf(r) = k => renditions[r].gen # generation'[k]
    BY <1>2, <2>1
  <2> QED
    BY <2>2 DEF Servers, Calls, IsOpen, IsAnalysis, KeyOf, IsCanceled
<1>4. ASSUME NEW k \in Keys, k \notin ks PROVE Servers(k)' = Servers(k)
  <2>1. generation'[k] = generation[k]
    BY <1>1, <1>2, <1>4
  <2> QED
    BY <2>1 DEF Servers, Calls, IsOpen, IsAnalysis, KeyOf, IsCanceled
<1>5. Calls' = Calls
  BY DEF Calls
<1> QED
  BY <1>1, <1>3, <1>4, <1>5 DEF AllServed, Served

LEMMA JoinWaits ==
    ASSUME ServedInv, OnceInv, AllServed, NEW r \in Calls, JoinOrStart(r)
    PROVE  AllServed'
<1> DEFINE key == KeyOf(r)
           new == NewRendition(generation[key])
<1>1. /\ r \in 1..MaxAsks /\ key \in Keys /\ pending \in [Keys -> Seq(1..Len(asks))]
      /\ renditions \in [1..MaxAsks -> RenditionsOf(Len(asks))] /\ r \in 1..Len(asks)
      /\ \A q \in Calls : q \in 1..MaxAsks
  BY Typed DEF Filed, Calls
<1>2. /\ pending' = [pending EXCEPT ![key] = Append(@, r)] /\ UNCHANGED <<asks, generation, canceled>>
      /\ renditions' = IF pending[key] # << >> THEN renditions ELSE [renditions EXCEPT ![r] = new]
      /\ ~IsAnalysis(r)
  BY DEF JoinOrStart, OnceInv
<1>3. /\ \A k \in Keys : k # key => pending'[k] = pending[k]
      /\ pending'[key] # << >>
  <2>1. pending[key] \in Seq(1..Len(asks))
    BY <1>1
  <2>2. Append(pending[key], r) # << >>
    <3> HIDE DEF key
    <3> QED
      BY <1>1, <2>1, AppendProperties
  <2> QED
    BY <1>1, <1>2, <2>2
<1>4. Calls' = Calls
  BY <1>2 DEF Calls
<1>5. CASE pending[key] # << >>
  <2>1. \A k \in Keys : Servers(k)' = Servers(k)
    BY <1>2, <1>5 DEF Servers, Calls, IsOpen, IsAnalysis, KeyOf, IsCanceled
  <2> QED
    BY <1>3, <1>4, <1>5, <2>1 DEF AllServed, Served
<1>6. CASE pending[key] = << >>
  <2>1. new.at = "started" /\ new.gen = generation[key]
    BY DEF NewRendition, Rendition
  <2> HIDE DEF new
  <2>2. /\ renditions'[r] = new
        /\ \A q \in Calls : q # r => renditions'[q] = renditions[q]
    BY <1>1, <1>2, <1>6
  <2>3. /\ ~IsAnalysis(r)' /\ IsOpen(r)' /\ KeyOf(r)' = key /\ ~IsCanceled(r)'
    BY <1>2, <2>1, <2>2 DEF IsOpen, IsAnalysis, KeyOf, IsCanceled
  <2>4. \A q \in Calls : q # r =>
           /\ IsOpen(q)' <=> IsOpen(q)
           /\ IsAnalysis(q)' <=> IsAnalysis(q)
           /\ KeyOf(q)' = KeyOf(q)
           /\ IsCanceled(q)' <=> IsCanceled(q)
    BY <1>2, <2>2 DEF IsOpen, IsAnalysis, KeyOf, IsCanceled
  <2>5. Servers(key) = {}
    BY <1>1, <1>6 DEF AllServed, Served
  <2>6. Servers(key)' = {r}
    <3>1. Servers(key)' = {q \in Calls : IsOpen(q)' /\ ~IsAnalysis(q)' /\ KeyOf(q)' = key /\ ~IsCanceled(q)'}
      <4>1. key' = key
        BY <1>2 DEF KeyOf
      <4> HIDE DEF key
      <4> QED
        BY <1>4, <4>1 DEF Servers
    <3> HIDE DEF key
    <3> QED
      BY <2>3, <2>4, <2>5, <3>1 DEF Servers
  <2>7. ASSUME NEW k \in Keys, k # key PROVE Served(k)'
    <3>1. Served(k)
      BY DEF AllServed
    <3>2. r \notin Servers(k)'
      BY <2>3, <2>7 DEF Servers
    <3>3. \A q \in Calls : q # r => (q \in Servers(k)' <=> q \in Servers(k))
      <4> HIDE DEF key
      <4> QED
        BY <1>4, <2>4 DEF Servers
    <3>4. Servers(k)' \subseteq Calls /\ Servers(k) \subseteq Calls
      BY <1>4 DEF Servers
    <3>5. CASE r \in Servers(k)
      BY <2>7, <3>5 DEF Servers
    <3>6. CASE r \notin Servers(k)
      <4>1. Servers(k)' = Servers(k)
        BY <3>2, <3>3, <3>4, <3>6
      <4> QED
        BY <1>3, <1>4, <2>7, <3>1, <4>1 DEF Served
    <3> QED
      BY <3>5, <3>6
  <2>8. Served(key)'
    <3>1. key' = key
      BY <1>2 DEF KeyOf
    <3> HIDE DEF key
    <3> QED
      BY <1>3, <1>4, <2>6, <3>1 DEF Served
  <2>9. \A k \in Keys : Served(k)'
    <3>1. key' = key
      BY <1>2 DEF KeyOf
    <3> HIDE DEF key
    <3> QED
      BY <2>7, <2>8, <3>1
  <2> QED
    BY <2>9 DEF AllServed
<1> QED
  BY <1>5, <1>6

\* A rendition moves on in its pool, or ends after it served the others.
LEMMA RenditionWaits ==
    ASSUME ServedInv, AllServed, NEW r \in Calls,
           UNCHANGED <<asks, generation, canceled>>,
           \A q \in Calls : q # r => renditions'[q] = renditions[q],
           \/ /\ UNCHANGED pending
              /\ \/ (IsOpen(r)' <=> IsOpen(r)) /\ renditions'[r].gen = renditions[r].gen
                 \/ ~IsOpen(r)' /\ r \notin Servers(KeyOf(r))
           \/ /\ pending' = [pending EXCEPT ![KeyOf(r)] = << >>]
              /\ ~IsOpen(r)' /\ r \in Servers(KeyOf(r))
    PROVE  AllServed'
<1> DEFINE key == KeyOf(r)
<1>1. key \in Keys /\ pending \in [Keys -> Seq(1..Len(asks))]
  BY Typed DEF Filed
<1>2. Calls' = Calls /\ key' = key
  BY DEF Calls, KeyOf
<1>3. \A q \in Calls : q # r => /\ IsOpen(q)' <=> IsOpen(q)
                                /\ IsAnalysis(q)' <=> IsAnalysis(q)
                                /\ KeyOf(q)' = KeyOf(q)
                                /\ IsCanceled(q)' <=> IsCanceled(q)
  BY DEF IsOpen, IsAnalysis, KeyOf, IsCanceled
<1>4. CASE /\ UNCHANGED pending
           /\ \/ (IsOpen(r)' <=> IsOpen(r)) /\ renditions'[r].gen = renditions[r].gen
              \/ ~IsOpen(r)' /\ r \notin Servers(KeyOf(r))
  <2>1. ASSUME NEW k \in Keys PROVE r \in Servers(k)' <=> r \in Servers(k)
    BY <1>4 DEF Servers, Calls, IsOpen, IsAnalysis, KeyOf, IsCanceled
  <2>2. ASSUME NEW k \in Keys, NEW q \in Calls, q # r PROVE q \in Servers(k)' <=> q \in Servers(k)
    BY <1>2, <1>3, <2>2 DEF Servers
  <2>3. \A k \in Keys : Servers(k) \subseteq Calls /\ Servers(k)' \subseteq Calls
    BY <1>2 DEF Servers
  <2>4. ASSUME NEW k \in Keys PROVE Servers(k)' = Servers(k)
    <3>1. \A q \in Calls : q \in Servers(k)' <=> q \in Servers(k)
      BY <2>1, <2>2
    <3>2. Servers(k) \subseteq Calls /\ Servers(k)' \subseteq Calls
      BY <2>3
    <3> QED
      BY <3>1, <3>2
  <2> QED
    BY <1>2, <1>4, <2>4, ServersStay
<1>5. CASE /\ pending' = [pending EXCEPT ![KeyOf(r)] = << >>]
           /\ ~IsOpen(r)' /\ r \in Servers(KeyOf(r))
  <2>1. Served(key) /\ r \in Servers(key)
    BY <1>1, <1>5 DEF AllServed
  <2>2. Servers(key) = {r}
    <3> HIDE DEF key
    <3> QED
      BY <2>1 DEF Served
  <2>3. \A k \in Keys : r \notin Servers(k)'
    BY <1>5 DEF Servers
  <2>4. \A k \in Keys : Servers(k) \subseteq Calls /\ Servers(k)' \subseteq Calls
    BY <1>2 DEF Servers
  <2>5. ASSUME NEW k \in Keys, NEW q \in Calls, q # r PROVE q \in Servers(k)' <=> q \in Servers(k)
    BY <1>2, <1>3, <2>5 DEF Servers
  <2>6. Servers(key)' = {}
    <3>1. \A k \in Keys : k = key => Servers(k)' = {}
      <4> HIDE DEF key
      <4> QED
        BY <2>2, <2>3, <2>4, <2>5
    <3> QED
      BY <1>1, <1>2, <3>1
  <2>7. ASSUME NEW k \in Keys, k # key PROVE Servers(k)' = Servers(k)
    <3>1. r \notin Servers(k)
      BY <2>7 DEF Servers
    <3>2. \A q \in Calls : q \in Servers(k)' <=> q \in Servers(k)
      BY <2>3, <2>5, <3>1
    <3>3. Servers(k) \subseteq Calls /\ Servers(k)' \subseteq Calls
      BY <2>4
    <3> QED
      BY <3>2, <3>3
  <2>8. pending'[key] = << >> /\ \A k \in Keys : k # key => pending'[k] = pending[k]
    BY <1>1, <1>5
  <2>9. ASSUME NEW k \in Keys, k # key PROVE Served(k)'
    BY <1>2, <2>7, <2>8, <2>9 DEF AllServed, Served
  <2>10. ASSUME NEW k \in Keys, k = key PROVE Served(k)'
    <3>1. Servers(k)' = {} /\ pending'[k] = << >>
      BY <1>2, <2>6, <2>8, <2>10 DEF Servers
    <3> QED
      BY <3>1 DEF Served
  <2> QED
    BY <2>9, <2>10 DEF AllServed
<1> QED
  BY <1>4, <1>5

LEMMA NextWaits ==
    ASSUME ServedInv, OnceInv, AllServed,
           \/ UNCHANGED calls
           \/ Caller
           \/ Finish
           \/ \E r \in Calls : Render(r) \/ ShutOut(r)
    PROVE  AllServed'
<1>1. /\ \A r \in Calls : r \in 1..MaxAsks
      /\ renditions \in [1..MaxAsks -> RenditionsOf(Len(asks))]
      /\ Len(asks) \in Nat /\ \A k \in Elements \X AnalysisTiers : k \in Keys
  BY Typed, CallsAssumption DEF Filed, Keys
<1>2. ASSUME NEW r \in Calls, NEW new, Set(r, new)
      PROVE  renditions'[r] = new /\ \A q \in Calls : q # r => renditions'[q] = renditions[q]
  BY <1>1, <1>2 DEF Set
<1>3. CASE UNCHANGED <<asks, pending, generation, renditions>>
  <2>1. Calls' = Calls /\ \A k \in Keys : Servers(k)' = Servers(k)
    BY <1>3 DEF Servers, Calls, IsOpen, IsAnalysis, KeyOf, IsCanceled
  <2> QED
    BY <1>3, <2>1, ServersStay
<1>4. ASSUME NEW k \in Keys, GetThumbnail(k) PROVE AllServed'
  BY <1>4, AskWaits DEF GetThumbnail, workVars
<1>5. ASSUME NEW k \in Keys, RequestAnalysisRendition(k) PROVE AllServed'
  <2>1. Ask(k, "analysis") /\ UNCHANGED <<pending, generation>>
    BY <1>5 DEF RequestAnalysisRendition, cacheVars
  <2>2. Len(asks') = Len(asks) + 1
    BY <2>1, AskAppends, Typed
  <2>3. \A r \in Calls : renditions'[r] = renditions[r]
    BY <1>1, <1>5, <2>2 DEF RequestAnalysisRendition, Calls
  <2> QED
    BY <2>1, <2>3, AskWaits
<1>6. ASSUME NEW ks, Supersede(ks), UNCHANGED <<asks, renditions>> PROVE AllServed'
  BY <1>6, SupersedeWaits
<1>7. ASSUME NEW r \in Calls, Fetch(r) PROVE AllServed'
  <2> DEFINE new == [renditions[r] EXCEPT !.at = "fetched", !.rev = committed[ImageOf(KeyOf(r))]]
  <2>1. /\ Set(r, new) /\ renditions[r].at = "started"
        /\ UNCHANGED <<asks, pending, generation, canceled>>
    BY <1>7 DEF Fetch, callVars, cacheVars
  <2>2. new.at = "fetched" /\ new.gen = renditions[r].gen
    BY <1>1 DEF RenditionsOf
  <2> HIDE DEF new
  <2> QED
    BY <1>2, <2>1, <2>2, RenditionWaits DEF IsOpen
<1>8. ASSUME NEW r \in Calls, NEW new, Set(r, new), new.at \in {"concluded", "over"},
             UNCHANGED <<asks, generation, canceled>>,
             \/ UNCHANGED pending /\ r \notin Servers(KeyOf(r))
             \/ /\ pending' = [pending EXCEPT ![KeyOf(r)] = << >>]
                /\ IsOpen(r) /\ ~IsAnalysis(r) /\ ~IsCanceled(r)
      PROVE  AllServed'
  <2>1. renditions'[r] = new /\ \A q \in Calls : q # r => renditions'[q] = renditions[q]
    BY <1>2, <1>8
  <2>2. ~IsOpen(r)'
    BY <1>8, <2>1 DEF IsOpen
  <2>3. CASE UNCHANGED pending /\ r \notin Servers(KeyOf(r))
    BY <1>8, <2>1, <2>2, <2>3, RenditionWaits
  <2>4. CASE /\ pending' = [pending EXCEPT ![KeyOf(r)] = << >>]
             /\ IsOpen(r) /\ ~IsAnalysis(r) /\ ~IsCanceled(r)
    <3>1. r \in Servers(KeyOf(r))
      BY <2>4 DEF Servers
    <3> QED
      BY <1>8, <2>1, <2>2, <2>4, <3>1, RenditionWaits
  <2> QED
    BY <1>8, <2>3, <2>4
<1>9. ASSUME NEW r \in Calls
      PROVE  /\ \A who, status : [renditions[r] EXCEPT !.at = "concluded", !.calls = who, !.status = status].at = "concluded"
             /\ Over.at = "over"
  BY <1>1 DEF RenditionsOf, Over, Rendition
<1>10. ASSUME NEW r \in Calls, NEW status, Fail(r, status) PROVE AllServed'
  <2>1. IsOpen(r) /\ Fails(r, status) /\ UNCHANGED <<asks, generation, canceled>>
    BY <1>10 DEF Fail, callVars
  <2>2. CASE IsAnalysis(r)
    <3>1. PICK new : Set(r, new) /\ new.at = "concluded"
      BY <1>9, <2>1, <2>2 DEF Fails, Conclude
    <3>2. UNCHANGED pending /\ r \notin Servers(KeyOf(r))
      BY <2>1, <2>2 DEF Fails, Servers
    <3> QED
      BY <1>8, <2>1, <3>1, <3>2
  <2>3. CASE ~IsAnalysis(r) /\ IsCanceled(r)
    <3>1. Set(r, Over) /\ UNCHANGED pending /\ r \notin Servers(KeyOf(r))
      BY <2>1, <2>3 DEF Fails, Abandon, Servers
    <3> QED
      BY <1>8, <1>9, <2>1, <3>1
  <2>4. CASE ~IsAnalysis(r) /\ ~IsCanceled(r)
    <3>1. PICK new : Set(r, new) /\ new.at = "concluded"
      <4> DEFINE ended == [renditions[r] EXCEPT !.at = "concluded", !.calls = pending[KeyOf(r)],
                                               !.status = status]
      <4>1. Set(r, ended)
        BY <2>1, <2>4 DEF Fails, Conclude
      <4>2. ended.at = "concluded"
        BY <1>9
      <4> HIDE DEF ended
      <4> QED
        BY <4>1, <4>2
    <3>2. pending' = [pending EXCEPT ![KeyOf(r)] = << >>]
      BY <2>1, <2>4 DEF Fails
    <3> QED
      BY <1>8, <2>1, <2>4, <3>1, <3>2
  <2> QED
    BY <2>2, <2>3, <2>4
<1>11. ASSUME NEW r \in Calls, DeliverPixels(r) PROVE AllServed'
  <2>1. IsOpen(r) /\ Delivers(r) /\ UNCHANGED <<asks, generation, canceled>>
    BY <1>11 DEF DeliverPixels, callVars, IsOpen
  <2>2. CASE IsAnalysis(r)
    <3>1. PICK new : Set(r, new) /\ new.at = "concluded"
      BY <1>9, <2>1, <2>2, ZenonT(60) DEF Delivers, PublishAnalysis, Conclude
    <3>2. UNCHANGED pending /\ r \notin Servers(KeyOf(r))
      BY <2>1, <2>2 DEF Delivers, PublishAnalysis, Servers
    <3> QED
      BY <1>8, <2>1, <3>1, <3>2
  <2>3. CASE ~IsAnalysis(r) /\ (IsCanceled(r) \/ pending[KeyOf(r)] = << >>)
    <3>1. Set(r, Over) /\ UNCHANGED pending
      BY <2>1, <2>3 DEF Delivers, Abandon
    <3>2. r \notin Servers(KeyOf(r))
      BY <2>3, Typed DEF Servers, AllServed, Served
    <3> QED
      BY <1>8, <1>9, <2>1, <3>1, <3>2
  <2>4. CASE ~IsAnalysis(r) /\ ~IsCanceled(r) /\ pending[KeyOf(r)] # << >>
    <3>1. PICK new : Set(r, new) /\ new.at = "concluded"
      <4> DEFINE ended == [renditions[r] EXCEPT !.at = "concluded", !.calls = pending[KeyOf(r)],
                                               !.status = "ready"]
      <4>1. Set(r, ended)
        BY <2>1, <2>4 DEF Delivers, Publish, Conclude
      <4>2. ended.at = "concluded"
        BY <1>9
      <4> HIDE DEF ended
      <4> QED
        BY <4>1, <4>2
    <3>2. pending' = [pending EXCEPT ![KeyOf(r)] = << >>]
      BY <2>1, <2>4 DEF Delivers
    <3> QED
      BY <1>8, <2>1, <2>4, <3>1, <3>2
  <2> QED
    BY <2>2, <2>3, <2>4
<1>12. ASSUME NEW r \in Calls, Answer(r) PROVE AllServed'
  <2>1. /\ Set(r, Over) /\ UNCHANGED <<asks, pending, generation, canceled>>
        /\ renditions[r].at = "concluded"
    BY <1>12 DEF Answer, callVars, cacheVars
  <2>2. r \notin Servers(KeyOf(r))
    BY <2>1 DEF Servers, IsOpen
  <2> QED
    BY <1>8, <1>9, <2>1, <2>2
<1>13. CASE UNCHANGED calls
  BY <1>3, <1>13 DEF calls, callVars, cacheVars, workVars
<1>14. CASE Caller
  BY <1>1, <1>4, <1>5, <1>14, <1>3, <1>6
     DEF Caller, CancelAnalysisRendition, ReleaseAnalysisRendition, CancelPending, CancelKey,
         BeginRelease, CancelImage, InvalidateThumbnail, Commit, ResizeCache,
         callVars, cacheVars, workVars
<1>15. CASE Finish
  BY <1>3, <1>15, JoinWaits DEF Finish, EndRelease, workVars
<1>16. ASSUME NEW r \in Calls, Render(r) \/ ShutOut(r) PROVE AllServed'
  BY <1>7, <1>10, <1>11, <1>12, <1>16 DEF Render, ShutOut, GiveUp
<1> QED
  BY <1>13, <1>14, <1>15, <1>16

----------------------------------------------------------------------------
\* The pools.

LEMMA NextIsCallsNext ==
    ASSUME [Next]_vars
    PROVE  [CallsNext]_calls
<1>1. CASE UNCHANGED vars
  BY <1>1 DEF vars
<1>2. CASE Caller \/ Finish
  BY <1>2 DEF CallsNext
<1>3. ASSUME NEW r \in Calls, Step(r) PROVE [CallsNext]_calls
  <2>1. Render(r) \/ ShutOut(r) \/ UNCHANGED calls
    BY <1>3 DEF Step, LookUp, ReadDisk, StartDecode, AcquireDecodeSlot, Decode, StartRender,
                EndRender, AnswerAndDrop, EndsBadly, Quietly, Render
  <2> QED
    BY <2>1 DEF CallsNext
<1>4. ASSUME NEW pool, Drop(pool) PROVE CallsNext
  BY <1>4 DEF Drop, CallsNext
<1>5. CASE StopLookup \/ Stop
  BY <1>4, <1>5 DEF StopLookup, Stop, StopDecode, StopRender, StopEnds, Quietly
<1> QED
  BY <1>1, <1>2, <1>3, <1>5 DEF Next

\* Whatever way a rendition takes through the pools, and whenever they close,
\* callers see what ThumbnailCalls allows.
THEOREM ServiceImplementsCalls == Spec => CallsSpec
<1>1. ServiceInit => Init
  BY DEF ServiceInit
<1>2. [Next]_vars => [CallsNext]_calls
  BY NextIsCallsNext
<1> QED
  BY <1>1, <1>2, PTL DEF Spec, CallsSpec

\* So the service serves nothing stale either (thumbnail_service.cpp:388-545).
THEOREM ServiceServesNothingStale == Spec => []NothingStaleIsServed
  BY ServiceImplementsCalls, CallsServeNothingStale, PTL

\* And its cache is consistent (thumbnail_service.cpp:588-611, 850-953).
THEOREM ServiceKeepsCacheConsistent == Spec => []CacheIsConsistent
  BY ServiceImplementsCalls, CallsKeepCacheConsistent, PTL

\* And it answers no call twice (thumbnail_service.cpp:806-853, 883-896).
THEOREM ServiceAnswersOnce == Spec => []AnsweredOnce
  BY ServiceImplementsCalls, CallsAnswerOnce, PTL

\* While the service is open, calls that wait for a key have exactly one
\* rendition left to answer them: a cancellation that makes a rendition stale
\* takes its callers along, and the next miss starts another
\* (thumbnail_service.cpp:300-336, 647-692, 806-853, 883-896).
THEOREM ServiceServesWaiters == Spec => []WaitersAreServed
<1> DEFINE J == ServedInv /\ Sound(cache) /\ OnceInv
           I == closing = "open" => AllServed
<1>1. ServiceInit => J /\ I
  <2>1. ASSUME Init PROVE AllServed
    <3>1. Calls = {} /\ \A k \in Keys : pending[k] = << >>
      BY <2>1 DEF Init, Calls
    <3> QED
      BY <3>1 DEF AllServed, Served, Servers
  <2> QED
    BY <2>1, InitServes, InitOnce DEF ServiceInit
<1>2. ASSUME J, [Next]_vars PROVE J'
  BY <1>2, NextIsCallsNext, NextServes, NextKeepsSound, NextOnce
<1>3. ASSUME J, I, [Next]_vars PROVE I'
  <2>1. CASE UNCHANGED vars
    BY <1>3, <2>1, NextWaits DEF vars, pools
  <2>2. CASE closing = "open" /\ (Caller \/ Finish) /\ UNCHANGED pools
    BY <1>3, <2>2, NextWaits DEF pools
  <2>3. ASSUME NEW r \in Calls, Step(r) PROVE I'
    <3>1. UNCHANGED closing /\ (Render(r) \/ ShutOut(r) \/ UNCHANGED calls)
      BY <2>3 DEF Step, LookUp, ReadDisk, StartDecode, AcquireDecodeSlot, Decode, StartRender,
                  EndRender, AnswerAndDrop, EndsBadly, Ends, KeepsSlot, Quietly, Render
    <3> QED
      BY <1>3, <3>1, NextWaits
  <2>4. CASE StopLookup \/ Stop
    BY <2>4 DEF StopLookup, Stop, StopDecode, StopRender, StopEnds
  <2> QED
    BY <1>3, <2>1, <2>2, <2>3, <2>4 DEF Next
<1>4. J /\ I => WaitersAreServed
  <2> SUFFICES ASSUME AllServed, NEW k \in Keys, pending[k] # << >>
               PROVE  Cardinality(Servers(k)) = 1
    BY DEF WaitersAreServed, Servers
  <2>1. PICK r : Servers(k) = {r}
    BY DEF AllServed, Served
  <2> QED
    BY <2>1, FS_Singleton
<1> QED
  <2>1. J /\ I /\ [Next]_vars => (J /\ I)'
    BY <1>2, <1>3
  <2> QED
    BY <1>1, <1>4, <2>1, PTL DEF Spec

----------------------------------------------------------------------------
\* Where a rendition is decides whether it has a slot; sets of renditions are
\* finite, so that slots can be counted.
SlotsInv ==
    /\ ServedInv /\ Sound(cache)
    /\ DOMAIN stage = 1..MaxAsks /\ holds \in SUBSET (1..MaxAsks)
    /\ SlotsAreAccounted

LEMMA SlotGivenUp ==
    ASSUME holds \in SUBSET (1..MaxAsks), slots = Cardinality(holds), slots <= DecodeSlots, NEW rs,
           holds' = holds \ rs, slots' = slots - Cardinality(holds \cap rs)
    PROVE  holds' \in SUBSET (1..MaxAsks) /\ slots' = Cardinality(holds') /\ slots' <= DecodeSlots
<1>1. IsFiniteSet(holds)
  <2>1. IsFiniteSet(1..MaxAsks)
    BY FS_Interval, CallsAssumption
  <2> QED
    BY <2>1, FS_Subset
<1>2. /\ Cardinality(holds \ rs) = Cardinality(holds) - Cardinality(holds \cap rs)
      /\ Cardinality(holds) \in Nat /\ Cardinality(holds \cap rs) \in Nat
  BY <1>1, FS_Difference, FS_CardinalityType, FS_Intersection
<1>3. holds' \in SUBSET (1..MaxAsks)
  OBVIOUS
<1>4. slots' = Cardinality(holds')
  BY <1>2
<1>5. slots' <= DecodeSlots
  BY <1>2, PoolAssumption
<1> QED
  BY <1>3, <1>4, <1>5

LEMMA EndsAccounts ==
    ASSUME SlotsInv, NEW r \in Calls, NEW pool, Ends(r, pool)
    PROVE  DOMAIN stage' = 1..MaxAsks /\ holds' \in SUBSET (1..MaxAsks) /\ SlotsAreAccounted'
<1>1. r \in 1..MaxAsks
  BY Typed DEF SlotsInv
<1>2. CASE renditions'[r].at = "concluded"
  BY <1>1, <1>2 DEF SlotsInv, SlotsAreAccounted, Ends, MovesTo, KeepsSlot
<1>3. CASE renditions'[r].at # "concluded"
  <2>1. holds' \in SUBSET (1..MaxAsks) /\ slots' = Cardinality(holds') /\ slots' <= DecodeSlots
    BY <1>3, SlotGivenUp DEF SlotsInv, SlotsAreAccounted, Ends
  <2> QED
    BY <1>1, <1>3, <2>1 DEF SlotsInv, SlotsAreAccounted, Ends, MovesTo
<1> QED
  BY <1>2, <1>3

LEMMA StepAccounts ==
    ASSUME SlotsInv, NEW r \in Calls, Step(r)
    PROVE  DOMAIN stage' = 1..MaxAsks /\ holds' \in SUBSET (1..MaxAsks) /\ SlotsAreAccounted'
<1>1. r \in 1..MaxAsks
  BY Typed DEF SlotsInv
<1>2. ASSUME NEW pool, Ends(r, pool)
      PROVE  DOMAIN stage' = 1..MaxAsks /\ holds' \in SUBSET (1..MaxAsks) /\ SlotsAreAccounted'
  BY <1>2, EndsAccounts DEF SlotsInv, SlotsAreAccounted
<1>3. ASSUME NEW next \in {"read", "decode", "slot"}, NEW by, MovesTo(r, next, by), KeepsSlot,
             stage[r] \in {"lookup", "read", "decode"}
      PROVE  DOMAIN stage' = 1..MaxAsks /\ holds' \in SUBSET (1..MaxAsks) /\ SlotsAreAccounted'
  BY <1>1, <1>3 DEF SlotsInv, SlotsAreAccounted, MovesTo, KeepsSlot
<1>4. ASSUME NEW next \in {"render", "draw"}, NEW by, MovesTo(r, next, by), KeepsSlot
      PROVE  DOMAIN stage' = 1..MaxAsks /\ holds' \in SUBSET (1..MaxAsks) /\ SlotsAreAccounted'
  BY <1>1, <1>4 DEF SlotsInv, SlotsAreAccounted, MovesTo, KeepsSlot
<1>5. CASE /\ stage[r] = "slot" /\ slots < DecodeSlots
           /\ slots' = slots + 1 /\ holds' = holds \cup {r} /\ MovesTo(r, "load", "decode")
  <2>1. r \notin holds /\ IsFiniteSet(holds)
    <3>1. IsFiniteSet(1..MaxAsks)
      BY FS_Interval, CallsAssumption
    <3> QED
      BY <1>5, <3>1, FS_Subset DEF SlotsInv, SlotsAreAccounted
  <2>2. Cardinality(holds \cup {r}) = Cardinality(holds) + 1 /\ Cardinality(holds) \in Nat
    BY <2>1, FS_AddElement, FS_CardinalityType
  <2> QED
    BY <1>1, <1>5, <2>2, PoolAssumption DEF SlotsInv, SlotsAreAccounted, MovesTo
<1>6. CASE LookUp(r) \/ ReadDisk(r) \/ StartDecode(r)
  BY <1>2, <1>3, <1>6 DEF LookUp, ReadDisk, StartDecode, EndsBadly, Takes
<1>7. CASE AcquireDecodeSlot(r)
  BY <1>2, <1>5, <1>7 DEF AcquireDecodeSlot
<1>8. CASE Decode(r) \/ StartRender(r) \/ EndRender(r) \/ AnswerAndDrop(r)
  BY <1>2, <1>4, <1>8 DEF Decode, StartRender, EndRender, AnswerAndDrop, EndsBadly
<1> QED
  BY <1>6, <1>7, <1>8 DEF Step

LEMMA DropAccounts ==
    ASSUME SlotsInv, NEW pool, Drop(pool)
    PROVE  DOMAIN stage' = 1..MaxAsks /\ holds' \in SUBSET (1..MaxAsks) /\ SlotsAreAccounted'
<1> DEFINE queued == {r \in Calls : IsOpen(r) /\ stage[r] = pool /\ worker[r] = "none"}
<1>1. /\ stage' = [r \in 1..MaxAsks |-> IF r \in queued THEN "over" ELSE stage[r]]
      /\ holds' = holds \ queued /\ slots' = slots - Cardinality(holds \cap queued)
  BY DEF Drop
<1> HIDE DEF queued
<1>2. holds' \in SUBSET (1..MaxAsks) /\ slots' = Cardinality(holds') /\ slots' <= DecodeSlots
  BY <1>1, SlotGivenUp DEF SlotsInv, SlotsAreAccounted
<1> QED
  BY <1>1, <1>2 DEF SlotsInv, SlotsAreAccounted

\* A decode slot is in use for exactly the decoded sources on their way, and
\* never more than the limit, however renditions end
\* (thumbnail_service.cpp:338-355).
THEOREM ServiceAccountsSlots == Spec => []SlotsAreAccounted
<1>1. ServiceInit => SlotsInv
  BY InitServes, FS_EmptySet, PoolAssumption DEF ServiceInit, SlotsInv, SlotsAreAccounted
<1>2. ASSUME SlotsInv, [Next]_vars PROVE SlotsInv'
  <2>1. ServedInv' /\ Sound(cache')
    BY <1>2, NextIsCallsNext, NextServes, NextKeepsSound DEF SlotsInv
  <2>2. DOMAIN stage' = 1..MaxAsks /\ holds' \in SUBSET (1..MaxAsks) /\ SlotsAreAccounted'
    <3>1. CASE UNCHANGED pools
      BY <1>2, <3>1 DEF SlotsInv, SlotsAreAccounted, pools
    <3>2. ASSUME NEW r \in Calls, Step(r)
          PROVE  DOMAIN stage' = 1..MaxAsks /\ holds' \in SUBSET (1..MaxAsks) /\ SlotsAreAccounted'
      BY <1>2, <3>2, StepAccounts
    <3>3. CASE StopLookup \/ StopDecode \/ StopRender
      BY <1>2, <3>3, DropAccounts DEF StopLookup, StopDecode, StopRender
    <3>4. CASE StopEnds
      BY <1>2, <3>4 DEF StopEnds, SlotsInv, SlotsAreAccounted
    <3> QED
      BY <1>2, <3>1, <3>2, <3>3, <3>4 DEF Next, Stop, vars
  <2> QED
    BY <2>1, <2>2 DEF SlotsInv
<1>3. SlotsInv => SlotsAreAccounted
  BY DEF SlotsInv
<1> QED
  BY <1>1, <1>2, <1>3, PTL DEF Spec
=============================================================================
