---------------------------- MODULE PinnedLruCache ----------------------------
(***************************************************************************)
(* The memory cache of the thumbnails: the recency list of                  *)
(* utils/cache/lru_cache.hpp next to the table of guards that                *)
(* app/thumbnail_service.cpp keeps for it.  A guard somebody holds has pins   *)
(* and must not fall out of the table when the list drops its key.           *)
(*                                                                         *)
(* A cache is a record: order, the keys of the list, most recent first;      *)
(* capacity, of the list; guard, the guard of each key or NoGuard.           *)
(***************************************************************************)
EXTENDS Integers, Sequences, FiniteSets, SequencesExt

CONSTANTS
    Keys,
    PinnedBoost     \* room a re-inserted pinned key makes: 5 in HandleEvict

NoGuard == [rev |-> 0, pins |-> -1]

Cached(c)  == {k \in Keys : c.guard[k] # NoGuard}
Pinned(c)  == {k \in Cached(c) : c.guard[k].pins > 0}

EmptyCache(capacity) ==
    [order |-> << >>, capacity |-> capacity, guard |-> [k \in Keys |-> NoGuard]]

----------------------------------------------------------------------------
\* The recency list.

Listed(c, k) == k \in ToSet(c.order)

\* The list without the keys ks.
Without(order, ks) ==
    LET kept[i \in 0..Len(order)] ==
            IF i = 0 THEN << >>
            ELSE IF order[i] \in ks THEN kept[i - 1] ELSE Append(kept[i - 1], order[i])
    IN  kept[Len(order)]

Touch(c, k) == [c EXCEPT !.order = <<k>> \o Without(@, {k})]

\* Growing files every key again, from the oldest on; shrinking only notes the
\* capacity.
Resize(c, n) ==
    [c EXCEPT !.capacity = n,
              !.order = IF n > c.capacity /\ Len(@) > n THEN SubSeq(@, 1, n) ELSE @]

\* Filing a new key in a full list drops the oldest one.
Overflows(c, k) == ~Listed(c, k) /\ Len(c.order) >= c.capacity /\ c.order # << >>
RecordAccess(c, k) ==
    IF Overflows(c, k) THEN [c EXCEPT !.order = <<k>> \o Front(@)] ELSE Touch(c, k)

\* What Resize_WithEvict(n) drops, in order: the oldest first.
EvictedByResize(c, n) ==
    IF n >= c.capacity \/ Len(c.order) <= n THEN << >>
    ELSE Reverse(SubSeq(c.order, n + 1, Len(c.order)))
ResizeWithEvict(c, n) ==
    IF n > c.capacity THEN Resize(c, n)
    ELSE [c EXCEPT !.capacity = n,
                   !.order = SubSeq(@, 1, IF Len(@) < n THEN Len(@) ELSE n)]

----------------------------------------------------------------------------
\* The table of guards over it.

\* Mutant of HandleEvict: a dropped key loses its guard, pinned or not.
HandleEvictForgettingPins(c, k) == [c EXCEPT !.guard[k] = NoGuard]

HandleEvict(c, k) ==
    IF k \in Pinned(c)
    THEN RecordAccess(Resize(c, Cardinality(Cached(c)) + PinnedBoost), k)
    ELSE [c EXCEPT !.guard[k] = NoGuard]

RemoveKey(c, k) == [c EXCEPT !.order = Without(@, {k}), !.guard[k] = NoGuard]

\* on_pixels files the new guard after the key it displaced is dealt with.
Store(c, k, guard) ==
    LET filed == RecordAccess(c, k)
        swept == IF Overflows(c, k) THEN HandleEvict(filed, Last(c.order)) ELSE filed
    IN  [swept EXCEPT !.guard[k] = guard]

Pin(c, k) == [Touch(c, k) EXCEPT !.guard[k].pins = @ + 1]

\* Mutant of Unpin: the last pin takes the guard and leaves the key listed.
UnpinKeepingRecord(c, k) ==
    IF k \in Cached(c) /\ c.guard[k].pins > 1
    THEN [c EXCEPT !.guard[k].pins = @ - 1]
    ELSE [c EXCEPT !.guard[k] = NoGuard]

\* The second section of ReleaseThumbnail; the last pin takes the guard along.
Unpin(c, k) ==
    IF k \in Cached(c) /\ c.guard[k].pins > 1
    THEN [c EXCEPT !.guard[k].pins = @ - 1]
    ELSE RemoveKey(c, k)

\* InvalidateThumbnail drops the keys ks, pinned or not.
Forget(c, ks) ==
    [c EXCEPT !.order = Without(@, ks),
              !.guard = [k \in Keys |-> IF k \in ks THEN NoGuard ELSE @[k]]]

\* The loop over the keys that the list dropped.
HandleEvicts(c, dropped) ==
    LET swept[i \in 0..Len(dropped)] ==
            IF i = 0 THEN c ELSE HandleEvict(swept[i - 1], dropped[i])
    IN  swept[Len(dropped)]

\* ResizeCache on a capacity already clamped to its bounds.
ResizeCache(c, wanted) ==
    LET n == IF wanted < Cardinality(Pinned(c)) THEN Cardinality(Pinned(c)) ELSE wanted
    IN  HandleEvicts(ResizeWithEvict(c, n), EvictedByResize(c, n))

----------------------------------------------------------------------------
\* Every guard can be found, and evicted, through the list; the list never
\* outgrows its capacity.
Consistent(c) ==
    /\ ToSet(c.order) = Cached(c)
    /\ IsInjective(c.order)
    /\ Len(c.order) <= c.capacity
=============================================================================
