------------------------ MODULE AlbumThumbnailProofs ------------------------
(***************************************************************************)
(* Theorems about AlbumThumbnails, for every number of images, sizes, calls  *)
(* and actions of the user: the album is a caller of the service, its tiles   *)
(* follow what is pinned, and no pin is left behind in the service.          *)
(***************************************************************************)
EXTENDS AlbumThumbnails, ThumbnailProofs

\* The events that concern a call, their calls, and those of the threads.
Reports   == {i \in 1..Len(events) : events[i].status # "changed"}
Reported  == {events[i].call : i \in Reports}
Converted == {t.call : t \in conversions}

\* The handler is about to ask for the key.
Asking(k) == \E i \in 1..Len(todo) : todo[i].op = "request" /\ todo[i].key = k

\* A flag belongs to a request of its key, which is pinned, and that request is
\* on its way or about to be replaced.
FlagsFit ==
    \A k \in Keys : flag[k] # 0 =>
        /\ flag[k] \in active /\ KeyOf(flag[k]) = k /\ pins[k] > 0
        /\ OnItsWay(flag[k]) \/ Asking(k)

\* An answer is handled once: it is with a thread or in one event.
HandledOnce ==
    /\ \A i, j \in Reports : events[i].call = events[j].call => i = j
    /\ \A t, u \in conversions : t.call = u.call => t = u
    /\ Reported \cap Converted = {} /\ Reported \cup Converted \subseteq Told

\* A call whose flag is on has it in the map, or all it asked for is over.
ActiveFit ==
    \A c \in active : flag[KeyOf(c)] = c \/ c \in Told \ (Reported \cup Converted)

\* Nobody waits for a call that was canceled, and a stored image is there
\* until the call it was stored for is given up.
AnswersFit ==
    \A i \in Reports :
        /\ events[i].status = "canceled" => events[i].call \notin active
        /\ events[i].status = "shown" /\ events[i].call \in active
              => store[KeyOf(events[i].call)] # NoImage

\* The service calls of the album: thumbnails only, and no rendition of them
\* is canceled while somebody waits for it.
RenditionsFit ==
    /\ \A c \in Calls : ~IsAnalysis(c)
    /\ \A c \in missed : renditions[c].at = "none"
    /\ \A c \in Calls : renditions[c].at = "concluded" => renditions[c].status # "canceled"

\* What a handler has left to ask of the service fits the pins: it requests
\* what is pinned and gives up what is not, and it invalidates first.
TodoFits ==
    \A i \in 1..Len(todo) :
        /\ todo[i].op = "request" => pins[todo[i].key] > 0
        /\ todo[i].op = "release" => pins[todo[i].key] = 0
        /\ todo[i].op = "cancel" => \A k \in TiersOf(todo[i].image) : pins[k] = 0
        /\ todo[i].op = "invalidate" =>
              /\ \A k \in TiersOf(todo[i].image) : flag[k] # 0 => Asking(k)
              /\ \A j \in 1..(i - 1) : todo[j].op # "request"

\* TilesFollowPins while a handler is at work.
TilesFit ==
    \A e \in Elements :
        /\ PinnedKeys(e) = {} => tile[e] = Blank
        /\ (tile[e].tier # 0 /\ store[<<e, tile[e].tier>>] = NoImage)
              => \E k \in PinnedKeys(e) : flag[k] # 0 \/ Asking(k)

GridInv ==
    /\ AlbumTypeOK /\ FlagsFit /\ HandledOnce /\ ActiveFit /\ AnswersFit
    /\ RenditionsFit /\ TodoFits /\ TilesFit

ServiceInv == ServedInv /\ OnceInv /\ Sound(cache)

----------------------------------------------------------------------------
\* The service calls of a handler.

LEMMA OneCall ==
    ASSUME NEW c \in ServiceCalls
    PROVE  << c >> \in Seq(ServiceCalls) /\ Len(<< c >>) = 1 /\ << c >>[1] = c
OBVIOUS

LEMMA TwoCalls ==
    ASSUME NEW c \in ServiceCalls, NEW d \in ServiceCalls
    PROVE  /\ << c >> \o << d >> = << c, d >>
           /\ << c, d >> \in Seq(ServiceCalls) /\ Len(<< c, d >>) = 2
           /\ << c, d >>[1] = c /\ << c, d >>[2] = d
<1>1. << c >> \in Seq(ServiceCalls) /\ << d >> \in Seq(ServiceCalls)
  OBVIOUS
<1>2. << c >> \o << d >> \in Seq(ServiceCalls) /\ Len(<< c >> \o << d >>) = 2
      /\ (<< c >> \o << d >>)[1] = c /\ (<< c >> \o << d >>)[2] = d
  BY <1>1, ConcatProperties
<1>3. << c, d >> \in Seq(ServiceCalls) /\ Len(<< c, d >>) = 2
      /\ << c, d >>[1] = c /\ << c, d >>[2] = d
  OBVIOUS
<1>4. \A i \in 1..2 : (<< c >> \o << d >>)[i] = << c, d >>[i]
  BY <1>2, <1>3
<1>5. << c >> \o << d >> = << c, d >>
  BY <1>2, <1>3, <1>4, SeqEqual
<1> QED
  BY <1>3, <1>5

LEMMA NoCall == << >> \in Seq(ServiceCalls) /\ Len(<< >>) = 0
OBVIOUS

LEMMA TailOfTodo ==
    ASSUME todo \in Seq(ServiceCalls), todo # << >>, todo' = Tail(todo)
    PROVE  /\ todo' \in Seq(ServiceCalls) /\ Head(todo) \in ServiceCalls /\ Head(todo) = todo[1]
           /\ Len(todo) \in Nat /\ 1 \in 1..Len(todo)
           /\ Len(todo') = Len(todo) - 1
           /\ \A i \in 1..Len(todo') : i + 1 \in 1..Len(todo) /\ todo'[i] = todo[i + 1]
<1>1. Len(todo) \in Nat \ {0}
  BY EmptySeq
<1> QED
  BY <1>1, HeadTailProperties

\* A finite set of naturals has a bound.
LEMMA FiniteIsBounded ==
    ASSUME NEW T \in SUBSET Nat, IsFiniteSet(T)
    PROVE  \E n \in Nat : T \subseteq 0..n
<1> DEFINE n == Cardinality(T)
<1>1. n \in Nat /\ ExistsBijection(1..n, T)
  BY FS_CardinalityType
<1> HIDE DEF n
<1>2. PICK f \in [1..n -> T] : \A x \in T : \E i \in 1..n : f[i] = x
  BY <1>1 DEF ExistsBijection, Bijection, Surjection
<1> DEFINE Bounded == {m \in Nat : \E b \in Nat : \A i \in 1..n : i <= m => f[i] <= b}
<1>3. 0 \in Bounded
  BY <1>1
<1>4. ASSUME NEW m \in Nat, m \in Bounded PROVE m + 1 \in Bounded
  <2>1. PICK b \in Nat : \A i \in 1..n : i <= m => f[i] <= b
    BY <1>4
  <2>2. CASE m + 1 \in 1..n
    <3>1. f[m + 1] \in Nat /\ \A i \in 1..n : f[i] \in Nat
      BY <1>2, <2>2
    <3>2. \E c \in Nat : \A i \in 1..n : i <= m + 1 => f[i] <= c
      <4>1. b + f[m + 1] \in Nat /\ \A i \in 1..n : i <= m + 1 => f[i] <= b + f[m + 1]
        BY <1>1, <2>1, <3>1
      <4> QED
        BY <4>1
    <3> QED
      BY <3>2
  <2>3. CASE m + 1 \notin 1..n
    BY <1>1, <2>1, <2>3
  <2> QED
    BY <2>2, <2>3
<1>5. n \in Bounded
  <2>1. Nat \subseteq Bounded
    <3> HIDE DEF Bounded
    <3> QED
      BY <1>3, <1>4, SetInduction
  <2> QED
    BY <1>1, <2>1
<1>6. PICK b \in Nat : \A i \in 1..n : f[i] <= b
  BY <1>1, <1>5
<1>7. ASSUME NEW x \in T PROVE x \in 0..b
  BY <1>2, <1>6
<1> QED
  BY <1>7

\* SetToSeq lists every key of a set, once.
LEMMA KeysInOrder ==
    ASSUME NEW ks \in SUBSET Keys
    PROVE  /\ Cardinality(ks) \in Nat
           /\ SetToSeq(ks) \in [1..Cardinality(ks) -> ks]
           /\ \A k \in ks : \E i \in 1..Cardinality(ks) : SetToSeq(ks)[i] = k
           /\ \A i, j \in 1..Cardinality(ks) : SetToSeq(ks)[i] = SetToSeq(ks)[j] => i = j
<1> DEFINE n == Cardinality(ks)
           q == SetToSeq(ks)
<1>1. IsFiniteSet(ks)
  <2>1. IsFiniteSet(Keys)
    BY FS_Product, GridAssumption DEF Keys
  <2> QED
    BY <2>1, FS_Subset
<1>2. n \in Nat /\ ExistsBijection(1..n, ks)
  BY <1>1, FS_CardinalityType
<1>3. PICK f \in [1..n -> ks] : IsInjective(f)
  BY <1>2 DEF ExistsBijection, Bijection, Injection, IsInjective
<1>4. q \in [1..n -> ks] /\ IsInjective(q)
  BY <1>3 DEF SetToSeq
<1>5. q \in Injection(1..n, ks)
  BY <1>4 DEF Injection, IsInjective
<1>6. IsFiniteSet(1..n) /\ Cardinality(1..n) = n
  <2>1. 1 \in Int /\ n \in Int /\ (IF 1 > n THEN 0 ELSE n - 1 + 1) = n
    BY <1>2
  <2>2. IsFiniteSet(1..n) /\ Cardinality(1..n) = IF 1 > n THEN 0 ELSE n - 1 + 1
    BY <2>1, FS_Interval, Zenon
  <2> QED
    BY <2>1, <2>2
<1>7. q \in Surjection(1..n, ks)
  BY <1>1, <1>5, <1>6, FS_Injection
<1> QED
  BY <1>2, <1>4, <1>7 DEF Surjection, IsInjective

\* A request for each key of a set, in some order.
LEMMA RequestsOf ==
    ASSUME NEW e \in Elements, NEW ks \in SUBSET TiersOf(e)
    PROVE  /\ Requests(ks) \in Seq(ServiceCalls) /\ Len(Requests(ks)) \in Nat
           /\ \A i \in 1..Len(Requests(ks)) :
                 Requests(ks)[i].op = "request" /\ Requests(ks)[i].key \in ks
           /\ \A k \in ks : \E i \in 1..Len(Requests(ks)) :
                 Requests(ks)[i].op = "request" /\ Requests(ks)[i].key = k
           /\ \A i, j \in 1..Len(Requests(ks)) : Requests(ks)[i].key = Requests(ks)[j].key => i = j
<1> DEFINE n == Cardinality(ks)
           q == SetToSeq(ks)
<1>1. /\ n \in Nat /\ q \in [1..n -> ks] /\ \A k \in ks : \E i \in 1..n : q[i] = k
      /\ \A i, j \in 1..n : q[i] = q[j] => i = j
  BY KeysInOrder DEF TiersOf
<1> HIDE DEF q, n
<1>2. Requests(ks) = [i \in 1..n |-> Request(q[i], FALSE)]
  BY DEF Requests, n, q
<1>3. \A i \in 1..n : Request(q[i], FALSE) \in ServiceCalls
  BY <1>1 DEF Request, ServiceCalls, TiersOf
<1>4. Requests(ks) \in Seq(ServiceCalls) /\ Len(Requests(ks)) = n
  <2> DEFINE r == Requests(ks)
  <2>1. r \in [1..n -> ServiceCalls] /\ DOMAIN r = 1..n
    BY <1>2, <1>3
  <2> HIDE DEF r
  <2> QED
    BY <1>1, <2>1, SeqDef DEF r
<1> QED
  BY <1>1, <1>2, <1>4 DEF Request

\* A release of each key of a set, in some order.
LEMMA ReleasesOf ==
    ASSUME NEW ks \in SUBSET Keys
    PROVE  /\ Releases(ks) \in Seq(ServiceCalls) /\ Len(Releases(ks)) \in Nat
           /\ \A i \in 1..Len(Releases(ks)) :
                 Releases(ks)[i].op = "release" /\ Releases(ks)[i].key \in ks
           /\ \A k \in ks : \E i \in 1..Len(Releases(ks)) :
                 Releases(ks)[i].op = "release" /\ Releases(ks)[i].key = k
<1> DEFINE n == Cardinality(ks)
           q == SetToSeq(ks)
<1>1. n \in Nat /\ q \in [1..n -> ks] /\ \A k \in ks : \E i \in 1..n : q[i] = k
  BY KeysInOrder
<1> HIDE DEF q, n
<1>2. Releases(ks) = [i \in 1..n |-> Release(q[i])]
  BY DEF Releases, n, q
<1>3. \A i \in 1..n : Release(q[i]) \in ServiceCalls
  BY <1>1 DEF Release, ServiceCalls
<1>4. Releases(ks) \in Seq(ServiceCalls) /\ Len(Releases(ks)) = n
  <2> DEFINE r == Releases(ks)
  <2>1. r \in [1..n -> ServiceCalls] /\ DOMAIN r = 1..n
    BY <1>2, <1>3
  <2> HIDE DEF r
  <2> QED
    BY <1>1, <2>1, SeqDef DEF r
<1> QED
  BY <1>1, <1>2, <1>4 DEF Release

\* The largest of the pinned sizes of an image.
LEMMA LargestTier ==
    ASSUME NEW e \in Elements, NEW left \in SUBSET TiersOf(e), left # {}
    PROVE  \E n \in left : \A m \in left : TierOf(n) >= TierOf(m)
<1> DEFINE T == {t \in Tiers : <<e, t>> \in left}
<1>1. ASSUME NEW k \in left PROVE k = <<e, TierOf(k)>> /\ TierOf(k) \in T
  BY <1>1 DEF TiersOf, Keys, ImageOf, TierOf
<1>2. T # {} /\ T \subseteq Nat
  BY <1>1, GridAssumption
<1>3. IsFiniteSet(T)
  BY GridAssumption, FS_Subset
<1> HIDE DEF T
<1>4. PICK n \in Nat : T \subseteq 0..n
  BY <1>2, <1>3, FiniteIsBounded
<1>5. PICK x \in T : \A y \in T : y <= x
  BY <1>2, <1>4, GreatestElement
<1>6. <<e, x>> \in left /\ TierOf(<<e, x>>) = x
  BY DEF T, TierOf
<1> QED
  BY <1>1, <1>2, <1>5, <1>6
----------------------------------------------------------------------------
\* What the service posts becomes events.

EventsTo(n, who, status, rev) ==
    /\ events' \in Seq(EventsOf(n))
    /\ Len(events) \in Nat /\ Len(who) \in Nat /\ Len(events') = Len(events) + Len(who)
    /\ \A i \in 1..Len(events) : events'[i] = events[i]
    /\ \A i \in 1..Len(who) :
          events'[Len(events) + i] = [call |-> who[i], status |-> status, rev |-> rev]

\* Any sequence of answers may follow the events.
LEMMA EventsJoin ==
    ASSUME NEW n \in Nat, events \in Seq(EventsOf(n)), NEW new \in Seq(AnswersOf(n)),
           events' = events \o new
    PROVE  /\ events' \in Seq(EventsOf(n))
           /\ Len(events) \in Nat /\ Len(new) \in Nat /\ Len(events') = Len(events) + Len(new)
           /\ \A i \in 1..Len(events) : events'[i] = events[i]
           /\ \A i \in 1..Len(new) : events'[Len(events) + i] = new[i]
<1>1. AnswersOf(n) \subseteq EventsOf(n)
  BY DEF AnswersOf, EventsOf
<1>2. new \in Seq(EventsOf(n))
  BY <1>1, SeqMonotonic
<1>3. Len(events) \in Nat /\ Len(new) \in Nat
  BY LenProperties
<1>4. /\ events' \in Seq(EventsOf(n)) /\ Len(events') = Len(events) + Len(new)
      /\ \A i \in 1..Len(events) + Len(new) :
            events'[i] = IF i <= Len(events) THEN events[i] ELSE new[i - Len(events)]
  BY <1>2, ConcatProperties
<1>5. ASSUME NEW i \in 1..Len(new) PROVE events'[Len(events) + i] = new[i]
  <2>1. /\ Len(events) + i \in 1..Len(events) + Len(new)
        /\ ~(Len(events) + i <= Len(events)) /\ (Len(events) + i) - Len(events) = i
    BY <1>3
  <2>2. events'[Len(events) + i] = new[(Len(events) + i) - Len(events)]
    BY <1>4, <2>1
  <2> QED
    BY <2>1, <2>2
<1>6. ASSUME NEW i \in 1..Len(events) PROVE events'[i] = events[i]
  BY <1>3, <1>4
<1> QED
  BY <1>3, <1>4, <1>5, <1>6

LEMMA DispatchAnswers ==
    ASSUME NEW n \in Nat, posted \in Seq(AnswersOf(n)), events \in Seq(EventsOf(n)),
           NEW who \in Seq(1..n), NEW status \in {"ready", "canceled", "error"},
           NEW rev \in 0..MaxRevision, Post(who, status, rev), Dispatch
    PROVE  EventsTo(n, who, status, rev)
<1> DEFINE new == SubSeq(posted', Len(posted) + 1, Len(posted'))
<1>1. PostedTo(n, who, status, rev)
  BY PostAppends
<1>2. Len(posted) \in Nat /\ Len(who) \in Nat /\ Len(posted') = Len(posted) + Len(who)
  BY <1>1 DEF PostedTo
<1>3. \A i \in (Len(posted) + 1)..Len(posted') : posted'[i] \in AnswersOf(n)
  <2>1. posted' \in Seq(AnswersOf(n))
    BY <1>1 DEF PostedTo
  <2>2. \A i \in (Len(posted) + 1)..Len(posted') : i \in 1..Len(posted')
    BY <1>2
  <2> QED
    BY <2>1, <2>2, ElementOfSeq
<1>4. /\ new \in Seq(AnswersOf(n)) /\ Len(new) = Len(who)
      /\ \A i \in 1..Len(who) : new[i] = posted'[Len(posted) + i]
  <2> DEFINE a == Len(posted) + 1
             b == Len(posted')
  <2>1. /\ a \in Int /\ b \in Int /\ b - a + 1 = Len(who)
        /\ (IF a <= b THEN b - a + 1 ELSE 0) = Len(who)
        /\ \A i \in 1..Len(who) : a + i - 1 = Len(posted) + i
    BY <1>2
  <2>2. \A i \in a..b : posted'[i] \in AnswersOf(n)
    BY <1>3
  <2> HIDE DEF a, b
  <2>3. /\ SubSeq(posted', a, b) \in Seq(AnswersOf(n))
        /\ Len(SubSeq(posted', a, b)) = IF a <= b THEN b - a + 1 ELSE 0
        /\ \A i \in 1..b - a + 1 : SubSeq(posted', a, b)[i] = posted'[a + i - 1]
    BY <2>1, <2>2, SubSeqProperties
  <2>4. new = SubSeq(posted', a, b)
    BY DEF a, b
  <2> HIDE DEF new
  <2> QED
    BY <2>1, <2>3, <2>4
<1>5. events' = events \o new
  BY DEF Dispatch
<1> HIDE DEF new
<1>6. /\ events' \in Seq(EventsOf(n))
      /\ Len(events) \in Nat /\ Len(events') = Len(events) + Len(new)
      /\ \A i \in 1..Len(events) : events'[i] = events[i]
      /\ \A i \in 1..Len(new) : events'[Len(events) + i] = new[i]
  BY <1>4, <1>5, EventsJoin
<1>7. \A i \in 1..Len(who) :
         events'[Len(events) + i] = [call |-> who[i], status |-> status, rev |-> rev]
  BY <1>1, <1>4, <1>6 DEF PostedTo
<1> QED
  BY <1>2, <1>4, <1>6, <1>7 DEF EventsTo

LEMMA DispatchNothing ==
    ASSUME NEW n \in Nat, posted \in Seq(AnswersOf(n)), events \in Seq(EventsOf(n)),
           UNCHANGED posted, Dispatch
    PROVE  UNCHANGED events
<1>1. Len(posted) \in Nat
  BY LenProperties
<1>2. SubSeq(posted', Len(posted) + 1, Len(posted')) = << >>
  BY <1>1, SubSeqEmpty
<1>3. events' = events \o << >>
  BY <1>2 DEF Dispatch
<1> QED
  BY <1>3, ConcatEmptySeq

\* What a step that posts answers adds to the calls reported.
LEMMA ReportsGrow ==
    ASSUME NEW n \in Nat, events \in Seq(EventsOf(n)), NEW who \in Seq(1..n),
           NEW status \in {"ready", "canceled", "error"}, NEW rev,
           EventsTo(n, who, status, rev)
    PROVE  /\ Reported' = Reported \cup ToSet(who)
           /\ \A i \in Reports' : \/ i \in Reports /\ events'[i] = events[i]
                                  \/ \E j \in 1..Len(who) :
                                        /\ i = Len(events) + j /\ events'[i].status = status
                                        /\ events'[i].call = who[j]
           /\ \A i \in Reports : i \in Reports' /\ i <= Len(events)
<1>1. ASSUME NEW i \in Reports
      PROVE  i \in Reports' /\ events'[i] = events[i] /\ i <= Len(events)
  BY <1>1 DEF Reports, EventsTo
<1>2. ASSUME NEW i \in Reports'
      PROVE  \/ i \in Reports /\ events'[i] = events[i]
             \/ \E j \in 1..Len(who) : /\ i = Len(events) + j /\ events'[i].status = status
                                       /\ events'[i].call = who[j]
  <2>1. CASE i <= Len(events)
    BY <1>2, <2>1 DEF Reports, EventsTo
  <2>2. CASE ~(i <= Len(events))
    <3>1. i - Len(events) \in 1..Len(who) /\ i = Len(events) + (i - Len(events))
      BY <1>2, <2>2 DEF Reports, EventsTo
    <3>2. events'[i] = [call |-> who[i - Len(events)], status |-> status, rev |-> rev]
      BY <3>1 DEF EventsTo
    <3> QED
      BY <3>1, <3>2
  <2> QED
    BY <2>1, <2>2
<1>3. DOMAIN who = 1..Len(who)
  BY LenProperties
<1>4. ASSUME NEW j \in 1..Len(who)
      PROVE  Len(events) + j \in Reports' /\ events'[Len(events) + j].call = who[j]
  <2>1. events'[Len(events) + j] = [call |-> who[j], status |-> status, rev |-> rev]
    BY DEF EventsTo
  <2>2. Len(events) + j \in 1..Len(events')
    BY DEF EventsTo
  <2> QED
    BY <2>1, <2>2 DEF Reports
<1>5. ASSUME NEW c PROVE c \in Reported' <=> c \in Reported \cup ToSet(who)
  <2>1. c \in Reported' <=> \E i \in Reports' : events'[i].call = c
    BY DEF Reported
  <2>2. c \in Reported <=> \E i \in Reports : events[i].call = c
    BY DEF Reported
  <2>3. c \in ToSet(who) <=> \E j \in 1..Len(who) : who[j] = c
    BY <1>3 DEF ToSet
  <2> QED
    BY <1>1, <1>2, <1>4, <2>1, <2>2, <2>3, ZenonT(60)
<1> QED
  BY <1>1, <1>2, <1>5
----------------------------------------------------------------------------
\* Steps of the service that leave the album alone.

LEMMA GridTyped ==
    ASSUME ServiceInv, GridInv
    PROVE  /\ Len(asks) \in Nat /\ posted \in Seq(AnswersOf(Len(asks)))
           /\ events \in Seq(EventsOf(Len(asks))) /\ todo \in Seq(ServiceCalls)
           /\ Len(todo) \in Nat /\ Len(events) \in Nat
           /\ \A i \in 1..Len(todo) : todo[i] \in ServiceCalls
           /\ \A i \in Reports : /\ events[i].call \in Calls
                                 /\ events[i].status \in {"ready", "error", "canceled", "shown", "failed"}
                                 /\ events[i].rev \in 0..MaxRevision
           /\ \A c \in Calls : /\ KeyOf(c) \in Keys /\ ImageOf(KeyOf(c)) \in Elements
                               /\ TierOf(KeyOf(c)) \in Tiers /\ c # 0
                               /\ KeyOf(c) = <<ImageOf(KeyOf(c)), TierOf(KeyOf(c))>>
           /\ pins \in [Keys -> Nat] /\ flag \in [Keys -> 0..Len(asks)] /\ active \subseteq Calls
           /\ store \in [Keys -> {NoImage} \cup 0..MaxRevision]
           /\ tile \in [Elements -> [tier : {0} \cup Tiers, loading : BOOLEAN, error : BOOLEAN]]
<1>1. ServedInv /\ AlbumTypeOK
  BY DEF ServiceInv, GridInv
<1>2. \A i \in 1..Len(todo) : todo[i] \in ServiceCalls
  BY <1>1, ElementOfSeq DEF AlbumTypeOK
<1>3. \A i \in 1..Len(events) : events[i] \in EventsOf(Len(asks))
  BY <1>1, ElementOfSeq DEF AlbumTypeOK
<1>4. Len(todo) \in Nat /\ Len(events) \in Nat
  BY <1>1, LenProperties DEF AlbumTypeOK
<1>5. \A i \in Reports : /\ events[i].call \in Calls
                         /\ events[i].status \in {"ready", "error", "canceled", "shown", "failed"}
                         /\ events[i].rev \in 0..MaxRevision
  BY <1>3 DEF Reports, EventsOf, Calls
<1>6. ASSUME NEW c \in Calls
      PROVE  /\ KeyOf(c) \in Keys /\ ImageOf(KeyOf(c)) \in Elements
             /\ TierOf(KeyOf(c)) \in Tiers /\ c # 0
             /\ KeyOf(c) = <<ImageOf(KeyOf(c)), TierOf(KeyOf(c))>>
  BY <1>1, Typed DEF Calls, Keys, TierOf, ImageOf
<1> QED
  BY <1>1, <1>2, <1>4, <1>5, <1>6, Typed DEF AlbumTypeOK, Filed

\* The variables of the album but for its events and what a handler has left.
shown == <<gridVars, store, conversions, unnoted>>

\* The parts of GridInv that are not about events.
LEMMA FrameKeeps ==
    ASSUME ServiceInv, GridInv, UNCHANGED <<shown, todo>>
    PROVE  TodoFits' /\ TilesFit' /\ \A k \in Keys : Asking(k)' <=> Asking(k)
BY DEF GridInv, TodoFits, TilesFit, PinnedKeys, TiersOf, Asking, shown, gridVars

\* A step that posts nothing.
LEMMA SilentKeeps ==
    ASSUME ServiceInv, GridInv, UNCHANGED <<asks, posted, shown>>, Dispatch
    PROVE  /\ HandledOnce' /\ ActiveFit' /\ AnswersFit' /\ UNCHANGED events
           /\ TypeOK' /\ todo' \in Seq(ServiceCalls) => AlbumTypeOK'
<1>1. UNCHANGED events
  BY GridTyped, DispatchNothing
<1>2. UNCHANGED <<Told, Reports, Reported, Converted>>
  BY <1>1 DEF Told, Reports, Reported, Converted, shown
<1>3. HandledOnce' /\ ActiveFit' /\ AnswersFit'
  BY <1>1, <1>2 DEF GridInv, HandledOnce, ActiveFit, AnswersFit, KeyOf, shown, gridVars
<1>4. TypeOK' /\ todo' \in Seq(ServiceCalls) => AlbumTypeOK'
  BY <1>1 DEF GridInv, AlbumTypeOK, Calls, shown, gridVars
<1> QED
  BY <1>1, <1>3, <1>4

\* A step that posts an answer to each of who.
LEMMA PostingKeeps ==
    ASSUME ServiceInv, GridInv, UNCHANGED <<asks, shown>>, Dispatch,
           NEW who \in Seq(1..Len(asks)), NEW status \in {"ready", "canceled", "error"},
           NEW rev \in 0..MaxRevision, Post(who, status, rev),
           IsInjective(who), ToSet(who) \cap Told = {},
           status = "canceled" => ToSet(who) \cap active = {}
    PROVE  /\ HandledOnce' /\ ActiveFit' /\ AnswersFit'
           /\ Reported' = Reported \cup ToSet(who)
           /\ TypeOK' /\ todo' \in Seq(ServiceCalls) => AlbumTypeOK'
<1> DEFINE n == Len(asks)
<1>1. EventsTo(n, who, status, rev)
  BY GridTyped, DispatchAnswers
<1>2. /\ Reported' = Reported \cup ToSet(who)
      /\ \A i \in Reports' : \/ i \in Reports /\ events'[i] = events[i]
                             \/ \E j \in 1..Len(who) :
                                   /\ i = Len(events) + j /\ events'[i].status = status
                                   /\ events'[i].call = who[j]
      /\ \A i \in Reports : i \in Reports' /\ i <= Len(events)
  <2>1. Len(asks) \in Nat /\ events \in Seq(EventsOf(Len(asks)))
    BY GridTyped
  <2> QED
    BY <1>1, <2>1, ReportsGrow, ZenonT(60)
<1>3. Told' = Told \cup ToSet(who)
  BY GridTyped, PostOnce DEF ServiceInv, OnceInv
<1>4. /\ DOMAIN who = 1..Len(who)
      /\ \A i, j \in 1..Len(who) : who[i] = who[j] => i = j
      /\ \A j \in 1..Len(who) : who[j] \in ToSet(who) /\ who[j] \in Calls
  BY LenProperties DEF IsInjective, ToSet, Calls
<1>5. HandledOnce'
  <2>1. ASSUME NEW i \in Reports', NEW j \in Reports', events'[i].call = events'[j].call
        PROVE  i = j
    <3>1. \A m \in Reports : events[m].call \in Told
      BY DEF GridInv, HandledOnce, Reported
    <3>2. ASSUME NEW m \in Reports'
          PROVE  \/ m \in Reports /\ events'[m].call \notin ToSet(who) /\ events'[m] = events[m]
                 \/ \E l \in 1..Len(who) : /\ m = Len(events) + l /\ events'[m].call = who[l]
                                          /\ who[l] \in ToSet(who)
      BY <1>2, <1>4, <3>1
    <3>3. CASE i \in Reports /\ events'[i].call \notin ToSet(who) /\ events'[i] = events[i]
      BY <2>1, <3>2, <3>3 DEF GridInv, HandledOnce
    <3>4. CASE \E l \in 1..Len(who) : /\ i = Len(events) + l /\ events'[i].call = who[l]
                                      /\ who[l] \in ToSet(who)
      BY <1>4, <2>1, <3>2, <3>4
    <3> QED
      BY <3>2, <3>3, <3>4
  <2>2. Converted' = Converted /\ Converted \cap ToSet(who) = {}
    BY DEF Converted, shown, GridInv, HandledOnce
  <2> QED
    BY <1>2, <1>3, <2>1, <2>2 DEF GridInv, HandledOnce, shown
<1>6. ActiveFit'
  BY <1>2, <1>3 DEF GridInv, ActiveFit, Converted, KeyOf, shown, gridVars
<1>7. AnswersFit'
  <2> SUFFICES ASSUME NEW i \in Reports'
               PROVE  /\ events'[i].status = "canceled" => events'[i].call \notin active
                      /\ events'[i].status = "shown" /\ events'[i].call \in active
                            => store[KeyOf(events'[i].call)] # NoImage
    BY DEF AnswersFit, KeyOf, shown, gridVars
  <2> QED
    BY <1>2, <1>4 DEF GridInv, AnswersFit
<1>8. TypeOK' /\ todo' \in Seq(ServiceCalls) => AlbumTypeOK'
  BY <1>1 DEF GridInv, AlbumTypeOK, Calls, shown, gridVars, EventsTo
<1> QED
  BY <1>2, <1>5, <1>6, <1>7, <1>8
LEMMA AppendedSet ==
    ASSUME NEW S, NEW s \in Seq(S), NEW x \in S
    PROVE  ToSet(Append(s, x)) = ToSet(s) \cup {x}
<1> DEFINE t == Append(s, x)
<1>1. /\ t \in Seq(S) /\ Len(t) = Len(s) + 1 /\ Len(s) \in Nat
      /\ t[Len(s) + 1] = x /\ \A i \in 1..Len(s) : t[i] = s[i]
  BY AppendProperties, LenProperties
<1>2. DOMAIN s = 1..Len(s) /\ DOMAIN t = 1..Len(t)
  BY <1>1, LenProperties
<1> HIDE DEF t
<1>3. ASSUME NEW y PROVE y \in ToSet(t) <=> y \in ToSet(s) \cup {x}
  BY <1>1, <1>2 DEF ToSet
<1> QED
  BY <1>3 DEF t

\* Where a call on its way is.
Where(c) ==
    \/ c \in missed \/ c \in Waiting(KeyOf(c)) \/ (\E r \in Calls : c \in Due(r))
    \/ c \in Converted \/ c \in Reported

LEMMA OnItsWayMeans ==
    ASSUME NEW c
    PROVE  (OnItsWay(c) <=> Where(c)) /\ (OnItsWay(c)' <=> Where(c)')
BY DEF OnItsWay, Where, Waiting, Due, Converted, Reported, Reports

\* No call on its way is lost.
NoneLost == \A c \in Calls : c \in active /\ Where(c) => Where(c)'

LEMMA FlagsStay ==
    ASSUME ServiceInv, GridInv, UNCHANGED <<asks, shown>>, NoneLost,
           \A k \in Keys : Asking(k) => Asking(k)'
    PROVE  FlagsFit'
<1>1. ASSUME NEW k \in Keys, NEW c, c = flag[k], c # 0
      PROVE  /\ c \in active /\ KeyOf(c) = k /\ pins[k] > 0
             /\ Asking(k) \/ OnItsWay(c)'
  <2>1. c \in Calls /\ c \in active
    BY <1>1, GridTyped DEF GridInv, FlagsFit
  <2>2. KeyOf(c) = k /\ pins[k] > 0 /\ (OnItsWay(c) \/ Asking(k))
    BY <1>1 DEF GridInv, FlagsFit
  <2> QED
    BY <2>1, <2>2, OnItsWayMeans DEF NoneLost
<1> QED
  BY <1>1 DEF FlagsFit, KeyOf, OnItsWay, shown, gridVars

LEMMA FetchKeeps ==
    ASSUME ServiceInv, ServiceInv', GridInv, UNCHANGED <<shown, todo>>, Dispatch,
           NEW r \in Calls, Fetch(r)
    PROVE  GridInv'
<1> DEFINE new == [renditions[r] EXCEPT !.at = "fetched", !.rev = committed[ImageOf(KeyOf(r))]]
<1>1. /\ renditions' = [renditions EXCEPT ![r] = new] /\ renditions[r].at = "started"
      /\ UNCHANGED <<asks, posted, pending, missed>>
  BY DEF Fetch, Set, callVars, cacheVars
<1>2. r \in 1..MaxAsks /\ renditions \in [1..MaxAsks -> RenditionsOf(Len(asks))]
      /\ \A q \in Calls : q \in 1..MaxAsks
  BY Typed DEF Filed, ServiceInv
<1>3. new.at = "fetched"
  BY <1>2 DEF RenditionsOf
<1> HIDE DEF new
<1>4. renditions'[r] = new /\ \A q \in 1..MaxAsks : q # r => renditions'[q] = renditions[q]
  BY <1>1, <1>2
<1>5. UNCHANGED events
  BY <1>1, SilentKeeps
<1>6. NoneLost
  BY <1>1, <1>2, <1>3, <1>4, <1>5
  DEF NoneLost, Where, Waiting, Due, Converted, Reported, Reports, KeyOf, Calls, shown
<1>7. RenditionsFit'
  BY <1>1, <1>2, <1>3, <1>4 DEF GridInv, RenditionsFit, IsAnalysis, Calls
<1>8. TypeOK'
  BY DEF ServiceInv, ServedInv
<1> QED
  BY <1>1, <1>6, <1>7, <1>8, SilentKeeps, FlagsStay, FrameKeeps, GridTyped DEF GridInv

\* A rendition that ends owes its answer to who waited for it.
LEMMA EndKeeps ==
    ASSUME ServiceInv, ServiceInv', GridInv, UNCHANGED <<asks, missed, posted, shown, todo>>, Dispatch,
           NEW r \in Calls, IsOpen(r), NEW status, status # "canceled",
           \/ Abandon(r)
           \/ /\ Conclude(r, pending[KeyOf(r)], status)
              /\ pending' = [pending EXCEPT ![KeyOf(r)] = << >>]
    PROVE  GridInv'
<1>1. /\ r \in 1..MaxAsks /\ KeyOf(r) \in Keys /\ \A q \in Calls : q \in 1..MaxAsks
      /\ missed \subseteq Calls /\ pending \in [Keys -> Seq(1..Len(asks))]
      /\ renditions \in [1..MaxAsks -> RenditionsOf(Len(asks))]
  BY Typed DEF Filed, ServiceInv, Calls
<1>2. renditions[r].at \notin {"none", "concluded"} /\ Due(r) = {} /\ r \notin missed
  BY DEF IsOpen, Due, GridInv, RenditionsFit
<1>3. UNCHANGED events
  BY SilentKeeps
<1>4. \A c \in Calls : KeyOf(c)' = KeyOf(c) /\ (IsAnalysis(c)' <=> IsAnalysis(c))
  BY DEF KeyOf, IsAnalysis
<1>5. CASE Abandon(r)
  <2>1. renditions' = [renditions EXCEPT ![r] = Over] /\ Over.at = "over" /\ UNCHANGED pending
    BY <1>5 DEF Abandon, Set, Over, Rendition
  <2>2. /\ \A q \in 1..MaxAsks : q # r => renditions'[q] = renditions[q]
        /\ renditions'[r].at = "over"
    BY <1>1, <2>1
  <2>3. NoneLost
    BY <1>1, <1>2, <1>3, <1>4, <2>1, <2>2
    DEF NoneLost, Where, Waiting, Due, Converted, Reported, Reports, Calls, shown
  <2>4. RenditionsFit'
    BY <1>1, <1>2, <1>4, <2>2 DEF GridInv, RenditionsFit, Calls
  <2> QED
    BY <2>3, <2>4, SilentKeeps, FlagsStay, FrameKeeps, GridTyped DEF GridInv, ServiceInv, ServedInv
<1>6. CASE /\ Conclude(r, pending[KeyOf(r)], status)
           /\ pending' = [pending EXCEPT ![KeyOf(r)] = << >>]
  <2> DEFINE who == pending[KeyOf(r)]
             new == [renditions[r] EXCEPT !.at = "concluded", !.calls = who, !.status = status]
  <2>1. renditions' = [renditions EXCEPT ![r] = new]
    BY <1>6 DEF Conclude, Set
  <2>2. new.at = "concluded" /\ new.calls = who /\ new.status = status
    BY <1>1 DEF RenditionsOf
  <2> HIDE DEF new
  <2>3. renditions'[r] = new /\ \A q \in 1..MaxAsks : q # r => renditions'[q] = renditions[q]
    BY <1>1, <2>1
  <2>4. /\ Waiting(KeyOf(r)) \subseteq Due(r)'
        /\ \A q \in Calls : Due(q) \subseteq Due(q)'
        /\ \A k \in Keys : k # KeyOf(r) => Waiting(k)' = Waiting(k)
    BY <1>1, <1>2, <1>6, <2>2, <2>3 DEF Due, Waiting
  <2>5. NoneLost
    <3> SUFFICES ASSUME NEW c \in Calls, Where(c) PROVE Where(c)'
      BY DEF NoneLost
    <3>1. CASE c \in Waiting(KeyOf(c))
      BY <1>4, <2>4, <3>1, GridTyped DEF Where, Calls
    <3>2. CASE \E q \in Calls : c \in Due(q)
      BY <2>4, <3>2 DEF Where, Calls
    <3>3. CASE c \in missed \/ c \in Converted \/ c \in Reported
      BY <1>3, <3>3 DEF Where, Converted, Reported, Reports, shown
    <3> QED
      BY <3>1, <3>2, <3>3 DEF Where
  <2>6. RenditionsFit'
    BY <1>1, <1>2, <1>4, <2>2, <2>3 DEF GridInv, RenditionsFit, Calls
  <2> QED
    BY <2>5, <2>6, SilentKeeps, FlagsStay, FrameKeeps, GridTyped DEF GridInv, ServiceInv, ServedInv
<1> QED
  BY <1>5, <1>6

LEMMA FailKeeps ==
    ASSUME ServiceInv, ServiceInv', GridInv, UNCHANGED <<shown, todo>>, Dispatch, NEW r \in Calls,
           GiveUp(r) \/ Fail(r, "error")
    PROVE  GridInv'
<1>1. ~IsAnalysis(r)
  BY DEF GridInv, RenditionsFit
<1>2. CASE GiveUp(r)
  <2>1. IsOpen(r) /\ Abandon(r) /\ UNCHANGED <<asks, missed, posted>>
    BY <1>1, <1>2 DEF GiveUp, Fail, Fails, callVars
  <2> QED
    BY <2>1, EndKeeps
<1>3. CASE Fail(r, "error")
  <2>1. /\ IsOpen(r) /\ UNCHANGED <<asks, missed, posted>>
        /\ \/ Abandon(r)
           \/ /\ Conclude(r, pending[KeyOf(r)], "error")
              /\ pending' = [pending EXCEPT ![KeyOf(r)] = << >>]
    BY <1>1, <1>3 DEF Fail, Fails, callVars
  <2> QED
    BY <2>1, EndKeeps
<1> QED
  BY <1>2, <1>3

LEMMA DeliverKeeps ==
    ASSUME ServiceInv, ServiceInv', GridInv, UNCHANGED <<shown, todo>>, Dispatch, NEW r \in Calls,
           DeliverPixels(r)
    PROVE  GridInv'
<1>1. ~IsAnalysis(r) /\ IsOpen(r)
  BY DEF GridInv, RenditionsFit, DeliverPixels, IsOpen
<1> QED
  BY <1>1, EndKeeps DEF DeliverPixels, Delivers, Publish, Abandon, callVars

LEMMA AnswerKeeps ==
    ASSUME ServiceInv, ServiceInv', GridInv, UNCHANGED <<shown, todo>>, Dispatch, NEW r \in Calls, Answer(r)
    PROVE  GridInv'
<1> DEFINE who == renditions[r].calls
           status == renditions[r].status
<1>1. /\ r \in 1..MaxAsks /\ KeyOf(r) \in Keys /\ \A q \in Calls : q \in 1..MaxAsks
      /\ renditions \in [1..MaxAsks -> RenditionsOf(Len(asks))]
      /\ renditions[r].at = "concluded" /\ UNCHANGED <<asks, missed, pending>>
      /\ renditions' = [renditions EXCEPT ![r] = Over] /\ Post(who, status, renditions[r].rev)
  BY Typed DEF Filed, ServiceInv, Answer, Set, callVars, cacheVars
<1>2. who \in Seq(1..Len(asks)) /\ renditions[r].rev \in 0..MaxRevision
  BY <1>1 DEF RenditionsOf
<1>3. status \in {"ready", "error"}
  <2>1. status \in {"none", "ready", "canceled", "error"} /\ status # "none"
    BY <1>1 DEF RenditionsOf, ServiceInv, ServedInv, RenditionsFresh, FreshRendition
  <2>2. status # "canceled"
    BY <1>1 DEF GridInv, RenditionsFit
  <2> QED
    BY <2>1, <2>2
<1>4. IsInjective(who) /\ ToSet(who) = Due(r) /\ Due(r) \cap Told = {}
  BY <1>1, OnceMeans, ListsMean DEF ServiceInv, OnceInv, InOnePlace, Apart, AllDue, Due
<1>5. /\ \A q \in 1..MaxAsks : q # r => renditions'[q] = renditions[q]
      /\ renditions'[r].at = "over"
  BY <1>1 DEF Over, Rendition
<1>6. \A c \in Calls : KeyOf(c)' = KeyOf(c) /\ (IsAnalysis(c)' <=> IsAnalysis(c))
  BY <1>1 DEF KeyOf, IsAnalysis
<1> HIDE DEF who, status
<1>7. /\ HandledOnce' /\ ActiveFit' /\ AnswersFit'
      /\ Reported' = Reported \cup Due(r) /\ AlbumTypeOK'
  BY <1>1, <1>2, <1>3, <1>4, PostingKeeps, GridTyped DEF ServiceInv, ServedInv
<1>8. NoneLost
  BY <1>1, <1>5, <1>6, <1>7 DEF NoneLost, Where, Waiting, Due, Converted, Calls, shown
<1>9. RenditionsFit'
  BY <1>1, <1>5, <1>6 DEF GridInv, RenditionsFit, Calls
<1> QED
  BY <1>1, <1>7, <1>8, <1>9, FlagsStay, FrameKeeps DEF GridInv

LEMMA JoinKeeps ==
    ASSUME ServiceInv, ServiceInv', GridInv, UNCHANGED <<shown, todo>>, Dispatch,
           NEW r \in Calls, JoinOrStart(r)
    PROVE  GridInv'
<1>0. PICK k \in Keys : k = KeyOf(r)
  BY Typed DEF ServiceInv
<1> DEFINE new == NewRendition(generation[k])
<1>1. /\ r \in 1..MaxAsks /\ k \in Keys /\ \A q \in Calls : q \in 1..MaxAsks
      /\ pending \in [Keys -> Seq(1..Len(asks))]
      /\ renditions \in [1..MaxAsks -> RenditionsOf(Len(asks))]
  BY Typed DEF Filed, ServiceInv
<1>2. /\ r \in missed /\ missed' = missed \ {r} /\ UNCHANGED <<asks, posted>>
      /\ pending' = [pending EXCEPT ![k] = Append(@, r)]
      /\ renditions' = IF pending[k] # << >> THEN renditions
                       ELSE [renditions EXCEPT ![r] = new]
  BY <1>0 DEF JoinOrStart
<1>3. new.at = "started" /\ renditions[r].at = "none"
  BY <1>2 DEF NewRendition, Rendition, GridInv, RenditionsFit
<1> HIDE DEF new
<1>4. /\ \A q \in 1..MaxAsks : q # r => renditions'[q] = renditions[q]
      /\ renditions'[r].at \in {"none", "started"}
  BY <1>1, <1>2, <1>3
<1>5. /\ Waiting(k)' = Waiting(k) \cup {r}
      /\ \A l \in Keys : Waiting(l) \subseteq Waiting(l)'
      /\ \A q \in Calls : Due(q)' = Due(q)
  <2>1. r \in 1..Len(asks) /\ pending[k] \in Seq(1..Len(asks))
    BY <1>1 DEF Calls
  <2>2. ToSet(Append(pending[k], r)) = ToSet(pending[k]) \cup {r}
    BY <2>1, AppendedSet
  <2>3. \A q \in Calls : Due(q)' = Due(q)
    BY <1>1, <1>3, <1>4 DEF Due
  <2>4. \A l \in Keys : pending'[l] = IF l = k THEN Append(pending[k], r) ELSE pending[l]
    BY <1>1, <1>2
  <2> QED
    BY <1>1, <2>2, <2>3, <2>4 DEF Waiting
<1>6. UNCHANGED events
  BY <1>2, SilentKeeps
<1>7. \A c \in Calls : KeyOf(c)' = KeyOf(c) /\ (IsAnalysis(c)' <=> IsAnalysis(c))
  BY <1>2 DEF KeyOf, IsAnalysis
<1>8. NoneLost
  BY <1>0, <1>2, <1>5, <1>6, <1>7, GridTyped
  DEF NoneLost, Where, Converted, Reported, Reports, Calls, shown
<1>9. RenditionsFit'
  BY <1>1, <1>2, <1>4, <1>7 DEF GridInv, RenditionsFit, Calls
<1> QED
  BY <1>2, <1>8, <1>9, SilentKeeps, FlagsStay, FrameKeeps, GridTyped DEF GridInv, ServiceInv, ServedInv

LEMMA EndReleaseKeeps ==
    ASSUME ServiceInv, ServiceInv', GridInv, UNCHANGED <<shown, todo>>, Dispatch,
           NEW k, EndRelease(k)
    PROVE  GridInv'
<1>1. UNCHANGED <<asks, missed, posted, pending, renditions>>
  BY DEF EndRelease, workVars
<1>2. UNCHANGED events
  BY <1>1, SilentKeeps
<1>3. NoneLost
  BY <1>1, <1>2 DEF NoneLost, Where, Waiting, Due, Converted, Reported, Reports, KeyOf, Calls, shown
<1>4. RenditionsFit'
  BY <1>1 DEF GridInv, RenditionsFit, IsAnalysis, Calls
<1> QED
  BY <1>1, <1>3, <1>4, SilentKeeps, FlagsStay, FrameKeeps, GridTyped DEF GridInv, ServiceInv, ServedInv

LEMMA WorkingKeeps ==
    ASSUME ServiceInv, ServiceInv', GridInv, Working
    PROVE  GridInv'
<1>1. UNCHANGED <<shown, todo>> /\ Dispatch
  BY DEF Working, shown
<1>2. CASE Finish
  BY <1>1, <1>2, JoinKeeps, EndReleaseKeeps DEF Finish
<1>3. ASSUME NEW r \in Calls, Render(r) PROVE GridInv'
  BY <1>1, <1>3, FetchKeeps, DeliverKeeps, FailKeeps, AnswerKeeps DEF Render
<1> QED
  BY <1>2, <1>3 DEF Working

----------------------------------------------------------------------------
\* The service calls of a handler.

\* A call that is no request leaves the rest to ask, and the tiles as they are.
LEMMA TodoAdvances ==
    ASSUME ServiceInv, GridInv, todo # << >>, todo' = Tail(todo), todo[1].op # "request",
           UNCHANGED shown
    PROVE  /\ TodoFits' /\ TilesFit' /\ todo' \in Seq(ServiceCalls)
           /\ \A k \in Keys : Asking(k)' <=> Asking(k)
<1>1. /\ todo' \in Seq(ServiceCalls) /\ Len(todo) \in Nat /\ 1 \in 1..Len(todo)
      /\ Len(todo') = Len(todo) - 1
      /\ \A i \in 1..Len(todo') : i + 1 \in 1..Len(todo) /\ todo'[i] = todo[i + 1]
  BY GridTyped, TailOfTodo
<1>2. \A i \in 1..Len(todo) : i # 1 => i - 1 \in 1..Len(todo') /\ todo'[i - 1] = todo[i]
  BY <1>1
<1>3. ASSUME NEW k \in Keys PROVE Asking(k)' <=> Asking(k)
  <2>1. ASSUME NEW i \in 1..Len(todo), todo[i].op = "request", todo[i].key = k PROVE Asking(k)'
    <3>1. i - 1 \in 1..Len(todo') /\ todo'[i - 1] = todo[i]
      BY <1>2, <2>1
    <3> QED
      BY <2>1, <3>1 DEF Asking
  <2>2. ASSUME NEW i \in 1..Len(todo'), todo'[i].op = "request", todo'[i].key = k PROVE Asking(k)
    BY <1>1, <2>2 DEF Asking
  <2> QED
    BY <2>1, <2>2 DEF Asking
<1>4. TodoFits'
  <2> SUFFICES ASSUME NEW i \in 1..Len(todo')
               PROVE  /\ todo'[i].op = "request" => pins[todo'[i].key] > 0
                      /\ todo'[i].op = "release" => pins[todo'[i].key] = 0
                      /\ todo'[i].op = "cancel" => \A k \in TiersOf(todo'[i].image) : pins[k] = 0
                      /\ todo'[i].op = "invalidate" =>
                            /\ \A k \in TiersOf(todo'[i].image) : flag[k] # 0 => Asking(k)'
                            /\ \A j \in 1..(i - 1) : todo'[j].op # "request"
    BY SMTT(60) DEF TodoFits, shown, gridVars, TiersOf, Asking
  <2>1. \A e : TiersOf(e) \subseteq Keys
    BY DEF TiersOf
  <2>2. \A j \in 1..(i - 1) : /\ j + 1 \in 1..((i + 1) - 1) /\ j \in 1..Len(todo')
                              /\ todo'[j] = todo[j + 1]
    BY <1>1
  <2> QED
    BY <1>1, <1>3, <2>1, <2>2 DEF GridInv, TodoFits
<1>5. TilesFit'
  BY <1>3 DEF GridInv, TilesFit, PinnedKeys, TiersOf, shown, gridVars
<1> QED
  BY <1>1, <1>3, <1>4, <1>5

\* The answers to who waits for released keys cancel calls nobody waits for.
LEMMA CancelKeeps ==
    ASSUME ServiceInv, ServiceInv', GridInv, UNCHANGED shown, Dispatch,
           todo # << >>, todo' = Tail(todo), todo[1].op # "request",
           NEW ks \in SUBSET Keys, \A k \in ks : pins[k] = 0,
           UNCHANGED <<asks, missed, renditions>>,
           \A k \in Keys : pending'[k] = IF k \in ks THEN << >> ELSE pending[k],
           NEW who \in Seq(1..Len(asks)), Post(who, "canceled", 0), IsInjective(who),
           \A c \in ToSet(who) : \E k \in ks : c \in Waiting(k)
    PROVE  GridInv'
<1>1. \A k \in ks : flag[k] = 0
  BY GridTyped DEF GridInv, FlagsFit
<1>2. ASSUME NEW k \in Keys, NEW c \in Waiting(k)
      PROVE  c \in Calls /\ KeyOf(c) = k /\ c \notin Told
  <2>1. c \in Calls /\ c \notin Told
    BY <1>2, PlacesAreCalls DEF ServiceInv, OnceInv, InOnePlace, Apart, AllWaiting
  <2>2. KeyOf(c) = k
    BY <1>2 DEF Waiting, ToSet, ServiceInv, ServedInv, WaitersFit
  <2> QED
    BY <2>1, <2>2
<1>3. \A k \in ks : Waiting(k) \cap active = {}
  BY <1>1, <1>2, GridTyped DEF GridInv, ActiveFit
<1>4. ToSet(who) \cap Told = {} /\ ToSet(who) \cap active = {}
  BY <1>2, <1>3
<1>5. 0 \in 0..MaxRevision
  BY CallsAssumption
<1>6. /\ HandledOnce' /\ ActiveFit' /\ AnswersFit'
      /\ Reported' = Reported \cup ToSet(who)
      /\ TypeOK' /\ todo' \in Seq(ServiceCalls) => AlbumTypeOK'
  BY <1>4, <1>5, PostingKeeps
<1>7. NoneLost
  <2> SUFFICES ASSUME NEW c \in Calls, c \in active, Where(c) PROVE Where(c)'
    BY DEF NoneLost
  <2>1. KeyOf(c) \in Keys /\ KeyOf(c)' = KeyOf(c)
    BY GridTyped DEF KeyOf
  <2>2. CASE c \in Waiting(KeyOf(c))
    <3>1. KeyOf(c) \notin ks
      BY <1>3, <2>2
    <3> QED
      BY <2>1, <2>2, <3>1 DEF Where, Waiting
  <2>3. CASE \/ c \in missed \/ (\E r \in Calls : c \in Due(r))
             \/ c \in Converted \/ c \in Reported
    BY <1>6, <2>3 DEF Where, Due, Converted, Calls, shown
  <2> QED
    BY <2>2, <2>3 DEF Where
<1>8. RenditionsFit'
  BY DEF GridInv, RenditionsFit, IsAnalysis, Calls
<1> QED
  BY <1>6, <1>7, <1>8, TodoAdvances, FlagsStay DEF GridInv, ServiceInv, ServedInv

LEMMA BeginReleaseKeeps ==
    ASSUME ServiceInv, ServiceInv', GridInv, UNCHANGED shown, Dispatch,
           todo # << >>, todo' = Tail(todo), todo[1].op = "release", BeginRelease(todo[1].key)
    PROVE  GridInv'
<1>0. PICK k : k = todo[1].key
  OBVIOUS
<1>1. k \in Keys /\ pins[k] = 0 /\ todo[1].op # "request"
  BY <1>0, GridTyped, TailOfTodo DEF GridInv, TodoFits, ServiceCalls
<1>2. pending \in [Keys -> Seq(1..Len(asks))]
  BY Typed DEF Filed, ServiceInv
<1>3. /\ Post(pending[k], "canceled", 0) /\ UNCHANGED <<asks, missed, renditions>>
      /\ pending' = [l \in Keys |-> IF l \in {k} THEN << >> ELSE pending[l]]
  BY <1>0 DEF BeginRelease, CancelKey, Supersede, workVars
<1>4. pending[k] \in Seq(1..Len(asks)) /\ IsInjective(pending[k]) /\ ToSet(pending[k]) = Waiting(k)
  BY <1>1, <1>2, ListsMean DEF ServiceInv, OnceInv, Waiting
<1> QED
  BY <1>1, <1>3, <1>4, CancelKeeps

LEMMA CancelImageKeeps ==
    ASSUME ServiceInv, ServiceInv', GridInv, UNCHANGED shown, Dispatch,
           todo # << >>, todo' = Tail(todo), todo[1].op = "cancel", CancelImage(todo[1].image)
    PROVE  GridInv'
<1>0. PICK e : e = todo[1].image
  OBVIOUS
<1>1. e \in Elements /\ (\A k \in TiersOf(e) : pins[k] = 0) /\ todo[1].op # "request"
  BY <1>0, GridTyped, TailOfTodo DEF GridInv, TodoFits, ServiceCalls
<1>2. pending \in [Keys -> Seq(1..Len(asks))] /\ TiersOf(e) \in SUBSET Keys
      /\ Len(asks) \in Nat
  BY Typed DEF Filed, ServiceInv, TiersOf
<1> DEFINE S == UNION {ToSet(pending[k]) : k \in TiersOf(e)}
           who == SetToSeq(S)
<1>3. /\ Post(who, "canceled", 0) /\ UNCHANGED <<asks, missed, renditions>>
      /\ pending' = [l \in Keys |-> IF l \in TiersOf(e) THEN << >> ELSE pending[l]]
  BY <1>0 DEF CancelImage, Supersede, workVars, callVars
<1>4. S \subseteq 1..Len(asks) /\ who \in Seq(1..Len(asks))
  BY <1>2, WaitersOf
<1>5. IsFiniteSet(S)
  <2>1. IsFiniteSet(1..Len(asks))
    BY <1>2, FS_Interval
  <2> QED
    BY <1>4, <2>1, FS_Subset
<1>6. IsInjective(who) /\ who \in Seq(S)
  BY <1>5, SetToSeqOrders
<1>7. \A c \in ToSet(who) : \E k \in TiersOf(e) : c \in Waiting(k)
  <2>1. ToSet(who) \subseteq S
    <3>1. DOMAIN who = 1..Len(who) /\ \A i \in 1..Len(who) : who[i] \in S
      BY <1>6, LenProperties, ElementOfSeq
    <3> HIDE DEF who, S
    <3> QED
      BY <3>1 DEF ToSet
  <2> QED
    BY <2>1 DEF Waiting
<1> HIDE DEF who, S
<1> QED
  BY <1>1, <1>2, <1>3, <1>4, <1>6, <1>7, CancelKeeps

LEMMA InvalidateKeeps ==
    ASSUME ServiceInv, ServiceInv', GridInv, UNCHANGED shown, Dispatch,
           todo # << >>, todo' = Tail(todo), todo[1].op = "invalidate",
           InvalidateThumbnail(todo[1].image)
    PROVE  GridInv'
<1>0. PICK e : e = todo[1].image
  OBVIOUS
<1>1. /\ e \in Elements /\ todo[1].op # "request"
      /\ \A k \in TiersOf(e) : flag[k] # 0 => Asking(k)
  BY <1>0, GridTyped, TailOfTodo DEF GridInv, TodoFits, ServiceCalls
<1>2. /\ UNCHANGED <<asks, missed, posted, renditions>>
      /\ pending' = [l \in Keys |-> IF l \in TiersOf(e) THEN << >> ELSE pending[l]]
  BY <1>0 DEF InvalidateThumbnail, Supersede, workVars, callVars
<1>3. UNCHANGED events
  BY <1>2, SilentKeeps
<1>4. \A k \in Keys : Asking(k)' <=> Asking(k)
  BY <1>1, TodoAdvances
<1>5. ASSUME NEW k \in Keys, NEW c, c = flag[k], c # 0
      PROVE  /\ c \in active /\ KeyOf(c) = k /\ pins[k] > 0
             /\ Asking(k)' \/ OnItsWay(c)'
  <2>1. c \in active /\ KeyOf(c) = k /\ pins[k] > 0 /\ (OnItsWay(c) \/ Asking(k))
    BY <1>5 DEF GridInv, FlagsFit
  <2>2. CASE Asking(k)
    BY <1>4, <2>1, <2>2
  <2>3. CASE ~Asking(k)
    <3>1. k \notin TiersOf(e) /\ Where(c)
      BY <1>1, <1>5, <2>1, <2>3, OnItsWayMeans
    <3>2. Where(c)'
      BY <1>2, <1>3, <2>1, <3>1
      DEF Where, Waiting, Due, Converted, Reported, Reports, KeyOf, Calls, shown
    <3> QED
      BY <2>1, <3>2, OnItsWayMeans
  <2> QED
    BY <2>2, <2>3
<1>6. FlagsFit'
  BY <1>2, <1>5 DEF FlagsFit, KeyOf, OnItsWay, shown, gridVars
<1>7. RenditionsFit'
  BY <1>2 DEF GridInv, RenditionsFit, IsAnalysis, Calls
<1> QED
  BY <1>1, <1>2, <1>6, <1>7, SilentKeeps, TodoAdvances DEF GridInv, ServiceInv, ServedInv

\* What a new call posts, if anything, and where it is then.
LEMMA CallPosts ==
    ASSUME ServiceInv, GridInv, Dispatch, UNCHANGED conversions, NEW k \in Keys, GetThumbnail(k)
    PROVE  /\ Len(asks') = Len(asks) + 1 /\ Len(asks') \in 1..MaxAsks /\ Calls \subseteq Calls'
           /\ \A c \in Calls : KeyOf(c)' = KeyOf(c) /\ (IsAnalysis(c)' <=> IsAnalysis(c))
           /\ asks'[Len(asks')].key = k /\ asks'[Len(asks')].kind = "thumbnail"
           /\ events' \in Seq(EventsOf(Len(asks')))
           /\ \A i \in Reports' : \/ i \in Reports /\ events'[i] = events[i]
                                  \/ events'[i].status = "ready" /\ events'[i].call = Len(asks')
           /\ HandledOnce' /\ Reported \subseteq Reported' /\ Told \subseteq Told'
           /\ \A c \in Calls : c \in Reported' => c \in Reported
           /\ Len(asks') \in missed' \cup Reported' /\ missed \subseteq missed'
           /\ missed' \subseteq missed \cup {Len(asks')}
<1> DEFINE n == Len(asks')
<1>1. Ask(k, "thumbnail") /\ Asked /\ Kept /\ Filed(Len(asks))
  BY Typed DEF ServiceInv, GetThumbnail
<1>2. /\ Asked' /\ Len(asks) \in Nat /\ Len(asks') = Len(asks) + 1 /\ Len(asks') \in 1..MaxAsks
      /\ \A c \in Calls : asks'[c] = asks[c]
      /\ asks'[Len(asks')] = [key |-> k, kind |-> "thumbnail", since |-> invalidated[ImageOf(k)]]
  BY <1>1, AskAppends
<1>3. /\ n \in Nat /\ Calls \subseteq Calls' /\ n \notin Calls
      /\ \A c \in Calls : KeyOf(c)' = KeyOf(c) /\ (IsAnalysis(c)' <=> IsAnalysis(c))
  BY <1>2 DEF Calls, KeyOf, IsAnalysis
<1>4. posted \in Seq(AnswersOf(n)) /\ events \in Seq(EventsOf(n))
  <2>1. AnswersOf(Len(asks)) \subseteq AnswersOf(n) /\ EventsOf(Len(asks)) \subseteq EventsOf(n)
    BY <1>2 DEF AnswersOf, EventsOf
  <2> QED
    BY <2>1, GridTyped, SeqMonotonic
<1>5. n \notin Told /\ n \notin Reported /\ n \notin Converted
  <2>1. Told \subseteq Calls
    BY PlacesAreCalls DEF ServiceInv
  <2> QED
    BY <1>3, <2>1 DEF GridInv, HandledOnce
<1>6. CASE k \notin Cache!Cached(cache)
  <2>1. UNCHANGED posted /\ missed' = missed \cup {n}
    BY <1>6 DEF GetThumbnail
  <2>2. UNCHANGED events
    BY <1>3, <1>4, <2>1, DispatchNothing
  <2>3. UNCHANGED <<Told, Reports, Reported, Converted>>
    BY <2>1, <2>2 DEF Told, Reports, Reported, Converted
  <2>4. HandledOnce'
    BY <2>2, <2>3 DEF GridInv, HandledOnce
  <2> QED
    BY <1>2, <1>3, <1>4, <2>1, <2>2, <2>3, <2>4
<1>7. CASE k \in Cache!Cached(cache)
  <2> DEFINE who == << n >>
  <2>1. Post(who, "ready", cache.guard[k].rev) /\ UNCHANGED missed
    BY <1>7 DEF GetThumbnail
  <2>2. cache.guard[k].rev \in 0..MaxRevision
    BY <1>1 DEF Kept, IsCache, Guards
  <2>3. n \in 1..n /\ who \in Seq(1..n) /\ Len(who) = 1 /\ who[1] = n /\ ToSet(who) = {n}
        /\ IsInjective(who)
    <3>1. n \in 1..n
      BY <1>2
    <3>2. ToSet(who) = {n} /\ IsInjective(who)
      BY SingleLists, ListsMean
    <3> HIDE DEF n
    <3>3. who \in Seq(1..n) /\ Len(who) = 1 /\ who[1] = n
      BY <3>1
    <3> QED
      BY <3>1, <3>2, <3>3
  <2>4. ToSet(who) \cap Told = {}
    BY <1>5, <2>3
  <2> HIDE DEF who
  <2>5. EventsTo(n, who, "ready", cache.guard[k].rev)
    BY <1>3, <1>4, <2>1, <2>2, <2>3, DispatchAnswers
  <2>6. /\ Reported' = Reported \cup {n}
        /\ \A i \in Reports' : \/ i \in Reports /\ events'[i] = events[i]
                               \/ i = Len(events) + 1 /\ events'[i].status = "ready"
                                    /\ events'[i].call = n
        /\ \A i \in Reports : i \in Reports' /\ i <= Len(events)
    BY <1>3, <1>4, <2>3, <2>5, ReportsGrow
  <2>7. Told' = Told \cup {n}
    BY <1>3, <1>4, <2>1, <2>2, <2>3, <2>4, PostOnce DEF ServiceInv, OnceInv
  <2>8. HandledOnce'
    <3>1. ASSUME NEW i \in Reports', NEW j \in Reports', events'[i].call = events'[j].call
          PROVE  i = j
      <4>1. \A m \in Reports : events[m].call # n
        BY <1>5 DEF Reported
      <4> QED
        BY <2>6, <3>1, <4>1 DEF GridInv, HandledOnce
    <3>2. Converted' = Converted
      BY DEF Converted
    <3> QED
      BY <1>5, <2>6, <2>7, <3>1, <3>2 DEF GridInv, HandledOnce
  <2>9. events' \in Seq(EventsOf(n))
    BY <2>5 DEF EventsTo
  <2> QED
    BY <1>2, <1>3, <2>1, <2>6, <2>7, <2>8, <2>9
<1> QED
  BY <1>6, <1>7

\* What a request makes of the rest to ask.
LEMMA RequestAdvances ==
    ASSUME ServiceInv, GridInv, todo # << >>, todo' = Tail(todo), todo[1].op = "request",
           UNCHANGED pins
    PROVE  /\ TodoFits' /\ todo' \in Seq(ServiceCalls)
           /\ todo[1].key \in Keys /\ pins[todo[1].key] > 0
           /\ \A k \in Keys : k # todo[1].key /\ Asking(k) => Asking(k)'
<1>1. /\ todo' \in Seq(ServiceCalls) /\ Len(todo) \in Nat /\ 1 \in 1..Len(todo)
      /\ Len(todo') = Len(todo) - 1 /\ todo[1] \in ServiceCalls
      /\ \A i \in 1..Len(todo') : i + 1 \in 1..Len(todo) /\ todo'[i] = todo[i + 1]
  BY GridTyped, TailOfTodo
<1>2. \A i \in 1..Len(todo) : i # 1 => i - 1 \in 1..Len(todo') /\ todo'[i - 1] = todo[i]
  BY <1>1
<1>3. ASSUME NEW k \in Keys, k # todo[1].key, Asking(k) PROVE Asking(k)'
  <2>1. PICK i \in 1..Len(todo) : todo[i].op = "request" /\ todo[i].key = k
    BY <1>3 DEF Asking
  <2>2. i - 1 \in 1..Len(todo') /\ todo'[i - 1] = todo[i]
    BY <1>2, <1>3, <2>1
  <2> QED
    BY <2>1, <2>2 DEF Asking
<1>4. \A i \in 1..Len(todo') : todo'[i].op # "invalidate"
  <2> SUFFICES ASSUME NEW i \in 1..Len(todo') PROVE todo'[i].op # "invalidate"
    OBVIOUS
  <2>1. i + 1 \in 1..Len(todo) /\ 1 \in 1..((i + 1) - 1) /\ todo'[i] = todo[i + 1]
    BY <1>1
  <2> QED
    BY <2>1 DEF GridInv, TodoFits
<1>5. TodoFits'
  BY <1>1, <1>4 DEF GridInv, TodoFits, TiersOf
<1>6. todo[1].key \in Keys /\ pins[todo[1].key] > 0
  BY <1>1 DEF ServiceCalls, GridInv, TodoFits
<1> QED
  BY <1>1, <1>3, <1>5, <1>6

\* The key's flag is the new call's, and that call is on its way.
LEMMA RequestKeeps ==
    ASSUME ServiceInv, ServiceInv', GridInv, UNCHANGED <<store, conversions, unnoted>>, Dispatch,
           todo # << >>, todo' = Tail(todo), todo[1].op = "request",
           RequestThumbnail(todo[1].key, todo[1].again)
    PROVE  GridInv'
<1>0. PICK k : k = todo[1].key
  OBVIOUS
<1>1. PICK n : n = Len(asks')
  OBVIOUS
<1>2. /\ GetThumbnail(k) /\ UNCHANGED <<pins, pending, renditions>>
      /\ flag' = [flag EXCEPT ![k] = n] /\ active' = (active \ {flag[k]}) \cup {n}
      /\ retries' \in {retries, retries \cup {n}}
      /\ tile' = [tile EXCEPT ![ImageOf(k)] = [tier |-> @.tier, loading |-> TRUE, error |-> FALSE]]
  BY <1>0, <1>1 DEF RequestThumbnail, GetThumbnail, workVars
<1>3. /\ TodoFits' /\ todo' \in Seq(ServiceCalls) /\ k \in Keys /\ pins[k] > 0
      /\ \A l \in Keys : l # k /\ Asking(l) => Asking(l)'
  BY <1>0, <1>2, RequestAdvances
<1>4. /\ n = Len(asks) + 1 /\ n \in 1..MaxAsks /\ Calls \subseteq Calls'
      /\ \A c \in Calls : KeyOf(c)' = KeyOf(c) /\ (IsAnalysis(c)' <=> IsAnalysis(c))
      /\ asks'[n].key = k /\ asks'[n].kind = "thumbnail"
      /\ events' \in Seq(EventsOf(n))
      /\ \A i \in Reports' : \/ i \in Reports /\ events'[i] = events[i]
                             \/ events'[i].status = "ready" /\ events'[i].call = n
      /\ HandledOnce' /\ Reported \subseteq Reported' /\ Told \subseteq Told'
      /\ \A c \in Calls : c \in Reported' => c \in Reported
      /\ n \in missed' \cup Reported' /\ missed \subseteq missed'
      /\ missed' \subseteq missed \cup {n}
  BY <1>1, <1>2, <1>3, CallPosts
<1>5. /\ Len(asks) \in Nat /\ n # 0 /\ n \notin Calls /\ Calls' = Calls \cup {n}
      /\ KeyOf(n)' = k /\ ~IsAnalysis(n)' /\ Converted' = Converted
      /\ flag \in [Keys -> 0..Len(asks)] /\ active \subseteq Calls
  BY <1>1, <1>4, GridTyped DEF Calls, KeyOf, IsAnalysis, Converted
<1>6. flag'[k] = n /\ \A l \in Keys : l # k => flag'[l] = flag[l]
  BY <1>2, <1>3, <1>5
<1>7. FlagsFit'
  <2>1. ASSUME NEW l \in Keys, NEW c, c = flag'[l], c # 0
        PROVE  /\ c \in active' /\ KeyOf(c)' = l /\ pins[l] > 0
               /\ Asking(l)' \/ OnItsWay(c)'
    <3>1. CASE l = k
      BY <1>2, <1>3, <1>4, <1>5, <1>6, <2>1, <3>1, OnItsWayMeans DEF Where
    <3>2. CASE l # k
      <4>1. c = flag[l] /\ c \in active /\ KeyOf(c) = l /\ pins[l] > 0
            /\ (OnItsWay(c) \/ Asking(l))
        BY <1>6, <2>1, <3>2 DEF GridInv, FlagsFit
      <4>2. c # flag[k] /\ c \in Calls /\ KeyOf(c)' = l
        BY <1>3, <1>4, <1>5, <2>1, <3>2, <4>1 DEF GridInv, FlagsFit
      <4>3. ASSUME Where(c) PROVE Where(c)'
        BY <1>2, <1>4, <1>5, <4>1, <4>2, <4>3 DEF Where, Waiting, Due, Converted
      <4> QED
        BY <1>2, <1>3, <3>2, <4>1, <4>2, <4>3, OnItsWayMeans
    <3> QED
      BY <3>1, <3>2
  <2> QED
    BY <1>2, <2>1 DEF FlagsFit, KeyOf
<1>8. ActiveFit'
  <2> SUFFICES ASSUME NEW c \in active'
               PROVE  flag'[KeyOf(c)'] = c \/ c \in Told' \ (Reported' \cup Converted')
    BY DEF ActiveFit
  <2>1. CASE c = n
    BY <1>5, <1>6, <2>1
  <2>2. CASE c \in active \ {flag[k]}
    <3>1. c \in Calls /\ KeyOf(c)' = KeyOf(c) /\ KeyOf(c) \in Keys
      BY <1>4, <1>5, <2>2, GridTyped
    <3>2. flag[KeyOf(c)] = c \/ c \in Told \ (Reported \cup Converted)
      BY <2>2 DEF GridInv, ActiveFit
    <3> QED
      BY <1>4, <1>5, <1>6, <2>2, <3>1, <3>2
  <2> QED
    BY <1>2, <2>1, <2>2
<1>9. AnswersFit'
  <2> SUFFICES ASSUME NEW i \in Reports', NEW c, c = events'[i].call
               PROVE  /\ events'[i].status = "canceled" => c \notin active'
                      /\ events'[i].status = "shown" /\ c \in active'
                            => store[KeyOf(c)'] # NoImage
    BY DEF AnswersFit, KeyOf
  <2>1. CASE events'[i].status = "ready" /\ c = n
    BY <2>1
  <2>2. CASE i \in Reports /\ events'[i] = events[i]
    <3>1. c \in Calls /\ KeyOf(c)' = KeyOf(c) /\ c = events[i].call
      BY <1>4, <2>2, GridTyped
    <3> QED
      BY <1>2, <1>5, <2>2, <3>1 DEF GridInv, AnswersFit
  <2> QED
    BY <1>4, <2>1, <2>2
<1>10. RenditionsFit'
  <2>1. renditions[n].at = "none"
    BY <1>4, <1>5 DEF ServiceInv, ServedInv, NoneAhead
  <2> QED
    BY <1>2, <1>4, <1>5, <2>1 DEF GridInv, RenditionsFit
<1>11. TilesFit'
  <2> SUFFICES ASSUME NEW e \in Elements
               PROVE  /\ PinnedKeys(e) = {} => tile'[e] = Blank
                      /\ (tile'[e].tier # 0 /\ store[<<e, tile'[e].tier>>] = NoImage)
                            => \E l \in PinnedKeys(e) : flag'[l] # 0 \/ Asking(l)'
    BY <1>2 DEF TilesFit, PinnedKeys, TiersOf
  <2>1. CASE e = ImageOf(k)
    <3>1. k \in PinnedKeys(e)
      BY <1>3, <2>1 DEF PinnedKeys, TiersOf
    <3> QED
      BY <1>5, <1>6, <3>1
  <2>2. CASE e # ImageOf(k)
    <3>1. tile'[e] = tile[e]
      BY <1>2, <2>2, GridTyped
    <3>2. \A l \in PinnedKeys(e) : l \in Keys /\ l # k
      BY <2>2 DEF PinnedKeys, TiersOf
    <3> QED
      BY <1>3, <1>6, <3>1, <3>2 DEF GridInv, TilesFit
  <2> QED
    BY <2>1, <2>2
<1>12. AlbumTypeOK'
  <2>1. TypeOK' /\ Calls' = 1..n /\ Calls = 1..Len(asks) /\ n \in Nat
    BY <1>1, <1>4 DEF ServiceInv, ServedInv, Calls
  <2>2. active' \subseteq Calls' /\ retries' \subseteq Calls'
    BY <1>2, <1>5, <2>1 DEF GridInv, AlbumTypeOK
  <2>3. flag' \in [Keys -> 0..n] /\ pins' \in [Keys -> Nat]
    BY <1>2, <1>3, <1>4, <1>5, GridTyped
  <2>4. tile' \in [Elements -> [tier : {0} \cup Tiers, loading : BOOLEAN, error : BOOLEAN]]
    <3> DEFINE new == [tier |-> tile[ImageOf(k)].tier, loading |-> TRUE, error |-> FALSE]
    <3>1. ImageOf(k) \in Elements
      BY <1>3 DEF Keys, ImageOf
    <3>2. new \in [tier : {0} \cup Tiers, loading : BOOLEAN, error : BOOLEAN]
      BY <3>1, GridTyped
    <3>3. tile' = [tile EXCEPT ![ImageOf(k)] = new]
      BY <1>2
    <3> HIDE DEF new
    <3> QED
      BY <3>2, <3>3, GridTyped
  <2>5. conversions' \subseteq [call : Calls', rev : 0..MaxRevision, at : {"started", "passed"}]
    BY <1>4 DEF GridInv, AlbumTypeOK
  <2> QED
    BY <1>1, <1>3, <1>4, <2>1, <2>2, <2>3, <2>4, <2>5 DEF GridInv, AlbumTypeOK
<1> QED
  BY <1>3, <1>4, <1>7, <1>8, <1>9, <1>10, <1>11, <1>12 DEF GridInv

LEMMA CallingKeeps ==
    ASSUME ServiceInv, ServiceInv', GridInv, Calling
    PROVE  GridInv'
<1>1. /\ todo # << >> /\ todo' = Tail(todo) /\ Head(todo) = todo[1] /\ Dispatch
      /\ UNCHANGED <<store, conversions, unnoted>>
  BY GridTyped, TailOfTodo DEF Calling
<1>2. CASE todo[1].op = "request" /\ RequestThumbnail(todo[1].key, todo[1].again)
  BY <1>1, <1>2, RequestKeeps
<1>3. CASE todo[1].op = "release" /\ BeginRelease(todo[1].key) /\ UNCHANGED gridVars
  <2>1. UNCHANGED shown
    BY <1>1, <1>3 DEF shown
  <2> QED
    BY <1>1, <1>3, <2>1, BeginReleaseKeeps
<1>4. CASE todo[1].op = "cancel" /\ CancelImage(todo[1].image) /\ UNCHANGED gridVars
  <2>1. UNCHANGED shown
    BY <1>1, <1>4 DEF shown
  <2> QED
    BY <1>1, <1>4, <2>1, CancelImageKeeps
<1>5. CASE todo[1].op = "invalidate" /\ InvalidateThumbnail(todo[1].image) /\ UNCHANGED gridVars
  <2>1. UNCHANGED shown
    BY <1>1, <1>5 DEF shown
  <2> QED
    BY <1>1, <1>5, <2>1, InvalidateKeeps
<1>6. \/ todo[1].op = "request" /\ RequestThumbnail(todo[1].key, todo[1].again)
      \/ todo[1].op = "release" /\ BeginRelease(todo[1].key) /\ UNCHANGED gridVars
      \/ todo[1].op = "cancel" /\ CancelImage(todo[1].image) /\ UNCHANGED gridVars
      \/ todo[1].op = "invalidate" /\ InvalidateThumbnail(todo[1].image) /\ UNCHANGED gridVars
  BY <1>1 DEF Calling
<1> QED
  BY <1>2, <1>3, <1>4, <1>5, <1>6

----------------------------------------------------------------------------
\* Commits.

\* A step that reports nothing and leaves the grid and the places of calls alone.
LEMMA StillFits ==
    ASSUME ServiceInv, ServiceInv', GridInv,
           UNCHANGED <<asks, posted, pending, renditions, missed, todo, gridVars, store, conversions>>,
           UNCHANGED Reports, \A i \in Reports : events'[i] = events[i],
           events' \in Seq(EventsOf(Len(asks))), unnoted' \subseteq Elements
    PROVE  GridInv'
<1>1. UNCHANGED <<Told, Reported, Converted>>
  BY DEF Told, Reported, Converted
<1>2. \A c : KeyOf(c)' = KeyOf(c) /\ (IsAnalysis(c)' <=> IsAnalysis(c))
  BY DEF KeyOf, IsAnalysis
<1>3. Calls' = Calls
  BY DEF Calls
<1>4. HandledOnce' /\ ActiveFit' /\ AnswersFit'
  BY <1>1, <1>2 DEF GridInv, HandledOnce, ActiveFit, AnswersFit, KeyOf, gridVars
<1>5. FlagsFit'
  <2>1. \A c : Where(c) => Where(c)'
    BY <1>1, <1>2, <1>3 DEF Where, Waiting, Due
  <2>2. \A k : Asking(k)' <=> Asking(k)
    BY DEF Asking
  <2>3. \A c : OnItsWay(c) => OnItsWay(c)'
    BY <2>1, OnItsWayMeans
  <2>4. ASSUME NEW k \in Keys, NEW c, c = flag[k], c # 0
        PROVE  /\ c \in active /\ KeyOf(c) = k /\ pins[k] > 0
               /\ OnItsWay(c)' \/ Asking(k)'
    BY <2>2, <2>3, <2>4 DEF GridInv, FlagsFit
  <2> QED
    BY <1>2, <2>4 DEF FlagsFit, KeyOf, OnItsWay, gridVars
<1>6. RenditionsFit'
  BY <1>2, <1>3 DEF GridInv, RenditionsFit
<1>7. TodoFits' /\ TilesFit'
  BY DEF GridInv, TodoFits, TilesFit, PinnedKeys, TiersOf, Asking, gridVars
<1>8. AlbumTypeOK'
  BY <1>3 DEF GridInv, AlbumTypeOK, ServiceInv, ServedInv, gridVars
<1> QED
  BY <1>4, <1>5, <1>6, <1>7, <1>8 DEF GridInv

LEMMA CommitImageKeeps ==
    ASSUME ServiceInv, ServiceInv', GridInv, NEW e \in Elements, CommitImage(e)
    PROVE  GridInv'
<1>1. /\ UNCHANGED <<asks, posted, pending, renditions, missed, todo, gridVars, store, conversions>>
      /\ UNCHANGED events /\ unnoted' = unnoted \cup {e}
  BY DEF CommitImage, Commit, cacheVars, callVars, workVars
<1>2. UNCHANGED Reports /\ \A i \in Reports : events'[i] = events[i]
  BY <1>1 DEF Reports
<1>3. unnoted' \subseteq Elements
  BY <1>1 DEF GridInv, AlbumTypeOK
<1> QED
  BY <1>1, <1>2, <1>3, StillFits, GridTyped

LEMMA NoteCommitKeeps ==
    ASSUME ServiceInv, ServiceInv', GridInv, NEW e \in Elements, NoteCommit(e)
    PROVE  GridInv'
<1> DEFINE note == [status |-> "changed", image |-> e]
<1>1. /\ UNCHANGED <<asks, posted, pending, renditions, missed, todo, gridVars, store, conversions>>
      /\ events' = Append(events, note) /\ unnoted' \subseteq Elements
  BY DEF NoteCommit, calls, callVars, cacheVars, workVars, GridInv, AlbumTypeOK
<1>2. note \in EventsOf(Len(asks)) /\ note.status = "changed"
  BY DEF EventsOf
<1> HIDE DEF note
<1>3. /\ events' \in Seq(EventsOf(Len(asks))) /\ Len(events') = Len(events) + 1
      /\ Len(events) \in Nat
      /\ events'[Len(events) + 1] = note /\ \A i \in 1..Len(events) : events'[i] = events[i]
  BY <1>1, <1>2, GridTyped, AppendProperties
<1>4. ASSUME NEW i PROVE i \in Reports' <=> i \in Reports
  BY <1>2, <1>3 DEF Reports
<1>5. Reports' = Reports /\ \A i \in Reports : events'[i] = events[i]
  BY <1>3, <1>4 DEF Reports
<1> QED
  BY <1>1, <1>3, <1>5, StillFits

----------------------------------------------------------------------------
\* The detached threads.

\* The call of a thread has its flag in the map while anybody waits for it.
LEMMA ConvertedCall ==
    ASSUME ServiceInv, GridInv, NEW t \in conversions
    PROVE  /\ t.call \in Calls /\ t.call \in Converted /\ t.call \notin Reported
           /\ t.rev \in 0..MaxRevision
           /\ t.at \in {"started", "passed"} /\ KeyOf(t.call) \in Keys
           /\ t.call \in Told
           /\ \A u \in conversions : u.call = t.call => u = t
BY GridTyped DEF GridInv, AlbumTypeOK, HandledOnce, Converted

LEMMA CheckFlagKeeps ==
    ASSUME ServiceInv, ServiceInv', GridInv, NEW t \in conversions, CheckFlag(t)
    PROVE  GridInv'
<1> DEFINE passed == [t EXCEPT !.at = "passed"]
<1>1. PICK c : c = t.call
  OBVIOUS
<1>2. /\ UNCHANGED <<asks, posted, pending, renditions, missed, todo, gridVars, store, events, unnoted>>
      /\ conversions' = (conversions \ {t}) \cup IF c \in active THEN {passed} ELSE {}
  BY <1>1 DEF CheckFlag, calls, callVars, cacheVars, workVars
<1>3. /\ passed \in [call : Calls, rev : 0..MaxRevision, at : {"started", "passed"}]
      /\ passed.call = c
  BY <1>1 DEF GridInv, AlbumTypeOK
<1> HIDE DEF passed
<1>4. /\ UNCHANGED <<Told, Reports, Reported, Calls>>
      /\ \A d : KeyOf(d)' = KeyOf(d) /\ (IsAnalysis(d)' <=> IsAnalysis(d))
  BY <1>2 DEF Told, Reports, Reported, Calls, KeyOf, IsAnalysis
<1>5. Converted' \subseteq Converted /\ \A d \in Converted : d \in active => d \in Converted'
  BY <1>1, <1>2, <1>3, ConvertedCall DEF Converted
<1>6. HandledOnce'
  <2>1. \A u, v \in conversions' : u.call = v.call => u = v
    BY <1>1, <1>2, <1>3, ConvertedCall DEF GridInv, HandledOnce
  <2> QED
    BY <1>2, <1>4, <1>5, <2>1 DEF GridInv, HandledOnce
<1>7. ActiveFit' /\ AnswersFit'
  BY <1>2, <1>4, <1>5 DEF GridInv, ActiveFit, AnswersFit, KeyOf, gridVars
<1>8. FlagsFit'
  <2>1. ASSUME NEW k \in Keys, NEW d, d = flag[k], d # 0
        PROVE  /\ d \in active /\ KeyOf(d) = k /\ pins[k] > 0
               /\ OnItsWay(d)' \/ Asking(k)
    <3>1. d \in active /\ KeyOf(d) = k /\ pins[k] > 0 /\ (OnItsWay(d) \/ Asking(k))
      BY <2>1 DEF GridInv, FlagsFit
    <3>2. Where(d) => Where(d)'
      BY <1>2, <1>4, <1>5, <3>1 DEF Where, Waiting, Due
    <3> QED
      BY <3>1, <3>2, OnItsWayMeans
  <2> QED
    BY <1>2, <1>4, <2>1 DEF FlagsFit, KeyOf, OnItsWay, Asking, gridVars
<1>9. RenditionsFit' /\ TodoFits' /\ TilesFit'
  BY <1>2, <1>4
  DEF GridInv, RenditionsFit, TodoFits, TilesFit, PinnedKeys, TiersOf, Asking, gridVars
<1>10. AlbumTypeOK'
  BY <1>2, <1>3, <1>4 DEF GridInv, AlbumTypeOK, ServiceInv, ServedInv, gridVars
<1> QED
  BY <1>6, <1>7, <1>8, <1>9, <1>10 DEF GridInv

\* The thread's report takes its place, and the image is in the store if it
\* says so.
LEMMA ReportKeeps ==
    ASSUME ServiceInv, ServiceInv', GridInv, NEW t \in conversions,
           NEW status \in {"shown", "failed"}, Report(t, status),
           store' \in [Keys -> {NoImage} \cup 0..MaxRevision],
           status = "shown" => store'[KeyOf(t.call)] # NoImage,
           \A k \in Keys : store'[k] = NoImage => store[k] = NoImage
    PROVE  GridInv'
<1> DEFINE report == [call |-> t.call, status |-> status, rev |-> t.rev]
<1>1. PICK c : c = t.call
  OBVIOUS
<1>2. /\ UNCHANGED <<asks, posted, pending, renditions, missed, todo, gridVars, unnoted>>
      /\ conversions' = conversions \ {t} /\ events' = Append(events, report)
  BY DEF Report, calls, callVars, cacheVars, workVars
<1>3. /\ report \in EventsOf(Len(asks)) /\ report.call = c /\ report.status = status
      /\ c \in Calls /\ c \in Converted /\ c \notin Reported /\ c \in Told
  BY <1>1, ConvertedCall DEF EventsOf, Calls
<1> HIDE DEF report
<1>4. /\ events' \in Seq(EventsOf(Len(asks))) /\ Len(events') = Len(events) + 1
      /\ Len(events) \in Nat
      /\ events'[Len(events) + 1] = report /\ \A i \in 1..Len(events) : events'[i] = events[i]
  BY <1>2, <1>3, GridTyped, AppendProperties
<1>5. /\ \A i \in Reports' : \/ i \in Reports /\ events'[i] = events[i]
                             \/ i = Len(events) + 1 /\ events'[i] = report
      /\ \A i \in Reports : i \in Reports' /\ events'[i] = events[i]
      /\ Len(events) + 1 \in Reports' /\ Len(events) + 1 \notin Reports
  BY <1>3, <1>4 DEF Reports
<1>6. /\ UNCHANGED <<Told, Calls>>
      /\ \A d : KeyOf(d)' = KeyOf(d) /\ (IsAnalysis(d)' <=> IsAnalysis(d))
  BY <1>2 DEF Told, Calls, KeyOf, IsAnalysis
<1>7. Reported' = Reported \cup {c}
  <2>1. ASSUME NEW d PROVE d \in Reported' <=> d \in Reported \cup {c}
    BY <1>3, <1>4, <1>5 DEF Reported
  <2> QED
    BY <2>1
<1>8. Converted' = Converted \ {c}
  <2>1. ASSUME NEW d PROVE d \in Converted' <=> d \in Converted \ {c}
    BY <1>1, <1>2, ConvertedCall DEF Converted
  <2> QED
    BY <2>1
<1>9. HandledOnce'
  <2>1. ASSUME NEW i \in Reports', NEW j \in Reports', events'[i].call = events'[j].call
        PROVE  i = j
    <3>1. \A m \in Reports : events[m].call # c
      BY <1>3 DEF Reported
    <3> QED
      BY <1>3, <1>5, <2>1, <3>1 DEF GridInv, HandledOnce
  <2>2. \A u, v \in conversions' : u.call = v.call => u = v
    BY <1>2 DEF GridInv, HandledOnce
  <2> QED
    BY <1>3, <1>6, <1>7, <1>8, <2>1, <2>2 DEF GridInv, HandledOnce
<1>10. ActiveFit'
  BY <1>2, <1>6, <1>7, <1>8, <1>3 DEF GridInv, ActiveFit, KeyOf, gridVars
<1>11. AnswersFit'
  <2> SUFFICES ASSUME NEW i \in Reports', NEW d, d = events'[i].call
               PROVE  /\ events'[i].status = "canceled" => d \notin active
                      /\ events'[i].status = "shown" /\ d \in active
                            => store'[KeyOf(d)] # NoImage
    BY <1>2, <1>6 DEF AnswersFit, KeyOf, gridVars
  <2>1. CASE i = Len(events) + 1 /\ events'[i] = report
    BY <1>1, <1>3, <2>1
  <2>2. CASE i \in Reports /\ events'[i] = events[i]
    <3>1. KeyOf(d) \in Keys
      BY <2>2, GridTyped
    <3> QED
      BY <2>2, <3>1 DEF GridInv, AnswersFit
  <2> QED
    BY <1>5, <2>1, <2>2
<1>12. FlagsFit'
  <2>1. ASSUME NEW k \in Keys, NEW d, d = flag[k], d # 0
        PROVE  /\ d \in active /\ KeyOf(d) = k /\ pins[k] > 0
               /\ OnItsWay(d)' \/ Asking(k)
    <3>1. d \in active /\ KeyOf(d) = k /\ pins[k] > 0 /\ (OnItsWay(d) \/ Asking(k))
      BY <2>1 DEF GridInv, FlagsFit
    <3>2. Where(d) => Where(d)'
      BY <1>2, <1>6, <1>7, <1>8, <3>1 DEF Where, Waiting, Due
    <3> QED
      BY <3>1, <3>2, OnItsWayMeans
  <2> QED
    BY <1>2, <1>6, <2>1 DEF FlagsFit, KeyOf, OnItsWay, Asking, gridVars
<1>13. RenditionsFit' /\ TodoFits'
  BY <1>2, <1>6 DEF GridInv, RenditionsFit, TodoFits, TiersOf, Asking, gridVars
<1>14. TilesFit'
  <2> SUFFICES ASSUME NEW e \in Elements
               PROVE  /\ PinnedKeys(e) = {} => tile[e] = Blank
                      /\ (tile[e].tier # 0 /\ store'[<<e, tile[e].tier>>] = NoImage)
                            => \E l \in PinnedKeys(e) : flag[l] # 0 \/ Asking(l)
    BY <1>2 DEF TilesFit, PinnedKeys, TiersOf, Asking, gridVars
  <2>1. tile[e].tier # 0 => <<e, tile[e].tier>> \in Keys
    BY GridTyped DEF Keys
  <2> QED
    BY <2>1 DEF GridInv, TilesFit
<1>15. AlbumTypeOK'
  BY <1>2, <1>4, <1>6 DEF GridInv, AlbumTypeOK, ServiceInv, ServedInv, gridVars
<1> QED
  BY <1>9, <1>10, <1>11, <1>12, <1>13, <1>14, <1>15 DEF GridInv

LEMMA ThreadKeeps ==
    ASSUME ServiceInv, ServiceInv', GridInv, Thread
    PROVE  GridInv'
<1>1. PICK t \in conversions : CheckFlag(t) \/ StoreImage(t) \/ FailConversion(t)
  BY DEF Thread
<1>2. CASE CheckFlag(t)
  BY <1>2, CheckFlagKeeps
<1>3. CASE StoreImage(t)
  <2>1. store' = [store EXCEPT ![KeyOf(t.call)] = t.rev] /\ Report(t, "shown")
    BY <1>3 DEF StoreImage
  <2>2. KeyOf(t.call) \in Keys /\ t.rev \in 0..MaxRevision /\ t.rev # NoImage
    BY ConvertedCall, CallsAssumption DEF NoImage
  <2>3. /\ store' \in [Keys -> {NoImage} \cup 0..MaxRevision]
        /\ store'[KeyOf(t.call)] # NoImage
        /\ \A k \in Keys : store'[k] = NoImage => store[k] = NoImage
    BY <2>1, <2>2, GridTyped
  <2> QED
    BY <2>1, <2>3, ReportKeeps
<1>4. CASE FailConversion(t)
  BY <1>4, ReportKeeps, GridTyped DEF FailConversion
<1> QED
  BY <1>1, <1>2, <1>3, <1>4

----------------------------------------------------------------------------
\* Actions of the user.

\* A step without the service that gives up the requests of ks, and of these
\* only, leaves every other flag with a request on its way.
LEMMA GiveUpKeys ==
    ASSUME ServiceInv, GridInv, todo = << >>, UNCHANGED <<calls, events, conversions, retries>>,
           NEW ks \in SUBSET Keys, Deactivate(ks),
           \A k \in Keys \ ks : flag[k] # 0 => pins'[k] > 0 /\ store'[k] = store[k]
    PROVE  /\ FlagsFit' /\ HandledOnce' /\ ActiveFit' /\ AnswersFit' /\ RenditionsFit'
           /\ \A k \in Keys : flag'[k] = IF k \in ks THEN 0 ELSE flag[k]
           /\ \A k : ~Asking(k)
           /\ flag' \in [Keys -> 0..Len(asks)] /\ active' \subseteq Calls
<1>1. /\ flag' = [k \in Keys |-> IF k \in ks THEN 0 ELSE flag[k]]
      /\ active' = active \ {flag[k] : k \in ks}
      /\ UNCHANGED <<asks, posted, pending, renditions, missed>>
  BY DEF Deactivate, calls, callVars, cacheVars, workVars
<1>2. /\ UNCHANGED <<Told, Reports, Reported, Calls, Converted>>
      /\ \A d : KeyOf(d)' = KeyOf(d) /\ (IsAnalysis(d)' <=> IsAnalysis(d))
  BY <1>1 DEF Told, Reports, Reported, Calls, Converted, KeyOf, IsAnalysis
<1>3. flag' \in [Keys -> 0..Len(asks)] /\ active' \subseteq Calls
  <2>1. Len(asks) \in Nat /\ 0 \in 0..Len(asks) /\ flag \in [Keys -> 0..Len(asks)]
    BY GridTyped
  <2> QED
    BY <1>1, <2>1, GridTyped
<1>4. \A k \in Keys : flag'[k] = IF k \in ks THEN 0 ELSE flag[k]
  BY <1>1
<1>5. \A k : ~Asking(k)
  BY DEF Asking
<1>6. ActiveFit'
  <2> SUFFICES ASSUME NEW c \in active'
               PROVE  flag'[KeyOf(c)] = c \/ c \in Told \ (Reported \cup Converted)
    BY <1>1, <1>2 DEF ActiveFit, KeyOf
  <2>1. c \in active /\ KeyOf(c) \in Keys
    BY <1>1, GridTyped
  <2> QED
    BY <1>1, <1>4, <2>1 DEF GridInv, ActiveFit
<1>7. AnswersFit'
  <2> SUFFICES ASSUME NEW i \in Reports, NEW c, c = events[i].call
               PROVE  /\ events[i].status = "canceled" => c \notin active'
                      /\ events[i].status = "shown" /\ c \in active' => store'[KeyOf(c)] # NoImage
    BY <1>2 DEF AnswersFit, KeyOf
  <2>1. ASSUME events[i].status = "shown", c \in active' PROVE store'[KeyOf(c)] # NoImage
    <3>1. c \in active /\ c \in Reported /\ KeyOf(c) \in Keys /\ c # 0
      BY <1>1, <2>1, GridTyped DEF Reported
    <3>2. flag[KeyOf(c)] = c /\ store[KeyOf(c)] # NoImage
      BY <2>1, <3>1 DEF GridInv, ActiveFit, AnswersFit
    <3>3. KeyOf(c) \notin ks
      BY <1>1, <2>1, <3>2
    <3> QED
      BY <3>1, <3>2, <3>3
  <2> QED
    BY <1>1, <2>1 DEF GridInv, AnswersFit
<1>8. FlagsFit'
  <2>1. ASSUME NEW k \in Keys, NEW c, c = flag'[k], c # 0
        PROVE  c \in active' /\ KeyOf(c) = k /\ pins'[k] > 0 /\ OnItsWay(c)'
    <3>1. k \notin ks /\ c = flag[k]
      BY <1>4, <2>1
    <3>2. c \in active /\ KeyOf(c) = k /\ OnItsWay(c)
      BY <1>5, <2>1, <3>1 DEF GridInv, FlagsFit
    <3>3. \A l \in ks : flag[l] # c
      BY <2>1, <3>1, <3>2 DEF GridInv, FlagsFit
    <3>4. Where(c) => Where(c)'
      BY <1>1, <1>2 DEF Where, Waiting, Due
    <3> QED
      BY <1>1, <2>1, <3>1, <3>2, <3>3, <3>4, OnItsWayMeans
  <2> QED
    BY <1>2, <2>1 DEF FlagsFit, KeyOf, OnItsWay
<1>9. HandledOnce'
  BY <1>2 DEF GridInv, HandledOnce
<1>10. RenditionsFit'
  BY <1>1, <1>2 DEF GridInv, RenditionsFit
<1> QED
  BY <1>3, <1>4, <1>5, <1>6, <1>7, <1>8, <1>9, <1>10

\* The requests stay.
LEMMA KeepFlags ==
    ASSUME ServiceInv, GridInv, UNCHANGED <<flag, active>>
    PROVE  Deactivate({})
<1>1. flag = [k \in Keys |-> flag[k]]
  BY GridTyped
<1> QED
  BY <1>1 DEF Deactivate

\* An action of the user whose pins, tiles and calls fit.
LEMMA UserFits ==
    ASSUME ServiceInv, ServiceInv', GridInv, todo = << >>,
           UNCHANGED <<calls, events, conversions, retries, unnoted>>,
           NEW ks \in SUBSET Keys, Deactivate(ks),
           \A k \in Keys \ ks : flag[k] # 0 => pins'[k] > 0 /\ store'[k] = store[k],
           TodoFits', TilesFit', todo' \in Seq(ServiceCalls), pins' \in [Keys -> Nat],
           tile' \in [Elements -> [tier : {0} \cup Tiers, loading : BOOLEAN, error : BOOLEAN]],
           store' \in [Keys -> {NoImage} \cup 0..MaxRevision]
    PROVE  GridInv'
<1>1. /\ FlagsFit' /\ HandledOnce' /\ ActiveFit' /\ AnswersFit' /\ RenditionsFit'
      /\ flag' \in [Keys -> 0..Len(asks)] /\ active' \subseteq Calls
  BY GiveUpKeys
<1>2. UNCHANGED <<asks, Calls>>
  BY DEF calls, callVars, Calls
<1>3. AlbumTypeOK'
  BY <1>1, <1>2 DEF GridInv, AlbumTypeOK, ServiceInv, ServedInv
<1> QED
  BY <1>1, <1>3 DEF GridInv

LEMMA BlankTyped == Blank \in [tier : {0} \cup Tiers, loading : BOOLEAN, error : BOOLEAN]
BY DEF Blank

LEMMA ShowTileKeeps ==
    ASSUME ServiceInv, ServiceInv', GridInv, todo = << >>,
           UNCHANGED <<calls, events, conversions, unnoted>>, NEW k \in Keys, ShowTile(k)
    PROVE  GridInv'
<1>1. /\ pins' = [pins EXCEPT ![k] = @ + 1] /\ todo' \in {<<Request(k, FALSE)>>, << >>}
      /\ UNCHANGED <<flag, active, retries, tile, store>>
  BY DEF ShowTile
<1>2. /\ pins' \in [Keys -> Nat] /\ \A l \in Keys : pins[l] > 0 => pins'[l] > 0
      /\ pins'[k] > 0 /\ \A l \in Keys : l # k => pins'[l] = pins[l]
  BY <1>1, GridTyped
<1>3. Request(k, FALSE) \in ServiceCalls
  BY DEF Request, ServiceCalls
<1>4. todo' \in Seq(ServiceCalls)
  BY <1>1, <1>3, OneCall, NoCall
<1>5. \A i \in 1..Len(todo') : todo'[i].op = "request" /\ todo'[i].key = k
  BY <1>1 DEF Request
<1>6. TodoFits'
  BY <1>2, <1>5 DEF TodoFits
<1>7. \A l : ~Asking(l)
  BY DEF Asking
<1>8. TilesFit'
  <2> SUFFICES ASSUME NEW e \in Elements
               PROVE  /\ PinnedKeys(e)' = {} => tile[e] = Blank
                      /\ (tile[e].tier # 0 /\ store[<<e, tile[e].tier>>] = NoImage)
                            => \E l \in PinnedKeys(e)' : flag[l] # 0
    BY <1>1 DEF TilesFit, PinnedKeys, TiersOf
  <2>1. PinnedKeys(e) \subseteq PinnedKeys(e)'
    BY <1>2 DEF PinnedKeys, TiersOf
  <2> QED
    BY <1>7, <2>1 DEF GridInv, TilesFit
<1>9. \A l \in Keys : flag[l] # 0 => pins'[l] > 0
  BY <1>2 DEF GridInv, FlagsFit
<1> QED
  BY <1>1, <1>2, <1>4, <1>6, <1>8, <1>9, GridTyped, UserFits, KeepFlags

LEMMA HideOneOfTwo ==
    ASSUME ServiceInv, ServiceInv', GridInv, todo = << >>,
           UNCHANGED <<calls, events, conversions, unnoted>>, NEW k \in Keys, HideTile(k), pins[k] > 1
    PROVE  GridInv'
<1>1. /\ pins' = [pins EXCEPT ![k] = @ - 1]
      /\ UNCHANGED <<todo, flag, active, retries, tile, store>>
  BY DEF HideTile
<1>2. /\ pins' \in [Keys -> Nat] /\ \A l \in Keys : pins[l] > 0 <=> pins'[l] > 0
  BY <1>1, GridTyped
<1>3. TodoFits'
  BY <1>1 DEF TodoFits
<1>4. TilesFit'
  <2>1. \A e : PinnedKeys(e)' = PinnedKeys(e)
    BY <1>2 DEF PinnedKeys, TiersOf
  <2> QED
    BY <1>1, <2>1 DEF GridInv, TilesFit, Asking
<1>5. \A l \in Keys : flag[l] # 0 => pins'[l] > 0
  BY <1>2 DEF GridInv, FlagsFit
<1> QED
  BY <1>1, <1>2, <1>3, <1>4, <1>5, GridTyped, UserFits, KeepFlags

\* The last pin of a key: the other sizes of its image keep theirs, and the
\* largest of them is shown or asked for.
LEMMA TakeDownKeeps ==
    ASSUME ServiceInv, ServiceInv', GridInv, todo = << >>,
           UNCHANGED <<calls, events, conversions, unnoted>>, NEW k \in Keys, HideTile(k), pins[k] = 1
    PROVE  GridInv'
<1>0. PICK e \in Elements : e = ImageOf(k)
  BY DEF Keys, ImageOf
<1> DEFINE left == PinnedKeys(e) \ {k}
<1>1. /\ pins' = [pins EXCEPT ![k] = @ - 1] /\ TakeDown(k)
      /\ Deactivate({k}) /\ store' = [store EXCEPT ![k] = NoImage] /\ UNCHANGED retries
  BY SMTT(60) DEF HideTile, TakeDown
<1>2. /\ pins' \in [Keys -> Nat] /\ pins'[k] = 0 /\ \A l \in Keys : l # k => pins'[l] = pins[l]
      /\ store' \in [Keys -> {NoImage} \cup 0..MaxRevision]
      /\ \A l \in Keys : l # k => store'[l] = store[l]
  BY <1>1, GridTyped
<1>3. PinnedKeys(e)' = left /\ \A d \in Elements : d # e => PinnedKeys(d)' = PinnedKeys(d)
  BY <1>0, <1>2 DEF PinnedKeys, TiersOf
<1>4. /\ \A l \in Keys : flag'[l] = IF l = k THEN 0 ELSE flag[l]
      /\ \A l : ~Asking(l)
  BY <1>1, <1>2, GiveUpKeys DEF GridInv, FlagsFit
<1>5. \A l \in Keys \ {k} : flag[l] # 0 => pins'[l] > 0 /\ store'[l] = store[l]
  BY <1>2 DEF GridInv, FlagsFit
<1>6. Release(k) \in ServiceCalls /\ Release(k).op = "release" /\ Release(k).key = k
  BY DEF Release, ServiceCalls
<1>7. ASSUME NEW d \in Elements, d # e, tile'[d] = tile[d]
      PROVE  /\ PinnedKeys(d)' = {} => tile'[d] = Blank
             /\ (tile'[d].tier # 0 /\ store'[<<d, tile'[d].tier>>] = NoImage)
                   => \E l \in PinnedKeys(d)' : flag'[l] # 0
  <2>1. tile[d].tier # 0 => <<d, tile[d].tier>> \in Keys /\ <<d, tile[d].tier>> # k
    BY <1>0, <1>7, GridTyped DEF Keys, ImageOf
  <2>2. \A l \in PinnedKeys(d) : l \in Keys /\ l # k
    BY <1>0, <1>7 DEF PinnedKeys, TiersOf
  <2> QED
    BY <1>2, <1>3, <1>4, <1>7, <2>1, <2>2 DEF GridInv, TilesFit
<1>8. CASE left = {}
  <2>1. tile' = [tile EXCEPT ![e] = Blank] /\ todo' = <<Release(k)>>
    BY <1>0, <1>1, <1>8 DEF TakeDown
  <2>2. todo' \in Seq(ServiceCalls) /\ Len(todo') = 1 /\ todo'[1] = Release(k)
    BY <1>6, <2>1, OneCall
  <2>3. TodoFits'
    BY <1>2, <1>6, <2>2 DEF TodoFits
  <2>4. tile' \in [Elements -> [tier : {0} \cup Tiers, loading : BOOLEAN, error : BOOLEAN]]
    BY <2>1, GridTyped, BlankTyped
  <2>5. tile'[e] = Blank /\ Blank.tier = 0 /\ \A d \in Elements : d # e => tile'[d] = tile[d]
    BY <2>1, GridTyped DEF Blank
  <2>6. TilesFit'
    BY <1>7, <2>5 DEF TilesFit
  <2> QED
    BY <1>1, <1>2, <1>5, <2>2, <2>3, <2>4, <2>6, UserFits
<1>9. CASE left # {}
  <2> DEFINE largest == CHOOSE n \in left : \A m \in left : TierOf(n) >= TierOf(m)
  <2>1. PICK n \in left : n = largest
    <3>1. left \in SUBSET TiersOf(e)
      BY DEF PinnedKeys
    <3>2. \E n \in left : \A m \in left : TierOf(n) >= TierOf(m)
      BY <1>9, <3>1, LargestTier
    <3> QED
      BY <3>2
  <2>2. ShowsRemaining(e, n) /\ todo' = RequestsRemaining(n) \o <<Release(k)>>
    BY <1>0, <1>1, <1>9, <2>1 DEF TakeDown
  <2>3. /\ n \in Keys /\ n # k /\ ImageOf(n) = e /\ pins[n] > 0 /\ n \in PinnedKeys(e)'
        /\ n = <<e, TierOf(n)>> /\ TierOf(n) \in Tiers
    BY <1>3, <2>1 DEF PinnedKeys, TiersOf, Keys, ImageOf, TierOf
  <2>4. Request(n, FALSE) \in ServiceCalls
    BY <2>3 DEF Request, ServiceCalls
  <2>5. CASE store[n] # NoImage
    <3> DEFINE new == [Blank EXCEPT !.tier = TierOf(n)]
    <3>1. tile' = [tile EXCEPT ![e] = new] /\ RequestsRemaining(n) = << >>
      BY <2>2, <2>5 DEF ShowsRemaining, RequestsRemaining
    <3>2. new \in [tier : {0} \cup Tiers, loading : BOOLEAN, error : BOOLEAN] /\ new.tier = TierOf(n)
      BY <2>3 DEF Blank
    <3> HIDE DEF new
    <3>3. tile' \in [Elements -> [tier : {0} \cup Tiers, loading : BOOLEAN, error : BOOLEAN]]
      BY <3>1, <3>2, GridTyped
    <3>4. tile'[e] = new /\ \A d \in Elements : d # e => tile'[d] = tile[d]
      BY <3>1, GridTyped
    <3>5. TilesFit'
      <4>1. store'[<<e, tile'[e].tier>>] # NoImage
        BY <1>2, <2>3, <2>5, <3>2, <3>4, SMTT(60)
      <4> QED
        BY <1>7, <2>3, <3>4, <4>1 DEF TilesFit
    <3>6. todo' = <<Release(k)>>
      <4>1. <<Release(k)>> \in Seq(ServiceCalls)
        BY <1>6, OneCall
      <4> QED
        BY <2>2, <3>1, <4>1, ConcatEmptySeq
    <3>7. todo' \in Seq(ServiceCalls) /\ Len(todo') = 1 /\ todo'[1] = Release(k)
      BY <1>6, <3>6, OneCall
    <3>8. TodoFits'
      BY <1>2, <1>6, <3>7 DEF TodoFits
    <3> QED
      BY <1>1, <1>2, <1>5, <3>3, <3>5, <3>7, <3>8, UserFits
  <2>6. CASE store[n] = NoImage /\ flag[n] # 0
    <3>1. tile' = tile /\ RequestsRemaining(n) = << >>
      BY <2>2, <2>6 DEF ShowsRemaining, RequestsRemaining
    <3>2. TilesFit'
      <4>1. flag'[n] # 0
        BY <1>4, <2>3, <2>6
      <4> QED
        BY <1>7, <2>3, <3>1, <4>1 DEF TilesFit
    <3>3. todo' = <<Release(k)>>
      <4>1. <<Release(k)>> \in Seq(ServiceCalls)
        BY <1>6, OneCall
      <4> QED
        BY <2>2, <3>1, <4>1, ConcatEmptySeq
    <3>4. todo' \in Seq(ServiceCalls) /\ Len(todo') = 1 /\ todo'[1] = Release(k)
      BY <1>6, <3>3, OneCall
    <3>5. TodoFits'
      BY <1>2, <1>6, <3>4 DEF TodoFits
    <3> QED
      BY <1>1, <1>2, <1>5, <3>1, <3>2, <3>4, <3>5, GridTyped, UserFits, ZenonT(60)
  <2>7. CASE store[n] = NoImage /\ flag[n] = 0
    <3>1. tile' = tile /\ todo' = <<Request(n, FALSE)>> \o <<Release(k)>>
      BY <2>2, <2>7 DEF ShowsRemaining, RequestsRemaining
    <3>2. /\ todo' \in Seq(ServiceCalls) /\ Len(todo') = 2
          /\ todo'[1] = Request(n, FALSE) /\ todo'[2] = Release(k)
      <4>1. PICK c \in ServiceCalls, d \in ServiceCalls : c = Request(n, FALSE) /\ d = Release(k)
        BY <1>6, <2>4
      <4>2. todo' = <<c>> \o <<d>>
        BY <3>1, <4>1
      <4>3. todo' = <<c, d>>
        BY <4>2, TwoCalls
      <4> QED
        BY <4>1, <4>3, TwoCalls
    <3>3. Request(n, FALSE).op = "request" /\ Request(n, FALSE).key = n
      BY DEF Request
    <3>4. Asking(n)' /\ pins'[n] > 0
      <4>1. 1 \in 1..Len(todo')
        BY <3>2
      <4>2. todo'[1].op = "request" /\ todo'[1].key = n
        BY <3>2, <3>3
      <4> QED
        BY <1>2, <2>3, <4>1, <4>2 DEF Asking
    <3>5. TodoFits'
      <4>1. 1..Len(todo') = {1, 2}
        BY <3>2
      <4>2. todo'[1].op = "request" /\ todo'[1].key = n /\ todo'[2].op = "release" /\ todo'[2].key = k
        BY <1>6, <3>2, <3>3
      <4> QED
        BY <1>2, <3>4, <4>1, <4>2 DEF TodoFits
    <3>6. TilesFit'
      BY <1>7, <2>3, <3>1, <3>4 DEF TilesFit
    <3> QED
      BY <1>1, <1>2, <1>5, <3>1, <3>2, <3>5, <3>6, GridTyped, UserFits, ZenonT(60)
  <2> QED
    BY <2>5, <2>6, <2>7
<1> QED
  BY <1>8, <1>9

LEMMA ReleaseVisibleKeeps ==
    ASSUME ServiceInv, ServiceInv', GridInv, todo = << >>,
           UNCHANGED <<calls, events, conversions, unnoted>>, ReleaseVisibleThumbnailPins
    PROVE  GridInv'
<1> DEFINE pinned == {k \in Keys : pins[k] > 0}
<1>1. /\ Deactivate(pinned) /\ pins' = [k \in Keys |-> 0] /\ tile' = [e \in Elements |-> Blank]
      /\ store' = [k \in Keys |-> NoImage] /\ todo' = Releases(pinned) /\ UNCHANGED retries
  BY DEF ReleaseVisibleThumbnailPins
<1>2. /\ todo' \in Seq(ServiceCalls)
      /\ \A i \in 1..Len(todo') : todo'[i].op = "release" /\ todo'[i].key \in Keys
  BY <1>1, ReleasesOf
<1>3. pins' \in [Keys -> Nat] /\ \A k \in Keys : pins'[k] = 0
  BY <1>1
<1>4. store' \in [Keys -> {NoImage} \cup 0..MaxRevision]
  BY <1>1
<1>5. tile' \in [Elements -> [tier : {0} \cup Tiers, loading : BOOLEAN, error : BOOLEAN]]
  BY <1>1, BlankTyped
<1>6. TodoFits'
  BY <1>2, <1>3 DEF TodoFits
<1>7. TilesFit'
  BY <1>1 DEF TilesFit, Blank
<1>8. \A k \in Keys \ pinned : flag[k] # 0 => pins'[k] > 0 /\ store'[k] = store[k]
  BY DEF GridInv, FlagsFit
<1> HIDE DEF pinned
<1>9. pinned \in SUBSET Keys
  BY DEF pinned
<1> QED
  BY <1>1, <1>2, <1>3, <1>4, <1>5, <1>6, <1>7, <1>8, <1>9, UserFits

LEMMA RemoveStateKeeps ==
    ASSUME ServiceInv, ServiceInv', GridInv, todo = << >>,
           UNCHANGED <<calls, events, conversions, unnoted>>,
           NEW e \in Elements, RemoveThumbnailState(e)
    PROVE  GridInv'
<1>0. PICK ks \in SUBSET Keys : ks = TiersOf(e)
  BY DEF TiersOf
<1>1. /\ Deactivate(ks) /\ pins' = [k \in Keys |-> IF k \in ks THEN 0 ELSE pins[k]]
      /\ tile' = [tile EXCEPT ![e] = Blank]
      /\ store' = [k \in Keys |-> IF k \in ks THEN NoImage ELSE store[k]]
      /\ todo' = <<CancelAll(e), Invalidate(e)>> /\ UNCHANGED retries
  BY <1>0 DEF RemoveThumbnailState
<1>2. /\ pins' \in [Keys -> Nat] /\ store' \in [Keys -> {NoImage} \cup 0..MaxRevision]
      /\ \A k \in Keys : pins'[k] = (IF k \in ks THEN 0 ELSE pins[k])
      /\ \A k \in Keys : store'[k] = (IF k \in ks THEN NoImage ELSE store[k])
  BY <1>1, GridTyped
<1>3. /\ CancelAll(e) \in ServiceCalls /\ Invalidate(e) \in ServiceCalls
      /\ CancelAll(e).op = "cancel" /\ CancelAll(e).image = e
      /\ Invalidate(e).op = "invalidate" /\ Invalidate(e).image = e
  BY DEF CancelAll, Invalidate, ServiceCalls
<1>4. /\ todo' \in Seq(ServiceCalls) /\ Len(todo') = 2
      /\ todo'[1] = CancelAll(e) /\ todo'[2] = Invalidate(e)
  BY <1>1, <1>3, TwoCalls
<1>5. \A k \in Keys \ ks : flag[k] # 0 => pins'[k] > 0 /\ store'[k] = store[k]
  BY <1>2 DEF GridInv, FlagsFit
<1>6. \A k \in Keys : flag'[k] = IF k \in ks THEN 0 ELSE flag[k]
  BY <1>1, <1>5, GiveUpKeys
<1>7. TodoFits'
  BY <1>0, <1>2, <1>3, <1>4, <1>6 DEF TodoFits, TiersOf
<1>8. tile' \in [Elements -> [tier : {0} \cup Tiers, loading : BOOLEAN, error : BOOLEAN]]
      /\ tile'[e] = Blank /\ Blank.tier = 0 /\ \A d \in Elements : d # e => tile'[d] = tile[d]
  BY <1>1, GridTyped, BlankTyped DEF Blank
<1>9. TilesFit'
  <2> SUFFICES ASSUME NEW d \in Elements, d # e
               PROVE  /\ PinnedKeys(d)' = {} => tile[d] = Blank
                      /\ (tile[d].tier # 0 /\ store'[<<d, tile[d].tier>>] = NoImage)
                            => \E l \in PinnedKeys(d)' : flag'[l] # 0
    BY <1>8 DEF TilesFit
  <2>1. \A l \in TiersOf(d) : l \in Keys /\ l \notin ks
    BY <1>0 DEF TiersOf
  <2>2. PinnedKeys(d)' = PinnedKeys(d)
    BY <1>2, <2>1 DEF PinnedKeys, TiersOf
  <2>3. tile[d].tier # 0 => <<d, tile[d].tier>> \in TiersOf(d)
    BY GridTyped DEF Keys, TiersOf, ImageOf
  <2>4. \A l : ~Asking(l)
    BY DEF Asking
  <2>5. \A l \in PinnedKeys(d) : l \in TiersOf(d)
    BY DEF PinnedKeys
  <2> QED
    BY <1>2, <1>6, <2>1, <2>2, <2>3, <2>4, <2>5 DEF GridInv, TilesFit
<1> QED
  BY <1>1, <1>2, <1>4, <1>5, <1>7, <1>8, <1>9, UserFits

LEMMA UserKeeps ==
    ASSUME ServiceInv, ServiceInv', GridInv, User
    PROVE  GridInv'
<1>1. todo = << >> /\ UNCHANGED <<calls, events, conversions, unnoted>>
  BY DEF User, Idle
<1>2. ASSUME NEW k \in Keys, HideTile(k) PROVE GridInv'
  <2>1. pins[k] > 1 \/ pins[k] = 1
    BY <1>2, GridTyped DEF HideTile
  <2> QED
    BY <1>1, <1>2, <2>1, HideOneOfTwo, TakeDownKeeps
<1> QED
  BY <1>1, <1>2, ShowTileKeeps, ReleaseVisibleKeeps, RemoveStateKeeps DEF User

----------------------------------------------------------------------------
\* The events.

\* Taking the first event leaves the reports of the others.
LEMMA TakeReports ==
    ASSUME ServiceInv, GridInv, Take
    PROVE  /\ events' \in Seq(EventsOf(Len(asks)))
           /\ Head(events) = events[1] /\ events[1] \in EventsOf(Len(asks))
           /\ \A i \in Reports' : i + 1 \in Reports /\ events'[i] = events[i + 1]
           /\ 1 \notin Reports => Reported' = Reported
           /\ 1 \in Reports => /\ Reported' = Reported \ {events[1].call}
                               /\ events[1].call \in Reported /\ events[1].call \in Calls
           /\ 1 \in Reports <=> events[1].status # "changed"
<1>1. /\ events # << >> /\ events' = Tail(events) /\ events \in Seq(EventsOf(Len(asks)))
      /\ Len(events) \in Nat
  BY GridTyped DEF Take
<1>2. Len(events) \in Nat \ {0}
  BY <1>1, EmptySeq
<1>3. /\ events' \in Seq(EventsOf(Len(asks))) /\ Head(events) = events[1]
      /\ events[1] \in EventsOf(Len(asks)) /\ Len(events') = Len(events) - 1
      /\ \A i \in 1..Len(events') : events'[i] = events[i + 1]
  BY <1>1, <1>2, HeadTailProperties
<1>4. \A i \in Reports' : i + 1 \in Reports /\ events'[i] = events[i + 1]
  BY <1>2, <1>3 DEF Reports
<1>5. \A i \in Reports : i # 1 => i - 1 \in Reports' /\ events'[i - 1] = events[i]
  <2> SUFFICES ASSUME NEW i \in Reports, i # 1
               PROVE  i - 1 \in Reports' /\ events'[i - 1] = events[i]
    OBVIOUS
  <2>1. i - 1 \in 1..Len(events') /\ (i - 1) + 1 = i
    BY <1>2, <1>3 DEF Reports
  <2>2. events'[i - 1] = events[i]
    BY <1>3, <2>1
  <2> QED
    BY <2>1, <2>2 DEF Reports
<1>6. 1 \in Reports <=> events[1].status # "changed"
  BY <1>2 DEF Reports
<1>7. \A c : c \in Reported <=> \E i \in Reports : events[i].call = c
  BY DEF Reported
<1>8. \A c : c \in Reported' <=> \E i \in Reports' : events'[i].call = c
  BY DEF Reported
<1>9. \A c : c \in Reported' => c \in Reported
  BY <1>4, <1>7, <1>8
<1>10. ASSUME NEW c \in Reported, 1 \in Reports => c # events[1].call PROVE c \in Reported'
  <2>1. PICK i \in Reports : events[i].call = c
    BY <1>7
  <2>2. i # 1
    BY <1>10, <2>1
  <2> QED
    BY <1>5, <1>8, <2>1, <2>2
<1>11. ASSUME 1 \in Reports PROVE events[1].call \notin Reported'
  <2>1. \A i \in Reports : i # 1 => events[i].call # events[1].call
    BY <1>11 DEF GridInv, HandledOnce
  <2>2. \A i \in Reports' : i + 1 # 1
    BY <1>2, <1>3 DEF Reports
  <2> QED
    BY <1>4, <1>8, <2>1, <2>2
<1>12. 1 \in Reports => events[1].call \in Reported /\ events[1].call \in Calls
  BY <1>7, GridTyped
<1> QED
  BY <1>3, <1>4, <1>6, <1>9, <1>10, <1>11, <1>12

\* What an event leaves alone.
EventStays == UNCHANGED <<calls, pins, active, retries, store, unnoted>>

\* An event keeps the answers of the others.
LEMMA TakeKeeps ==
    ASSUME ServiceInv, GridInv, Take, UNCHANGED <<calls, active, store>>
    PROVE  /\ AnswersFit' /\ RenditionsFit'
           /\ \A i, j \in Reports' : events'[i].call = events'[j].call => i = j
           /\ UNCHANGED <<Told, Calls, missed>>
           /\ \A k : Waiting(k)' = Waiting(k) /\ Due(k)' = Due(k)
           /\ \A d : KeyOf(d)' = KeyOf(d)
<1>1. UNCHANGED <<asks, posted, pending, renditions, missed>>
  BY DEF calls, callVars, cacheVars, workVars
<1>2. /\ UNCHANGED <<Told, Calls>>
      /\ \A d : KeyOf(d)' = KeyOf(d) /\ (IsAnalysis(d)' <=> IsAnalysis(d))
      /\ \A k : Waiting(k)' = Waiting(k) /\ Due(k)' = Due(k)
  BY <1>1 DEF Told, Calls, KeyOf, IsAnalysis, Waiting, Due
<1>3. \A i \in Reports' : i + 1 \in Reports /\ events'[i] = events[i + 1]
  BY TakeReports
<1>4. AnswersFit'
  <2> SUFFICES ASSUME NEW i \in Reports', NEW d, d = events'[i].call
               PROVE  /\ events'[i].status = "canceled" => d \notin active
                      /\ events'[i].status = "shown" /\ d \in active => store[KeyOf(d)] # NoImage
    BY <1>2 DEF AnswersFit, KeyOf
  <2> QED
    BY <1>3 DEF GridInv, AnswersFit
<1>5. ASSUME NEW i \in Reports', NEW j \in Reports', events'[i].call = events'[j].call
      PROVE  i = j
  <2>1. i + 1 = j + 1 /\ i \in Int /\ j \in Int
    BY <1>3, <1>5 DEF GridInv, HandledOnce, Reports
  <2> QED
    BY <2>1
<1>6. RenditionsFit'
  BY <1>1, <1>2 DEF GridInv, RenditionsFit
<1> QED
  BY <1>1, <1>2, <1>4, <1>5, <1>6

LEMMA RefreshKeeps ==
    ASSUME ServiceInv, ServiceInv', GridInv, todo = << >>, Take,
           UNCHANGED <<calls, unnoted, conversions>>, events[1].status = "changed",
           NEW e \in Elements, Refresh(e)
    PROVE  GridInv'
<1>1. /\ todo' = <<Invalidate(e)>> \o Requests(PinnedKeys(e))
      /\ UNCHANGED <<pins, flag, active, retries, tile, store>>
  BY DEF Refresh, gridVars
<1>2. PICK asked : asked = Requests(PinnedKeys(e))
  OBVIOUS
<1>3. PICK first : first = Invalidate(e)
  OBVIOUS
<1>4. /\ asked \in Seq(ServiceCalls) /\ Len(asked) \in Nat
      /\ \A i \in 1..Len(asked) : asked[i].op = "request" /\ asked[i].key \in PinnedKeys(e)
      /\ \A k \in PinnedKeys(e) :
            \E i \in 1..Len(asked) : asked[i].op = "request" /\ asked[i].key = k
  <2>1. PinnedKeys(e) \in SUBSET TiersOf(e)
    BY DEF PinnedKeys
  <2> QED
    BY <1>2, <2>1, RequestsOf
<1>5. first \in ServiceCalls /\ first.op = "invalidate" /\ first.image = e
  BY <1>3 DEF Invalidate, ServiceCalls
<1>6. /\ todo' \in Seq(ServiceCalls) /\ Len(todo') = 1 + Len(asked)
      /\ \A i \in 1..1 + Len(asked) : todo'[i] = IF i <= 1 THEN <<first>>[i] ELSE asked[i - 1]
  <2>1. <<first>> \in Seq(ServiceCalls) /\ Len(<<first>>) = 1
    BY <1>5, OneCall
  <2> QED
    BY <1>1, <1>2, <1>3, <1>4, <2>1, ConcatProperties
<1>7. /\ 1 \in 1..Len(todo') /\ todo'[1] = first
      /\ \A i \in 1..Len(todo') : i # 1 => i - 1 \in 1..Len(asked) /\ todo'[i] = asked[i - 1]
      /\ \A i \in 1..Len(asked) : i + 1 \in 1..Len(todo') /\ todo'[i + 1] = asked[i]
  <2>1. 1 \in 1..Len(todo') /\ 1 \in 1..1 + Len(asked)
    BY <1>4, <1>6
  <2>2. todo'[1] = first
    BY <1>5, <1>6, <2>1, OneCall
  <2>3. \A i \in 1..Len(todo') : i # 1 => i - 1 \in 1..Len(asked) /\ todo'[i] = asked[i - 1]
    BY <1>4, <1>6
  <2>4. ASSUME NEW i \in 1..Len(asked) PROVE i + 1 \in 1..Len(todo') /\ todo'[i + 1] = asked[i]
    <3>1. i + 1 \in 1..Len(todo') /\ i + 1 # 1 /\ (i + 1) - 1 = i
      BY <1>4, <1>6
    <3>2. todo'[i + 1] = asked[(i + 1) - 1]
      BY <2>3, <3>1
    <3> QED
      BY <3>1, <3>2
  <2> QED
    BY <2>1, <2>2, <2>3, <2>4
<1>8. ASSUME NEW k \in PinnedKeys(e) PROVE Asking(k)'
  <2>1. PICK i \in 1..Len(asked) : asked[i].op = "request" /\ asked[i].key = k
    BY <1>4
  <2>2. i + 1 \in 1..Len(todo') /\ todo'[i + 1] = asked[i]
    BY <1>7
  <2> QED
    BY <2>1, <2>2 DEF Asking
<1>9. TodoFits'
  <2>1. \A k \in PinnedKeys(e) : pins[k] > 0
    BY DEF PinnedKeys
  <2>2. \A k \in TiersOf(e) : flag[k] # 0 => Asking(k)'
    BY <1>8 DEF GridInv, FlagsFit, PinnedKeys, TiersOf
  <2>3. ASSUME NEW i \in 1..Len(todo')
        PROVE  /\ todo'[i].op = "request" => pins[todo'[i].key] > 0
               /\ todo'[i].op # "release" /\ todo'[i].op # "cancel"
               /\ todo'[i].op = "invalidate" => todo'[i].image = e /\ i = 1
    <3>1. CASE i = 1
      BY <1>5, <1>7, <3>1
    <3>2. CASE i # 1
      BY <1>4, <1>7, <2>1, <3>2
    <3> QED
      BY <3>1, <3>2
  <2>4. \A j \in 1..(1 - 1) : FALSE
    OBVIOUS
  <2> SUFFICES ASSUME NEW i \in 1..Len(todo')
               PROVE  /\ todo'[i].op = "request" => pins'[todo'[i].key] > 0
                      /\ todo'[i].op = "release" => pins'[todo'[i].key] = 0
                      /\ todo'[i].op = "cancel" =>
                            \A k \in TiersOf(todo'[i].image) : pins'[k] = 0
                      /\ todo'[i].op = "invalidate" =>
                            /\ \A k \in TiersOf(todo'[i].image) : flag'[k] # 0 => Asking(k)'
                            /\ \A j \in 1..(i - 1) : todo'[j].op # "request"
    BY DEF TodoFits, TiersOf
  <2> QED
    BY <1>1, <2>2, <2>3, <2>4
<1>10. /\ AnswersFit' /\ RenditionsFit'
       /\ \A i, j \in Reports' : events'[i].call = events'[j].call => i = j
       /\ UNCHANGED <<Told, Calls>> /\ \A d : KeyOf(d)' = KeyOf(d)
       /\ events' \in Seq(EventsOf(Len(asks))) /\ Reported' = Reported /\ Converted' = Converted
  BY <1>1, TakeKeeps, TakeReports DEF Converted
<1>11. HandledOnce' /\ ActiveFit'
  BY <1>1, <1>10 DEF GridInv, HandledOnce, ActiveFit, KeyOf
<1>12. \A l : ~Asking(l)
  BY DEF Asking
<1>13. FlagsFit'
  <2>1. ASSUME NEW k \in Keys, NEW d, d = flag[k], d # 0
        PROVE  d \in active /\ KeyOf(d) = k /\ pins[k] > 0 /\ OnItsWay(d)'
    <3>1. d \in active /\ KeyOf(d) = k /\ pins[k] > 0 /\ OnItsWay(d)
      BY <1>12, <2>1 DEF GridInv, FlagsFit
    <3>2. Where(d) => Where(d)'
      BY <1>1, <1>10, TakeKeeps DEF Where
    <3> QED
      BY <3>1, <3>2, OnItsWayMeans
  <2> QED
    BY <1>1, <1>10, <2>1 DEF FlagsFit, KeyOf, OnItsWay
<1>14. TilesFit'
  BY <1>1, <1>12 DEF GridInv, TilesFit, PinnedKeys, TiersOf
<1>15. AlbumTypeOK'
  <2>1. UNCHANGED <<asks, Calls>>
    BY DEF calls, callVars, Calls
  <2> QED
    BY <1>1, <1>6, <1>10, <2>1 DEF GridInv, AlbumTypeOK, ServiceInv, ServedInv
<1> QED
  BY <1>9, <1>10, <1>11, <1>13, <1>14, <1>15 DEF GridInv

\* The report of a call is handled: who is left with a flag still has a request
\* on its way.
LEMMA ReportHandled ==
    ASSUME ServiceInv, ServiceInv', GridInv, todo = << >>, Take,
           UNCHANGED <<calls, pins, active, retries, store, unnoted>>,
           1 \in Reports, NEW c, c = events[1].call,
           Converted \subseteq Converted', Converted' \subseteq Converted \cup {c},
           \A u, v \in conversions' : u.call = v.call => u = v,
           \A k \in Keys : flag[k] # c => flag'[k] = flag[k],
           \A k \in Keys : flag'[k] \in {flag[k], 0},
           \A k \in Keys : flag'[k] = c /\ c # 0 /\ c \in active /\ KeyOf(c) = k
                              => c \in Converted' \/ Asking(k)',
           c \in active => flag'[KeyOf(c)] = c \/ c \notin Converted',
           TodoFits', TilesFit', todo' \in Seq(ServiceCalls), flag' \in [Keys -> 0..Len(asks)],
           tile' \in [Elements -> [tier : {0} \cup Tiers, loading : BOOLEAN, error : BOOLEAN]],
           conversions' \subseteq [call : Calls, rev : 0..MaxRevision, at : {"started", "passed"}]
    PROVE  GridInv'
<1>1. /\ AnswersFit' /\ RenditionsFit'
      /\ \A i, j \in Reports' : events'[i].call = events'[j].call => i = j
      /\ UNCHANGED <<Told, Calls, missed>>
      /\ \A k : Waiting(k)' = Waiting(k) /\ Due(k)' = Due(k)
      /\ \A d : KeyOf(d)' = KeyOf(d)
  BY TakeKeeps
<1>2. /\ events' \in Seq(EventsOf(Len(asks)))
      /\ Reported' = Reported \ {c} /\ c \in Reported /\ c \in Calls
  BY TakeReports
<1>3. HandledOnce'
  BY <1>1, <1>2 DEF GridInv, HandledOnce
<1>4. ActiveFit'
  <2> SUFFICES ASSUME NEW d \in active
               PROVE  flag'[KeyOf(d)] = d \/ d \in Told \ (Reported' \cup Converted')
    BY <1>1 DEF ActiveFit, KeyOf
  <2>1. KeyOf(d) \in Keys
    BY GridTyped
  <2>2. CASE d = c
    BY <1>2, <2>2 DEF GridInv, HandledOnce
  <2>3. CASE d # c
    BY <1>2, <2>1, <2>3 DEF GridInv, ActiveFit
  <2> QED
    BY <2>2, <2>3
<1>5. \A l : ~Asking(l)
  BY DEF Asking
<1>6. FlagsFit'
  <2>1. ASSUME NEW k \in Keys, NEW d, d = flag'[k], d # 0
        PROVE  d \in active /\ KeyOf(d) = k /\ pins[k] > 0 /\ (OnItsWay(d)' \/ Asking(k)')
    <3>1. d = flag[k] /\ d \in active /\ KeyOf(d) = k /\ pins[k] > 0 /\ OnItsWay(d)
      BY <1>5, <2>1 DEF GridInv, FlagsFit
    <3>2. CASE d = c
      BY <2>1, <3>1, <3>2, OnItsWayMeans DEF Where
    <3>3. CASE d # c
      <4>1. Where(d) => Where(d)'
        BY <1>1, <1>2, <3>3 DEF Where
      <4> QED
        BY <3>1, <4>1, OnItsWayMeans
    <3> QED
      BY <3>1, <3>2, <3>3
  <2> QED
    BY <1>1, <2>1 DEF FlagsFit, KeyOf, OnItsWay
<1>7. AlbumTypeOK'
  <2>1. UNCHANGED <<asks, Calls>>
    BY DEF calls, callVars, Calls
  <2> QED
    BY <1>2, <2>1 DEF GridInv, AlbumTypeOK, ServiceInv, ServedInv
<1> QED
  BY <1>1, <1>3, <1>4, <1>6, <1>7 DEF GridInv

\* Whoever's report comes has its flag in the map if it is on.
LEMMA ReportedFlag ==
    ASSUME ServiceInv, GridInv, 1 \in Reports, NEW c, c = events[1].call
    PROVE  /\ c \in Calls /\ c # 0 /\ c \in Reported /\ c \notin Converted
           /\ KeyOf(c) \in Keys /\ ImageOf(KeyOf(c)) \in Elements /\ TierOf(KeyOf(c)) \in Tiers
           /\ KeyOf(c) = <<ImageOf(KeyOf(c)), TierOf(KeyOf(c))>>
           /\ events[1].rev \in 0..MaxRevision
           /\ events[1].status = "canceled" => c \notin active
           /\ events[1].status = "shown" /\ c \in active => store[KeyOf(c)] # NoImage
           /\ c \in active => flag[KeyOf(c)] = c /\ pins[KeyOf(c)] > 0
           /\ \A k \in Keys : flag[k] = c => c \in active /\ KeyOf(c) = k
<1>1. c \in Reported
  BY DEF Reported
<1>2. /\ c \in Calls /\ c # 0 /\ KeyOf(c) \in Keys /\ ImageOf(KeyOf(c)) \in Elements
      /\ TierOf(KeyOf(c)) \in Tiers /\ KeyOf(c) = <<ImageOf(KeyOf(c)), TierOf(KeyOf(c))>>
      /\ events[1].rev \in 0..MaxRevision
  BY GridTyped
<1>3. c \in active => flag[KeyOf(c)] = c /\ pins[KeyOf(c)] > 0
  BY <1>1, <1>2 DEF GridInv, ActiveFit, FlagsFit
<1>4. \A k \in Keys : flag[k] = c => c \in active /\ KeyOf(c) = k
  BY <1>2 DEF GridInv, FlagsFit
<1> QED
  BY <1>1, <1>2, <1>3, <1>4 DEF GridInv, HandledOnce, AnswersFit

\* A handler that does nothing but look at a flag that is off.
LEMMA IgnoreKeeps ==
    ASSUME ServiceInv, ServiceInv', GridInv, todo = << >>, Take, 1 \in Reports,
           UNCHANGED <<calls, gridVars, store, unnoted, todo, conversions>>,
           NEW c, c = events[1].call, c \notin active
    PROVE  GridInv'
<1>1. UNCHANGED <<pins, flag, active, retries, tile, Converted>>
  BY DEF gridVars, Converted
<1>2. todo' \in Seq(ServiceCalls) /\ TodoFits' /\ TilesFit'
  BY <1>1, GridTyped DEF GridInv, TodoFits, TilesFit, PinnedKeys, TiersOf, Asking
<1> QED
  BY <1>1, <1>2, GridTyped, ReportedFlag, ReportHandled DEF GridInv, HandledOnce, AlbumTypeOK

LEMMA ConvertKeeps ==
    ASSUME ServiceInv, ServiceInv', GridInv, todo = << >>, Take, 1 \in Reports,
           UNCHANGED <<calls, store, unnoted>>, Convert(events[1]),
           NEW c, c = events[1].call, c \in active
    PROVE  GridInv'
<1> DEFINE new == [call |-> c, rev |-> events[1].rev, at |-> "started"]
<1>1. /\ UNCHANGED <<pins, flag, active, retries, tile, todo>>
      /\ conversions' = conversions \cup {new}
  BY DEF Convert, gridVars
<1>2. new \in [call : Calls, rev : 0..MaxRevision, at : {"started", "passed"}] /\ new.call = c
  BY ReportedFlag
<1> HIDE DEF new
<1>3. todo' \in Seq(ServiceCalls) /\ TodoFits' /\ TilesFit'
  BY <1>1, GridTyped DEF GridInv, TodoFits, TilesFit, PinnedKeys, TiersOf, Asking
<1>4. Converted' = Converted \cup {c}
  <2>1. ASSUME NEW d PROVE d \in Converted' <=> d \in Converted \cup {c}
    BY <1>1, <1>2 DEF Converted
  <2> QED
    BY <2>1
<1>5. \A u, v \in conversions' : u.call = v.call => u = v
  <2>1. \A t \in conversions : t.call # c
    BY ReportedFlag DEF Converted
  <2> QED
    BY <1>1, <1>2, <2>1 DEF GridInv, HandledOnce
<1>6. conversions' \subseteq [call : Calls, rev : 0..MaxRevision, at : {"started", "passed"}]
  BY <1>1, <1>2 DEF GridInv, AlbumTypeOK
<1> QED
  BY <1>1, <1>3, <1>4, <1>5, <1>6, GridTyped, ReportedFlag, ReportHandled

LEMMA RetryKeeps ==
    ASSUME ServiceInv, ServiceInv', GridInv, todo = << >>, Take, 1 \in Reports,
           UNCHANGED <<calls, store, unnoted>>,
           NEW c, c = events[1].call, c \in active, Retry(c)
    PROVE  GridInv'
<1>1. /\ UNCHANGED <<pins, flag, active, retries, tile, conversions, Converted>>
      /\ todo' = <<Request(KeyOf(c), TRUE)>> /\ pins[KeyOf(c)] > 0
  BY DEF Retry, gridVars, Converted
<1>2. PICK r : r = Request(KeyOf(c), TRUE)
  OBVIOUS
<1>3. r \in ServiceCalls /\ r.op = "request" /\ r.key = KeyOf(c)
  BY <1>2, ReportedFlag DEF Request, ServiceCalls
<1>4. todo' \in Seq(ServiceCalls) /\ Len(todo') = 1 /\ todo'[1] = r
  BY <1>1, <1>2, <1>3, OneCall
<1>5. TodoFits'
  <2>1. \A i \in 1..Len(todo') : i = 1
    BY <1>4
  <2>2. todo'[1].op = "request" /\ pins'[todo'[1].key] > 0
    BY <1>1, <1>3, <1>4
  <2> QED
    BY <2>1, <2>2 DEF TodoFits
<1>6. \A l : ~Asking(l)
  BY DEF Asking
<1>7. TilesFit'
  BY <1>1, <1>6 DEF GridInv, TilesFit, PinnedKeys, TiersOf
<1>8. \A k \in Keys : KeyOf(c) = k => Asking(k)'
  <2>1. 1 \in 1..Len(todo')
    BY <1>4
  <2> QED
    BY <1>3, <1>4, <2>1 DEF Asking
<1> QED
  BY <1>1, <1>4, <1>5, <1>7, <1>8, GridTyped, ReportedFlag, ReportHandled
  DEF GridInv, HandledOnce, AlbumTypeOK

\* The request is over and its row shows how it ended.
LEMMA FinishKeeps ==
    ASSUME ServiceInv, ServiceInv', GridInv, todo = << >>, Take, 1 \in Reports,
           UNCHANGED <<calls, pins, active, retries, store, unnoted, conversions>>,
           todo' = << >>, NEW c, c = events[1].call, c \in active, Finished(c),
           NEW new \in [tier : {0} \cup Tiers, loading : BOOLEAN, error : BOOLEAN],
           tile' = [tile EXCEPT ![ImageOf(KeyOf(c))] = new],
           \/ new.tier = 0
           \/ new.tier = TierOf(KeyOf(c)) /\ store[KeyOf(c)] # NoImage
    PROVE  GridInv'
<1>0. PICK k \in Keys, e \in Elements : k = KeyOf(c) /\ e = ImageOf(k) /\ k = <<e, TierOf(k)>>
  BY ReportedFlag
<1>1. /\ flag' = [flag EXCEPT ![k] = IF @ = c THEN 0 ELSE @] /\ Converted' = Converted
      /\ flag[k] = c /\ pins[k] > 0 /\ c \in Calls /\ c # 0 /\ c \notin Converted
  BY <1>0, ReportedFlag DEF Finished, Converted
<1>2. flag' \in [Keys -> 0..Len(asks)] /\ flag'[k] = 0 /\ \A l \in Keys : l # k => flag'[l] = flag[l]
  <2>1. Len(asks) \in Nat /\ 0 \in 0..Len(asks)
    BY GridTyped
  <2> QED
    BY <1>1, <2>1, GridTyped
<1>3. /\ tile' \in [Elements -> [tier : {0} \cup Tiers, loading : BOOLEAN, error : BOOLEAN]]
      /\ tile'[e] = new /\ \A d \in Elements : d # e => tile'[d] = tile[d]
  BY <1>0, GridTyped
<1>4. \A l : ~Asking(l)
  BY DEF Asking
<1>5. todo' \in Seq(ServiceCalls) /\ TodoFits'
  BY NoCall DEF TodoFits
<1>6. TilesFit'
  <2> SUFFICES ASSUME NEW d \in Elements
               PROVE  /\ PinnedKeys(d) = {} => tile'[d] = Blank
                      /\ (tile'[d].tier # 0 /\ store[<<d, tile'[d].tier>>] = NoImage)
                            => \E l \in PinnedKeys(d) : flag'[l] # 0
    BY DEF TilesFit, PinnedKeys, TiersOf
  <2>1. CASE d = e
    <3>1. k \in PinnedKeys(d)
      BY <1>0, <1>1, <2>1 DEF PinnedKeys, TiersOf
    <3>2. tile'[d].tier # 0 => store[<<d, tile'[d].tier>>] # NoImage
      BY <1>0, <1>3, <2>1
    <3> QED
      BY <3>1, <3>2
  <2>2. CASE d # e
    <3>1. \A l \in PinnedKeys(d) : l \in Keys /\ l # k
      BY <1>0, <2>2 DEF PinnedKeys, TiersOf
    <3> QED
      BY <1>2, <1>3, <1>4, <2>2, <3>1 DEF GridInv, TilesFit
  <2> QED
    BY <2>1, <2>2
<1>7. /\ \A l \in Keys : flag[l] # c => flag'[l] = flag[l]
      /\ \A l \in Keys : flag'[l] \in {flag[l], 0}
      /\ \A l \in Keys : KeyOf(c) = l => flag'[l] # c
  BY <1>0, <1>1, <1>2
<1>8. \A u, v \in conversions' : u.call = v.call => u = v
  BY DEF GridInv, HandledOnce
<1>9. conversions' \subseteq [call : Calls, rev : 0..MaxRevision, at : {"started", "passed"}]
  BY DEF GridInv, AlbumTypeOK
<1> QED
  BY <1>1, <1>2, <1>3, <1>5, <1>6, <1>7, <1>8, <1>9, ReportHandled

LEMMA EventKeeps ==
    ASSUME ServiceInv, ServiceInv', GridInv, Event
    PROVE  GridInv'
<1>1. todo = << >> /\ Take /\ UNCHANGED <<calls, unnoted>>
  BY DEF Event, Idle
<1>2. /\ Head(events) = events[1] /\ events[1] \in EventsOf(Len(asks))
      /\ 1 \in Reports <=> events[1].status # "changed"
  BY <1>1, TakeReports
<1>3. CASE events[1].status = "changed" /\ Refresh(events[1].image) /\ UNCHANGED conversions
  <2>1. events[1].image \in Elements
    BY <1>2, <1>3 DEF EventsOf
  <2> QED
    BY <1>1, <1>3, <2>1, RefreshKeeps
<1>4. CASE events[1].status \in {"ready", "error", "canceled"} /\ GridAnswer(events[1])
  <2>1. PICK c : c = events[1].call
    OBVIOUS
  <2>2. 1 \in Reports /\ UNCHANGED store
    BY <1>2, <1>4 DEF GridAnswer
  <2>3. /\ events[1].status = "canceled" => c \notin active
        /\ c \in Calls /\ KeyOf(c) \in Keys
    BY <2>1, <2>2, ReportedFlag
  <2>4. CASE c \notin active
    <3>1. UNCHANGED <<gridVars, todo, conversions>>
      BY <1>4, <2>1, <2>4 DEF GridAnswer
    <3> QED
      BY <1>1, <2>1, <2>2, <2>4, <3>1, IgnoreKeeps
  <2>5. CASE c \in active /\ Convert(events[1])
    BY <1>1, <2>1, <2>2, <2>5, ConvertKeeps
  <2>6. CASE c \in active /\ Retry(c)
    BY <1>1, <2>1, <2>2, <2>6, RetryKeeps
  <2>7. CASE c \in active /\ FailTile(c)
    <3> DEFINE new == [Blank EXCEPT !.error = TRUE]
    <3>1. new \in [tier : {0} \cup Tiers, loading : BOOLEAN, error : BOOLEAN] /\ new.tier = 0
      BY DEF Blank
    <3>2. /\ Finished(c) /\ tile' = [tile EXCEPT ![ImageOf(KeyOf(c))] = new] /\ todo' = << >>
          /\ UNCHANGED <<conversions, pins, active, retries>>
      BY <2>7 DEF FailTile
    <3> HIDE DEF new
    <3> QED
      BY <1>1, <2>1, <2>2, <2>7, <3>1, <3>2, FinishKeeps
  <2> QED
    BY <1>4, <2>1, <2>3, <2>4, <2>5, <2>6, <2>7 DEF GridAnswer
<1>5. CASE events[1].status \in {"shown", "failed"} /\ GridShow(events[1])
  <2>1. PICK c : c = events[1].call
    OBVIOUS
  <2>2. 1 \in Reports /\ UNCHANGED <<pins, active, retries, todo, store, conversions>>
    BY <1>2, <1>5 DEF GridShow
  <2>3. CASE c \notin active
    <3>1. UNCHANGED gridVars
      BY <1>5, <2>1, <2>2, <2>3 DEF GridShow, gridVars
    <3> QED
      BY <1>1, <2>1, <2>2, <2>3, <3>1, IgnoreKeeps
  <2>4. CASE c \in active
    <3> DEFINE new == IF events[1].status = "shown" THEN [Blank EXCEPT !.tier = TierOf(KeyOf(c))]
                      ELSE [Blank EXCEPT !.error = TRUE]
    <3>1. TierOf(KeyOf(c)) \in Tiers /\ (events[1].status = "shown" => store[KeyOf(c)] # NoImage)
      BY <2>1, <2>2, <2>4, ReportedFlag
    <3>2. /\ new \in [tier : {0} \cup Tiers, loading : BOOLEAN, error : BOOLEAN]
          /\ \/ new.tier = 0
             \/ new.tier = TierOf(KeyOf(c)) /\ store[KeyOf(c)] # NoImage
      <4>1. CASE events[1].status = "shown"
        <5>1. new = [Blank EXCEPT !.tier = TierOf(KeyOf(c))]
          BY <4>1
        <5> HIDE DEF new
        <5> QED
          BY <3>1, <4>1, <5>1 DEF Blank
      <4>2. CASE events[1].status # "shown"
        <5>1. new = [Blank EXCEPT !.error = TRUE]
          BY <4>2
        <5> HIDE DEF new
        <5> QED
          BY <5>1 DEF Blank
      <4> QED
        BY <4>1, <4>2
    <3>3. Finished(c) /\ tile' = [tile EXCEPT ![ImageOf(KeyOf(c))] = new]
      BY <1>5, <2>1, <2>4 DEF GridShow
    <3> HIDE DEF new
    <3> QED
      BY <1>1, <2>1, <2>2, <2>4, <3>2, <3>3, FinishKeeps
  <2> QED
    BY <2>3, <2>4
<1> QED
  BY <1>2, <1>3, <1>4, <1>5 DEF Event

----------------------------------------------------------------------------
\* The album as a whole.

\* Each step of the album is one of the service, as its callers see it, or none.
LEMMA GridNextCalls ==
    ASSUME ServiceInv, GridInv, [GridNext]_album
    PROVE  [CallsNext]_calls
<1>1. CASE UNCHANGED album
  BY <1>1 DEF album
<1>2. CASE User \/ Event \/ Thread
  BY <1>2 DEF User, Event, Thread, CheckFlag, StoreImage, FailConversion, Report
<1>3. CASE Calling
  <2>1. PICK c \in ServiceCalls : c = Head(todo)
    BY <1>3, GridTyped, TailOfTodo DEF Calling
  <2>2. \/ c.op = "request" /\ RequestThumbnail(c.key, c.again)
        \/ c.op = "release" /\ BeginRelease(c.key)
        \/ c.op = "cancel" /\ CancelImage(c.image)
        \/ c.op = "invalidate" /\ InvalidateThumbnail(c.image)
    BY <1>3, <2>1 DEF Calling
  <2>3. /\ c.op \in {"request", "release"} => c.key \in Keys
        /\ c.op \in {"cancel", "invalidate"} => c.image \in Elements
    BY DEF ServiceCalls
  <2> QED
    BY <2>2, <2>3 DEF RequestThumbnail, CallsNext, Caller
<1>4. CASE Working
  BY <1>4 DEF Working, CallsNext
<1>5. ASSUME NEW e \in Elements, CommitImage(e) \/ NoteCommit(e) PROVE [CallsNext]_calls
  BY <1>5 DEF CommitImage, NoteCommit, CallsNext, Caller
<1> QED
  BY <1>1, <1>2, <1>3, <1>4, <1>5 DEF GridNext

LEMMA GridNextKeeps ==
    ASSUME ServiceInv, GridInv, [GridNext]_album
    PROVE  ServiceInv' /\ GridInv'
<1>1. ServiceInv'
  BY GridNextCalls, NextServes, NextOnce, NextKeepsSound DEF ServiceInv
<1>2. CASE UNCHANGED album
  <2>1. /\ UNCHANGED <<asks, posted, pending, renditions, missed, todo, gridVars, store, conversions>>
        /\ UNCHANGED <<events, unnoted>>
    BY <1>2 DEF album, calls, callVars, cacheVars, workVars
  <2>2. UNCHANGED Reports /\ unnoted' \subseteq Elements /\ \A i \in Reports : events'[i] = events[i]
    BY <2>1 DEF Reports, GridInv, AlbumTypeOK
  <2> QED
    BY <1>1, <2>1, <2>2, StillFits, GridTyped
<1>3. CASE GridNext
  BY <1>1, <1>3, UserKeeps, CallingKeeps, EventKeeps, ThreadKeeps, WorkingKeeps, CommitImageKeeps,
     NoteCommitKeeps DEF GridNext
<1> QED
  BY <1>1, <1>2, <1>3

LEMMA AlbumInitFits ==
    ASSUME AlbumInit
    PROVE  ServiceInv /\ GridInv
<1>1. ServiceInv
  BY InitServes, InitOnce DEF AlbumInit, ServiceInv
<1>2. /\ todo = << >> /\ events = << >> /\ conversions = {} /\ active = {} /\ retries = {}
      /\ unnoted = {} /\ missed = {} /\ asks = << >>
      /\ pins = [k \in Keys |-> 0] /\ flag = [k \in Keys |-> 0]
      /\ tile = [e \in Elements |-> Blank] /\ store = [k \in Keys |-> NoImage]
      /\ renditions = [r \in 1..MaxAsks |-> NoRendition]
  BY DEF AlbumInit, Init
<1>3. Len(asks) = 0 /\ Len(todo) = 0 /\ Len(events) = 0 /\ Calls = {}
  BY <1>2 DEF Calls
<1>4. Reports = {} /\ Reported = {} /\ Converted = {}
  BY <1>2, <1>3 DEF Reports, Reported, Converted
<1>5. FlagsFit /\ TodoFits
  BY <1>2, <1>3 DEF FlagsFit, TodoFits
<1>6. HandledOnce /\ ActiveFit /\ AnswersFit /\ RenditionsFit
  BY <1>2, <1>3, <1>4 DEF HandledOnce, ActiveFit, AnswersFit, RenditionsFit
<1>7. TilesFit
  BY <1>2 DEF TilesFit, Blank
<1>8. AlbumTypeOK
  <2>1. TypeOK
    BY <1>1 DEF ServiceInv, ServedInv
  <2>2. todo \in Seq(ServiceCalls) /\ events \in Seq(EventsOf(Len(asks)))
    BY <1>2
  <2>3. pins \in [Keys -> Nat] /\ flag \in [Keys -> 0..Len(asks)]
    BY <1>2, <1>3
  <2>4. tile \in [Elements -> [tier : {0} \cup Tiers, loading : BOOLEAN, error : BOOLEAN]]
    BY <1>2, BlankTyped
  <2>5. store \in [Keys -> {NoImage} \cup 0..MaxRevision]
    BY <1>2
  <2> QED
    BY <1>2, <2>1, <2>2, <2>3, <2>4, <2>5 DEF AlbumTypeOK
<1> QED
  BY <1>1, <1>5, <1>6, <1>7, <1>8 DEF GridInv

LEMMA AlbumFits == GridSpec => [](ServiceInv /\ GridInv)
<1>1. AlbumInit => ServiceInv /\ GridInv
  BY AlbumInitFits
<1>2. (ServiceInv /\ GridInv) /\ [GridNext]_album => (ServiceInv /\ GridInv)'
  BY GridNextKeeps
<1> QED
  BY <1>1, <1>2, PTL DEF GridSpec

\* The album is one of the callers the theorems about CallsSpec speak of: what
\* they promise of the thumbnail service, they promise it.
THEOREM AlbumCallsService == GridSpec => CallsSpec
<1>1. AlbumInit => Init
  BY DEF AlbumInit
<1>2. (ServiceInv /\ GridInv) /\ [GridNext]_album => [CallsNext]_calls
  BY GridNextCalls
<1> QED
  BY <1>1, <1>2, AlbumFits, PTL DEF GridSpec, CallsSpec

\* Whatever is shown, hidden, deleted, committed and answered, in whatever
\* order, the variables of the album keep their types.
THEOREM AlbumKeepsTypes == GridSpec => []AlbumTypeOK
<1>1. GridInv => AlbumTypeOK
  BY DEF GridInv
<1> QED
  BY <1>1, AlbumFits, PTL

\* A key's flag that is in the map while the GUI thread has nothing to do is
\* on, and its request is on its way: it waits in the service, is owed an
\* answer, is with a thread or among the events.  No invalidation drops a
\* request the grid does not repeat (thumbnail_manager.cpp).
THEOREM AlbumAnswersFlags == GridSpec => []FlagsAreAnswered
<1>1. ASSUME GridInv PROVE FlagsAreAnswered
  <2> SUFFICES ASSUME Idle, NEW k \in Keys, flag[k] # 0
               PROVE  flag[k] \in active /\ OnItsWay(flag[k])
    BY DEF FlagsAreAnswered
  <2>1. ~Asking(k)
    BY DEF Idle, Asking
  <2> QED
    BY <1>1, <2>1 DEF GridInv, FlagsFit
<1> QED
  BY <1>1, AlbumFits, PTL

\* A row nobody sees shows nothing, and a row whose pixels have left the store
\* has a request on its way for one of its pinned sizes (thumbnail_manager.cpp).
THEOREM AlbumTilesFollow == GridSpec => []TilesFollowPins
<1>1. ASSUME GridInv PROVE TilesFollowPins
  <2> SUFFICES ASSUME Idle, NEW e \in Elements
               PROVE  /\ PinnedKeys(e) = {} => tile[e] = Blank
                      /\ (tile[e].tier # 0 /\ store[<<e, tile[e].tier>>] = NoImage)
                            => \E k \in PinnedKeys(e) : flag[k] # 0
    BY DEF TilesFollowPins
  <2>1. \A k : ~Asking(k)
    BY DEF Idle, Asking
  <2> QED
    BY <1>1, <2>1 DEF GridInv, TilesFit
<1> QED
  BY <1>1, AlbumFits, PTL

----------------------------------------------------------------------------
\* Who holds a pin in the service.

\* The keys the service holds a guard of, and those that no conversion failed for.
Held == Cache!Cached(cache)
Owed == Held \ spoiled

\* The handler is about to give the key up, or it is between the two sections of
\* its release.
Dropping(k) == \E i \in 1..Len(todo) :
                   \/ todo[i].op = "release" /\ todo[i].key = k
                   \/ todo[i].op = "invalidate" /\ todo[i].image = ImageOf(k)
GivingUp(k) == Dropping(k) \/ k \in releasing

\* Nobody waits for the key, and the service holds no pin of it.
Vacant(k) == pending[k] = << >> /\ k \notin Owed

\* A call that was not answered with an image.
Failing(c) == \/ \E r \in Calls : c \in Due(r) /\ renditions[r].status # "ready"
              \/ \E i \in Reports : events[i].call = c /\ events[i].status = "error"

\* A key has one call in the service at most, the one its flag belongs to, and
\* none while its image is cached.
OneCaller ==
    /\ \A k \in Keys : \A c \in Waiting(k) : flag[k] = c \/ (flag[k] = 0 /\ Dropping(k))
    /\ \A k \in Keys : Len(pending[k]) <= 1 /\ (pending[k] # << >> => k \notin Held)
    /\ \A c \in missed :
          flag[KeyOf(c)] = c /\ KeyOf(c) \notin Held /\ pending[KeyOf(c)] = << >>

\* What a handler has left to request is vacant, or will be when its turn comes.
RequestsFit ==
    \A i \in 1..Len(todo) : todo[i].op = "request" =>
        /\ \/ Vacant(todo[i].key)
           \/ \E j \in 1..(i - 1) :
                 todo[j].op = "invalidate" /\ todo[j].image = ImageOf(todo[i].key)
        /\ \A j \in 1..(i - 1) : todo[j].op = "request" => todo[j].key # todo[i].key
        /\ \A c \in missed : KeyOf(c) # todo[i].key

\* The pin of a cached key is the grid's: the key is shown, or about to be given up.
PinsFit ==
    \A k \in Keys :
        /\ k \in Owed => cache.guard[k].pins = 1
        /\ pins[k] = 0 => GivingUp(k) \/ Vacant(k)
        /\ k \in Owed => flag[k] # 0 \/ store[k] # NoImage \/ GivingUp(k)

\* A key is not cached for a call that failed, and is spoiled by a conversion
\* that did.
FailuresFit ==
    /\ \A c \in active : Failing(c) => KeyOf(c) \notin Held
    /\ \A i \in Reports : events[i].status = "failed" => KeyOf(events[i].call) \in spoiled

\* A row that is pinned shows something, or is about to be asked for.
RowsFit ==
    \A e \in Elements :
        PinnedKeys(e) # {} => tile[e] # Blank \/ \E k \in TiersOf(e) : Asking(k)

PinInv == OneCaller /\ RequestsFit /\ PinsFit /\ FailuresFit /\ RowsFit

\* Who waits, and where else it is not.
LEMMA WaiterMeans ==
    ASSUME ServiceInv, NEW k \in Keys
    PROVE  /\ pending[k] = << >> <=> Waiting(k) = {}
           /\ \A c \in Waiting(k) : /\ c \in Calls /\ c # 0 /\ KeyOf(c) = k
                                    /\ c \notin Told /\ \A r \in Calls : c \notin Due(r)
<1>1. ServedInv /\ OnceInv
  BY DEF ServiceInv
<1>2. pending[k] \in Seq(1..Len(asks)) /\ Len(asks) \in Nat /\ \A r \in Calls : r \in 1..MaxAsks
  BY <1>1, Typed DEF Filed
<1>3. DOMAIN pending[k] = 1..Len(pending[k]) /\ Len(pending[k]) \in Nat
  BY <1>2, LenProperties
<1>4. pending[k] = << >> <=> Waiting(k) = {}
  <2>1. CASE pending[k] = << >>
    BY <2>1 DEF Waiting, ToSet
  <2>2. CASE pending[k] # << >>
    <3>1. Len(pending[k]) # 0
      BY <1>2, <2>2, EmptySeq
    <3>2. 1 \in DOMAIN pending[k]
      BY <1>3, <3>1
    <3> QED
      BY <2>2, <3>2 DEF Waiting, ToSet
  <2> QED
    BY <2>1, <2>2
<1>5. ASSUME NEW c \in Waiting(k)
      PROVE  /\ c \in Calls /\ c # 0 /\ KeyOf(c) = k
             /\ c \notin Told /\ \A r \in Calls : c \notin Due(r)
  <2>1. /\ AllWaiting[k] = Waiting(k) /\ \A r \in Calls : AllDue[r] = Due(r)
        /\ Waiting(k) \subseteq Calls
    BY <1>1, <1>2, PlacesAreCalls DEF AllWaiting, AllDue
  <2>2. c \notin Told /\ \A r \in Calls : c \notin Due(r)
    BY <1>1, <1>2, <1>5, <2>1 DEF OnceInv, InOnePlace, Apart
  <2>3. KeyOf(c) = k
    BY <1>1, <1>5 DEF Waiting, ToSet, ServedInv, WaitersFit
  <2> QED
    BY <1>2, <1>5, <2>1, <2>2, <2>3 DEF Calls
<1> QED
  BY <1>4, <1>5

\* A call that failed waits for nothing, and its key has its flag.
LEMMA FailingMeans ==
    ASSUME ServiceInv, GridInv, NEW c \in active, Failing(c) \/ c \in Reported
    PROVE  /\ c \in Calls /\ c # 0 /\ KeyOf(c) \in Keys
           /\ flag[KeyOf(c)] = c /\ c \notin Waiting(KeyOf(c))
<1>1. c \in Calls /\ c # 0 /\ KeyOf(c) \in Keys
  BY GridTyped
<1>2. c \in Reported \/ \E r \in Calls : c \in Due(r)
  BY DEF Failing, Reports, Reported
<1>3. \A r \in Calls : Due(r) \cap Told = {}
  <2>1. \A r \in Calls : AllDue[r] = Due(r) /\ r \in 1..MaxAsks
    BY Typed DEF ServiceInv, AllDue
  <2> QED
    BY <2>1 DEF ServiceInv, OnceInv, InOnePlace, Apart
<1>4. flag[KeyOf(c)] = c
  BY <1>2, <1>3 DEF GridInv, ActiveFit
<1>5. Reported \subseteq Told
  BY DEF GridInv, HandledOnce
<1>6. c \notin Waiting(KeyOf(c))
  BY <1>1, <1>2, <1>5, WaiterMeans
<1> QED
  BY <1>1, <1>4, <1>6

----------------------------------------------------------------------------
\* What the operations of the cache do to each guard.

LEMMA RemoveKeyGuards ==
    ASSUME NEW c, IsCache(c), NEW k \in Keys
    PROVE  \A l \in Keys : Cache!RemoveKey(c, k).guard[l]
                              = IF l = k THEN Cache!NoGuard ELSE c.guard[l]
<1> DEFINE g == [c.guard EXCEPT ![k] = Cache!NoGuard]
<1>1. c.guard \in Guards
  BY DEF IsCache
<1>2. Cache!RemoveKey(c, k) = [c EXCEPT !.order = Cache!Without(c.order, {k}), !.guard = g]
  BY DEF Cache!RemoveKey
<1>3. Cache!RemoveKey(c, k).guard = g
  BY <1>2 DEF IsCache
<1> QED
  BY <1>1, <1>3 DEF Guards

LEMMA PinGuards ==
    ASSUME NEW c, IsCache(c), NEW k \in Keys
    PROVE  /\ \A l \in Keys \ {k} : Cache!Pin(c, k).guard[l] = c.guard[l]
           /\ Cache!Pin(c, k).guard[k].pins = c.guard[k].pins + 1
<1> DEFINE t == Cache!Touch(c, k)
           g == [c.guard EXCEPT ![k].pins = @ + 1]
<1>1. IsCache(t) /\ t.guard = c.guard
  BY TouchKeepsGuards
<1>2. g \in Guards /\ c.guard \in Guards
  BY DEF IsCache, Guards
<1>3. Cache!Pin(c, k) = [t EXCEPT !.guard = g]
  <2> HIDE DEF t
  <2> QED
    BY <1>1 DEF Cache!Pin, t
<1>4. Cache!Pin(c, k).guard = g
  BY <1>1, <1>2, <1>3, Reguarded
<1> QED
  BY <1>2, <1>4 DEF Guards

LEMMA UnpinGuards ==
    ASSUME NEW c, IsCache(c), NEW k \in Keys
    PROVE  /\ \A l \in Keys \ {k} : Cache!Unpin(c, k).guard[l] = c.guard[l]
           /\ \/ Cache!Unpin(c, k).guard[k] = Cache!NoGuard
              \/ k \in Cache!Cached(c) /\ c.guard[k].pins > 1
<1>1. CASE k \in Cache!Cached(c) /\ c.guard[k].pins > 1
  <2> DEFINE g == [c.guard EXCEPT ![k].pins = @ - 1]
  <2>1. g \in Guards /\ c.guard \in Guards
    BY DEF IsCache, Guards
  <2>2. Cache!Unpin(c, k) = [c EXCEPT !.guard = g]
    BY <1>1 DEF Cache!Unpin
  <2>3. Cache!Unpin(c, k).guard = g
    BY <2>1, <2>2, Reguarded
  <2> QED
    BY <1>1, <2>1, <2>3 DEF Guards
<1>2. CASE ~(k \in Cache!Cached(c) /\ c.guard[k].pins > 1)
  BY <1>2, RemoveKeyGuards DEF Cache!Unpin
<1> QED
  BY <1>1, <1>2

LEMMA ForgetGuards ==
    ASSUME NEW c, IsCache(c), NEW ks
    PROVE  \A l \in Keys : Cache!Forget(c, ks).guard[l]
                              = IF l \in ks THEN Cache!NoGuard ELSE c.guard[l]
<1> DEFINE g == [k \in Keys |-> IF k \in ks THEN Cache!NoGuard ELSE c.guard[k]]
<1>1. PICK order : Cache!Forget(c, ks) = [c EXCEPT !.order = order, !.guard = g]
  BY DEF Cache!Forget
<1>2. Cache!Forget(c, ks).guard = g
  BY <1>1 DEF IsCache
<1> QED
  BY <1>2

\* Filing a guard leaves every other one, or evicts it.
LEMMA StoreGuards ==
    ASSUME NEW c, IsCache(c), NEW k \in Keys,
           NEW guard \in [rev : 0..MaxRevision, pins : Int]
    PROVE  /\ Cache!Store(c, k, guard).guard[k] = guard
           /\ \A l \in Keys \ {k} : Cache!Store(c, k, guard).guard[l]
                                       \in {c.guard[l], Cache!NoGuard}
<1> DEFINE filed == Cache!RecordAccess(c, k)
           last == Cache!Last(c.order)
           evicted == Cache!HandleEvict(filed, last)
           swept == IF Cache!Overflows(c, k) THEN evicted ELSE filed
           g == [swept.guard EXCEPT ![k] = guard]
<1>1. IsCache(filed) /\ filed.guard = c.guard /\ c.guard \in Guards
  BY RecordAccessKeepsGuards DEF IsCache
<1> HIDE DEF filed, last
<1>2. IsCache(evicted) /\ \A l \in Keys : evicted.guard[l] \in {c.guard[l], Cache!NoGuard}
  <2>1. CASE last \in Cache!Pinned(filed)
    <3> DEFINE r == Cache!Resize(filed, Cache!Cardinality(Cache!Cached(filed)) + PinnedBoost)
    <3>1. IsCache(r) /\ r.guard = c.guard
      BY <1>1, ResizeKeepsGuards
    <3>2. evicted = Cache!RecordAccess(r, last)
      BY <2>1 DEF Cache!HandleEvict
    <3> HIDE DEF r
    <3> QED
      BY <3>1, <3>2, RecordAccessKeepsGuards
  <2>2. CASE last \notin Cache!Pinned(filed)
    <3> DEFINE h == [filed.guard EXCEPT ![last] = Cache!NoGuard]
    <3>1. h \in Guards
      BY <1>1, NoGuardTyped DEF Guards
    <3>2. evicted = [filed EXCEPT !.guard = h]
      BY <2>2 DEF Cache!HandleEvict
    <3>3. IsCache(evicted) /\ evicted.guard = h
      BY <1>1, <3>1, <3>2, Reguarded
    <3> QED
      BY <1>1, <3>3 DEF Guards
  <2> QED
    BY <2>1, <2>2
<1> HIDE DEF evicted
<1>3. IsCache(swept) /\ \A l \in Keys : swept.guard[l] \in {c.guard[l], Cache!NoGuard}
  BY <1>1, <1>2
<1>4. Cache!Store(c, k, guard) = [swept EXCEPT !.guard = g]
  BY DEF Cache!Store, evicted, filed, last
<1> HIDE DEF swept
<1>5. g \in Guards /\ swept.guard \in Guards
  BY <1>3 DEF IsCache, Guards
<1>6. Cache!Store(c, k, guard).guard = g
  BY <1>3, <1>4, <1>5, Reguarded
<1> QED
  BY <1>3, <1>5, <1>6 DEF Guards

----------------------------------------------------------------------------
\* Steps of the service.

\* A step that answers, cancels or drops who waits and gives guards up.
LEMMA ServiceStepKeepsPins ==
    ASSUME ServiceInv, GridInv, PinInv,
           UNCHANGED <<asks, gridVars, store, spoiled>>, missed' \subseteq missed,
           \A k \in Keys : pending'[k] = pending[k] \/ pending'[k] = << >>,
           \A k \in Keys : cache'.guard[k] = cache.guard[k] \/ k \notin Owed',
           Held' \subseteq Held,
           \A k \in Keys : Dropping(k) => \/ Dropping(k)'
                                          \/ /\ pending'[k] = << >>
                                             /\ (k \in releasing' \/ k \notin Held'),
           \A k \in Keys : k \in releasing => k \in releasing' \/ k \notin Owed',
           \A k \in Keys : Asking(k) => Asking(k)',
           \A c \in active : Failing(c)' => Failing(c) \/ KeyOf(c) \notin Held,
           \A i \in Reports' : events'[i].status = "failed" => KeyOf(events'[i].call) \in spoiled,
           RequestsFit'
    PROVE  PinInv'
<1>0. Owed' \subseteq Owed /\ UNCHANGED <<pins, flag, active, tile>>
  BY DEF Owed, gridVars
<1>1. \A k \in Keys : pending'[k] # << >> => pending'[k] = pending[k]
  OBVIOUS
<1>2. \A k \in Keys : pending'[k] # << >> => Waiting(k)' = Waiting(k)
  BY <1>1 DEF Waiting
<1>3. \A c : KeyOf(c)' = KeyOf(c)
  BY DEF KeyOf
<1>4. \A c \in missed : KeyOf(c) \in Keys
  BY GridTyped, Typed, PlacesAreCalls DEF ServiceInv
<1>5. OneCaller'
  <2>1. ASSUME NEW k \in Keys, NEW c \in Waiting(k)' PROVE flag[k] = c \/ (flag[k] = 0 /\ Dropping(k)')
    <3>1. pending'[k] # << >>
      BY <2>1 DEF Waiting, ToSet
    <3>2. c \in Waiting(k)
      BY <1>2, <2>1, <3>1
    <3>3. Dropping(k) => Dropping(k)'
      BY <3>1
    <3> QED
      BY <3>2, <3>3 DEF PinInv, OneCaller
  <2>2. \A k \in Keys : Len(pending'[k]) <= 1 /\ (pending'[k] # << >> => k \notin Held')
    <3>1. Len(<< >>) = 0
      OBVIOUS
    <3> QED
      BY <1>1, <3>1 DEF PinInv, OneCaller
  <2>3. \A c \in missed' : flag[KeyOf(c)] = c /\ KeyOf(c) \notin Held' /\ pending'[KeyOf(c)] = << >>
    BY <1>4 DEF PinInv, OneCaller
  <2> QED
    BY <1>0, <1>3, <2>1, <2>2, <2>3 DEF OneCaller
<1>6. PinsFit'
  <2> SUFFICES ASSUME NEW k \in Keys
               PROVE  /\ k \in Owed' => cache'.guard[k].pins = 1
                      /\ pins[k] = 0 => GivingUp(k)' \/ Vacant(k)'
                      /\ k \in Owed' => flag[k] # 0 \/ store[k] # NoImage \/ GivingUp(k)'
    BY <1>0 DEF PinsFit
  <2>1. k \in Owed' => cache'.guard[k].pins = 1
    BY <1>0 DEF PinInv, PinsFit
  <2>2. k \in Owed' => flag[k] # 0 \/ store[k] # NoImage \/ GivingUp(k)'
    BY <1>0 DEF PinInv, PinsFit, GivingUp, Owed
  <2>3. ASSUME pins[k] = 0 PROVE GivingUp(k)' \/ Vacant(k)'
    <3>1. flag[k] = 0
      BY <2>3, GridTyped DEF GridInv, FlagsFit
    <3>2. pending[k] = << >> \/ Dropping(k)
      BY <3>1, WaiterMeans DEF PinInv, OneCaller
    <3>3. GivingUp(k) \/ Vacant(k)
      BY <2>3 DEF PinInv, PinsFit
    <3> QED
      BY <1>0, <3>2, <3>3 DEF GivingUp, Vacant, Owed
  <2> QED
    BY <2>1, <2>2, <2>3
<1>7. FailuresFit'
  BY <1>0, <1>3 DEF PinInv, FailuresFit
<1>8. RowsFit'
  <2>1. \A e \in Elements : PinnedKeys(e)' = PinnedKeys(e) /\ TiersOf(e) \subseteq Keys
    BY <1>0 DEF PinnedKeys, TiersOf
  <2> QED
    BY <1>0, <2>1 DEF PinInv, RowsFit, TiersOf
<1> QED
  BY <1>5, <1>6, <1>7, <1>8 DEF PinInv

\* The rest to request stays as it is.
LEMMA RequestsStay ==
    ASSUME ServiceInv, GridInv, PinInv, UNCHANGED <<asks, todo>>, missed' \subseteq missed,
           \A k \in Keys : Vacant(k) => Vacant(k)'
    PROVE  /\ RequestsFit'
           /\ \A k \in Keys : (Dropping(k)' <=> Dropping(k)) /\ (Asking(k)' <=> Asking(k))
<1>1. \A i \in 1..Len(todo) : todo[i].op = "request" => todo[i].key \in Keys
  BY GridTyped DEF ServiceCalls
<1>2. \A c : KeyOf(c)' = KeyOf(c)
  BY DEF KeyOf
<1>3. RequestsFit'
  BY <1>1, <1>2 DEF PinInv, RequestsFit
<1> QED
  BY <1>3 DEF Dropping, Asking

\* The handler's next call is made.
LEMMA RequestsAdvance ==
    ASSUME ServiceInv, GridInv, PinInv, todo # << >>, todo' = Tail(todo),
           \A c \in missed' : todo[1].op = "request" /\ KeyOf(c)' = todo[1].key,
           \A k \in Keys : Vacant(k) => Vacant(k)',
           \A k \in Keys : (todo[1].op = "invalidate" /\ ImageOf(k) = todo[1].image) => Vacant(k)'
    PROVE  /\ RequestsFit'
           /\ \A k \in Keys : Dropping(k) =>
                 \/ Dropping(k)'
                 \/ todo[1].op = "release" /\ todo[1].key = k
                 \/ todo[1].op = "invalidate" /\ todo[1].image = ImageOf(k)
           /\ \A k \in Keys : Asking(k) =>
                 \/ Asking(k)'
                 \/ todo[1].op = "request" /\ todo[1].key = k
<1>1. /\ Len(todo) \in Nat /\ 1 \in 1..Len(todo) /\ Len(todo') = Len(todo) - 1
      /\ \A i \in 1..Len(todo') : i + 1 \in 1..Len(todo) /\ todo'[i] = todo[i + 1]
  BY GridTyped, TailOfTodo
<1>2. \A i \in 1..Len(todo) : i # 1 => i - 1 \in 1..Len(todo') /\ todo'[i - 1] = todo[i]
  BY <1>1
<1>3. RequestsFit'
  <2>1. ASSUME NEW i \in 1..Len(todo'), todo'[i].op = "request", NEW k \in Keys, k = todo'[i].key
        PROVE  /\ \/ Vacant(k)'
                  \/ \E j \in 1..(i - 1) : todo'[j].op = "invalidate" /\ todo'[j].image = ImageOf(k)
               /\ \A j \in 1..(i - 1) : todo'[j].op = "request" => todo'[j].key # k
               /\ \A c \in missed' : KeyOf(c)' # k
    <3>1. i + 1 \in 1..Len(todo) /\ todo[i + 1].op = "request" /\ todo[i + 1].key = k
      BY <1>1, <2>1
    <3>2. /\ Vacant(k) \/ \E j \in 1..i : todo[j].op = "invalidate" /\ todo[j].image = ImageOf(k)
          /\ \A j \in 1..i : todo[j].op = "request" => todo[j].key # k
      <4>1. (i + 1) - 1 = i
        OBVIOUS
      <4> QED
        BY <3>1, <4>1 DEF PinInv, RequestsFit
    <3>3. Vacant(k)' \/ \E j \in 1..(i - 1) : todo'[j].op = "invalidate" /\ todo'[j].image = ImageOf(k)
      <4>1. CASE Vacant(k)
        BY <4>1
      <4>2. ASSUME NEW j \in 1..i, todo[j].op = "invalidate", todo[j].image = ImageOf(k)
            PROVE  Vacant(k)' \/ \E m \in 1..(i - 1) : todo'[m].op = "invalidate" /\ todo'[m].image = ImageOf(k)
        <5>1. CASE j = 1
          BY <4>2, <5>1
        <5>2. CASE j # 1
          <6>1. j - 1 \in 1..(i - 1) /\ todo'[j - 1] = todo[j]
            BY <1>1, <1>2, <5>2
          <6> QED
            BY <4>2, <6>1
        <5> QED
          BY <5>1, <5>2
      <4> QED
        BY <3>2, <4>1, <4>2
    <3>4. \A j \in 1..(i - 1) : todo'[j].op = "request" => todo'[j].key # k
      <4>1. \A j \in 1..(i - 1) : j + 1 \in 1..i /\ todo'[j] = todo[j + 1]
        BY <1>1
      <4> QED
        BY <3>2, <4>1
    <3>5. \A c \in missed' : KeyOf(c)' # k
      <4>1. 1 \in 1..i
        OBVIOUS
      <4> QED
        BY <3>2, <4>1
    <3> QED
      BY <3>3, <3>4, <3>5
  <2>2. \A i \in 1..Len(todo') : todo'[i].op = "request" => todo'[i].key \in Keys
    BY <1>1, GridTyped DEF ServiceCalls
  <2>3. ASSUME NEW i \in 1..Len(todo'), todo'[i].op = "request"
        PROVE  /\ \/ /\ pending'[todo'[i].key] = << >> /\ todo'[i].key \notin Owed'
                  \/ \E j \in 1..(i - 1) : todo'[j].op = "invalidate" /\ todo'[j].image = ImageOf(todo'[i].key)
               /\ \A j \in 1..(i - 1) : todo'[j].op = "request" => todo'[j].key # todo'[i].key
               /\ \A c \in missed' : KeyOf(c)' # todo'[i].key
    BY <2>1, <2>2, <2>3 DEF Vacant
  <2> QED
    BY <2>3 DEF RequestsFit, Vacant
<1>4. ASSUME NEW k \in Keys, Dropping(k)
      PROVE  \/ Dropping(k)'
             \/ todo[1].op = "release" /\ todo[1].key = k
             \/ todo[1].op = "invalidate" /\ todo[1].image = ImageOf(k)
  <2>1. PICK i \in 1..Len(todo) : \/ todo[i].op = "release" /\ todo[i].key = k
                                  \/ todo[i].op = "invalidate" /\ todo[i].image = ImageOf(k)
    BY <1>4 DEF Dropping
  <2>2. CASE i = 1
    BY <2>1, <2>2
  <2>3. CASE i # 1
    BY <1>2, <2>1, <2>3 DEF Dropping
  <2> QED
    BY <2>2, <2>3
<1>5. ASSUME NEW k \in Keys, Asking(k)
      PROVE  Asking(k)' \/ (todo[1].op = "request" /\ todo[1].key = k)
  <2>1. PICK i \in 1..Len(todo) : todo[i].op = "request" /\ todo[i].key = k
    BY <1>5 DEF Asking
  <2>2. CASE i = 1
    BY <2>1, <2>2
  <2>3. CASE i # 1
    BY <1>2, <2>1, <2>3 DEF Asking
  <2> QED
    BY <2>2, <2>3
<1> QED
  BY <1>3, <1>4, <1>5

\* A step that posts nothing fails only the calls whose rendition ends.
LEMMA SilentFailures ==
    ASSUME ServiceInv, GridInv, PinInv, UNCHANGED <<asks, posted, shown, spoiled>>, Dispatch
    PROVE  /\ \A i \in Reports' : events'[i].status = "failed" => KeyOf(events'[i].call) \in spoiled
           /\ \A c : Failing(c)' => \/ Failing(c)
                                    \/ \E r \in Calls : c \in Due(r)' /\ renditions'[r].status # "ready"
<1>1. UNCHANGED events
  BY SilentKeeps
<1>2. Reports' = Reports /\ Calls' = Calls
  BY <1>1 DEF Reports, Calls
<1> QED
  BY <1>1, <1>2 DEF Failing, PinInv, FailuresFit

\* Nor does one that answers calls otherwise than with an error they have met.
LEMMA PostedFailures ==
    ASSUME ServiceInv, GridInv, PinInv, UNCHANGED <<asks, shown, spoiled>>, Dispatch,
           NEW who \in Seq(1..Len(asks)), NEW status \in {"ready", "canceled", "error"},
           NEW rev \in 0..MaxRevision, Post(who, status, rev),
           status = "error" => \A c \in ToSet(who) : Failing(c),
           \A r \in Calls : renditions'[r].at = "concluded" => renditions'[r] = renditions[r]
    PROVE  /\ \A i \in Reports' : events'[i].status = "failed" => KeyOf(events'[i].call) \in spoiled
           /\ \A c : Failing(c)' => Failing(c)
<1>1. EventsTo(Len(asks), who, status, rev)
  BY GridTyped, DispatchAnswers
<1>2. \A i \in Reports' : \/ i \in Reports /\ events'[i] = events[i]
                          \/ \E j \in 1..Len(who) :
                                /\ i = Len(events) + j /\ events'[i].status = status
                                /\ events'[i].call = who[j]
  <2>1. Len(asks) \in Nat /\ events \in Seq(EventsOf(Len(asks)))
    BY GridTyped
  <2> QED
    BY <1>1, <2>1, ReportsGrow, ZenonT(60)
<1>3. \A j \in 1..Len(who) : who[j] \in ToSet(who)
  BY LenProperties DEF ToSet
<1>4. \A r \in Calls : Due(r)' # {} => Due(r)' = Due(r) /\ renditions'[r].status = renditions[r].status
  BY DEF Due
<1>5. \A i \in Reports' : events'[i].status = "failed" => KeyOf(events'[i].call) \in spoiled
  BY <1>2 DEF PinInv, FailuresFit
<1>6. ASSUME NEW c, Failing(c)' PROVE Failing(c)
  <2>1. CASE \E r \in Calls : c \in Due(r)' /\ renditions'[r].status # "ready"
    BY <1>4, <2>1 DEF Failing
  <2>2. ASSUME NEW i \in Reports', events'[i].call = c, events'[i].status = "error" PROVE Failing(c)
    <3>1. CASE i \in Reports /\ events'[i] = events[i]
      BY <2>2, <3>1 DEF Failing
    <3>2. ASSUME NEW j \in 1..Len(who), events'[i].status = status, events'[i].call = who[j]
          PROVE  Failing(c)
      BY <1>3, <2>2, <3>2
    <3> QED
      BY <1>2, <3>1, <3>2
  <2> QED
    BY <1>6, <2>1, <2>2 DEF Failing, Calls
<1> QED
  BY <1>5, <1>6

\* What a step that keeps the list of calls, guards and generations leaves.
LEMMA VacantStays ==
    ASSUME UNCHANGED spoiled, Held' \subseteq Held, NEW k \in Keys,
           pending'[k] = pending[k] \/ pending'[k] = << >>
    PROVE  Vacant(k) => Vacant(k)'
BY DEF Vacant, Owed

LEMMA FetchKeepsPins ==
    ASSUME ServiceInv, GridInv, PinInv, UNCHANGED <<shown, todo, spoiled>>, Dispatch,
           NEW r \in Calls, Fetch(r)
    PROVE  PinInv'
<1> DEFINE new == [renditions[r] EXCEPT !.at = "fetched", !.rev = committed[ImageOf(KeyOf(r))]]
<1>1. /\ renditions' = [renditions EXCEPT ![r] = new]
      /\ UNCHANGED <<asks, posted, pending, missed, cache, releasing>>
  BY DEF Fetch, Set, callVars, cacheVars
<1>2. r \in 1..MaxAsks /\ renditions \in [1..MaxAsks -> RenditionsOf(Len(asks))]
      /\ \A q \in Calls : q \in 1..MaxAsks
  BY Typed DEF Filed, ServiceInv
<1>3. new.at = "fetched"
  BY <1>2 DEF RenditionsOf
<1> HIDE DEF new
<1>4. \A q \in Calls : Due(q)' = Due(q) /\ (q # r => renditions'[q] = renditions[q]) /\ Due(r)' = {}
  BY <1>1, <1>2, <1>3 DEF Fetch, Due
<1>5. /\ \A i \in Reports' : events'[i].status = "failed" => KeyOf(events'[i].call) \in spoiled
      /\ \A c : Failing(c)' => \/ Failing(c)
                               \/ \E q \in Calls : c \in Due(q)' /\ renditions'[q].status # "ready"
  BY <1>1, SilentFailures
<1>6. \A c : Failing(c)' => Failing(c)
  BY <1>4, <1>5 DEF Failing
<1>7. Held' = Held /\ \A k \in Keys : Vacant(k)' <=> Vacant(k)
  BY <1>1 DEF Held, Vacant, Owed
<1>8. /\ RequestsFit'
      /\ \A k \in Keys : (Dropping(k)' <=> Dropping(k)) /\ (Asking(k)' <=> Asking(k))
  BY <1>1, <1>7, RequestsStay
<1> QED
  BY <1>1, <1>5, <1>6, <1>7, <1>8, ServiceStepKeepsPins DEF shown

\* A rendition that ends without pixels.
LEMMA EndKeepsPins ==
    ASSUME ServiceInv, GridInv, PinInv, UNCHANGED <<asks, missed, posted, cache, releasing>>,
           UNCHANGED <<shown, todo, spoiled>>, Dispatch,
           NEW r \in Calls, IsOpen(r), NEW status,
           \/ Abandon(r)
           \/ /\ Conclude(r, pending[KeyOf(r)], status)
              /\ pending' = [pending EXCEPT ![KeyOf(r)] = << >>]
    PROVE  PinInv'
<1>1. /\ r \in 1..MaxAsks /\ KeyOf(r) \in Keys /\ \A q \in Calls : q \in 1..MaxAsks
      /\ pending \in [Keys -> Seq(1..Len(asks))]
      /\ renditions \in [1..MaxAsks -> RenditionsOf(Len(asks))]
  BY Typed DEF Filed, ServiceInv, Calls
<1>2. \A k \in Keys : pending'[k] = pending[k] \/ pending'[k] = << >>
  BY <1>1 DEF Abandon
<1>3. Held' = Held
  BY DEF Held
<1>4. /\ RequestsFit'
      /\ \A k \in Keys : (Dropping(k)' <=> Dropping(k)) /\ (Asking(k)' <=> Asking(k))
  BY <1>2, <1>3, VacantStays, RequestsStay
<1>5. /\ \A q \in Calls : q # r => Due(q)' = Due(q) /\ renditions'[q] = renditions[q]
      /\ Due(r)' = {} \/ (Due(r)' = Waiting(KeyOf(r)))
  <2>1. CASE Abandon(r)
    BY <1>1, <2>1 DEF Abandon, Set, Over, Rendition, Due
  <2>2. CASE Conclude(r, pending[KeyOf(r)], status)
    <3> DEFINE new == [renditions[r] EXCEPT !.at = "concluded", !.calls = pending[KeyOf(r)],
                                            !.status = status]
    <3>1. renditions' = [renditions EXCEPT ![r] = new]
      BY <2>2 DEF Conclude, Set
    <3>2. new.at = "concluded" /\ new.calls = pending[KeyOf(r)]
      BY <1>1 DEF RenditionsOf
    <3> HIDE DEF new
    <3> QED
      BY <1>1, <3>1, <3>2 DEF Due, Waiting
  <2> QED
    BY <2>1, <2>2
<1>6. ASSUME NEW c \in active, Failing(c)' PROVE Failing(c) \/ KeyOf(c) \notin Held
  <2>1. \/ Failing(c)
        \/ \E q \in Calls : c \in Due(q)' /\ renditions'[q].status # "ready"
    BY <1>6, SilentFailures
  <2>2. CASE c \in Waiting(KeyOf(r))
    <3>1. KeyOf(c) = KeyOf(r) /\ pending[KeyOf(r)] # << >>
      BY <1>1, <2>2, WaiterMeans
    <3> QED
      BY <1>1, <3>1 DEF PinInv, OneCaller
  <2> QED
    BY <1>5, <2>1, <2>2 DEF Failing
<1> QED
  BY <1>2, <1>3, <1>4, <1>6, SilentFailures, ServiceStepKeepsPins DEF shown

LEMMA FailKeepsPins ==
    ASSUME ServiceInv, GridInv, PinInv, UNCHANGED <<shown, todo, spoiled>>, Dispatch,
           NEW r \in Calls, GiveUp(r) \/ Fail(r, "error")
    PROVE  PinInv'
<1>1. ~IsAnalysis(r)
  BY DEF GridInv, RenditionsFit
<1>2. CASE GiveUp(r)
  <2>1. IsOpen(r) /\ Abandon(r) /\ UNCHANGED <<asks, missed, posted, cache, releasing>>
    BY <1>1, <1>2 DEF GiveUp, Fail, Fails, callVars, Abandon
  <2> QED
    BY <2>1, EndKeepsPins
<1>3. CASE Fail(r, "error")
  <2>1. /\ IsOpen(r) /\ UNCHANGED <<asks, missed, posted, cache, releasing>>
        /\ \/ Abandon(r)
           \/ /\ Conclude(r, pending[KeyOf(r)], "error")
              /\ pending' = [pending EXCEPT ![KeyOf(r)] = << >>]
    BY <1>1, <1>3 DEF Fail, Fails, callVars, Abandon
  <2> QED
    BY <2>1, EndKeepsPins
<1> QED
  BY <1>2, <1>3

\* At most one call waits for a key, and none while the key is cached.
LEMMA OneWaiter ==
    ASSUME ServiceInv, PinInv, NEW k \in Keys, pending[k] # << >>
    PROVE  Len(pending[k]) = 1 /\ k \notin Held
<1> DEFINE n == Len(pending[k])
<1>1. pending[k] \in Seq(1..Len(asks))
  BY Typed DEF Filed, ServiceInv
<1>2. n \in Nat /\ n # 0
  BY <1>1, EmptySeq, LenProperties
<1>3. n <= 1 /\ k \notin Held
  BY DEF PinInv, OneCaller
<1> HIDE DEF n
<1>4. n = 1
  BY <1>2, <1>3
<1> QED
  BY <1>3, <1>4 DEF n

\* Pixels for the one call that waits: the key is not cached yet, and the one
\* pin its guard gets is that of the grid.
LEMMA PublishKeepsPins ==
    ASSUME ServiceInv, GridInv, PinInv, UNCHANGED <<asks, missed, posted, releasing>>,
           UNCHANGED <<shown, todo, spoiled>>, Dispatch,
           NEW r \in Calls, IsOpen(r), NEW k \in Keys, k = KeyOf(r), pending[k] # << >>,
           Publish(r, pending[k]), pending' = [pending EXCEPT ![k] = << >>]
    PROVE  PinInv'
<1>1. /\ r \in 1..MaxAsks /\ \A q \in Calls : q \in 1..MaxAsks
      /\ pending \in [Keys -> Seq(1..Len(asks))] /\ missed \subseteq Calls
      /\ renditions \in [1..MaxAsks -> RenditionsOf(Len(asks))]
  BY Typed DEF Filed, ServiceInv, Calls
<1> DEFINE who == pending[k]
           new == [renditions[r] EXCEPT !.at = "concluded", !.calls = who, !.status = "ready"]
           g == [rev |-> renditions[r].rev, pins |-> Len(who)]
<1>2. renditions' = [renditions EXCEPT ![r] = new] /\ cache' = Cache!Store(cache, k, g)
  BY DEF Publish, Conclude, Set
<1>3. new.at = "concluded" /\ new.status = "ready"
  BY <1>1 DEF RenditionsOf
<1>4. Len(who) = 1 /\ k \notin Held
  BY OneWaiter
<1>5. g \in [rev : 0..MaxRevision, pins : Int] /\ g.pins = 1 /\ g # Cache!NoGuard
  <2>1. renditions[r].rev \in 0..MaxRevision /\ 1 \in Int
    BY <1>1 DEF RenditionsOf
  <2> HIDE DEF who
  <2> QED
    BY <1>4, <2>1 DEF Cache!NoGuard
<1> HIDE DEF new, g, who
<1>6. /\ \A l \in Keys : l # k => cache'.guard[l] = cache.guard[l] \/ l \notin Held'
      /\ cache'.guard[k] = g /\ Held' \subseteq Held \cup {k}
  <2>1. IsCache(cache)
    BY DEF ServiceInv, Sound
  <2> QED
    BY <1>2, <1>5, <2>1, StoreGuards DEF Held, Cache!Cached
<1>7. \A l \in Keys : pending'[l] = IF l = k THEN << >> ELSE pending[l]
  BY <1>1
<1>8. \A q \in Calls : q # r => Due(q)' = Due(q) /\ renditions'[q] = renditions[q]
  BY <1>1, <1>2 DEF Due
<1>9. renditions'[r].status = "ready"
  BY <1>1, <1>2, <1>3
<1>10. /\ \A c : KeyOf(c)' = KeyOf(c)
       /\ \A c \in missed : KeyOf(c) \in Keys
       /\ UNCHANGED <<pins, flag, active, tile, store>>
  BY <1>1, GridTyped DEF KeyOf, shown, gridVars
<1>11. PICK d \in Waiting(k) : d \in Calls /\ d # 0 /\ d \notin Told /\ KeyOf(d) = k
  BY WaiterMeans
<1>12. flag[k] = d \/ (flag[k] = 0 /\ Dropping(k))
  BY DEF PinInv, OneCaller
<1>13. \A l \in Keys : (Dropping(l)' <=> Dropping(l)) /\ (GivingUp(l)' <=> GivingUp(l)) /\ (Asking(l)' <=> Asking(l))
  BY DEF Dropping, GivingUp, Asking
<1>14. \A l \in Keys : Vacant(l) => Vacant(l)'
  BY <1>6, <1>7 DEF Vacant, Owed, who
<1>15. OneCaller'
  <2>1. \A l \in Keys : l # k => Waiting(l)' = Waiting(l)
    BY <1>7 DEF Waiting
  <2>2. Waiting(k)' = {} /\ Len(pending'[k]) = 0
    BY <1>7 DEF Waiting, ToSet
  <2>3. \A c \in missed : KeyOf(c) # k
    BY DEF PinInv, OneCaller
  <2> QED
    BY <1>6, <1>7, <1>10, <1>13, <2>1, <2>2, <2>3 DEF PinInv, OneCaller
<1>16. RequestsFit'
  <2>1. \A i \in 1..Len(todo) : todo[i].op = "request" => todo[i].key \in Keys
    BY GridTyped DEF ServiceCalls
  <2> QED
    BY <1>10, <1>14, <2>1 DEF PinInv, RequestsFit
<1>17. PinsFit'
  <2> SUFFICES ASSUME NEW l \in Keys
               PROVE  /\ l \in Owed' => cache'.guard[l].pins = 1
                      /\ pins[l] = 0 => GivingUp(l)' \/ Vacant(l)'
                      /\ l \in Owed' => flag[l] # 0 \/ store[l] # NoImage \/ GivingUp(l)'
    BY <1>10 DEF PinsFit
  <2>1. CASE l = k
    <3>1. pins[k] = 0 => GivingUp(k)
      BY DEF PinInv, PinsFit, Vacant
    <3> QED
      BY <1>5, <1>6, <1>11, <1>12, <1>13, <2>1, <3>1 DEF GivingUp
  <2>2. CASE l # k
    <3>1. l \in Owed' => l \in Owed /\ cache'.guard[l] = cache.guard[l]
      BY <1>6, <2>2 DEF Owed
    <3> QED
      BY <1>13, <1>14, <2>2, <3>1 DEF PinInv, PinsFit
  <2> QED
    BY <2>1, <2>2
<1>18. FailuresFit'
  <2>1. ASSUME NEW c \in active, Failing(c)' PROVE KeyOf(c) \notin Held'
    <3>1. Failing(c)
      BY <1>8, <1>9, <2>1, SilentFailures DEF Failing
    <3>2. KeyOf(c) \notin Held
      BY <3>1 DEF PinInv, FailuresFit
    <3>3. KeyOf(c) # k
      BY <1>11, <1>12, <3>1, FailingMeans
    <3> QED
      BY <1>6, <3>2, <3>3
  <2> QED
    BY <1>10, <2>1, SilentFailures DEF FailuresFit
<1>19. RowsFit'
  <2>1. \A e \in Elements : PinnedKeys(e)' = PinnedKeys(e) /\ TiersOf(e) \subseteq Keys
    BY <1>10 DEF PinnedKeys, TiersOf
  <2> QED
    BY <1>10, <1>13, <2>1 DEF PinInv, RowsFit, TiersOf
<1> QED
  BY <1>15, <1>16, <1>17, <1>18, <1>19 DEF PinInv

LEMMA DeliverKeepsPins ==
    ASSUME ServiceInv, GridInv, PinInv, UNCHANGED <<shown, todo, spoiled>>, Dispatch,
           NEW r \in Calls, DeliverPixels(r)
    PROVE  PinInv'
<1>1. ~IsAnalysis(r) /\ IsOpen(r) /\ KeyOf(r) \in Keys /\ UNCHANGED <<asks, missed, posted, releasing>>
  BY GridTyped DEF GridInv, RenditionsFit, DeliverPixels, IsOpen, callVars
<1>2. \/ Abandon(r)
      \/ /\ pending[KeyOf(r)] # << >> /\ Publish(r, pending[KeyOf(r)])
         /\ pending' = [pending EXCEPT ![KeyOf(r)] = << >>]
  BY <1>1 DEF DeliverPixels, Delivers
<1>3. CASE Abandon(r)
  BY <1>1, <1>3, EndKeepsPins DEF Abandon
<1>4. CASE /\ pending[KeyOf(r)] # << >> /\ Publish(r, pending[KeyOf(r)])
           /\ pending' = [pending EXCEPT ![KeyOf(r)] = << >>]
  BY <1>1, <1>4, PublishKeepsPins
<1> QED
  BY <1>2, <1>3, <1>4

LEMMA AnswerKeepsPins ==
    ASSUME ServiceInv, GridInv, PinInv, UNCHANGED <<shown, todo, spoiled>>, Dispatch,
           NEW r \in Calls, Answer(r)
    PROVE  PinInv'
<1> DEFINE who == renditions[r].calls
           status == renditions[r].status
<1>1. /\ r \in 1..MaxAsks /\ \A q \in Calls : q \in 1..MaxAsks
      /\ renditions \in [1..MaxAsks -> RenditionsOf(Len(asks))]
      /\ renditions[r].at = "concluded"
      /\ UNCHANGED <<asks, missed, pending, cache, releasing>>
      /\ renditions' = [renditions EXCEPT ![r] = Over] /\ Post(who, status, renditions[r].rev)
  BY Typed DEF Filed, ServiceInv, Answer, Set, callVars, cacheVars
<1>2. who \in Seq(1..Len(asks)) /\ renditions[r].rev \in 0..MaxRevision
  BY <1>1 DEF RenditionsOf
<1>3. status \in {"ready", "canceled", "error"}
  BY <1>1 DEF RenditionsOf, ServiceInv, ServedInv, RenditionsFresh, FreshRendition
<1>4. status = "error" => \A c \in ToSet(who) : Failing(c)
  BY <1>1 DEF Failing, Due
<1>5. \A q \in Calls : renditions'[q].at = "concluded" => renditions'[q] = renditions[q]
  BY <1>1 DEF Over, Rendition
<1> HIDE DEF who, status
<1>6. /\ \A i \in Reports' : events'[i].status = "failed" => KeyOf(events'[i].call) \in spoiled
      /\ \A c : Failing(c)' => Failing(c)
  BY <1>1, <1>2, <1>3, <1>4, <1>5, PostedFailures
<1>7. Held' = Held /\ \A k \in Keys : Vacant(k)' <=> Vacant(k)
  BY <1>1 DEF Held, Vacant, Owed
<1>8. /\ RequestsFit'
      /\ \A k \in Keys : (Dropping(k)' <=> Dropping(k)) /\ (Asking(k)' <=> Asking(k))
  BY <1>1, <1>7, RequestsStay
<1> QED
  BY <1>1, <1>6, <1>7, <1>8, ServiceStepKeepsPins DEF shown

LEMMA JoinKeepsPins ==
    ASSUME ServiceInv, GridInv, PinInv, UNCHANGED <<shown, todo, spoiled>>, Dispatch,
           NEW r \in Calls, JoinOrStart(r)
    PROVE  PinInv'
<1>0. PICK k \in Keys : k = KeyOf(r)
  BY Typed DEF ServiceInv
<1> DEFINE new == NewRendition(generation[k])
<1>1. /\ r \in 1..MaxAsks /\ r # 0 /\ \A q \in Calls : q \in 1..MaxAsks
      /\ pending \in [Keys -> Seq(1..Len(asks))]
      /\ renditions \in [1..MaxAsks -> RenditionsOf(Len(asks))]
  BY Typed DEF Filed, ServiceInv
<1>2. /\ r \in missed /\ missed' = missed \ {r}
      /\ UNCHANGED <<asks, posted, cache, releasing>>
      /\ pending' = [pending EXCEPT ![k] = Append(@, r)]
      /\ renditions' = IF pending[k] # << >> THEN renditions
                       ELSE [renditions EXCEPT ![r] = new]
  BY <1>0 DEF JoinOrStart
<1>3. flag[k] = r /\ k \notin Held /\ pending[k] = << >>
  BY <1>0, <1>2 DEF PinInv, OneCaller
<1>4. pins[k] # 0
  BY <1>1, <1>3, GridTyped DEF GridInv, FlagsFit
<1>5. pending'[k] = << r >> /\ Len(pending'[k]) = 1 /\ Waiting(k)' = {r}
  <2>1. pending'[k] = Append(<< >>, r) /\ Append(<< >>, r) = << r >> /\ Len(<< r >>) = 1
    BY <1>1, <1>2, <1>3
  <2> QED
    BY <2>1, SingleLists DEF Waiting
<1>6. \A l \in Keys : l # k => pending'[l] = pending[l] /\ Waiting(l)' = Waiting(l)
  BY <1>1, <1>2 DEF Waiting
<1>7. new.at = "started" /\ renditions[r].at = "none"
  BY <1>2 DEF NewRendition, Rendition, GridInv, RenditionsFit
<1> HIDE DEF new
<1>8. \A q \in Calls : Due(q)' = Due(q) /\ (q # r => renditions'[q] = renditions[q]) /\ Due(r)' = {}
  BY <1>1, <1>2, <1>3, <1>7 DEF Due
<1>9. Held' = Held /\ Owed' = Owed /\ UNCHANGED <<pins, flag, active, tile, store>>
      /\ \A c : KeyOf(c)' = KeyOf(c)
  BY <1>2 DEF Held, Owed, KeyOf, shown, gridVars
<1>10. \A c \in missed : KeyOf(c) \in Keys
  BY GridTyped, Typed DEF Filed, ServiceInv, Calls
<1>11. \A l \in Keys : /\ (Dropping(l)' <=> Dropping(l)) /\ (GivingUp(l)' <=> GivingUp(l))
                       /\ (Asking(l)' <=> Asking(l)) /\ (l # k => (Vacant(l)' <=> Vacant(l)))
  BY <1>2, <1>6, <1>9 DEF Dropping, GivingUp, Asking, Vacant
<1>12. OneCaller'
  <2>1. ASSUME NEW c \in missed' PROVE KeyOf(c) # k
    BY <1>2, <1>3, <2>1 DEF PinInv, OneCaller
  <2> QED
    BY <1>2, <1>3, <1>5, <1>6, <1>9, <1>10, <1>11, <2>1 DEF PinInv, OneCaller
<1>13. RequestsFit'
  <2>1. \A i \in 1..Len(todo) : todo[i].op = "request" => todo[i].key \in Keys /\ todo[i].key # k
    BY <1>0, <1>2, GridTyped DEF ServiceCalls, PinInv, RequestsFit
  <2> QED
    BY <1>2, <1>9, <1>11, <2>1 DEF PinInv, RequestsFit
<1>14. PinsFit'
  BY <1>2, <1>4, <1>9, <1>11 DEF PinInv, PinsFit
<1>15. FailuresFit'
  <2>1. \A c : Failing(c)' => Failing(c)
    BY <1>2, <1>8, SilentFailures DEF Failing
  <2> QED
    BY <1>2, <1>9, <2>1, SilentFailures DEF PinInv, FailuresFit
<1>16. RowsFit'
  <2>1. \A e \in Elements : PinnedKeys(e)' = PinnedKeys(e) /\ TiersOf(e) \subseteq Keys
    BY <1>9 DEF PinnedKeys, TiersOf
  <2> QED
    BY <1>9, <1>11, <2>1 DEF PinInv, RowsFit, TiersOf
<1> QED
  BY <1>12, <1>13, <1>14, <1>15, <1>16 DEF PinInv

LEMMA EndReleaseKeepsPins ==
    ASSUME ServiceInv, GridInv, PinInv, UNCHANGED <<shown, todo, spoiled>>, Dispatch,
           NEW k \in Keys, EndRelease(k)
    PROVE  PinInv'
<1>1. /\ UNCHANGED <<asks, missed, posted, pending, renditions>>
      /\ releasing' = releasing \ {k} /\ cache' = Cache!Unpin(cache, k)
  BY DEF EndRelease, workVars
<1>2. /\ \A l \in Keys : l # k => cache'.guard[l] = cache.guard[l]
      /\ cache'.guard[k] = Cache!NoGuard \/ (k \in Held /\ cache.guard[k].pins > 1)
  <2>1. IsCache(cache)
    BY DEF ServiceInv, Sound
  <2> QED
    BY <1>1, <2>1, UnpinGuards DEF Held
<1>3. Held' \subseteq Held /\ k \notin Owed'
  <2>1. \A l \in Keys : l \in Held <=> cache.guard[l] # Cache!NoGuard
    BY DEF Held, Cache!Cached
  <2>2. \A l \in Keys : l \in Held' <=> cache'.guard[l] # Cache!NoGuard
    BY DEF Held, Cache!Cached
  <2>3. Held \subseteq Keys /\ Held' \subseteq Keys
    BY DEF Held, Cache!Cached
  <2>4. k \in Owed => cache.guard[k].pins = 1
    BY DEF PinInv, PinsFit
  <2> QED
    BY <1>2, <2>1, <2>2, <2>3, <2>4 DEF Owed
<1>4. /\ RequestsFit'
      /\ \A l \in Keys : (Dropping(l)' <=> Dropping(l)) /\ (Asking(l)' <=> Asking(l))
  BY <1>1, <1>3, VacantStays, RequestsStay
<1>5. \A c : Failing(c)' => Failing(c)
  <2>1. \A q \in Calls : Due(q)' = Due(q)
    BY <1>1 DEF Due
  <2> QED
    BY <1>1, <2>1, SilentFailures DEF Failing
<1> QED
  BY <1>1, <1>2, <1>3, <1>4, <1>5, SilentFailures, ServiceStepKeepsPins DEF shown

LEMMA WorkingKeepsPins ==
    ASSUME ServiceInv, GridInv, PinInv, Working
    PROVE  PinInv'
<1>1. UNCHANGED <<shown, todo, spoiled>> /\ Dispatch
  BY DEF Working, shown
<1>2. CASE Finish
  BY <1>1, <1>2, JoinKeepsPins, EndReleaseKeepsPins DEF Finish
<1>3. ASSUME NEW r \in Calls, Render(r) PROVE PinInv'
  BY <1>1, <1>3, FetchKeepsPins, DeliverKeepsPins, FailKeepsPins, AnswerKeepsPins DEF Render
<1> QED
  BY <1>2, <1>3 DEF Working

----------------------------------------------------------------------------
\* The service calls of a handler.

\* A release, or the cancellation of a deleted image.
LEMMA CancelKeepsPins ==
    ASSUME ServiceInv, GridInv, PinInv, UNCHANGED <<shown, spoiled>>, Dispatch,
           todo # << >>, todo' = Tail(todo), todo[1].op \in {"release", "cancel"}, missed = {},
           NEW ks \in SUBSET Keys, UNCHANGED <<asks, missed, renditions, cache>>,
           \A k \in Keys : pending'[k] = IF k \in ks THEN << >> ELSE pending[k],
           NEW who \in Seq(1..Len(asks)), Post(who, "canceled", 0),
           releasing \subseteq releasing',
           todo[1].op = "release" => todo[1].key \in ks \cap releasing'
    PROVE  PinInv'
<1>1. Held' = Held /\ \A k \in Keys : pending'[k] = pending[k] \/ pending'[k] = << >>
  BY DEF Held
<1>2. /\ RequestsFit'
      /\ \A k \in Keys : Dropping(k) => Dropping(k)' \/ (todo[1].op = "release" /\ todo[1].key = k)
      /\ \A k \in Keys : Asking(k) => Asking(k)'
  <2>1. \A k \in Keys : Vacant(k) => Vacant(k)'
    BY <1>1, VacantStays
  <2> QED
    BY <2>1, RequestsAdvance
<1>3. 0 \in 0..MaxRevision
  BY CallsAssumption
<1>4. /\ \A i \in Reports' : events'[i].status = "failed" => KeyOf(events'[i].call) \in spoiled
      /\ \A c : Failing(c)' => Failing(c)
  <2>1. \A r \in Calls : renditions'[r].at = "concluded" => renditions'[r] = renditions[r]
    OBVIOUS
  <2>2. "canceled" \in {"ready", "canceled", "error"} /\ "canceled" # "error"
    OBVIOUS
  <2> QED
    BY <1>3, <2>1, <2>2, PostedFailures
<1>5. \A k \in Keys : Dropping(k) => \/ Dropping(k)'
                                     \/ /\ pending'[k] = << >>
                                        /\ (k \in releasing' \/ k \notin Held')
  BY <1>2
<1> QED
  BY <1>1, <1>2, <1>4, <1>5, ServiceStepKeepsPins DEF shown

\* An invalidation takes the guards of the image's keys.
LEMMA InvalidateKeepsPins ==
    ASSUME ServiceInv, GridInv, PinInv, UNCHANGED <<shown, spoiled>>, Dispatch,
           todo # << >>, todo' = Tail(todo), todo[1].op = "invalidate", missed = {},
           InvalidateThumbnail(todo[1].image)
    PROVE  PinInv'
<1>0. PICK e : e = todo[1].image
  OBVIOUS
<1>1. /\ UNCHANGED <<asks, missed, releasing, posted, renditions>>
      /\ pending' = [l \in Keys |-> IF l \in TiersOf(e) THEN << >> ELSE pending[l]]
      /\ cache' = Cache!Forget(cache, TiersOf(e))
  BY <1>0 DEF InvalidateThumbnail, Supersede, workVars, callVars
<1>2. \A l \in Keys : cache'.guard[l] = IF l \in TiersOf(e) THEN Cache!NoGuard ELSE cache.guard[l]
  <2>1. IsCache(cache)
    BY DEF ServiceInv, Sound
  <2> QED
    BY <1>1, <2>1, ForgetGuards
<1>3. /\ Held' \subseteq Held /\ \A k \in Keys : k \in TiersOf(e) => k \notin Held'
      /\ \A k \in Keys : cache'.guard[k] = cache.guard[k] \/ k \notin Held'
  BY <1>2 DEF Held, Cache!Cached
<1>4. /\ \A k \in Keys : pending'[k] = pending[k] \/ pending'[k] = << >>
      /\ \A k \in Keys : ImageOf(k) = e => pending'[k] = << >> /\ k \notin Held'
  BY <1>1, <1>3 DEF TiersOf
<1>5. /\ RequestsFit'
      /\ \A k \in Keys : Dropping(k) => Dropping(k)' \/ ImageOf(k) = e
      /\ \A k \in Keys : Asking(k) => Asking(k)'
  <2>1. \A k \in Keys : Vacant(k) => Vacant(k)'
    BY <1>3, <1>4, VacantStays
  <2>2. \A k \in Keys : ImageOf(k) = e => Vacant(k)'
    BY <1>4 DEF Vacant, Owed
  <2>3. \A c \in missed' : todo[1].op = "request" /\ KeyOf(c)' = todo[1].key
    BY <1>1
  <2> QED
    BY <1>0, <2>1, <2>2, <2>3, RequestsAdvance
<1>6. \A c : Failing(c)' => Failing(c)
  <2>1. \A q \in Calls : Due(q)' = Due(q)
    BY <1>1 DEF Due
  <2> QED
    BY <1>1, <2>1, SilentFailures DEF Failing
<1>7. \A k \in Keys : Dropping(k) => \/ Dropping(k)'
                                     \/ /\ pending'[k] = << >>
                                        /\ (k \in releasing' \/ k \notin Held')
  BY <1>4, <1>5
<1> QED
  BY <1>1, <1>3, <1>4, <1>5, <1>6, <1>7, SilentFailures, ServiceStepKeepsPins DEF shown, Owed

\* A request finds its key vacant: what the service still has of it was spoiled.
LEMMA RequestKeepsPins ==
    ASSUME ServiceInv, GridInv, PinInv, UNCHANGED <<store, conversions, unnoted, spoiled>>, Dispatch,
           todo # << >>, todo' = Tail(todo), todo[1].op = "request", missed = {},
           RequestThumbnail(todo[1].key, todo[1].again)
    PROVE  PinInv'
<1>0. PICK k : k = todo[1].key
  OBVIOUS
<1>1. PICK n : n = Len(asks')
  OBVIOUS
<1>2. /\ GetThumbnail(k) /\ UNCHANGED <<pins, pending, renditions, releasing>>
      /\ flag' = [flag EXCEPT ![k] = n] /\ active' = (active \ {flag[k]}) \cup {n}
      /\ tile' = [tile EXCEPT ![ImageOf(k)] = [tier |-> @.tier, loading |-> TRUE, error |-> FALSE]]
  BY <1>0, <1>1 DEF RequestThumbnail, GetThumbnail, workVars
<1>3. k \in Keys /\ \A l \in Keys : l # k /\ Asking(l) => Asking(l)'
  BY <1>0, <1>2, RequestAdvances
<1>4. /\ n = Len(asks) + 1 /\ n \in 1..MaxAsks /\ Calls \subseteq Calls'
      /\ \A c \in Calls : KeyOf(c)' = KeyOf(c) /\ asks'[n].key = k
      /\ \A i \in Reports' : \/ i \in Reports /\ events'[i] = events[i]
                             \/ events'[i].status = "ready" /\ events'[i].call = n
      /\ missed' \subseteq {n}
  BY <1>1, <1>2, <1>3, CallPosts
<1>5. /\ Len(asks) \in Nat /\ n # 0 /\ n \notin Calls /\ Calls' = Calls \cup {n} /\ KeyOf(n)' = k
      /\ flag \in [Keys -> 0..Len(asks)] /\ active \subseteq Calls
  <2>1. asks'[n].key = k
    BY <1>1, <1>2, <1>3, CallPosts
  <2> QED
    BY <1>1, <1>4, <2>1, GridTyped DEF Calls, KeyOf
<1>6. flag'[k] = n /\ \A l \in Keys : l # k => flag'[l] = flag[l]
  BY <1>2, <1>3, <1>5
<1>7. Vacant(k) /\ pending[k] = << >>
  <2>1. 1 \in 1..Len(todo) /\ 1..(1 - 1) = {}
    BY GridTyped, TailOfTodo
  <2> QED
    BY <1>0, <2>1 DEF PinInv, RequestsFit, Vacant
<1>8. /\ Held' = Held /\ \A l \in Owed : cache'.guard[l] = cache.guard[l]
      /\ missed' # {} => k \notin Held
  <2>1. IsCache(cache) /\ \A l \in Held : cache.guard[l].pins >= 1 /\ cache.guard[l].pins \in Int
    BY DEF ServiceInv, Sound, Held, Cache!Cached, IsCache, Guards
  <2>2. \A l \in Keys : /\ l \in Held <=> cache.guard[l] # Cache!NoGuard
                        /\ l \in Held' <=> cache'.guard[l] # Cache!NoGuard
    BY DEF Held, Cache!Cached
  <2>3. Held \subseteq Keys /\ Held' \subseteq Keys /\ Owed \subseteq Held
    BY DEF Held, Owed, Cache!Cached
  <2>4. CASE k \in Held
    <3>1. cache' = Cache!Pin(cache, k) /\ UNCHANGED missed
      BY <1>2, <2>4 DEF GetThumbnail, Held
    <3>2. /\ \A l \in Keys \ {k} : cache'.guard[l] = cache.guard[l]
          /\ cache'.guard[k].pins = cache.guard[k].pins + 1
      BY <1>3, <2>1, <3>1, PinGuards
    <3>3. cache'.guard[k] # Cache!NoGuard
      <4>1. cache.guard[k].pins + 1 # -1
        BY <2>1, <2>4
      <4> QED
        BY <3>2, <4>1 DEF Cache!NoGuard
    <3>4. k \notin Owed
      BY <1>7 DEF Vacant
    <3> QED
      BY <2>2, <2>3, <2>4, <3>1, <3>2, <3>3, <3>4
  <2>5. CASE k \notin Held
    <3>1. cache' = Cache!RemoveKey(cache, k)
      BY <1>2, <2>5 DEF GetThumbnail, Held
    <3>2. \A l \in Keys : cache'.guard[l] = cache.guard[l]
      BY <1>3, <2>1, <2>2, <2>5, <3>1, RemoveKeyGuards
    <3> QED
      BY <2>2, <2>3, <2>5, <3>2
  <2> QED
    BY <2>4, <2>5
<1>9. Owed' = Owed /\ \A l \in Keys : (Vacant(l)' <=> Vacant(l)) /\ Waiting(l)' = Waiting(l)
  BY <1>2, <1>8 DEF Owed, Vacant, Waiting
<1>10. /\ RequestsFit' /\ \A l \in Keys : Dropping(l) => Dropping(l)'
  <2>1. \A c \in missed' : todo[1].op = "request" /\ KeyOf(c)' = todo[1].key
    BY <1>0, <1>4, <1>5
  <2> QED
    BY <1>9, <2>1, RequestsAdvance
<1>11. OneCaller'
  <2>1. \A l \in Keys : \A c \in Waiting(l) : flag'[l] = c \/ (flag'[l] = 0 /\ Dropping(l)')
    <3>1. Waiting(k) = {}
      BY <1>3, <1>7, WaiterMeans
    <3> QED
      BY <1>6, <1>10, <3>1 DEF PinInv, OneCaller
  <2>2. \A c \in missed' : flag'[KeyOf(c)'] = c /\ KeyOf(c)' \notin Held /\ pending[KeyOf(c)'] = << >>
    BY <1>4, <1>5, <1>6, <1>7, <1>8
  <2> QED
    BY <1>2, <1>8, <1>9, <2>1, <2>2 DEF PinInv, OneCaller
<1>12. PinsFit'
  <2>1. \A l \in Keys : GivingUp(l) => GivingUp(l)'
    BY <1>2, <1>10 DEF GivingUp
  <2>2. k \notin Owed
    BY <1>7 DEF Vacant
  <2> QED
    BY <1>2, <1>6, <1>8, <1>9, <2>1, <2>2 DEF PinInv, PinsFit
<1>13. FailuresFit'
  <2>1. ASSUME NEW i \in Reports', NEW c, c = events'[i].call, events'[i].status = "failed"
        PROVE  KeyOf(c)' \in spoiled
    <3>1. i \in Reports /\ events'[i] = events[i]
      BY <1>4, <2>1
    <3>2. c \in Calls /\ KeyOf(c) \in spoiled
      BY <2>1, <3>1, GridTyped DEF PinInv, FailuresFit
    <3> QED
      BY <1>4, <3>2
  <2>2. \A q \in Calls' : Due(q)' \subseteq Calls /\ (Due(q)' # {} => q \in Calls)
    <3>1. \A q \in Calls : Due(q)' = Due(q) /\ Due(q) \subseteq Calls
      <4>1. \A q \in Calls : AllDue[q] = Due(q) /\ AllDue[q] \subseteq Calls
        BY PlacesAreCalls, Typed DEF ServiceInv, AllDue
      <4> QED
        BY <1>2, <4>1 DEF Due
    <3>2. renditions[n].at = "none"
      BY <1>4, <1>5 DEF ServiceInv, ServedInv, NoneAhead
    <3> QED
      BY <1>2, <1>5, <3>1, <3>2 DEF Due
  <2>3. ASSUME NEW c \in active', Failing(c)' PROVE KeyOf(c)' \notin Held
    <3>1. c \in Calls
      <4>1. CASE \E q \in Calls' : c \in Due(q)' /\ renditions'[q].status # "ready"
        BY <2>2, <4>1
      <4>2. CASE \E i \in Reports' : events'[i].call = c /\ events'[i].status = "error"
        BY <1>4, <4>2, GridTyped
      <4> QED
        BY <2>3, <4>1, <4>2 DEF Failing
    <3>2. c \in active /\ KeyOf(c)' = KeyOf(c)
      BY <1>2, <1>4, <1>5, <2>3, <3>1
    <3>3. Failing(c)
      <4>1. CASE \E q \in Calls' : c \in Due(q)' /\ renditions'[q].status # "ready"
        BY <1>2, <2>2, <4>1 DEF Failing, Due
      <4>2. CASE \E i \in Reports' : events'[i].call = c /\ events'[i].status = "error"
        BY <1>4, <4>2 DEF Failing
      <4> QED
        BY <2>3, <4>1, <4>2 DEF Failing
    <3> QED
      BY <3>2, <3>3 DEF PinInv, FailuresFit
  <2> QED
    BY <1>8, <2>1, <2>3 DEF FailuresFit, KeyOf
<1>14. RowsFit'
  <2> SUFFICES ASSUME NEW e \in Elements, PinnedKeys(e) # {}
               PROVE  tile'[e] # Blank \/ \E l \in TiersOf(e) : Asking(l)'
    BY <1>2 DEF RowsFit, PinnedKeys, TiersOf
  <2>1. CASE e = ImageOf(k)
    <3>1. tile'[e].loading = TRUE
      BY <1>2, <2>1, GridTyped
    <3> QED
      BY <3>1 DEF Blank
  <2>2. CASE e # ImageOf(k)
    <3>1. tile'[e] = tile[e]
      BY <1>2, <2>2, GridTyped
    <3>2. \A l \in TiersOf(e) : l \in Keys /\ l # k
      BY <2>2 DEF TiersOf
    <3> QED
      BY <1>3, <3>1, <3>2 DEF PinInv, RowsFit
  <2> QED
    BY <2>1, <2>2
<1> QED
  BY <1>10, <1>11, <1>12, <1>13, <1>14 DEF PinInv

LEMMA CallingKeepsPins ==
    ASSUME ServiceInv, GridInv, PinInv, Calling
    PROVE  PinInv'
<1>1. /\ todo # << >> /\ todo' = Tail(todo) /\ Head(todo) = todo[1] /\ todo[1] \in ServiceCalls
      /\ missed = {} /\ releasing = {} /\ Dispatch
      /\ UNCHANGED <<store, conversions, unnoted, spoiled>>
  BY GridTyped, TailOfTodo DEF Calling
<1>2. CASE todo[1].op = "request" /\ RequestThumbnail(todo[1].key, todo[1].again)
  BY <1>1, <1>2, RequestKeepsPins
<1>3. CASE todo[1].op = "release" /\ BeginRelease(todo[1].key) /\ UNCHANGED gridVars
  <2>0. PICK k \in Keys : k = todo[1].key
    BY <1>1, <1>3 DEF ServiceCalls
  <2>1. UNCHANGED shown
    BY <1>1, <1>3 DEF shown
  <2>2. /\ Post(pending[k], "canceled", 0) /\ UNCHANGED <<asks, missed, renditions, cache>>
        /\ pending' = [l \in Keys |-> IF l \in {k} THEN << >> ELSE pending[l]]
        /\ releasing' = releasing \cup {k}
    BY <1>3, <2>0 DEF BeginRelease, CancelKey, Supersede, workVars
  <2>3. pending[k] \in Seq(1..Len(asks))
    BY Typed DEF Filed, ServiceInv
  <2> QED
    BY <1>1, <1>3, <2>0, <2>1, <2>2, <2>3, CancelKeepsPins
<1>4. CASE todo[1].op = "cancel" /\ CancelImage(todo[1].image) /\ UNCHANGED gridVars
  <2>0. PICK e : e = todo[1].image
    OBVIOUS
  <2>1. UNCHANGED shown
    BY <1>1, <1>4 DEF shown
  <2> DEFINE S == UNION {ToSet(pending[k]) : k \in TiersOf(e)}
             who == SetToSeq(S)
  <2>2. /\ Post(who, "canceled", 0) /\ UNCHANGED <<asks, missed, renditions, cache, releasing>>
        /\ pending' = [l \in Keys |-> IF l \in TiersOf(e) THEN << >> ELSE pending[l]]
    BY <1>4, <2>0 DEF CancelImage, Supersede, workVars, callVars
  <2>3. who \in Seq(1..Len(asks)) /\ TiersOf(e) \in SUBSET Keys
    <3>1. pending \in [Keys -> Seq(1..Len(asks))] /\ TiersOf(e) \in SUBSET Keys
          /\ Len(asks) \in Nat
      BY Typed DEF Filed, ServiceInv, TiersOf
    <3> QED
      BY <3>1, WaitersOf
  <2> HIDE DEF who, S
  <2> QED
    BY <1>1, <1>4, <2>1, <2>2, <2>3, CancelKeepsPins
<1>5. CASE todo[1].op = "invalidate" /\ InvalidateThumbnail(todo[1].image) /\ UNCHANGED gridVars
  <2>1. UNCHANGED shown
    BY <1>1, <1>5 DEF shown
  <2> QED
    BY <1>1, <1>5, <2>1, InvalidateKeepsPins
<1>6. \/ todo[1].op = "request" /\ RequestThumbnail(todo[1].key, todo[1].again)
      \/ todo[1].op = "release" /\ BeginRelease(todo[1].key) /\ UNCHANGED gridVars
      \/ todo[1].op = "cancel" /\ CancelImage(todo[1].image) /\ UNCHANGED gridVars
      \/ todo[1].op = "invalidate" /\ InvalidateThumbnail(todo[1].image) /\ UNCHANGED gridVars
  BY <1>1 DEF Calling
<1> QED
  BY <1>2, <1>3, <1>4, <1>5, <1>6

----------------------------------------------------------------------------
\* The handlers.

\* Between two handlers.
LEMMA IdleMeans ==
    ASSUME ServiceInv, GridInv, PinInv, Idle
    PROVE  /\ todo = << >> /\ missed = {}
           /\ \A k : ~Asking(k) /\ ~Dropping(k) /\ ~GivingUp(k)
           /\ \A k \in Keys : pins[k] = 0 => Vacant(k)
           /\ \A k \in Owed : k \in Keys /\ (flag[k] # 0 \/ store[k] # NoImage)
           /\ \A k \in Keys : \A c \in Waiting(k) : flag[k] = c
           /\ \A k \in Keys : flag[k] = 0 => pending[k] = << >>
           /\ \A e \in Elements : PinnedKeys(e) # {} => tile[e] # Blank
<1>1. todo = << >> /\ missed = {} /\ releasing = {} /\ 1..Len(todo) = {}
  BY DEF Idle
<1>2. \A k : ~Asking(k) /\ ~Dropping(k) /\ ~GivingUp(k)
  BY <1>1 DEF Asking, Dropping, GivingUp
<1>3. \A k \in Keys : pins[k] = 0 => Vacant(k)
  BY <1>2 DEF PinInv, PinsFit
<1>4. \A k \in Owed : k \in Keys /\ (flag[k] # 0 \/ store[k] # NoImage)
  BY <1>2 DEF PinInv, PinsFit, Owed, Held, Cache!Cached
<1>5. \A k \in Keys : \A c \in Waiting(k) : flag[k] = c
  BY <1>2 DEF PinInv, OneCaller
<1>6. \A k \in Keys : flag[k] = 0 => pending[k] = << >>
  BY <1>5, WaiterMeans
<1>7. \A e \in Elements : PinnedKeys(e) # {} => tile[e] # Blank
  BY <1>2 DEF PinInv, RowsFit
<1> QED
  BY <1>1, <1>2, <1>3, <1>4, <1>5, <1>6, <1>7

\* A handler gives up the keys it takes pins or images of.
LEMMA HandlerKeepsPins ==
    ASSUME ServiceInv, GridInv, PinInv, Idle, UNCHANGED <<calls, spoiled>>,
           \A k \in Keys : \/ flag'[k] = flag[k]
                           \/ flag'[k] = 0 /\ (Dropping(k)' \/ pending[k] = << >>),
           \A k \in Owed : \/ Dropping(k)'
                           \/ flag'[k] = flag[k] /\ store'[k] = store[k]
                           \/ store'[k] # NoImage,
           \A k \in Keys : pins'[k] = 0 => pins[k] = 0 \/ Dropping(k)',
           active' \subseteq active, \A c \in active : Failing(c)' => Failing(c),
           \A i \in Reports' : events'[i].status = "failed" => KeyOf(events'[i].call) \in spoiled,
           RequestsFit', RowsFit'
    PROVE  PinInv'
<1>1. /\ UNCHANGED <<asks, pending, renditions, missed, releasing, cache>>
      /\ UNCHANGED <<Held, Owed>> /\ \A c : KeyOf(c)' = KeyOf(c)
      /\ \A k : Waiting(k)' = Waiting(k) /\ (Vacant(k)' <=> Vacant(k))
  BY DEF calls, callVars, cacheVars, workVars, Held, Owed, KeyOf, Waiting, Vacant
<1>2. OneCaller'
  <2>1. ASSUME NEW k \in Keys, NEW c \in Waiting(k) PROVE flag'[k] = c \/ (flag'[k] = 0 /\ Dropping(k)')
    <3>1. flag[k] = c /\ pending[k] # << >>
      BY <2>1, IdleMeans, WaiterMeans
    <3> QED
      BY <3>1
  <2>2. missed = {}
    BY IdleMeans
  <2> QED
    BY <1>1, <2>1, <2>2 DEF PinInv, OneCaller
<1>3. PinsFit'
  <2> SUFFICES ASSUME NEW k \in Keys
               PROVE  /\ k \in Owed => cache.guard[k].pins = 1
                      /\ pins'[k] = 0 => GivingUp(k)' \/ Vacant(k)
                      /\ k \in Owed => flag'[k] # 0 \/ store'[k] # NoImage \/ GivingUp(k)'
    BY <1>1 DEF PinsFit
  <2>1. Dropping(k)' => GivingUp(k)'
    BY DEF GivingUp
  <2>2. k \in Owed => cache.guard[k].pins = 1
    BY DEF PinInv, PinsFit
  <2> QED
    BY <2>1, <2>2, IdleMeans
<1>4. FailuresFit'
  BY <1>1 DEF PinInv, FailuresFit
<1> QED
  BY <1>2, <1>3, <1>4 DEF PinInv

\* A handler that asks first, and for one key.
LEMMA RequestFits ==
    ASSUME ServiceInv, GridInv, PinInv, Idle, UNCHANGED <<calls, spoiled>>,
           NEW k, Vacant(k),
           \A i \in 1..Len(todo') : todo'[i].op = "request" => i = 1 /\ todo'[i].key = k
    PROVE  RequestsFit'
<1>1. Vacant(k)' /\ missed' = {}
  BY IdleMeans DEF calls, callVars, cacheVars, workVars, Vacant, Owed, Held
<1>2. \A j \in 1..(1 - 1) : FALSE
  OBVIOUS
<1> QED
  BY <1>1, <1>2 DEF RequestsFit

\* The user's actions post and fail nothing.
LEMMA EventsStay ==
    ASSUME ServiceInv, GridInv, PinInv, UNCHANGED <<calls, events, spoiled>>
    PROVE  /\ \A c : Failing(c)' => Failing(c)
           /\ \A i \in Reports' : events'[i].status = "failed" => KeyOf(events'[i].call) \in spoiled
<1>1. UNCHANGED <<asks, renditions, Calls, Reports>> /\ \A q : Due(q)' = Due(q)
  BY DEF calls, callVars, workVars, Calls, Reports, Due
<1> QED
  BY <1>1 DEF Failing, PinInv, FailuresFit

LEMMA ShowTileKeepsPins ==
    ASSUME ServiceInv, GridInv, PinInv, Idle, UNCHANGED <<calls, events, spoiled>>,
           NEW k \in Keys, ShowTile(k)
    PROVE  PinInv'
<1>1. /\ pins' = [pins EXCEPT ![k] = @ + 1] /\ UNCHANGED <<flag, active, tile, store>>
      /\ todo' \in {<<Request(k, FALSE)>>, << >>}
      /\ pins[k] = 0 => todo' = <<Request(k, FALSE)>>
      /\ tile[ImageOf(k)] = Blank => todo' = <<Request(k, FALSE)>>
  BY DEF ShowTile
<1>2. Request(k, FALSE) \in ServiceCalls
  BY DEF Request, ServiceCalls
<1>3. /\ \A l \in Keys : pins[l] > 0 => pins'[l] > 0
      /\ pins'[k] > 0 /\ \A l \in Keys : l # k => pins'[l] = pins[l]
  BY <1>1, GridTyped
<1>4. /\ \A i \in 1..Len(todo') : i = 1 /\ todo'[i].op = "request" /\ todo'[i].key = k
      /\ todo' = <<Request(k, FALSE)>> => todo' # << >> /\ 1 \in 1..Len(todo')
  <2>1. PICK r \in ServiceCalls : r = Request(k, FALSE) /\ r.op = "request" /\ r.key = k
    BY <1>2 DEF Request
  <2>2. <<r>> \in Seq(ServiceCalls) /\ Len(<<r>>) = 1 /\ <<r>>[1] = r
    BY OneCall
  <2>3. PICK q : q = <<r>>
    OBVIOUS
  <2>4. CASE todo' = q
    <3>1. Len(todo') = 1 /\ todo'[1] = r /\ todo' # << >>
      BY <2>2, <2>3, <2>4, NoCall
    <3>2. 1 \in 1..Len(todo') /\ \A i \in 1..Len(todo') : i = 1
      BY <3>1
    <3>3. \A i \in 1..Len(todo') : i = 1 /\ todo'[i].op = "request" /\ todo'[i].key = k
      BY <2>1, <3>1, <3>2
    <3> QED
      BY <3>1, <3>2, <3>3, Zenon
  <2>5. CASE todo' = << >> /\ todo' # q
    <3>1. Len(todo') = 0
      BY <2>5, NoCall
    <3> QED
      BY <2>1, <2>3, <2>5, <3>1
  <2> QED
    BY <1>1, <2>1, <2>3, <2>4, <2>5
<1>5. todo' # << >> => Vacant(k)
  <2>1. CASE pins[k] = 0
    BY <2>1, IdleMeans
  <2>2. CASE pins[k] # 0
    <3>1. k \in PinnedKeys(ImageOf(k)) /\ ImageOf(k) \in Elements
      BY <2>2, GridTyped DEF PinnedKeys, TiersOf, Keys, ImageOf
    <3>2. tile[ImageOf(k)] # Blank
      BY <3>1, IdleMeans
    <3> QED
      BY <2>2, <3>2 DEF ShowTile
  <2> QED
    BY <2>1, <2>2
<1>6. RequestsFit'
  <2>1. CASE todo' = << >>
    BY <2>1 DEF RequestsFit
  <2>2. CASE todo' # << >>
    BY <1>4, <1>5, <2>2, RequestFits
  <2> QED
    BY <2>1, <2>2
<1>7. todo' = <<Request(k, FALSE)>> => Asking(k)'
  BY <1>4 DEF Asking
<1>8. RowsFit'
  <2> SUFFICES ASSUME NEW e \in Elements, PinnedKeys(e)' # {}
               PROVE  tile[e] # Blank \/ \E l \in TiersOf(e) : Asking(l)'
    BY <1>1 DEF RowsFit, TiersOf
  <2>1. CASE e = ImageOf(k)
    <3>1. k \in TiersOf(e)
      BY <2>1 DEF TiersOf
    <3> QED
      BY <1>1, <1>7, <2>1, <3>1
  <2>2. CASE e # ImageOf(k)
    <3>1. PinnedKeys(e)' = PinnedKeys(e)
      BY <1>3, <2>2 DEF PinnedKeys, TiersOf
    <3> QED
      BY <3>1, IdleMeans
  <2> QED
    BY <2>1, <2>2
<1> QED
  BY <1>1, <1>3, <1>6, <1>8, EventsStay, HandlerKeepsPins

LEMMA HideOneKeepsPins ==
    ASSUME ServiceInv, GridInv, PinInv, Idle, UNCHANGED <<calls, events, spoiled>>,
           NEW k \in Keys, HideTile(k), pins[k] > 1
    PROVE  PinInv'
<1>1. pins' = [pins EXCEPT ![k] = @ - 1] /\ UNCHANGED <<todo, flag, active, tile, store>>
  BY DEF HideTile
<1>2. \A l \in Keys : pins[l] > 0 <=> pins'[l] > 0
  BY <1>1, GridTyped
<1>3. \A l \in Keys : pins'[l] = 0 => pins[l] = 0
  BY <1>1, GridTyped
<1>4. RequestsFit'
  BY <1>1, IdleMeans DEF RequestsFit
<1>5. RowsFit'
  <2>1. \A e : PinnedKeys(e)' = PinnedKeys(e)
    BY <1>2 DEF PinnedKeys, TiersOf
  <2> QED
    BY <1>1, <2>1, IdleMeans DEF RowsFit
<1> QED
  BY <1>1, <1>3, <1>4, <1>5, EventsStay, HandlerKeepsPins

\* The largest size left is asked for when nobody has asked and nothing is stored.
LEMMA TakeDownKeepsPins ==
    ASSUME ServiceInv, GridInv, PinInv, Idle, UNCHANGED <<calls, events, spoiled>>,
           NEW k \in Keys, HideTile(k), pins[k] = 1
    PROVE  PinInv'
<1>0. PICK e \in Elements : e = ImageOf(k)
  BY DEF Keys, ImageOf
<1> DEFINE left == PinnedKeys(e) \ {k}
<1>1. /\ pins' = [pins EXCEPT ![k] = @ - 1] /\ TakeDown(k)
      /\ Deactivate({k}) /\ store' = [store EXCEPT ![k] = NoImage]
  BY SMTT(60) DEF HideTile, TakeDown
<1>2. /\ pins'[k] = 0 /\ \A l \in Keys : l # k => pins'[l] = pins[l] /\ store'[l] = store[l]
      /\ PinnedKeys(e)' = left /\ \A d \in Elements : d # e => PinnedKeys(d)' = PinnedKeys(d)
  <2>1. pins'[k] = 0 /\ \A l \in Keys : l # k => pins'[l] = pins[l] /\ store'[l] = store[l]
    BY <1>1, GridTyped
  <2> QED
    BY <1>0, <2>1 DEF PinnedKeys, TiersOf
<1>3. active' \subseteq active /\ \A l \in Keys : flag'[l] = IF l = k THEN 0 ELSE flag[l]
  BY <1>1 DEF Deactivate
<1>4. PinnedKeys(e) # {} /\ tile[e] # Blank
  <2>1. k \in PinnedKeys(e)
    BY <1>0 DEF PinnedKeys, TiersOf
  <2> QED
    BY <2>1, IdleMeans
<1>5. PICK r \in ServiceCalls : r = Release(k) /\ r.op = "release" /\ r.key = k
  <2>1. Release(k) \in ServiceCalls /\ Release(k).op = "release" /\ Release(k).key = k
    BY DEF Release, ServiceCalls
  <2> QED
    BY <2>1
<1>6. ASSUME todo' = <<r>>, \A d \in Elements : \/ tile'[d] = tile[d]
                                                \/ tile'[d] # Blank
                                                \/ PinnedKeys(d)' = {}
      PROVE  PinInv'
  <2>1. Len(todo') = 1 /\ todo'[1] = r
    BY <1>6, OneCall
  <2>2. Dropping(k)' /\ \A i \in 1..Len(todo') : todo'[i].op # "request"
    BY <1>5, <2>1 DEF Dropping
  <2>3. RequestsFit'
    BY <2>2 DEF RequestsFit
  <2>4. RowsFit'
    BY <1>2, <1>4, <1>6, IdleMeans DEF RowsFit
  <2> QED
    BY <1>2, <1>3, <2>2, <2>3, <2>4, EventsStay, IdleMeans, HandlerKeepsPins
<1>7. CASE left = {}
  <2>1. tile' = [tile EXCEPT ![e] = Blank] /\ todo' = <<r>>
    BY <1>0, <1>1, <1>5, <1>7 DEF TakeDown
  <2>2. \A d \in Elements : d # e => tile'[d] = tile[d]
    BY <2>1, GridTyped
  <2> QED
    BY <1>2, <1>6, <1>7, <2>1, <2>2
<1>8. CASE left # {}
  <2> DEFINE largest == CHOOSE n \in left : \A m \in left : TierOf(n) >= TierOf(m)
  <2>1. PICK n \in left : n = largest
    <3>1. left \in SUBSET TiersOf(e)
      BY DEF PinnedKeys
    <3>2. \E n \in left : \A m \in left : TierOf(n) >= TierOf(m)
      BY <1>8, <3>1, LargestTier
    <3> QED
      BY <3>2
  <2>2. ShowsRemaining(e, n) /\ todo' = RequestsRemaining(n) \o <<r>>
    BY <1>0, <1>1, <1>5, <1>8, <2>1 DEF TakeDown
  <2>3. n \in Keys /\ n # k /\ TierOf(n) # 0 /\ TierOf(n) \in Tiers
    BY <2>1, GridAssumption DEF PinnedKeys, TiersOf, Keys, TierOf
  <2>4. \A d \in Elements : tile'[d] = tile[d] \/ tile'[d] # Blank
    <3>1. CASE store[n] # NoImage
      <4> DEFINE new == [Blank EXCEPT !.tier = TierOf(n)]
      <4>1. tile' = [tile EXCEPT ![e] = new]
        BY <2>2, <3>1 DEF ShowsRemaining
      <4>2. new.tier # 0 /\ Blank.tier = 0
        BY <2>3 DEF Blank
      <4> HIDE DEF new
      <4> QED
        BY <4>1, <4>2, GridTyped
    <3>2. CASE store[n] = NoImage
      BY <2>2, <3>2 DEF ShowsRemaining
    <3> QED
      BY <3>1, <3>2
  <2>5. CASE RequestsRemaining(n) = << >>
    <3>1. <<r>> \in Seq(ServiceCalls)
      BY OneCall
    <3>2. todo' = <<r>>
      BY <2>2, <2>5, <3>1, ConcatEmptySeq
    <3> QED
      BY <1>6, <2>4, <3>2
  <2>6. CASE RequestsRemaining(n) # << >>
    <3>1. store[n] = NoImage /\ flag[n] = 0 /\ RequestsRemaining(n) = <<Request(n, FALSE)>>
      BY <2>6 DEF RequestsRemaining
    <3>2. PICK q \in ServiceCalls : q = Request(n, FALSE) /\ q.op = "request" /\ q.key = n
      <4>1. /\ Request(n, FALSE) \in ServiceCalls
            /\ Request(n, FALSE).op = "request" /\ Request(n, FALSE).key = n
        BY <2>3 DEF Request, ServiceCalls
      <4> QED
        BY <4>1
    <3>3. todo' = <<q, r>>
      <4>1. todo' = <<q>> \o <<r>>
        BY <2>2, <3>1, <3>2
      <4> QED
        BY <4>1, TwoCalls
    <3>4. Len(todo') = 2 /\ todo'[1] = q /\ todo'[2] = r
      BY <3>3, TwoCalls
    <3>5. Dropping(k)' /\ \A i \in 1..Len(todo') : todo'[i].op = "request" => i = 1 /\ todo'[i].key = n
      <4>1. 1..Len(todo') = {1, 2}
        BY <3>4
      <4> QED
        BY <1>5, <3>2, <3>4, <4>1 DEF Dropping
    <3>6. Vacant(n)
      BY <2>3, <3>1, IdleMeans DEF Vacant
    <3>7. RequestsFit'
      BY <3>5, <3>6, RequestFits
    <3>8. RowsFit'
      BY <1>2, <1>4, <2>4, IdleMeans DEF RowsFit
    <3> QED
      BY <1>2, <1>3, <3>5, <3>7, <3>8, EventsStay, IdleMeans, HandlerKeepsPins
  <2> QED
    BY <2>5, <2>6
<1> QED
  BY <1>7, <1>8

LEMMA ReleaseVisibleKeepsPins ==
    ASSUME ServiceInv, GridInv, PinInv, Idle, UNCHANGED <<calls, events, spoiled>>,
           ReleaseVisibleThumbnailPins
    PROVE  PinInv'
<1> DEFINE pinned == {k \in Keys : pins[k] > 0}
<1>1. Deactivate(pinned) /\ pins' = [k \in Keys |-> 0] /\ todo' = Releases(pinned)
  BY DEF ReleaseVisibleThumbnailPins
<1>2. \A k \in Keys : k \notin pinned => pins[k] = 0 /\ flag[k] = 0 /\ Vacant(k)
  BY GridTyped, IdleMeans DEF GridInv, FlagsFit
<1>3. \A k \in pinned : k \in Keys
  OBVIOUS
<1> HIDE DEF pinned
<1>4. /\ \A i \in 1..Len(todo') : todo'[i].op = "release"
      /\ \A k \in pinned : \E i \in 1..Len(todo') : todo'[i].op = "release" /\ todo'[i].key = k
  <2>1. pinned \in SUBSET Keys
    BY <1>3
  <2> QED
    BY <1>1, <2>1, ReleasesOf
<1>5. \A k \in pinned : Dropping(k)'
  BY <1>4 DEF Dropping
<1>6. active' \subseteq active /\ \A k \in Keys : flag'[k] = IF k \in pinned THEN 0 ELSE flag[k]
  BY <1>1 DEF Deactivate
<1>7. RequestsFit' /\ RowsFit'
  BY <1>1, <1>4 DEF RequestsFit, RowsFit, PinnedKeys, TiersOf
<1>8. \A k \in Owed : k \in pinned
  BY <1>2, IdleMeans DEF Vacant
<1> QED
  BY <1>2, <1>5, <1>6, <1>7, <1>8, EventsStay, HandlerKeepsPins

LEMMA RemoveStateKeepsPins ==
    ASSUME ServiceInv, GridInv, PinInv, Idle, UNCHANGED <<calls, events, spoiled>>,
           NEW e \in Elements, RemoveThumbnailState(e)
    PROVE  PinInv'
<1>0. PICK ks \in SUBSET Keys : ks = TiersOf(e)
  BY DEF TiersOf
<1>1. /\ Deactivate(ks) /\ pins' = [k \in Keys |-> IF k \in ks THEN 0 ELSE pins[k]]
      /\ tile' = [tile EXCEPT ![e] = Blank]
      /\ store' = [k \in Keys |-> IF k \in ks THEN NoImage ELSE store[k]]
      /\ todo' = <<CancelAll(e), Invalidate(e)>>
  BY <1>0 DEF RemoveThumbnailState
<1>2. /\ CancelAll(e) \in ServiceCalls /\ Invalidate(e) \in ServiceCalls
      /\ CancelAll(e).op = "cancel" /\ Invalidate(e).op = "invalidate" /\ Invalidate(e).image = e
  BY DEF CancelAll, Invalidate, ServiceCalls
<1>3. Len(todo') = 2 /\ todo'[1] = CancelAll(e) /\ todo'[2] = Invalidate(e)
  BY <1>1, <1>2, TwoCalls
<1>4. \A i \in 1..Len(todo') : todo'[i].op # "request"
  <2>1. 1..Len(todo') = {1, 2}
    BY <1>3
  <2> QED
    BY <1>2, <1>3, <2>1
<1>5. \A k \in ks : Dropping(k)'
  <2>1. 2 \in 1..Len(todo') /\ todo'[2].op = "invalidate" /\ todo'[2].image = e
    BY <1>2, <1>3
  <2> QED
    BY <1>0, <2>1 DEF Dropping, TiersOf
<1>6. active' \subseteq active /\ \A k \in Keys : flag'[k] = IF k \in ks THEN 0 ELSE flag[k]
  BY <1>1 DEF Deactivate
<1>7. RequestsFit'
  BY <1>4 DEF RequestsFit
<1>8. RowsFit'
  <2> SUFFICES ASSUME NEW d \in Elements, PinnedKeys(d)' # {} PROVE tile'[d] # Blank
    BY DEF RowsFit
  <2>1. d # e
    BY <1>0, <1>1 DEF PinnedKeys, TiersOf
  <2>2. \A k \in TiersOf(d) : k \in Keys /\ k \notin ks
    BY <1>0, <2>1 DEF TiersOf
  <2>3. PinnedKeys(d)' = PinnedKeys(d)
    BY <1>1, <2>2 DEF PinnedKeys, TiersOf
  <2> QED
    BY <1>1, <2>1, <2>3, GridTyped, IdleMeans
<1> QED
  BY <1>1, <1>5, <1>6, <1>7, <1>8, EventsStay, IdleMeans, HandlerKeepsPins

LEMMA UserKeepsPins ==
    ASSUME ServiceInv, GridInv, PinInv, User
    PROVE  PinInv'
<1>1. Idle /\ UNCHANGED <<calls, events, spoiled>>
  BY DEF User
<1>2. ASSUME NEW k \in Keys, HideTile(k) PROVE PinInv'
  <2>1. pins[k] > 1 \/ pins[k] = 1
    BY <1>2, GridTyped DEF HideTile
  <2> QED
    BY <1>1, <1>2, <2>1, HideOneKeepsPins, TakeDownKeepsPins
<1> QED
  BY <1>1, <1>2, ShowTileKeepsPins, ReleaseVisibleKeepsPins, RemoveStateKeepsPins DEF User

\* The first event is taken: no other fails by it.
LEMMA TakeFails ==
    ASSUME ServiceInv, GridInv, PinInv, Take, UNCHANGED <<calls, spoiled>>
    PROVE  /\ \A c : Failing(c)' => Failing(c)
           /\ \A i \in Reports' : events'[i].status = "failed" => KeyOf(events'[i].call) \in spoiled
<1>1. UNCHANGED <<asks, renditions, Calls>> /\ \A q : Due(q)' = Due(q)
  BY DEF calls, callVars, workVars, Calls, Due
<1>2. \A i \in Reports' : i + 1 \in Reports /\ events'[i] = events[i + 1]
  BY TakeReports
<1> QED
  BY <1>1, <1>2 DEF Failing, PinInv, FailuresFit

\* The image is invalidated first, and then what is pinned of it is requested.
LEMMA RefreshKeepsPins ==
    ASSUME ServiceInv, GridInv, PinInv, Idle, Take, UNCHANGED <<calls, spoiled>>,
           NEW e \in Elements, Refresh(e)
    PROVE  PinInv'
<1>1. /\ todo' = <<Invalidate(e)>> \o Requests(PinnedKeys(e))
      /\ UNCHANGED <<pins, flag, active, tile, store>>
  BY DEF Refresh, gridVars
<1>2. PICK asked : asked = Requests(PinnedKeys(e))
  OBVIOUS
<1>3. PICK first : first = Invalidate(e)
  OBVIOUS
<1>4. /\ asked \in Seq(ServiceCalls) /\ Len(asked) \in Nat
      /\ \A i \in 1..Len(asked) : asked[i].op = "request" /\ asked[i].key \in TiersOf(e)
      /\ \A i, j \in 1..Len(asked) : asked[i].key = asked[j].key => i = j
  <2>1. PinnedKeys(e) \in SUBSET TiersOf(e)
    BY DEF PinnedKeys
  <2> QED
    BY <1>2, <2>1, RequestsOf
<1>5. first \in ServiceCalls /\ first.op = "invalidate" /\ first.image = e
  BY <1>3 DEF Invalidate, ServiceCalls
<1>6. /\ Len(todo') = 1 + Len(asked)
      /\ \A i \in 1..1 + Len(asked) : todo'[i] = IF i <= 1 THEN <<first>>[i] ELSE asked[i - 1]
  <2>1. <<first>> \in Seq(ServiceCalls) /\ Len(<<first>>) = 1
    BY <1>5, OneCall
  <2> QED
    BY <1>1, <1>2, <1>3, <1>4, <2>1, ConcatProperties
<1>7. /\ todo'[1] = first
      /\ \A i \in 1..Len(todo') : i # 1 => i - 1 \in 1..Len(asked) /\ todo'[i] = asked[i - 1]
  <2>1. 1 \in 1..1 + Len(asked) /\ <<first>>[1] = first
    BY <1>4, <1>5, OneCall
  <2> QED
    BY <1>4, <1>6, <2>1
<1>8. ASSUME NEW i \in 1..Len(todo'), todo'[i].op = "request", NEW k, k = todo'[i].key
      PROVE  /\ \E j \in 1..(i - 1) : todo'[j].op = "invalidate" /\ todo'[j].image = ImageOf(k)
             /\ \A j \in 1..(i - 1) : todo'[j].op = "request" => todo'[j].key # k
  <2>1. i # 1
    BY <1>5, <1>7, <1>8
  <2>2. i - 1 \in 1..Len(asked) /\ k = asked[i - 1].key /\ k \in TiersOf(e)
    BY <1>4, <1>7, <1>8, <2>1
  <2>3. 1 \in 1..(i - 1) /\ todo'[1].op = "invalidate" /\ todo'[1].image = ImageOf(k)
    BY <1>4, <1>5, <1>7, <2>2 DEF TiersOf
  <2>4. ASSUME NEW j \in 1..(i - 1), todo'[j].op = "request" PROVE todo'[j].key # k
    <3>1. j # 1 /\ j \in 1..Len(todo')
      BY <1>4, <1>5, <1>6, <1>7, <2>2, <2>4
    <3>2. j - 1 \in 1..Len(asked) /\ todo'[j] = asked[j - 1] /\ j - 1 # i - 1
      BY <1>7, <3>1
    <3> QED
      BY <1>4, <2>2, <3>2
  <2> QED
    BY <2>3, <2>4
<1>9. RequestsFit'
  <2>1. missed' = {}
    BY IdleMeans DEF calls, callVars, cacheVars, workVars
  <2> QED
    BY <1>8, <2>1 DEF RequestsFit, ImageOf
<1>10. RowsFit'
  BY <1>1, IdleMeans DEF RowsFit, PinnedKeys, TiersOf
<1> QED
  BY <1>1, <1>9, <1>10, TakeFails, HandlerKeepsPins

\* A handler that leaves the requests alone.
LEMMA LookKeepsPins ==
    ASSUME ServiceInv, GridInv, PinInv, Idle, Take, UNCHANGED <<calls, spoiled>>,
           UNCHANGED <<gridVars, todo, store>>
    PROVE  PinInv'
<1>1. UNCHANGED <<pins, flag, active, tile, todo>>
  BY DEF gridVars
<1>2. RequestsFit' /\ RowsFit'
  BY <1>1, IdleMeans DEF RequestsFit, RowsFit, PinnedKeys, TiersOf
<1> QED
  BY <1>1, <1>2, TakeFails, HandlerKeepsPins

\* A call is over: its key is not cached if it failed, and stored if it did not.
LEMMA FinishKeepsPins ==
    ASSUME ServiceInv, GridInv, PinInv, Idle, Take, 1 \in Reports, UNCHANGED <<calls, spoiled>>,
           UNCHANGED <<pins, active, store>>, todo' = << >>,
           NEW c, c = events[1].call, c \in active, Finished(c),
           NEW new, new # Blank, tile' = [tile EXCEPT ![ImageOf(KeyOf(c))] = new],
           KeyOf(c) \in Owed => store[KeyOf(c)] # NoImage
    PROVE  PinInv'
<1>1. c \in Reported
  BY DEF Reported
<1>2. PICK k \in Keys : k = KeyOf(c) /\ flag[k] = c /\ c \notin Waiting(k)
  BY <1>1, FailingMeans
<1>3. pending[k] = << >>
  BY <1>2, IdleMeans, WaiterMeans
<1>4. flag'[k] = 0 /\ \A l \in Keys : l # k => flag'[l] = flag[l]
  BY <1>2, GridTyped DEF Finished
<1>5. RequestsFit'
  BY DEF RequestsFit
<1>6. RowsFit'
  <2>1. \A e \in Elements : tile'[e] = tile[e] \/ tile'[e] # Blank
    BY GridTyped
  <2> QED
    BY <2>1, IdleMeans DEF RowsFit, PinnedKeys, TiersOf
<1> QED
  BY <1>2, <1>3, <1>4, <1>5, <1>6, TakeFails, IdleMeans, HandlerKeepsPins

LEMMA RetryKeepsPins ==
    ASSUME ServiceInv, GridInv, PinInv, Idle, Take, 1 \in Reports, UNCHANGED <<calls, spoiled, store>>,
           NEW c, c = events[1].call, c \in active, Failing(c), Retry(c)
    PROVE  PinInv'
<1>1. /\ UNCHANGED <<pins, flag, active, tile>> /\ todo' = <<Request(KeyOf(c), TRUE)>>
  BY DEF Retry, gridVars
<1>2. PICK k \in Keys : k = KeyOf(c) /\ flag[k] = c /\ c \notin Waiting(k) /\ k \notin Held
  BY FailingMeans DEF PinInv, FailuresFit
<1>3. Vacant(k)
  BY <1>2, IdleMeans, WaiterMeans DEF Vacant, Owed
<1>4. PICK r : r = Request(k, TRUE)
  OBVIOUS
<1>5. r \in ServiceCalls /\ r.key = k
  BY <1>4 DEF Request, ServiceCalls
<1>6. Len(todo') = 1 /\ todo'[1] = r
  BY <1>1, <1>2, <1>4, <1>5, OneCall
<1>7. RequestsFit'
  <2>1. \A i \in 1..Len(todo') : i = 1 /\ todo'[i].key = k
    BY <1>5, <1>6
  <2> QED
    BY <1>3, <2>1, RequestFits
<1>8. RowsFit'
  BY <1>1, IdleMeans DEF RowsFit, PinnedKeys, TiersOf
<1> QED
  BY <1>1, <1>7, <1>8, TakeFails, HandlerKeepsPins

LEMMA EventKeepsPins ==
    ASSUME ServiceInv, GridInv, PinInv, Event
    PROVE  PinInv'
<1>1. Idle /\ Take /\ UNCHANGED <<calls, spoiled>>
  BY DEF Event
<1>2. /\ Head(events) = events[1] /\ events[1] \in EventsOf(Len(asks))
      /\ 1 \in Reports <=> events[1].status # "changed"
  BY <1>1, TakeReports
<1>3. CASE events[1].status = "changed" /\ Refresh(events[1].image) /\ UNCHANGED conversions
  <2>1. events[1].image \in Elements
    BY <1>2, <1>3 DEF EventsOf
  <2> QED
    BY <1>1, <1>3, <2>1, RefreshKeepsPins
<1>4. CASE events[1].status \in {"ready", "error", "canceled"} /\ GridAnswer(events[1])
  <2>1. PICK c : c = events[1].call
    OBVIOUS
  <2>2. 1 \in Reports /\ UNCHANGED store
    BY <1>2, <1>4 DEF GridAnswer
  <2>3. events[1].status = "error" => Failing(c)
    BY <2>1, <2>2 DEF Failing
  <2>4. CASE UNCHANGED <<gridVars, todo>>
    BY <1>1, <2>2, <2>4, LookKeepsPins
  <2>5. CASE c \in active /\ Retry(c) /\ events[1].status = "error"
    BY <1>1, <2>1, <2>2, <2>3, <2>5, RetryKeepsPins
  <2>6. CASE c \in active /\ FailTile(c) /\ events[1].status = "error"
    <3> DEFINE new == [Blank EXCEPT !.error = TRUE]
    <3>1. new # Blank
      <4>1. new.error = TRUE /\ Blank.error = FALSE
        BY DEF Blank
      <4> QED
        BY <4>1
    <3>2. /\ Finished(c) /\ tile' = [tile EXCEPT ![ImageOf(KeyOf(c))] = new] /\ todo' = << >>
          /\ UNCHANGED <<pins, active>>
      BY <2>6 DEF FailTile
    <3>3. KeyOf(c) \notin Owed
      BY <2>3, <2>6 DEF PinInv, FailuresFit, Owed
    <3> HIDE DEF new
    <3> QED
      BY <1>1, <2>1, <2>2, <2>6, <3>1, <3>2, <3>3, FinishKeepsPins
  <2>7. \/ UNCHANGED <<gridVars, todo>>
        \/ c \in active /\ events[1].status = "error" /\ (Retry(c) \/ FailTile(c))
    BY <1>4, <2>1 DEF GridAnswer, Convert
  <2> QED
    BY <2>4, <2>5, <2>6, <2>7
<1>5. CASE events[1].status \in {"shown", "failed"} /\ GridShow(events[1])
  <2>1. PICK c : c = events[1].call
    OBVIOUS
  <2>2. 1 \in Reports /\ UNCHANGED <<pins, active, retries, todo, store>> /\ todo = << >>
    BY <1>1, <1>2, <1>5 DEF GridShow, Idle
  <2>3. CASE c \notin active
    <3>1. UNCHANGED gridVars
      BY <1>5, <2>1, <2>2, <2>3 DEF GridShow, gridVars
    <3> QED
      BY <1>1, <2>2, <3>1, LookKeepsPins
  <2>4. CASE c \in active
    <3> DEFINE new == IF events[1].status = "shown" THEN [Blank EXCEPT !.tier = TierOf(KeyOf(c))]
                      ELSE [Blank EXCEPT !.error = TRUE]
    <3>1. TierOf(KeyOf(c)) # 0 /\ (events[1].status = "shown" => store[KeyOf(c)] # NoImage)
      BY <2>1, <2>2, <2>4, ReportedFlag, GridAssumption
    <3>2. new # Blank
      <4>1. Blank.tier = 0 /\ Blank.error = FALSE
        BY DEF Blank
      <4>2. new.tier # 0 \/ new.error = TRUE
        <5>1. CASE events[1].status = "shown"
          <6>1. [Blank EXCEPT !.tier = TierOf(KeyOf(c))].tier = TierOf(KeyOf(c))
            BY DEF Blank
          <6> QED
            BY <3>1, <5>1, <6>1
        <5>2. CASE events[1].status # "shown"
          <6>1. [Blank EXCEPT !.error = TRUE].error = TRUE
            BY DEF Blank
          <6> QED
            BY <5>2, <6>1
        <5> QED
          BY <5>1, <5>2
      <4> HIDE DEF new
      <4> QED
        BY <4>1, <4>2
    <3>3. Finished(c) /\ tile' = [tile EXCEPT ![ImageOf(KeyOf(c))] = new]
      BY <1>5, <2>1, <2>4 DEF GridShow
    <3>4. KeyOf(c) \in Owed => store[KeyOf(c)] # NoImage
      BY <1>5, <2>1, <2>2, <3>1 DEF PinInv, FailuresFit, Owed
    <3> HIDE DEF new
    <3> QED
      BY <1>1, <2>1, <2>2, <2>4, <3>2, <3>3, <3>4, FinishKeepsPins
  <2> QED
    BY <2>3, <2>4
<1> QED
  BY <1>2, <1>3, <1>4, <1>5 DEF Event

----------------------------------------------------------------------------
\* The threads, and the commits.

\* A step that neither calls the service nor handles anything.
LEMMA OutsideKeepsPins ==
    ASSUME ServiceInv, GridInv, PinInv,
           UNCHANGED <<asks, pending, renditions, missed, releasing, cache, todo, gridVars>>,
           spoiled \subseteq spoiled', \A k \in Keys : store'[k] = NoImage => store[k] = NoImage,
           \A c : Failing(c)' => Failing(c),
           \A i \in Reports' : events'[i].status = "failed" => KeyOf(events'[i].call) \in spoiled'
    PROVE  PinInv'
<1>1. /\ UNCHANGED <<pins, flag, active, tile, Held>> /\ Owed' \subseteq Owed
      /\ \A c : KeyOf(c)' = KeyOf(c)
      /\ \A k : Waiting(k)' = Waiting(k) /\ (Vacant(k) => Vacant(k)')
  BY DEF gridVars, Held, Owed, KeyOf, Waiting, Vacant
<1>2. RequestsFit' /\ \A k \in Keys : (Dropping(k)' <=> Dropping(k)) /\ (Asking(k)' <=> Asking(k))
  BY <1>1, RequestsStay
<1>3. OneCaller'
  BY <1>1, <1>2 DEF PinInv, OneCaller
<1>4. PinsFit'
  BY <1>1, <1>2 DEF PinInv, PinsFit, GivingUp
<1>5. FailuresFit'
  BY <1>1 DEF PinInv, FailuresFit
<1>6. RowsFit'
  <2>1. \A e : PinnedKeys(e)' = PinnedKeys(e) /\ TiersOf(e) \subseteq Keys
    BY <1>1 DEF PinnedKeys, TiersOf
  <2> QED
    BY <1>1, <1>2, <2>1 DEF PinInv, RowsFit, TiersOf
<1> QED
  BY <1>2, <1>3, <1>4, <1>5, <1>6 DEF PinInv

\* What is not a failure of the service is appended to the events.
LEMMA AppendFails ==
    ASSUME ServiceInv, GridInv, PinInv, UNCHANGED <<asks, renditions>>,
           NEW event \in EventsOf(Len(asks)), events' = Append(events, event),
           event.status # "error"
    PROVE  /\ \A c : Failing(c)' => Failing(c)
           /\ \A i \in Reports' : \/ i \in Reports /\ events'[i] = events[i]
                                  \/ events'[i] = event
<1>1. UNCHANGED Calls /\ \A q : Due(q)' = Due(q)
  BY DEF Calls, Due
<1>2. /\ Len(events') = Len(events) + 1 /\ Len(events) \in Nat
      /\ events'[Len(events) + 1] = event /\ \A i \in 1..Len(events) : events'[i] = events[i]
  BY GridTyped, AppendProperties
<1>3. \A i \in Reports' : \/ i \in Reports /\ events'[i] = events[i]
                          \/ events'[i] = event
  BY <1>2 DEF Reports
<1> QED
  BY <1>1, <1>3 DEF Failing

LEMMA ReportKeepsPins ==
    ASSUME ServiceInv, GridInv, PinInv, NEW t \in conversions,
           NEW status \in {"shown", "failed"}, Report(t, status), spoiled \subseteq spoiled',
           \A k \in Keys : store'[k] = NoImage => store[k] = NoImage,
           status = "failed" => KeyOf(t.call) \in spoiled'
    PROVE  PinInv'
<1> DEFINE report == [call |-> t.call, status |-> status, rev |-> t.rev]
<1>1. /\ UNCHANGED <<asks, pending, renditions, missed, releasing, cache, todo, gridVars>>
      /\ events' = Append(events, report)
  BY DEF Report, calls, callVars, cacheVars, workVars
<1>2. /\ report \in EventsOf(Len(asks)) /\ report.status = status /\ status # "error"
      /\ report.call = t.call
  BY ConvertedCall DEF EventsOf, Calls
<1> HIDE DEF report
<1>3. /\ \A c : Failing(c)' => Failing(c)
      /\ \A i \in Reports' : \/ i \in Reports /\ events'[i] = events[i]
                             \/ events'[i] = report
  BY <1>1, <1>2, AppendFails
<1>4. \A i \in Reports' : events'[i].status = "failed" => KeyOf(events'[i].call) \in spoiled'
  BY <1>2, <1>3 DEF PinInv, FailuresFit
<1> QED
  BY <1>1, <1>3, <1>4, OutsideKeepsPins

LEMMA ThreadKeepsPins ==
    ASSUME ServiceInv, GridInv, PinInv, Thread
    PROVE  PinInv'
<1>1. PICK t \in conversions : CheckFlag(t) \/ StoreImage(t) \/ FailConversion(t)
  BY DEF Thread
<1>2. CASE CheckFlag(t)
  <2>1. /\ UNCHANGED <<asks, pending, renditions, missed, releasing, cache, todo, gridVars>>
        /\ UNCHANGED <<calls, events, store, spoiled>>
    BY <1>2 DEF CheckFlag, calls, callVars, cacheVars, workVars
  <2> QED
    BY <2>1, EventsStay, OutsideKeepsPins
<1>3. CASE StoreImage(t)
  <2>1. store' = [store EXCEPT ![KeyOf(t.call)] = t.rev] /\ Report(t, "shown") /\ UNCHANGED spoiled
    BY <1>3 DEF StoreImage
  <2>2. KeyOf(t.call) \in Keys /\ t.rev # NoImage
    BY ConvertedCall, CallsAssumption DEF NoImage
  <2>3. \A k \in Keys : store'[k] = NoImage => store[k] = NoImage
    BY <2>1, <2>2, GridTyped
  <2> QED
    BY <2>1, <2>3, ReportKeepsPins
<1>4. CASE FailConversion(t)
  BY <1>4, ReportKeepsPins DEF FailConversion
<1> QED
  BY <1>1, <1>2, <1>3, <1>4

LEMMA CommitImageKeepsPins ==
    ASSUME ServiceInv, GridInv, PinInv, NEW e \in Elements, CommitImage(e)
    PROVE  PinInv'
<1>1. /\ UNCHANGED <<asks, pending, renditions, missed, releasing, cache, todo, gridVars>>
      /\ UNCHANGED <<events, store, spoiled>>
  BY DEF CommitImage, Commit, callVars, cacheVars, workVars
<1>2. UNCHANGED <<Calls, Reports>> /\ \A q : Due(q)' = Due(q)
  BY <1>1 DEF Calls, Reports, Due
<1>3. \A c : Failing(c)' => Failing(c)
  BY <1>1, <1>2 DEF Failing
<1>4. \A i \in Reports' : events'[i].status = "failed" => KeyOf(events'[i].call) \in spoiled'
  BY <1>1, <1>2 DEF PinInv, FailuresFit
<1> QED
  BY <1>1, <1>3, <1>4, OutsideKeepsPins

LEMMA NoteCommitKeepsPins ==
    ASSUME ServiceInv, GridInv, PinInv, NEW e \in Elements, NoteCommit(e)
    PROVE  PinInv'
<1> DEFINE event == [status |-> "changed", image |-> e]
<1>1. /\ UNCHANGED <<asks, pending, renditions, missed, releasing, cache, todo, gridVars>>
      /\ UNCHANGED <<store, spoiled>> /\ events' = Append(events, event)
  BY DEF NoteCommit, calls, callVars, cacheVars, workVars
<1>2. event \in EventsOf(Len(asks)) /\ event.status = "changed"
  BY DEF EventsOf
<1> HIDE DEF event
<1>3. /\ \A c : Failing(c)' => Failing(c)
      /\ \A i \in Reports' : \/ i \in Reports /\ events'[i] = events[i]
                             \/ events'[i] = event
  BY <1>1, <1>2, AppendFails
<1>4. \A i \in Reports' : events'[i].status = "failed" => KeyOf(events'[i].call) \in spoiled'
  BY <1>1, <1>2, <1>3 DEF PinInv, FailuresFit
<1> QED
  BY <1>1, <1>3, <1>4, OutsideKeepsPins

----------------------------------------------------------------------------
\* The album and its pins.

LEMMA GridNextKeepsPins ==
    ASSUME ServiceInv, GridInv, PinInv, [GridNext]_album
    PROVE  PinInv'
<1>1. CASE UNCHANGED album
  <2>1. /\ UNCHANGED <<asks, pending, renditions, missed, releasing, cache, todo, gridVars>>
        /\ UNCHANGED <<calls, events, store, spoiled>>
    BY <1>1 DEF album, calls, callVars, cacheVars, workVars
  <2> QED
    BY <2>1, EventsStay, OutsideKeepsPins
<1>2. CASE GridNext
  BY <1>2, UserKeepsPins, CallingKeepsPins, EventKeepsPins, ThreadKeepsPins, WorkingKeepsPins,
     CommitImageKeepsPins, NoteCommitKeepsPins DEF GridNext
<1> QED
  BY <1>1, <1>2

LEMMA InitKeepsPins ==
    ASSUME AlbumInit
    PROVE  PinInv
<1>1. /\ todo = << >> /\ events = << >> /\ active = {} /\ missed = {} /\ asks = << >>
      /\ pins = [k \in Keys |-> 0] /\ tile = [e \in Elements |-> Blank]
      /\ pending = [k \in Keys |-> << >>] /\ \E n \in Capacities : cache = Cache!EmptyCache(n)
  BY DEF AlbumInit, Init
<1>2. Held = {} /\ Owed = {} /\ Len(<< >>) = 0
  BY <1>1 DEF Held, Owed, Cache!Cached, Cache!EmptyCache
<1>3. OneCaller
  BY <1>1, <1>2 DEF OneCaller, Waiting, ToSet
<1>4. RequestsFit /\ FailuresFit
  BY <1>1, <1>2 DEF RequestsFit, FailuresFit, Reports
<1>5. PinsFit
  BY <1>1, <1>2 DEF PinsFit, Vacant
<1>6. RowsFit
  BY <1>1 DEF RowsFit, PinnedKeys, TiersOf
<1> QED
  BY <1>3, <1>4, <1>5, <1>6 DEF PinInv

\* When nothing is left to handle, the service holds one pin of each key it
\* still caches, and the grid shows that key: however requests, joins, releases,
\* retries and commits came together, no pin is left behind for a hidden tile,
\* but of a key a conversion failed for (thumbnail_manager.cpp,
\* thumbnail_service.cpp).
THEOREM AlbumPinsBalanced == GridSpec => []PinsAreBalanced
<1>1. AlbumInit => PinInv
  BY InitKeepsPins
<1>2. (ServiceInv /\ GridInv) /\ PinInv /\ [GridNext]_album => PinInv'
  BY GridNextKeepsPins
<1>3. ASSUME ServiceInv, GridInv, PinInv PROVE PinsAreBalanced
  <2> SUFFICES ASSUME AtRest, NEW k \in Cache!Cached(cache) \ spoiled
               PROVE  pins[k] > 0 /\ cache.guard[k].pins = 1
    BY DEF PinsAreBalanced
  <2>1. Idle /\ k \in Owed
    BY DEF AtRest, Owed, Held
  <2>2. k \in Keys /\ ~GivingUp(k)
    BY <1>3, <2>1, IdleMeans
  <2>3. cache.guard[k].pins = 1 /\ pins[k] # 0
    BY <1>3, <2>1, <2>2 DEF PinInv, PinsFit, Vacant
  <2> QED
    BY <1>3, <2>2, <2>3, GridTyped
<1> QED
  BY <1>1, <1>2, <1>3, AlbumFits, PTL DEF GridSpec
=============================================================================
