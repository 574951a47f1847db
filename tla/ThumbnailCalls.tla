---------------------------- MODULE ThumbnailCalls ----------------------------
(***************************************************************************)
(* What a caller sees of app/thumbnail_service.cpp.  Callers ask for the       *)
(* thumbnail of a key (one image at one size).  A hit in the memory cache is   *)
(* answered at once; the first miss starts a rendition, and later misses of    *)
(* the key wait for it.  Cancelling a key or invalidating its image gives the  *)
(* key a new generation, and a rendition of an older one must not publish.     *)
(*                                                                         *)
(* An action is one section under the cache lock, or one step of a rendition   *)
(* whose way through the pools ThumbnailService adds.  A commit of the editor   *)
(* makes a new revision of the image; pixels are the revision they show.       *)
(***************************************************************************)
EXTENDS Integers, Sequences, FiniteSets, SequencesExt

CONSTANTS
    Elements,           \* images
    Tiers,              \* thumbnail sizes
    AnalysisTiers,      \* the sizes the analysis services ask for
    MaxAsks,            \* calls one behaviour makes
    MaxGeneration,      \* generations a key goes through
    MaxRevision,        \* commits of an image
    Capacities,         \* capacities the cache starts with or is resized to
    PinnedBoost

ASSUME CallsAssumption ==
    /\ Elements # {} /\ Tiers # {} /\ AnalysisTiers \subseteq Tiers
    /\ MaxAsks \in Nat /\ MaxGeneration \in Nat /\ MaxRevision \in Nat
    /\ Capacities # {} /\ Capacities \subseteq Nat \ {0}
    /\ PinnedBoost \in Nat \ {0}

Keys == Elements \X Tiers
Cache == INSTANCE PinnedLruCache

VARIABLES
    asks,        \* the calls made so far; a call is named by its place here
    missed,      \* calls between the two sections of GetThumbnailDetailed
    releasing,   \* keys between the two sections of ReleaseThumbnail
    cache,       \* thumbnail_cache_ and thumbnail_cache_data_
    pending,     \* pending_: the calls waiting for each key
    generation,  \* generation_tokens_
    renditions,  \* the RenditionRequest each call started
    analyses,    \* analysis_requests_
    canceled,    \* analysis renditions whose cancel flag is set
    posted,      \* answers handed to the callers' dispatchers, in order
    dropped,     \* history: calls an invalidation dropped without an answer
    committed,   \* environment: the newest committed revision of each image
    invalidated  \* history: the revision each image had at its last invalidation

callVars  == <<asks, missed, releasing>>
cacheVars == <<cache, pending, generation>>
workVars  == <<renditions, analyses>>
imageVars == <<committed, invalidated, dropped>>
calls     == <<callVars, cacheVars, workVars, canceled, posted, imageVars>>

----------------------------------------------------------------------------
Calls      == 1..Len(asks)
KeyOf(r)   == asks[r].key
ImageOf(k) == k[1]
TiersOf(e) == {k \in Keys : ImageOf(k) = e}

Rendition(at, gen) == [at |-> at, gen |-> gen, rev |-> 0, calls |-> << >>, status |-> "none"]
NoRendition        == Rendition("none", 0)
NewRendition(gen)  == Rendition("started", gen)
Over               == Rendition("over", 0)

Init ==
    /\ asks = << >> /\ missed = {} /\ releasing = {}
    /\ \E n \in Capacities : cache = Cache!EmptyCache(n)
    /\ pending = [k \in Keys |-> << >>] /\ generation = [k \in Keys |-> 0]
    /\ renditions = [r \in 1..MaxAsks |-> NoRendition]
    /\ analyses = {} /\ canceled = {} /\ posted = << >> /\ dropped = {}
    /\ committed = [e \in Elements |-> 0] /\ invalidated = [e \in Elements |-> 0]

----------------------------------------------------------------------------
Answers(who, status, rev) ==
    [i \in 1..Len(who) |-> [call |-> who[i], status |-> status, rev |-> rev]]
Post(who, status, rev) == posted' = posted \o Answers(who, status, rev)

\* A call asks for a key; since is the oldest revision it may be answered with.
Ask(k, kind) ==
    /\ Len(asks) < MaxAsks
    /\ asks' = Append(asks, [key |-> k, kind |-> kind, since |-> invalidated[ImageOf(k)]])

----------------------------------------------------------------------------
\* First section of GetThumbnailDetailed: a hit is pinned and answered.
GetThumbnail(k) ==
    /\ Ask(k, "thumbnail")
    /\ IF k \in Cache!Cached(cache)
       THEN /\ cache' = Cache!Pin(cache, k)
            /\ Post(<<Len(asks')>>, "ready", cache.guard[k].rev)
            /\ UNCHANGED missed
       ELSE /\ cache' = Cache!RemoveKey(cache, k)
            /\ missed' = missed \cup {Len(asks')}
            /\ UNCHANGED posted
    /\ UNCHANGED <<pending, generation, workVars, canceled, releasing, imageVars>>

\* Mutant of JoinOrStart: every miss starts a rendition of its own.
StartAlways(r) ==
    LET k == KeyOf(r)
    IN  /\ r \in missed
        /\ missed' = missed \ {r}
        /\ pending' = [pending EXCEPT ![k] = Append(@, r)]
        /\ renditions' = [renditions EXCEPT ![r] = NewRendition(generation[k])]
        /\ UNCHANGED <<asks, releasing, cache, generation, analyses, canceled, posted, imageVars>>

\* Second section: wait for the rendition under way, or start one.
JoinOrStart(r) ==
    LET k == KeyOf(r)
    IN  /\ r \in missed
        /\ missed' = missed \ {r}
        /\ pending' = [pending EXCEPT ![k] = Append(@, r)]
        /\ renditions' = IF pending[k] # << >> THEN renditions
                         ELSE [renditions EXCEPT ![r] = NewRendition(generation[k])]
        /\ UNCHANGED <<asks, releasing, cache, generation, analyses, canceled, posted, imageVars>>

RequestAnalysisRendition(k) ==
    /\ Ask(k, "analysis")
    /\ renditions' = [renditions EXCEPT ![Len(asks')] = NewRendition(0)]
    /\ analyses' = analyses \cup {Len(asks')}
    /\ UNCHANGED <<missed, releasing, cacheVars, canceled, posted, imageVars>>

CancelAnalysisRendition(r) ==
    /\ r \in analyses \ canceled
    /\ canceled' = canceled \cup {r}
    /\ UNCHANGED <<cacheVars, callVars, workVars, posted, imageVars>>

ReleaseAnalysisRendition(r) ==
    /\ r \in analyses
    /\ analyses' = analyses \ {r}
    /\ UNCHANGED <<cacheVars, callVars, renditions, canceled, posted, imageVars>>

\* The keys ks get a new generation and their waiting calls leave pending_.
Supersede(ks) ==
    /\ \A k \in ks : generation[k] < MaxGeneration
    /\ generation' = [k \in Keys |-> generation[k] + (IF k \in ks THEN 1 ELSE 0)]
    /\ pending' = [k \in Keys |-> IF k \in ks THEN << >> ELSE pending[k]]

\* CancelPending: who waited is told.
CancelKey(k) == Supersede({k}) /\ Post(pending[k], "canceled", 0)

CancelPending(k) ==
    /\ CancelKey(k)
    /\ UNCHANGED <<cache, callVars, workVars, canceled, imageVars>>

\* CancelPending of an image; the order over its sizes makes no difference.
CancelImage(e) ==
    /\ Supersede(TiersOf(e))
    /\ Post(SetToSeq(UNION {ToSet(pending[k]) : k \in TiersOf(e)}), "canceled", 0)
    /\ UNCHANGED <<cache, callVars, workVars, canceled, imageVars>>

\* ReleaseThumbnail cancels first and gives up the pin in a section of its own.
BeginRelease(k) ==
    /\ k \notin releasing
    /\ CancelKey(k)
    /\ releasing' = releasing \cup {k}
    /\ UNCHANGED <<cache, asks, missed, workVars, canceled, imageVars>>

EndRelease(k) ==
    /\ k \in releasing
    /\ releasing' = releasing \ {k}
    /\ cache' = Cache!Unpin(cache, k)
    /\ UNCHANGED <<asks, missed, pending, generation, workVars, canceled, posted, imageVars>>

\* Who waits for the image is dropped without an answer.
InvalidateThumbnail(e) ==
    /\ Supersede(TiersOf(e))
    /\ cache' = Cache!Forget(cache, TiersOf(e))
    /\ invalidated' = [invalidated EXCEPT ![e] = committed[e]]
    /\ dropped' = dropped \cup UNION {ToSet(pending[k]) : k \in TiersOf(e)}
    /\ UNCHANGED <<callVars, workVars, canceled, posted, committed>>

ResizeCache(n) ==
    /\ cache' = Cache!ResizeCache(cache, n)
    /\ cache' # cache
    /\ UNCHANGED <<pending, generation, callVars, workVars, canceled, posted, imageVars>>

\* A commit of the image in the editor.
Commit(e) ==
    /\ committed[e] < MaxRevision
    /\ committed' = [committed EXCEPT ![e] = @ + 1]
    /\ UNCHANGED <<cacheVars, callVars, workVars, canceled, posted, invalidated, dropped>>

----------------------------------------------------------------------------
\* Renditions.

IsAnalysis(r) == asks[r].kind = "analysis"
IsCanceled(r) ==
    IF IsAnalysis(r) THEN r \in canceled ELSE generation[KeyOf(r)] # renditions[r].gen
IsOpen(r)     == renditions[r].at \in {"started", "fetched"}

Set(r, rendition) == renditions' = [renditions EXCEPT ![r] = rendition]

\* AcquireCommittedSnapshot: the state the rendition renders.
Fetch(r) ==
    /\ renditions[r].at = "started" /\ ~IsCanceled(r)
    /\ Set(r, [renditions[r] EXCEPT !.at = "fetched", !.rev = committed[ImageOf(KeyOf(r))]])
    /\ UNCHANGED <<callVars, cacheVars, analyses, canceled, posted, imageVars>>

\* The rendition ends and has told nobody: its callers are gone already.
Abandon(r) == Set(r, Over) /\ UNCHANGED <<cache, pending, analyses>>

\* The rendition has its result; the answers to who follow outside the lock.
Conclude(r, who, status) ==
    Set(r, [renditions[r] EXCEPT !.at = "concluded", !.calls = who, !.status = status])

\* Mutant of Fails: nobody is told.
FailsSilently(r, status) == Abandon(r)

Fails(r, status) ==
    IF IsAnalysis(r)
    THEN /\ Conclude(r, <<r>>, status)
         /\ analyses' = analyses \ {r}
         /\ UNCHANGED <<cache, pending>>
    ELSE IF IsCanceled(r) THEN Abandon(r)
    ELSE /\ Conclude(r, pending[KeyOf(r)], status)
         /\ pending' = [pending EXCEPT ![KeyOf(r)] = << >>]
         /\ UNCHANGED <<cache, analyses>>

Fail(r, status) ==
    /\ IsOpen(r) /\ Fails(r, status)
    /\ UNCHANGED <<callVars, generation, canceled, posted, imageVars>>

\* What a stage does that finds its request canceled.  A cancellation after
\* that look finds the stage delivering or failing.
GiveUp(r) == IsCanceled(r) /\ Fail(r, "canceled")

\* The pixels of a wanted rendition go to calls, through the memory cache,
\* where each call has a pin.
Publish(r, who) ==
    /\ Conclude(r, who, "ready")
    /\ cache' = Cache!Store(cache, KeyOf(r), [rev |-> renditions[r].rev, pins |-> Len(who)])
    /\ UNCHANGED analyses

PublishAnalysis(r) ==
    /\ Conclude(r, <<r>>, "ready")
    /\ analyses' = analyses \ {r}
    /\ UNCHANGED <<cache, pending>>

\* Mutants of Delivers: the generation is not looked at again, and the calls
\* that get the pixels go on waiting.
DeliversUnchecked(r) ==
    LET who == pending[KeyOf(r)]
    IN  IF IsAnalysis(r) THEN PublishAnalysis(r)
        ELSE IF who = << >> THEN Abandon(r)
        ELSE Publish(r, who) /\ pending' = [pending EXCEPT ![KeyOf(r)] = << >>]
DeliversKeepingWaiters(r) ==
    LET who == pending[KeyOf(r)]
    IN  IF IsAnalysis(r) THEN PublishAnalysis(r)
        ELSE IF IsCanceled(r) \/ who = << >> THEN Abandon(r)
        ELSE Publish(r, who) /\ UNCHANGED pending

Delivers(r) ==
    LET who == pending[KeyOf(r)]
    IN  IF IsAnalysis(r) THEN PublishAnalysis(r)
        ELSE IF IsCanceled(r) \/ who = << >> THEN Abandon(r)
        ELSE Publish(r, who) /\ pending' = [pending EXCEPT ![KeyOf(r)] = << >>]

DeliverPixels(r) ==
    /\ renditions[r].at = "fetched" /\ Delivers(r)
    /\ UNCHANGED <<callVars, generation, canceled, posted, imageVars>>

\* The callbacks of a concluded rendition run.
Answer(r) ==
    /\ renditions[r].at = "concluded"
    /\ Post(renditions[r].calls, renditions[r].status, renditions[r].rev)
    /\ Set(r, Over)
    /\ UNCHANGED <<callVars, cacheVars, analyses, canceled, imageVars>>

\* A closing pool drops what it has queued, and tells nobody.
Lose(rs) ==
    /\ \A r \in rs : IsOpen(r)
    /\ renditions' = [r \in DOMAIN renditions |-> IF r \in rs THEN Over ELSE renditions[r]]
    /\ UNCHANGED <<callVars, cacheVars, analyses, canceled, posted, imageVars>>

----------------------------------------------------------------------------
Caller ==
    \/ \E k \in Keys : GetThumbnail(k)
    \/ \E k \in Elements \X AnalysisTiers : RequestAnalysisRendition(k)
    \/ \E r \in Calls : CancelAnalysisRendition(r) \/ ReleaseAnalysisRendition(r)
    \/ \E k \in Keys : CancelPending(k) \/ BeginRelease(k)
    \/ \E e \in Elements : CancelImage(e) \/ InvalidateThumbnail(e) \/ Commit(e)
    \/ \E n \in Capacities : ResizeCache(n)

\* The rest of a call under way.
Finish == (\E r \in Calls : JoinOrStart(r)) \/ (\E k \in Keys : EndRelease(k))

Render(r) ==
    \/ Fetch(r) \/ DeliverPixels(r) \/ GiveUp(r) \/ Fail(r, "error") \/ Answer(r)

\* A closing pool also turns away who waits for a decode slot.
ShutOut(r) == Fail(r, "canceled")

CallsNext ==
    \/ Caller \/ Finish
    \/ \E r \in Calls : Render(r) \/ ShutOut(r)
    \/ \E rs \in SUBSET Calls : Lose(rs)

CallsSpec == Init /\ [][CallsNext]_calls

----------------------------------------------------------------------------
\* What the variables hold while n calls were made.
AskRecords == [key : Keys, kind : {"thumbnail", "analysis"}, since : 0..MaxRevision]
AnswersOf(n) ==
    [call : 1..n, status : {"ready", "canceled", "error"}, rev : 0..MaxRevision]
RenditionsOf(n) ==
    [at : {"none", "started", "fetched", "concluded", "over"}, gen : 0..MaxGeneration,
     rev : 0..MaxRevision, calls : Seq(1..n), status : {"none", "ready", "canceled", "error"}]
Guards     == [Keys -> [rev : 0..MaxRevision, pins : Int]]
IsCache(c) == c \in [order : {c.order}, capacity : {c.capacity}, guard : Guards]

Asked == asks \in Seq(AskRecords) /\ Len(asks) \in 0..MaxAsks
Filed(n) ==
    /\ missed \subseteq 1..n /\ analyses \subseteq 1..n
    /\ canceled \subseteq 1..n /\ dropped \subseteq 1..n
    /\ pending \in [Keys -> Seq(1..n)]
    /\ renditions \in [1..MaxAsks -> RenditionsOf(n)]
    /\ posted \in Seq(AnswersOf(n))
Kept ==
    /\ releasing \subseteq Keys /\ IsCache(cache)
    /\ generation \in [Keys -> 0..MaxGeneration]
    /\ committed \in [Elements -> 0..MaxRevision]
    /\ invalidated \in [Elements -> 0..MaxRevision]

TypeOK == Asked /\ Filed(Len(asks)) /\ Kept

CacheIsFresh ==
    \A k \in Cache!Cached(cache) : cache.guard[k].rev >= invalidated[ImageOf(k)]
AnswersAreFresh ==
    \A i \in 1..Len(posted) :
       posted[i].status = "ready" => posted[i].rev >= asks[posted[i].call].since
\* After InvalidateThumbnail no call is answered with pixels from before it,
\* and none are left to answer the next call with: not the cached ones, not
\* those of a rendition that was already on its way.
NothingStaleIsServed == CacheIsFresh /\ AnswersAreFresh

\* No call is answered twice, whichever of a delivery, a failure and a
\* cancellation come together.
AnsweredOnce ==
    \A i, j \in 1..Len(posted) : posted[i].call = posted[j].call => i = j

\* The recency list and the table of guards hold the same keys.
CacheIsConsistent == Cache!Consistent(cache)

\* A pinned guard is not evicted: it leaves by an invalidation or a release.
PinnedStays ==
    [][\A k \in Cache!Pinned(cache) :
          k \notin releasing /\ generation'[k] = generation[k]
             => k \in Cache!Pinned(cache')]_calls
=============================================================================
