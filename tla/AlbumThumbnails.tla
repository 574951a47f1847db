---------------------------- MODULE AlbumThumbnails ----------------------------
(***************************************************************************)
(* The tiles of the album grid, ui/.../thumbnail_manager.cpp, as a caller of   *)
(* the thumbnail service.  The GUI thread pins a key while a tile of it is      *)
(* visible, asks the service, hands the answer to a thread of its own that     *)
(* converts the pixels and puts them in the image store, and shows the URL      *)
(* when that thread reports back.  Each request of a key has a flag that the    *)
(* next request, or the release of the key, switches off.                     *)
(*                                                                         *)
(* A handler of the GUI thread is one action that ends with the service calls   *)
(* it makes in todo; they run one section at a time before the next handler.   *)
(* The item always has one image file, and that file is there.               *)
(***************************************************************************)
EXTENDS ThumbnailCalls

CONSTANTS MaxMoves      \* actions of the user in one behaviour; a commit counts as two

\* The sizes are those of an enumeration; no size is 0.
ASSUME GridAssumption ==
    /\ IsFiniteSet(Elements) /\ IsFiniteSet(Tiers) /\ Tiers \subseteq Nat \ {0}
    /\ MaxMoves \in Nat

VARIABLES
    todo,        \* service calls the current handler still makes
    pins,        \* thumbnail_pins_: the ref_count_ of each key
    flag,        \* thumbnail_active_flags_: the call a key's flag belongs to, or 0
    active,      \* calls whose flag is still on
    retries,     \* calls made by retryAttempt 1
    tile,        \* what the row of each image shows
    store,       \* ThumbnailImageStore: the revision stored for each key, or NoImage
    events,      \* what is queued for the GUI thread: answers, reports, notices of commits
    conversions, \* the detached threads
    unnoted,     \* images with a commit the GUI thread has not been told of
    spoiled,     \* history: keys a conversion failed for
    moves

gridVars == <<pins, flag, active, retries, tile>>
album    == <<calls, todo, gridVars, store, events, conversions, unnoted, spoiled, moves>>

\* A tile shows the image of one size, or none (0).
Blank   == [tier |-> 0, loading |-> FALSE, error |-> FALSE]
NoImage == -1
TierOf(k) == k[2]

AlbumInit ==
    /\ Init
    /\ todo = << >> /\ pins = [k \in Keys |-> 0] /\ flag = [k \in Keys |-> 0]
    /\ active = {} /\ retries = {}
    /\ tile = [e \in Elements |-> Blank] /\ store = [k \in Keys |-> NoImage]
    /\ events = << >> /\ conversions = {} /\ unnoted = {} /\ spoiled = {} /\ moves = 0

----------------------------------------------------------------------------
Idle == todo = << >> /\ missed = {} /\ releasing = {}

PinnedKeys(e) == {k \in TiersOf(e) : pins[k] > 0}

\* The service calls a handler ends with.
Request(k, again) == [op |-> "request", key |-> k, again |-> again]
Release(k)        == [op |-> "release", key |-> k]
CancelAll(e)      == [op |-> "cancel", image |-> e]
Invalidate(e)     == [op |-> "invalidate", image |-> e]
Requests(ks)      == [i \in 1..Cardinality(ks) |-> Request(SetToSeq(ks)[i], FALSE)]
Releases(ks)      == [i \in 1..Cardinality(ks) |-> Release(SetToSeq(ks)[i])]

\* DeactivateThumbnailRequest.
Deactivate(ks) ==
    /\ active' = active \ {flag[k] : k \in ks}
    /\ flag' = [k \in Keys |-> IF k \in ks THEN 0 ELSE flag[k]]

Move(cost) == moves + cost <= MaxMoves /\ moves' = moves + cost

----------------------------------------------------------------------------
\* SetThumbnailVisible(true).
ShowTile(k) ==
    LET blank == tile[ImageOf(k)] = Blank
    IN  /\ pins' = [pins EXCEPT ![k] = @ + 1]
        /\ todo' = IF pins[k] = 0 \/ blank THEN <<Request(k, FALSE)>> ELSE << >>
        /\ UNCHANGED <<flag, active, retries, tile, store>>

\* What ShowRemainingPinnedTier does for the largest tier left: its stored
\* image, or a new request when none is on its way.
ShowsRemaining(e, k) ==
    IF store[k] # NoImage
    THEN tile' = [tile EXCEPT ![e] = [Blank EXCEPT !.tier = TierOf(k)]]
    ELSE UNCHANGED tile
RequestsRemaining(k) ==
    IF store[k] = NoImage /\ flag[k] = 0 THEN <<Request(k, FALSE)>> ELSE << >>

\* Mutant of TakeDown: the request of the key stays active.
TakeDownKeepingFlag(k) ==
    LET e    == ImageOf(k)
        left == PinnedKeys(e) \ {k}
    IN  /\ store' = [store EXCEPT ![k] = NoImage]
        /\ tile' = [tile EXCEPT ![e] = IF left = {} THEN Blank ELSE @]
        /\ todo' = <<Release(k)>>
        /\ UNCHANGED <<flag, active, retries>>

\* The last pin of a key takes its request and its image along.
TakeDown(k) ==
    LET e    == ImageOf(k)
        left == PinnedKeys(e) \ {k}
        next == CHOOSE n \in left : \A m \in left : TierOf(n) >= TierOf(m)
    IN  /\ Deactivate({k})
        /\ store' = [store EXCEPT ![k] = NoImage]
        /\ IF left = {} THEN tile' = [tile EXCEPT ![e] = Blank] /\ todo' = <<Release(k)>>
           ELSE ShowsRemaining(e, next) /\ todo' = RequestsRemaining(next) \o <<Release(k)>>
        /\ UNCHANGED retries

\* SetThumbnailVisible(false).
HideTile(k) ==
    /\ pins[k] > 0 /\ pins' = [pins EXCEPT ![k] = @ - 1]
    /\ IF pins[k] > 1 THEN UNCHANGED <<todo, flag, active, retries, tile, store>>
       ELSE TakeDown(k)

\* ReleaseVisibleThumbnailPins; its callers drop the rows.
ReleaseVisibleThumbnailPins ==
    LET pinned == {k \in Keys : pins[k] > 0}
    IN  /\ pinned # {}
        /\ Deactivate(pinned)
        /\ pins' = [k \in Keys |-> 0]
        /\ tile' = [e \in Elements |-> Blank]
        /\ store' = [k \in Keys |-> NoImage]
        /\ todo' = Releases(pinned)
        /\ UNCHANGED retries

\* RemoveThumbnailState of a deleted image.
RemoveThumbnailState(e) ==
    /\ Deactivate(TiersOf(e))
    /\ pins' = [k \in Keys |-> IF k \in TiersOf(e) THEN 0 ELSE pins[k]]
    /\ tile' = [tile EXCEPT ![e] = Blank]
    /\ store' = [k \in Keys |-> IF k \in TiersOf(e) THEN NoImage ELSE store[k]]
    /\ todo' = <<CancelAll(e), Invalidate(e)>>
    /\ UNCHANGED retries

\* Mutant of Refresh: the service keeps what it has.
RefreshKeepingCache(e) == todo' = Requests(PinnedKeys(e)) /\ UNCHANGED <<gridVars, store>>

\* refresh_focused_thumbnail and RefreshCurrentThumbnail.
Refresh(e) ==
    /\ todo' = <<Invalidate(e)>> \o Requests(PinnedKeys(e))
    /\ UNCHANGED <<gridVars, store>>

----------------------------------------------------------------------------
\* A service call of the handler.

\* The callers' dispatcher queues what the service has posted.
Dispatch == events' = events \o SubSeq(posted', Len(posted) + 1, Len(posted'))

\* RequestThumbnail: the new request's flag replaces the key's old one.
RequestThumbnail(k, again) ==
    LET e == ImageOf(k)
    IN  /\ GetThumbnail(k)
        /\ flag' = [flag EXCEPT ![k] = Len(asks')]
        /\ active' = (active \ {flag[k]}) \cup {Len(asks')}
        /\ retries' = IF again THEN retries \cup {Len(asks')} ELSE retries
        /\ tile' = [tile EXCEPT ![e] = [tier |-> @.tier, loading |-> TRUE, error |-> FALSE]]
        /\ UNCHANGED pins

Calling ==
    /\ todo # << >> /\ missed = {} /\ releasing = {}
    /\ todo' = Tail(todo)
    /\ LET c == Head(todo)
       IN  \/ c.op = "request" /\ RequestThumbnail(c.key, c.again)
           \/ c.op = "release" /\ BeginRelease(c.key) /\ UNCHANGED gridVars
           \/ c.op = "cancel" /\ CancelImage(c.image) /\ UNCHANGED gridVars
           \/ c.op = "invalidate" /\ InvalidateThumbnail(c.image) /\ UNCHANGED gridVars
    /\ Dispatch
    /\ UNCHANGED <<store, conversions, unnoted, spoiled, moves>>

----------------------------------------------------------------------------
\* The events of the GUI thread.

Take == events # << >> /\ events' = Tail(events)

\* FinishThumbnailRequest.
Finished(c) == flag' = [flag EXCEPT ![KeyOf(c)] = IF @ = c THEN 0 ELSE @]

\* A ready answer goes to a thread.
Convert(answer) ==
    /\ conversions' = conversions \cup {[call |-> answer.call, rev |-> answer.rev, at |-> "started"]}
    /\ UNCHANGED <<gridVars, todo>>

\* Mutant of FailTile: the row is not told.
FailTileSilently(c) ==
    Finished(c) /\ todo' = << >> /\ UNCHANGED <<tile, conversions, pins, active, retries>>

FailTile(c) ==
    /\ Finished(c)
    /\ tile' = [tile EXCEPT ![ImageOf(KeyOf(c))] = [Blank EXCEPT !.error = TRUE]]
    /\ todo' = << >>
    /\ UNCHANGED <<conversions, pins, active, retries>>

\* A render that gave no image is asked for once more.
Retry(c) ==
    /\ c \notin retries /\ pins[KeyOf(c)] > 0
    /\ todo' = <<Request(KeyOf(c), TRUE)>>
    /\ UNCHANGED <<gridVars, conversions>>

\* The callback of a request.
GridAnswer(answer) ==
    LET c == answer.call
    IN  /\ \/ (c \notin active \/ answer.status = "canceled")
              /\ UNCHANGED <<gridVars, todo, conversions>>
           \/ c \in active /\ answer.status = "ready" /\ Convert(answer)
           \/ c \in active /\ answer.status = "error" /\ (Retry(c) \/ FailTile(c))
        /\ UNCHANGED store

\* Mutant of GridShow: the flag is not looked at again.
GridShowUnchecked(report) ==
    LET c == report.call
    IN  /\ Finished(c)
        /\ tile' = [tile EXCEPT ![ImageOf(KeyOf(c))] =
                      IF report.status = "shown" THEN [Blank EXCEPT !.tier = TierOf(KeyOf(c))]
                      ELSE [Blank EXCEPT !.error = TRUE]]
        /\ UNCHANGED <<pins, active, retries, todo, store, conversions>>

\* The thread's report.
GridShow(report) ==
    LET c == report.call
    IN  /\ IF c \notin active THEN UNCHANGED <<flag, tile>>
           ELSE /\ Finished(c)
                /\ tile' = [tile EXCEPT ![ImageOf(KeyOf(c))] =
                      IF report.status = "shown" THEN [Blank EXCEPT !.tier = TierOf(KeyOf(c))]
                      ELSE [Blank EXCEPT !.error = TRUE]]
        /\ UNCHANGED <<pins, active, retries, todo, store, conversions>>

\* A commit of the editor, and its notice to the GUI thread.
CommitImage(e) ==
    /\ Commit(e) /\ Move(2) /\ unnoted' = unnoted \cup {e}
    /\ UNCHANGED <<todo, gridVars, store, events, conversions, spoiled>>
NoteCommit(e) ==
    /\ e \in unnoted /\ unnoted' = unnoted \ {e}
    /\ events' = Append(events, [status |-> "changed", image |-> e])
    /\ UNCHANGED <<calls, todo, gridVars, store, conversions, spoiled, moves>>

Event ==
    /\ Idle /\ Take /\ UNCHANGED <<calls, unnoted, spoiled, moves>>
    /\ LET event == Head(events)
       IN  \/ event.status = "changed" /\ Refresh(event.image) /\ UNCHANGED conversions
           \/ event.status \in {"ready", "error", "canceled"} /\ GridAnswer(event)
           \/ event.status \in {"shown", "failed"} /\ GridShow(event)

User ==
    /\ Idle /\ Move(1) /\ UNCHANGED <<calls, events, conversions, unnoted, spoiled>>
    /\ \/ \E k \in Keys : ShowTile(k) \/ HideTile(k)
       \/ ReleaseVisibleThumbnailPins
       \/ \E e \in Elements : RemoveThumbnailState(e)

----------------------------------------------------------------------------
\* The detached threads.

\* The flag is looked at before the conversion and not after it.
CheckFlag(t) ==
    /\ t.at = "started"
    /\ conversions' = (conversions \ {t})
                        \cup IF t.call \in active THEN {[t EXCEPT !.at = "passed"]} ELSE {}
    /\ UNCHANGED <<calls, todo, gridVars, store, events, unnoted, spoiled, moves>>

Report(t, status) ==
    /\ conversions' = conversions \ {t}
    /\ events' = Append(events, [call |-> t.call, status |-> status, rev |-> t.rev])
    /\ UNCHANGED <<calls, todo, gridVars, unnoted, moves>>

\* Put, and the report of its URL.
StoreImage(t) ==
    /\ t.at = "passed"
    /\ store' = [store EXCEPT ![KeyOf(t.call)] = t.rev]
    /\ Report(t, "shown") /\ UNCHANGED spoiled
FailConversion(t) ==
    /\ t.at = "passed" /\ Report(t, "failed")
    /\ spoiled' = spoiled \cup {KeyOf(t.call)} /\ UNCHANGED store

Thread == \E t \in conversions : CheckFlag(t) \/ StoreImage(t) \/ FailConversion(t)

Working ==
    /\ (\E r \in Calls : Render(r)) \/ Finish
    /\ Dispatch
    /\ UNCHANGED <<todo, gridVars, store, conversions, unnoted, spoiled, moves>>

GridNext ==
    \/ User \/ Calling \/ Event \/ Thread \/ Working
    \/ \E e \in Elements : CommitImage(e) \/ NoteCommit(e)

\* The event loop, the threads and the service go on; the user need not.
GridFairness ==
    /\ WF_album(Calling) /\ WF_album(Event) /\ WF_album(Thread) /\ WF_album(Working)
    /\ WF_album(\E e \in Elements : NoteCommit(e))

GridSpec == AlbumInit /\ [][GridNext]_album /\ GridFairness

----------------------------------------------------------------------------
ServiceCalls ==
    [op : {"request"}, key : Keys, again : BOOLEAN] \cup [op : {"release"}, key : Keys]
        \cup [op : {"cancel", "invalidate"}, image : Elements]
EventsOf(n) ==
    [call : 1..n, status : {"ready", "error", "canceled", "shown", "failed"}, rev : 0..MaxRevision]
        \cup [status : {"changed"}, image : Elements]

AlbumTypeOK ==
    /\ TypeOK /\ todo \in Seq(ServiceCalls) /\ events \in Seq(EventsOf(Len(asks)))
    /\ unnoted \subseteq Elements
    /\ pins \in [Keys -> Nat] /\ flag \in [Keys -> 0..Len(asks)]
    /\ active \subseteq Calls /\ retries \subseteq Calls
    /\ tile \in [Elements -> [tier : {0} \cup Tiers, loading : BOOLEAN, error : BOOLEAN]]
    /\ store \in [Keys -> {NoImage} \cup 0..MaxRevision]
    /\ conversions \subseteq [call : Calls, rev : 0..MaxRevision, at : {"started", "passed"}]

\* A request still on its way: its call will be answered, its answer or its
\* thread's report will be handled.
OnItsWay(c) ==
    \/ c \in missed \/ c \in ToSet(pending[KeyOf(c)])
    \/ \E r \in Calls : renditions[r].at = "concluded" /\ c \in ToSet(renditions[r].calls)
    \/ \E t \in conversions : t.call = c
    \/ \E i \in 1..Len(events) : events[i].status # "changed" /\ events[i].call = c

\* A key's flag leaves the map when its request is released or answers: a
\* flag that stays behind has a request on its way.
FlagsAreAnswered ==
    Idle => \A k \in Keys : flag[k] # 0 => flag[k] \in active /\ OnItsWay(flag[k])

\* A row that is not pinned at any size shows nothing, and one that shows a
\* size whose pixels have left the store is about to be given another.
TilesFollowPins ==
    Idle => \A e \in Elements :
        /\ PinnedKeys(e) = {} => tile[e] = Blank
        /\ (tile[e].tier # 0 /\ store[<<e, tile[e].tier>>] = NoImage)
              => \E k \in PinnedKeys(e) : flag[k] # 0

\* At rest the service holds one pin of each key it still caches, and the grid
\* shows that key: however the requests, releases and commits came together,
\* no pin is left behind for a hidden tile.  A failed conversion does leave one.
AtRest ==
    /\ Idle /\ events = << >> /\ conversions = {} /\ unnoted = {}
    /\ \A r \in Calls : renditions[r].at \in {"none", "over"}
PinsAreBalanced ==
    AtRest => \A k \in Cache!Cached(cache) \ spoiled :
                pins[k] > 0 /\ cache.guard[k].pins = 1

\* Once the user stops, every visible row shows an image or an error.
TilesSettle ==
    []<>(\A e \in Elements :
            PinnedKeys(e) # {} => ~tile[e].loading /\ (tile[e].tier # 0 \/ tile[e].error))
=============================================================================
