--------------------------- MODULE ThumbnailService ---------------------------
(***************************************************************************)
(* The way of a rendition through app/thumbnail_service.cpp: the lookup pool   *)
(* reads the committed state and the disk cache, the decode pool decodes the   *)
(* file as soon as a decode slot is free, the render pool draws, and each      *)
(* step may find the request canceled or fail.  StopWorkers closes the pools   *)
(* one after the other.                                                     *)
(*                                                                         *)
(* Every action is an action of ThumbnailCalls, or none of its variables       *)
(* change.                                                                 *)
(***************************************************************************)
EXTENDS ThumbnailCalls

CONSTANTS
    PoolSize,           \* workers of the pools "lookup", "decode" and "render"
    DecodeSlots         \* decode_slot_limit_

ASSUME PoolAssumption ==
    /\ PoolSize \in [{"lookup", "decode", "render"} -> Nat \ {0}]
    /\ DecodeSlots \in Nat \ {0}

VARIABLES
    stage,       \* where each rendition is: queued for a pool, or what its worker does
    worker,      \* the pool whose worker has the rendition
    holds,       \* renditions with a decode slot
    slots,       \* decode_slots_in_use_
    closing      \* how far StopWorkers got

pools == <<stage, worker, holds, slots, closing>>
vars  == <<calls, pools>>

ServiceInit ==
    /\ Init
    /\ stage = [r \in 1..MaxAsks |-> "lookup"] /\ worker = [r \in 1..MaxAsks |-> "none"]
    /\ holds = {} /\ slots = 0 /\ closing = "open"

----------------------------------------------------------------------------
Busy(pool) == {r \in Calls : worker[r] = pool}

\* A closed pool starts nothing more.
Closed(pool) ==
    CASE closing = "open"   -> FALSE
      [] closing = "lookup" -> pool = "lookup"
      [] closing = "decode" -> pool \in {"lookup", "decode"}
      [] OTHER              -> TRUE

\* A free worker of a pool takes a queued rendition.
Takes(r, pool) ==
    stage[r] = pool /\ worker[r] = "none" /\ ~Closed(pool) /\ Cardinality(Busy(pool)) < PoolSize[pool]

MovesTo(r, next, by) ==
    stage' = [stage EXCEPT ![r] = next] /\ worker' = [worker EXCEPT ![r] = by]
KeepsSlot == UNCHANGED <<holds, slots, closing>>

\* Only the pools move on.
Quietly == UNCHANGED calls

\* The rendition ends in the hands of a worker of pool, which answers, or has
\* nobody to answer and drops the request and its slot.
Ends(r, pool) ==
    IF renditions'[r].at = "concluded"
    THEN MovesTo(r, "answer", pool) /\ KeepsSlot
    ELSE /\ MovesTo(r, "over", "none")
         /\ holds' = holds \ {r} /\ slots' = slots - Cardinality(holds \cap {r})
         /\ UNCHANGED closing
EndsBadly(r, pool) == (GiveUp(r) \/ Fail(r, "error")) /\ Ends(r, pool)

----------------------------------------------------------------------------
\* LookUpRendition up to the read of the disk cache.
LookUp(r) ==
    /\ Takes(r, "lookup") /\ renditions[r].at = "started"
    /\ \/ EndsBadly(r, "lookup")
       \/ Fetch(r) /\ MovesTo(r, "read", "lookup") /\ KeepsSlot

\* Pixels on disk are filed under the history they were rendered from.
ReadDisk(r) ==
    /\ stage[r] = "read"
    /\ \/ (GiveUp(r) \/ DeliverPixels(r)) /\ Ends(r, "lookup")
       \/ Quietly /\ MovesTo(r, "decode", "none") /\ KeepsSlot

StartDecode(r) ==
    /\ Takes(r, "decode")
    /\ \/ GiveUp(r) /\ Ends(r, "decode")
       \/ ~IsCanceled(r) /\ Quietly /\ MovesTo(r, "slot", "decode") /\ KeepsSlot

AcquireDecodeSlot(r) ==
    /\ stage[r] = "slot"
    /\ \/ closing # "open" /\ ShutOut(r) /\ Ends(r, "decode")
       \/ /\ closing = "open" /\ slots < DecodeSlots
          /\ slots' = slots + 1 /\ holds' = holds \cup {r}
          /\ Quietly /\ MovesTo(r, "load", "decode") /\ UNCHANGED closing

\* Mutant of Decode: a failed decode keeps its slot in use.
DecodeLeaking(r) ==
    /\ stage[r] = "load"
    /\ \/ /\ Fail(r, "error") /\ MovesTo(r, "over", "none")
          /\ holds' = holds \ {r} /\ UNCHANGED <<slots, closing>>
       \/ Quietly /\ MovesTo(r, "render", "none") /\ KeepsSlot

\* The decode of the file; the slot goes along to the render.
Decode(r) ==
    /\ stage[r] = "load"
    /\ \/ EndsBadly(r, "decode")
       \/ Quietly /\ MovesTo(r, "render", "none") /\ KeepsSlot

StartRender(r) ==
    /\ Takes(r, "render")
    /\ \/ GiveUp(r) /\ Ends(r, "render")
       \/ ~IsCanceled(r) /\ Quietly /\ MovesTo(r, "draw", "render") /\ KeepsSlot

EndRender(r) ==
    /\ stage[r] = "draw"
    /\ \/ EndsBadly(r, "render")
       \/ DeliverPixels(r) /\ Ends(r, "render")

\* The callbacks run, then the task drops executor and decode slot.
AnswerAndDrop(r) ==
    /\ stage[r] = "answer"
    /\ Answer(r) /\ Ends(r, "none")

----------------------------------------------------------------------------
\* StopWorkers: each pool drops what is queued and waits for what runs.

Drop(pool) ==
    LET queued == {r \in Calls : IsOpen(r) /\ stage[r] = pool /\ worker[r] = "none"}
    IN  /\ Lose(queued)
        /\ stage' = [r \in 1..MaxAsks |-> IF r \in queued THEN "over" ELSE stage[r]]
        /\ holds' = holds \ queued /\ slots' = slots - Cardinality(holds \cap queued)
        /\ UNCHANGED worker

\* The destructor: no call is under way.
StopLookup ==
    /\ closing = "open" /\ missed = {} /\ releasing = {}
    /\ closing' = "lookup" /\ Drop("lookup")
StopDecode == closing = "lookup" /\ Busy("lookup") = {} /\ closing' = "decode" /\ Drop("decode")
StopRender == closing = "decode" /\ Busy("decode") = {} /\ closing' = "render" /\ Drop("render")
StopEnds ==
    /\ closing = "render" /\ Busy("render") = {}
    /\ closing' = "closed" /\ Quietly /\ UNCHANGED <<stage, worker, holds, slots>>

----------------------------------------------------------------------------
Step(r) ==
    \/ LookUp(r) \/ ReadDisk(r) \/ StartDecode(r) \/ AcquireDecodeSlot(r) \/ Decode(r)
    \/ StartRender(r) \/ EndRender(r) \/ AnswerAndDrop(r)

Stop == StopDecode \/ StopRender \/ StopEnds

Next ==
    \/ closing = "open" /\ (Caller \/ Finish) /\ UNCHANGED pools
    \/ \E r \in Calls : Step(r)
    \/ StopLookup \/ Stop

\* The workers of the pools, the calls under way and the destructor go on;
\* nobody has to call.
Fairness ==
    /\ WF_vars(closing = "open" /\ Finish /\ UNCHANGED pools)
    /\ WF_vars(\E r \in Calls : Step(r))
    /\ WF_vars(Stop)

Spec == ServiceInit /\ [][Next]_vars /\ Fairness

----------------------------------------------------------------------------
PoolsTypeOK ==
    /\ TypeOK
    /\ stage \in [1..MaxAsks -> {"lookup", "read", "decode", "slot", "load", "render", "draw",
                                 "answer", "over"}]
    /\ worker \in [1..MaxAsks -> {"none", "lookup", "decode", "render"}]
    /\ holds \subseteq 1..MaxAsks /\ slots \in Int
    /\ closing \in {"open", "lookup", "decode", "render", "closed"}

\* While the service is open, calls that wait have exactly one rendition of
\* their key and generation left to answer them.
WaitersAreServed ==
    closing = "open" =>
        \A k \in Keys : pending[k] # << >> =>
            Cardinality({r \in Calls : /\ IsOpen(r) /\ ~IsAnalysis(r)
                                       /\ KeyOf(r) = k /\ ~IsCanceled(r)}) = 1

\* Slots are in use exactly for decoded sources on their way, within the limit.
SlotsAreAccounted ==
    /\ slots = Cardinality(holds) /\ slots <= DecodeSlots
    /\ \A r \in holds : stage[r] \in {"load", "render", "draw", "answer"}

\* Every call is answered, unless an invalidation drops it or the service
\* closes; and closing does not wait for a worker forever.
CallsAreSettled ==
    []<>(\/ closing = "closed"
         \/ /\ closing = "open"
            /\ \A r \in Calls : \/ \E i \in 1..Len(posted) : posted[i].call = r
                                \/ r \in dropped)
=============================================================================
