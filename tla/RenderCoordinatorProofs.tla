----------------------- MODULE RenderCoordinatorProofs -----------------------
(***************************************************************************)
(* Theorems about RenderCoordinator, for every number of requests, image    *)
(* loads and callbacks.                                                    *)
(***************************************************************************)
EXTENDS RenderCoordinator, SequenceTheorems, TLAPS

Outcomes == [Requests -> Seq(EndKinds)]

\* new adds to out nothing but ends without a frame.
NoFrameAdded(out, new) ==
    \A id \in Requests : new[id] = out[id] \/ (new[id] # << >> /\ Last(new[id]) = "NoFrame")

\* The job of the port is the one in flight, also while its completion is on
\* the way; what is in flight for an image that was left has ended already.
FlightInv ==
    /\ TypeOK
    /\ Len(submitted) <= MaxRequests
    /\ SingleFlight
    /\ worker.at = "finished" =>
          /\ running = None /\ inflight = worker.id /\ worker.id # None
          /\ worker.result \in EndKinds
    /\ inflight # None /\ submitted[inflight].load # active => outcome[inflight] # << >>

\* A terminal result is the last one of its request (Emit,
\* editor_render_coordinator.cpp:246-293).
LEMMA EndedAppends ==
    ASSUME NEW out \in Outcomes, NEW ids, NEW kind \in EndKinds
    PROVE  /\ Ended(out, ids, kind) \in Outcomes
           /\ \A id \in Requests :
                 \/ Ended(out, ids, kind)[id] = out[id]
                 \/ /\ id \in ids
                    /\ Ended(out, ids, kind)[id] # << >>
                    /\ Last(Ended(out, ids, kind)[id]) = kind
<1>1. ASSUME NEW id \in Requests
      PROVE  /\ Append(out[id], kind) \in Seq(EndKinds)
             /\ Append(out[id], kind) # << >>
             /\ Last(Append(out[id], kind)) = kind
  <2>1. out[id] \in Seq(EndKinds)
    BY DEF Outcomes
  <2> QED
    BY <2>1, AppendProperties DEF Last
<1> QED
  BY <1>1 DEF Ended, Outcomes

\* Dropping requests ends them without a frame.
LEMMA DroppedAddsNoFrame ==
    ASSUME NEW out \in Outcomes, NEW ids
    PROVE  Dropped(out, ids) \in Outcomes /\ NoFrameAdded(out, Dropped(out, ids))
  BY EndedAppends DEF Dropped, NoFrameAdded, EndKinds

\* Whatever order requests are dropped in, no frame is added.
LEMMA NoFrameAddedTransitive ==
    ASSUME NEW a, NEW b, NEW c, NoFrameAdded(a, b), NoFrameAdded(b, c)
    PROVE  NoFrameAdded(a, c)
  BY DEF NoFrameAdded

\* Scheduling starts at most one request, of the active load, and only when the
\* port is free (editor_render_coordinator.cpp:484-559).
LEMMA ScheduleNextStartsOne ==
    ASSUME NEW n \in Nat, NEW sl \in [Qualities -> 0..n], NEW out \in Outcomes,
           inflight \in 0..n, running \in 0..n, SingleFlight, ScheduleNext(sl, out)
    PROVE  /\ slots' \in [Qualities -> 0..n]
           /\ outcome' \in Outcomes /\ NoFrameAdded(out, outcome')
           /\ inflight' \in 0..n /\ running' \in 0..n /\ SingleFlight'
           /\ inflight # None => inflight' = inflight /\ running' = running
           /\ inflight' # inflight => inflight' \in Pending(sl) /\ ~IsObsolete(inflight')
<1>1. CASE inflight # None
  BY <1>1 DEF ScheduleNext, SingleFlight, NoFrameAdded
<1>2. CASE inflight = None
  <2> DEFINE dropped == {id \in Pending(sl) : id \in token \/ IsObsolete(id)}
             left == Cleared(sl, dropped)
             refused(next) == {left[q] : q \in {p \in Qualities : p < next}} \ {None}
             rest(next) == Dropped(Dropped(out, dropped), refused(next))
  <2>1. left \in [Qualities -> 0..n]
    BY DEF Cleared, None
  <2>2. ASSUME NEW next
        PROVE  rest(next) \in Outcomes /\ NoFrameAdded(out, rest(next))
    <3>1. /\ Dropped(out, dropped) \in Outcomes
          /\ NoFrameAdded(out, Dropped(out, dropped))
      BY DroppedAddsNoFrame
    <3>2. /\ rest(next) \in Outcomes
          /\ NoFrameAdded(Dropped(out, dropped), rest(next))
      BY <3>1, DroppedAddsNoFrame
    <3> QED
      BY <3>1, <3>2, NoFrameAddedTransitive
  <2>3. ASSUME NEW q \in Qualities, left[q] # None
        PROVE  left[q] \in Pending(sl) /\ ~IsObsolete(left[q])
    BY <2>3 DEF Cleared, Pending
  <2>4. \/ \E next \in Qualities :
              /\ left[next] # None /\ running = None
              /\ inflight' = left[next] /\ running' = left[next]
              /\ slots' = [q \in Qualities |-> IF q <= next THEN None ELSE left[q]]
              /\ outcome' = rest(next)
        \/ /\ slots' = [q \in Qualities |-> None]
           /\ outcome' = rest(4)
           /\ UNCHANGED <<inflight, running>>
    BY <1>2 DEF ScheduleNext
  <2> HIDE DEF left, rest
  <2>5. CASE \E next \in Qualities :
              /\ left[next] # None /\ running = None
              /\ inflight' = left[next] /\ running' = left[next]
              /\ slots' = [q \in Qualities |-> IF q <= next THEN None ELSE left[q]]
              /\ outcome' = rest(next)
    BY <1>2, <2>1, <2>2, <2>3, <2>5 DEF SingleFlight, None
  <2>6. CASE /\ slots' = [q \in Qualities |-> None]
             /\ outcome' = rest(4)
             /\ UNCHANGED <<inflight, running>>
    BY <1>2, <2>2, <2>6 DEF SingleFlight, None
  <2> QED
    BY <2>4, <2>5, <2>6
<1> QED
  BY <1>1, <1>2

----------------------------------------------------------------------------
\* The initial states satisfy the invariant.
LEMMA FlightInitially == Init => FlightInv
  BY CoordinatorAssumption
  DEF Init, FlightInv, TypeOK, SingleFlight, None, Idle, Free, Requests, EndKinds

\* What every section that schedules keeps, when the requests and the active
\* load stay as they are.
LEMMA SchedulingKeepsFlight ==
    ASSUME FlightInv, NEW sl \in [Qualities -> 0..Len(submitted)], NEW out \in Outcomes,
           NoFrameAdded(outcome, out), ScheduleNext(sl, out), UNCHANGED <<active, submitted>>,
           token' \subseteq 1..Len(submitted),
           worker' \in [at : {"idle", "finished", "notified"}, id : 0..Len(submitted),
                        result : EndKinds \cup {"None"}],
           worker'.at = "finished" => worker' = worker,
           callbacks' \in [Callbacks -> [at : {"free", "waiting", "taken", "called"},
                                         load : Loads \cup {NoLoad}]]
    PROVE  FlightInv' /\ NoFrameAdded(outcome, outcome')
<1> DEFINE n == Len(submitted)
<1>1. n \in Nat /\ n <= MaxRequests /\ inflight \in 0..n /\ running \in 0..n
  BY DEF FlightInv, TypeOK
<1>2. SingleFlight
  BY DEF FlightInv
<1>3. /\ slots' \in [Qualities -> 0..n]
      /\ outcome' \in Outcomes /\ NoFrameAdded(out, outcome')
      /\ inflight' \in 0..n /\ running' \in 0..n /\ SingleFlight'
      /\ inflight # None => inflight' = inflight /\ running' = running
      /\ inflight' # inflight => inflight' \in Pending(sl) /\ ~IsObsolete(inflight')
  BY <1>1, <1>2, ScheduleNextStartsOne
<1>4. NoFrameAdded(outcome, outcome')
  BY <1>3, NoFrameAddedTransitive
<1>5. TypeOK'
  BY <1>3 DEF FlightInv, TypeOK, Outcomes
<1>6. worker'.at = "finished" =>
        /\ running' = None /\ inflight' = worker'.id /\ worker'.id # None
        /\ worker'.result \in EndKinds
  BY <1>3 DEF FlightInv
<1>7. ASSUME inflight' # None, submitted'[inflight'].load # active'
      PROVE  outcome'[inflight'] # << >>
  <2>1. inflight' \in 1..n /\ inflight' \in Requests
    BY <1>1, <1>3, <1>7, CoordinatorAssumption DEF None, Requests
  <2>2. IsObsolete(inflight')
    BY <1>7, <2>1 DEF IsObsolete
  <2>3. inflight' = inflight /\ outcome[inflight] # << >>
    BY <1>3, <1>7, <2>2 DEF FlightInv
  <2> QED
    BY <1>4, <2>1, <2>3 DEF NoFrameAdded
<1> QED
  BY <1>1, <1>3, <1>4, <1>5, <1>6, <1>7 DEF FlightInv

----------------------------------------------------------------------------
\* A dropped request has ended.
LEMMA DroppedEnds ==
    ASSUME NEW out \in Outcomes, NEW ids, NEW id \in ids \cap Requests
    PROVE  Dropped(out, ids)[id] # << >>
<1>1. out[id] \in Seq(EndKinds)
  BY DEF Outcomes
<1>2. CASE Len(out[id]) < MaxEnds
  <2>1. Append(out[id], "NoFrame") # << >>
    BY <1>1, AppendProperties DEF EndKinds
  <2> QED
    BY <1>2, <2>1 DEF Dropped, Ended
<1>3. CASE ~(Len(out[id]) < MaxEnds)
  <2>1. Dropped(out, ids)[id] = out[id]
    BY <1>3 DEF Dropped, Ended
  <2> QED
    BY <1>1, <1>3, <2>1, EmptySeq DEF MaxEnds
<1> QED
  BY <1>2, <1>3

\* Frames that become ready in a step.
ReadyStep ==
    \A id \in 1..Len(submitted) :
        outcome'[id] # outcome[id] /\ Last(outcome'[id]) = "FrameReady"
           => submitted[id].load = active /\ outcome[id] = << >>

\* Every step keeps the invariant, and a step that ends requests without a
\* frame makes none ready.
LEMMA NoFrameIsReady ==
    ASSUME FlightInv, NoFrameAdded(outcome, outcome')
    PROVE  ReadyStep
  BY CoordinatorAssumption DEF FlightInv, TypeOK, NoFrameAdded, ReadyStep, Requests

LEMMA SubmitKeepsFlight ==
    ASSUME FlightInv, NEW l \in Loads, NEW q \in Qualities, Submit(l, q)
    PROVE  FlightInv' /\ NoFrameAdded(outcome, outcome')
<1> DEFINE id == Len(submitted) + 1
           sl == [slots EXCEPT ![q] = id]
           out == Dropped(outcome, {slots[q]} \ {None})
           r == [load |-> l, quality |-> q]
<1>1. /\ l = active /\ Len(submitted) < MaxRequests
      /\ submitted' = Append(submitted, r)
      /\ ScheduleNext(sl, out)
      /\ UNCHANGED <<active, token, worker, callbacks>>
  BY DEF Submit
<1>2. submitted \in Seq([load : Loads, quality : Qualities]) /\ outcome \in Outcomes
  BY DEF FlightInv, TypeOK, Outcomes
<1>3. /\ submitted' \in Seq([load : Loads, quality : Qualities])
      /\ Len(submitted') = id /\ id \in Nat
      /\ \A i \in 1..Len(submitted) : submitted'[i] = submitted[i]
      /\ submitted'[id] = r
  BY <1>1, <1>2, AppendProperties
<1>4. sl \in [Qualities -> 0..id] /\ inflight \in 0..id /\ running \in 0..id /\ SingleFlight
  BY <1>2 DEF FlightInv, TypeOK
<1>5. out \in Outcomes /\ NoFrameAdded(outcome, out)
  BY <1>2, DroppedAddsNoFrame
<1> HIDE DEF id, sl, out
<1>6. /\ slots' \in [Qualities -> 0..id]
      /\ outcome' \in Outcomes /\ NoFrameAdded(out, outcome')
      /\ inflight' \in 0..id /\ running' \in 0..id /\ SingleFlight'
      /\ inflight # None => inflight' = inflight /\ running' = running
      /\ inflight' # inflight => inflight' \in Pending(sl) /\ ~IsObsolete(inflight')
  BY <1>1, <1>3, <1>4, <1>5, ScheduleNextStartsOne
<1>7. NoFrameAdded(outcome, outcome')
  BY <1>5, <1>6, NoFrameAddedTransitive
<1>8. TypeOK'
  <2>1. token' \subseteq 1..id /\ worker'.id \in 0..id
    BY <1>1, <1>2 DEF FlightInv, TypeOK, id
  <2>2. worker' \in [at : {"idle", "finished", "notified"}, id : 0..id,
                     result : EndKinds \cup {"None"}]
    BY <1>1, <2>1 DEF FlightInv, TypeOK
  <2> QED
    BY <1>1, <1>3, <1>6, <2>1, <2>2 DEF FlightInv, TypeOK, Outcomes
<1>9. Len(submitted') <= MaxRequests
  BY <1>1, <1>2, <1>3, CoordinatorAssumption DEF id
<1>10. worker'.at = "finished" =>
         /\ running' = None /\ inflight' = worker'.id /\ worker'.id # None
         /\ worker'.result \in EndKinds
  BY <1>1, <1>6 DEF FlightInv
<1>11. ASSUME inflight' # None, submitted'[inflight'].load # active'
       PROVE  outcome'[inflight'] # << >>
  <2>1. inflight' # id
    BY <1>1, <1>3, <1>11
  <2>2. inflight' \in 1..Len(submitted) /\ inflight' \in Requests
    BY <1>1, <1>2, <1>6, <1>11, <2>1, CoordinatorAssumption DEF id, None, Requests
  <2>3. submitted[inflight'].load # active
    BY <1>1, <1>3, <1>11, <2>2
  <2>4. inflight' = inflight
    BY <1>6, <2>2, <2>3 DEF IsObsolete
  <2> QED
    BY <1>7, <1>11, <2>2, <2>3, <2>4 DEF FlightInv, NoFrameAdded
<1> QED
  BY <1>6, <1>7, <1>8, <1>9, <1>10, <1>11 DEF FlightInv

LEMMA SetActiveKeepsFlight ==
    ASSUME FlightInv, NEW l \in Loads, SetActiveImageLoadRequest(l)
    PROVE  FlightInv' /\ NoFrameAdded(outcome, outcome')
<1> DEFINE obsolete == (Pending(slots) \cup {inflight}) \ (OfLoad(l) \cup {None})
<1>1. /\ active' = l /\ slots' = Cleared(slots, obsolete)
      /\ outcome' = Dropped(outcome, obsolete)
      /\ token' = token \cup (obsolete \cap {inflight})
      /\ UNCHANGED <<submitted, inflight, running, worker, callbacks>>
  BY DEF SetActiveImageLoadRequest
<1>2. outcome \in Outcomes
  BY DEF FlightInv, TypeOK, Outcomes
<1>3. outcome' \in Outcomes /\ NoFrameAdded(outcome, outcome')
  BY <1>1, <1>2, DroppedAddsNoFrame
<1>4. obsolete \cap {inflight} \subseteq 1..Len(submitted)
  BY DEF FlightInv, TypeOK, None
<1>5. slots' \in [Qualities -> 0..Len(submitted)]
  BY <1>1 DEF Cleared, FlightInv, TypeOK, None
<1>6. ASSUME inflight' # None, submitted'[inflight'].load # active'
      PROVE  outcome'[inflight'] # << >>
  <2>1. inflight \in obsolete
    BY <1>1, <1>6 DEF OfLoad
  <2>2. inflight \in Requests
    BY <1>1, <1>6, CoordinatorAssumption DEF FlightInv, TypeOK, None, Requests
  <2> QED
    BY <1>1, <1>2, <2>1, <2>2, DroppedEnds
<1> HIDE DEF obsolete
<1>7. TypeOK'
  BY <1>1, <1>3, <1>4, <1>5 DEF FlightInv, TypeOK, Outcomes
<1> QED
  BY <1>1, <1>3, <1>6, <1>7 DEF FlightInv, SingleFlight

LEMMA CancelWorkKeepsFlight ==
    ASSUME FlightInv, NEW l \in Loads, CancelWork(l),
           callbacks' \in [Callbacks -> [at : {"free", "waiting", "taken", "called"},
                                         load : Loads \cup {NoLoad}]]
    PROVE  FlightInv' /\ NoFrameAdded(outcome, outcome')
<1> DEFINE gone == (Pending(slots) \cup {inflight}) \cap OfLoad(l)
<1>1. /\ ScheduleNext(Cleared(slots, gone), Dropped(outcome, gone))
      /\ token' = token \cup (gone \cap {inflight})
      /\ UNCHANGED <<active, submitted, worker>>
  BY DEF CancelWork
<1>2. outcome \in Outcomes
  BY DEF FlightInv, TypeOK, Outcomes
<1>3. Dropped(outcome, gone) \in Outcomes /\ NoFrameAdded(outcome, Dropped(outcome, gone))
  BY <1>2, DroppedAddsNoFrame
<1>4. token' \subseteq 1..Len(submitted)
  BY <1>1 DEF FlightInv, TypeOK, OfLoad
<1>5. Cleared(slots, gone) \in [Qualities -> 0..Len(submitted)]
  BY DEF Cleared, FlightInv, TypeOK, None
<1>6. worker' = worker /\ worker \in [at : {"idle", "finished", "notified"},
                    id : 0..Len(submitted), result : EndKinds \cup {"None"}]
  BY <1>1 DEF FlightInv, TypeOK
<1> HIDE DEF gone
<1> QED
  BY <1>1, <1>3, <1>4, <1>5, <1>6, SchedulingKeepsFlight

LEMMA CancelRequestKeepsFlight ==
    ASSUME FlightInv, NEW id \in 1..Len(submitted), CancelRequest(id)
    PROVE  FlightInv' /\ NoFrameAdded(outcome, outcome')
<1> DEFINE out == Dropped(outcome, {id})
<1>1. outcome \in Outcomes
  BY DEF FlightInv, TypeOK, Outcomes
<1>2. out \in Outcomes /\ NoFrameAdded(outcome, out)
  BY <1>1, DroppedAddsNoFrame
<1>3. UNCHANGED <<active, submitted, worker, callbacks>>
  BY DEF CancelRequest
<1>4. CASE /\ ScheduleNext(Cleared(slots, {id}), out)
           /\ UNCHANGED token
  <2>1. Cleared(slots, {id}) \in [Qualities -> 0..Len(submitted)]
    BY DEF Cleared, FlightInv, TypeOK, None
  <2>2. /\ token' \subseteq 1..Len(submitted)
        /\ worker' \in [at : {"idle", "finished", "notified"}, id : 0..Len(submitted),
                        result : EndKinds \cup {"None"}]
        /\ callbacks' \in [Callbacks -> [at : {"free", "waiting", "taken", "called"},
                                         load : Loads \cup {NoLoad}]]
    BY <1>3, <1>4 DEF FlightInv, TypeOK
  <2> HIDE DEF out
  <2> QED
    BY <1>2, <1>3, <1>4, <2>1, <2>2, SchedulingKeepsFlight
<1>5. CASE /\ outcome' = out /\ token' = token \cup {id}
           /\ UNCHANGED <<slots, inflight, running>>
  <2>1. id \in Requests
    BY CoordinatorAssumption DEF FlightInv, TypeOK, Requests
  <2> HIDE DEF out
  <2>2. TypeOK'
    BY <1>2, <1>3, <1>5 DEF FlightInv, TypeOK, Outcomes
  <2>3. ASSUME inflight' # None, submitted'[inflight'].load # active'
        PROVE  outcome'[inflight'] # << >>
    <3>1. inflight \in Requests
      BY <1>5, <2>3, CoordinatorAssumption DEF FlightInv, TypeOK, None, Requests
    <3> QED
      BY <1>2, <1>3, <1>5, <2>3, <3>1 DEF FlightInv, NoFrameAdded
  <2> QED
    BY <1>2, <1>3, <1>5, <2>2, <2>3 DEF FlightInv, SingleFlight
<1> QED
  BY <1>4, <1>5 DEF CancelRequest

\* The completion of the running job is the only step that makes a frame ready,
\* and by then the frames of other loads have ended.
LEMMA NotifyKeepsFlight ==
    ASSUME FlightInv, NotifySchedulerCompleted
    PROVE  FlightInv' /\ ReadyStep
<1>1. /\ worker.at = "finished" /\ worker' = [worker EXCEPT !.at = "notified"]
      /\ inflight = worker.id /\ inflight # None /\ running = None
      /\ UNCHANGED <<active, submitted, slots, token, running>>
  BY DEF FlightInv, NotifySchedulerCompleted
<1>2. /\ outcome' = IF outcome[inflight] # << >> THEN outcome
                    ELSE Ended(outcome, {inflight}, worker.result)
      /\ inflight' = None /\ callbacks' = Taken(submitted[inflight].load)
  BY <1>1 DEF NotifySchedulerCompleted
<1>3. /\ outcome \in Outcomes /\ inflight \in Requests
      /\ worker.result \in EndKinds
  BY <1>1, CoordinatorAssumption DEF FlightInv, TypeOK, Outcomes, None, Requests
<1>4. /\ outcome' \in Outcomes
      /\ \A id \in Requests : outcome'[id] = outcome[id]
                             \/ (id = inflight /\ outcome[id] = << >>)
  BY <1>2, <1>3, EndedAppends
<1>5. ReadyStep
  <2>1. outcome[inflight] = << >> => submitted[inflight].load = active
    BY <1>1 DEF FlightInv
  <2>2. 1..Len(submitted) \subseteq Requests
    BY CoordinatorAssumption DEF FlightInv, TypeOK, Requests
  <2> QED
    BY <1>4, <2>1, <2>2 DEF ReadyStep
<1>6. callbacks' \in [Callbacks -> [at : {"free", "waiting", "taken", "called"},
                                    load : Loads \cup {NoLoad}]]
  BY <1>2 DEF Taken, FlightInv, TypeOK
<1>7. worker' \in [at : {"idle", "finished", "notified"}, id : 0..Len(submitted),
                  result : EndKinds \cup {"None"}] /\ worker'.at = "notified"
  BY <1>1 DEF FlightInv, TypeOK
<1>8. TypeOK'
  BY <1>1, <1>2, <1>4, <1>6, <1>7 DEF FlightInv, TypeOK, Outcomes, None
<1> QED
  BY <1>1, <1>2, <1>5, <1>7, <1>8 DEF FlightInv, SingleFlight, None

\* Every step keeps the invariant and makes only frames of the active load ready.
LEMMA FlightStep ==
    ASSUME FlightInv, [Next]_vars
    PROVE  FlightInv' /\ ReadyStep
<1>1. ASSUME NEW l \in Loads, NEW q \in Qualities, Submit(l, q)
      PROVE  FlightInv' /\ ReadyStep
  BY <1>1, SubmitKeepsFlight, NoFrameIsReady
<1>2. ASSUME NEW l \in Loads, SetActiveImageLoadRequest(l)
      PROVE  FlightInv' /\ ReadyStep
  BY <1>2, SetActiveKeepsFlight, NoFrameIsReady
<1>3. ASSUME NEW l \in Loads, CancelSession(l)
      PROVE  FlightInv' /\ ReadyStep
  <2>1. callbacks' \in [Callbacks -> [at : {"free", "waiting", "taken", "called"},
                                      load : Loads \cup {NoLoad}]]
    BY <1>3 DEF CancelSession, FlightInv, TypeOK
  <2> QED
    BY <1>3, <2>1, CancelWorkKeepsFlight, NoFrameIsReady DEF CancelSession
<1>4. ASSUME NEW l \in Loads, NEW c \in Callbacks, CancelSessionForIdle(l, c)
      PROVE  FlightInv' /\ ReadyStep
  <2>1. callbacks' \in [Callbacks -> [at : {"free", "waiting", "taken", "called"},
                                      load : Loads \cup {NoLoad}]]
    BY <1>4 DEF CancelSessionForIdle, FlightInv, TypeOK
  <2> QED
    BY <1>4, <2>1, CancelWorkKeepsFlight, NoFrameIsReady DEF CancelSessionForIdle
<1>5. ASSUME NEW id \in 1..Len(submitted), CancelRequest(id)
      PROVE  FlightInv' /\ ReadyStep
  BY <1>5, CancelRequestKeepsFlight, NoFrameIsReady
<1>6. ASSUME NEW id \in 1..Len(submitted), CancelToken(id)
      PROVE  FlightInv' /\ ReadyStep
  BY <1>6 DEF CancelToken, FlightInv, TypeOK, SingleFlight, ReadyStep
<1>7. ASSUME FinishJob
      PROVE  FlightInv' /\ ReadyStep
  <2>1. inflight = running /\ running # None
    BY <1>7 DEF FinishJob, FlightInv, SingleFlight
  <2> QED
    BY <1>7, <2>1 DEF FinishJob, FlightInv, TypeOK, SingleFlight, ReadyStep, None
<1>8. ASSUME NotifySchedulerCompleted
      PROVE  FlightInv' /\ ReadyStep
  BY <1>8, NotifyKeepsFlight
<1>9. ASSUME Pump
      PROVE  FlightInv' /\ ReadyStep
  <2>1. /\ slots \in [Qualities -> 0..Len(submitted)] /\ outcome \in Outcomes
        /\ token' \subseteq 1..Len(submitted)
        /\ callbacks' \in [Callbacks -> [at : {"free", "waiting", "taken", "called"},
                                         load : Loads \cup {NoLoad}]]
    BY <1>9 DEF Pump, FlightInv, TypeOK, Outcomes
  <2>2. /\ worker' = Idle
        /\ worker' \in [at : {"idle", "finished", "notified"}, id : 0..Len(submitted),
                        result : EndKinds \cup {"None"}]
    BY <1>9 DEF Pump, Idle, None, FlightInv, TypeOK
  <2>3. NoFrameAdded(outcome, outcome)
    BY DEF NoFrameAdded
  <2>4. worker'.at # "finished"
    BY <2>2 DEF Idle
  <2>5. ScheduleNext(slots, outcome) /\ UNCHANGED <<active, submitted>>
    BY <1>9 DEF Pump
  <2> QED
    BY <2>1, <2>2, <2>3, <2>4, <2>5, SchedulingKeepsFlight, NoFrameIsReady
<1>10. ASSUME NEW c \in Callbacks, ReportIdle(c)
       PROVE  FlightInv' /\ ReadyStep
  BY <1>10 DEF ReportIdle, FlightInv, TypeOK, SingleFlight, ReadyStep
<1>11. CASE UNCHANGED vars
  BY <1>11 DEF vars, FlightInv, TypeOK, SingleFlight, ReadyStep
<1> QED
  BY <1>1, <1>2, <1>3, <1>4, <1>5, <1>6, <1>7, <1>8, <1>9, <1>10, <1>11
  DEF Next, Caller, Worker

----------------------------------------------------------------------------
LEMMA FlightInvariant == Spec => []FlightInv
  BY FlightInitially, FlightStep, PTL DEF Spec

\* Every variable of the coordinator holds a value of its kind, and every id is
\* one that Submit gave out (editor_render_coordinator.cpp:335-377).
THEOREM CoordinatorTypeCorrect == Spec => []TypeOK
<1>1. FlightInv => TypeOK
  BY DEF FlightInv
<1> QED
  BY <1>1, FlightInvariant, PTL

\* Whatever thread schedules, the port is never offered a job while it runs
\* one (editor_render_coordinator.cpp:513-559).
THEOREM OneJobInFlight == Spec => []SingleFlight
<1>1. FlightInv => SingleFlight
  BY DEF FlightInv
<1> QED
  BY <1>1, FlightInvariant, PTL

\* A frame becomes ready only for the image on screen and only once
\* (editor_render_coordinator.cpp:134-184, 569-609).
THEOREM ReadyFramesAreCurrent == Spec => OnlyCurrentFramesAreReady
<1>1. FlightInv /\ [Next]_vars => [ReadyStep]_vars
  BY FlightStep
<1>2. [ReadyStep]_vars
        => [\A id \in 1..Len(submitted) :
              outcome'[id] # outcome[id] /\ Last(outcome'[id]) = "FrameReady"
                 => submitted[id].load = active /\ outcome[id] = << >>]_vars
  BY DEF ReadyStep
<1> QED
  BY <1>1, <1>2, FlightInvariant, PTL DEF Spec, OnlyCurrentFramesAreReady

\* A session hears that it is idle only when no slot and no job of it is left
\* (editor_render_coordinator.cpp:400-436, 569-637).
IdleStep ==
    \A c \in Callbacks :
       callbacks[c].at # "taken" /\ callbacks'[c].at = "taken"
          => ~HasSessionWork(callbacks'[c].load, slots', inflight')

LEMMA IdleIsTrue == TypeOK /\ [Next]_vars => [IdleStep]_vars
<1> SUFFICES ASSUME TypeOK, Next
             PROVE  IdleStep
  OBVIOUS
<1> USE DEF IdleStep
<1>0. callbacks \in [Callbacks -> [at : {"free", "waiting", "taken", "called"},
                                   load : Loads \cup {NoLoad}]]
  BY DEF TypeOK
<1>1. CASE callbacks' = callbacks
  BY <1>1
<1>2. ASSUME NEW l \in Loads, NEW c \in Callbacks, CancelSessionForIdle(l, c)
      PROVE  IdleStep
  <2>1. callbacks' = [callbacks EXCEPT ![c] =
                        [at |-> IF HasSessionWork(l, slots', inflight') THEN "waiting" ELSE "taken",
                         load |-> l]]
    BY <1>2 DEF CancelSessionForIdle
  <2>2. ASSUME NEW d \in Callbacks, d # c  PROVE callbacks'[d] = callbacks[d]
    BY <1>0, <2>1, <2>2
  <2>3. callbacks'[c] = [at |-> IF HasSessionWork(l, slots', inflight') THEN "waiting" ELSE "taken",
                         load |-> l]
    BY <1>0, <2>1
  <2>4. CASE HasSessionWork(l, slots', inflight')
    BY <2>2, <2>3, <2>4
  <2>5. CASE ~HasSessionWork(l, slots', inflight')
    BY <2>2, <2>3, <2>5
  <2> QED
    BY <2>4, <2>5
<1>3. CASE NotifySchedulerCompleted
  <2>1. CASE inflight = worker.id
    <3> DEFINE l == submitted[inflight].load
    <3>1. inflight' = None /\ slots' = slots /\ callbacks' = Taken(l)
      BY <1>3, <2>1 DEF NotifySchedulerCompleted
    <3>2. ASSUME NEW c \in Callbacks, callbacks[c].at # "taken", callbacks'[c].at = "taken"
          PROVE  callbacks'[c].load = l /\ ~HasSessionWork(l, slots, None)
      BY <1>0, <3>1, <3>2 DEF Taken
    <3>3. HasSessionWork(l, slots', inflight') = HasSessionWork(l, slots, None)
      BY <1>3, <3>1 DEF HasSessionWork, Pending, OfLoad, NotifySchedulerCompleted
    <3> QED
      BY <3>2, <3>3
  <2>2. CASE inflight # worker.id
    BY <1>1, <1>3, <2>2 DEF NotifySchedulerCompleted
  <2> QED
    BY <2>1, <2>2
<1>4. ASSUME NEW c \in Callbacks, ReportIdle(c)
      PROVE  IdleStep
  BY <1>0, <1>4 DEF ReportIdle
<1> QED
  BY <1>1, <1>2, <1>3, <1>4
  DEF Next, Caller, Worker, Submit, SetActiveImageLoadRequest, CancelSession, CancelRequest,
      CancelToken, FinishJob, Pump

THEOREM IdleReportsAreTrue == Spec => IdleMeansIdle
<1>1. TypeOK /\ [Next]_vars
        => [\A c \in Callbacks :
              callbacks[c].at # "taken" /\ callbacks'[c].at = "taken"
                 => ~HasSessionWork(callbacks'[c].load, slots', inflight')]_vars
  BY IdleIsTrue DEF IdleStep
<1> QED
  BY <1>1, CoordinatorTypeCorrect, PTL DEF Spec, IdleMeansIdle

----------------------------------------------------------------------------
(***************************************************************************)
(* The render coordinator implements RenderRequests, for every number of    *)
(* requests, image loads and callbacks.                                    *)
(***************************************************************************)

\* StageOf of each request, when n are accepted, sl holds what waits, job is in
\* flight and out are the results so far.
StagesOf(n, sl, job, out) ==
    [id \in Requests |->
        IF id > n THEN "new"
        ELSE IF id = job THEN (IF out[id] = << >> THEN "running" ELSE "stopping")
        ELSE IF out[id] # << >> THEN "over"
        ELSE IF id \in Pending(sl) THEN "waiting" ELSE "lost"]

\* What waits is in one slot, has not ended and is not in flight; what has not
\* ended waits or is in flight.
Placed(n, sl, job, out) ==
    /\ n \in Nat /\ n <= MaxRequests
    /\ sl \in [Qualities -> 0..n] /\ job \in 0..n /\ out \in Outcomes
    /\ \A p, q \in Qualities : sl[p] = sl[q] /\ sl[p] # None => p = q
    /\ \A id \in Requests :
          /\ id \in Pending(sl) => out[id] = << >> /\ id # job
          /\ id <= n /\ out[id] = << >> => id \in Pending(sl) \/ id = job
          /\ id > n => out[id] = << >>

PlacedInv == Placed(Len(submitted), slots, inflight, outcome)
Stage     == StagesOf(Len(submitted), slots, inflight, outcome)

----------------------------------------------------------------------------
\* A slot holds requests that were accepted.
LEMMA PendingAccepted ==
    ASSUME NEW n \in Nat, n <= MaxRequests, NEW sl \in [Qualities -> 0..n]
    PROVE  Pending(sl) \subseteq 1..n /\ Pending(sl) \subseteq Requests
  BY CoordinatorAssumption DEF Pending, None, Requests

\* Requests that end without a frame have ended, the others are as before.
LEMMA DroppedValues ==
    ASSUME NEW out \in Outcomes, NEW ids
    PROVE  /\ Dropped(out, ids) \in Outcomes
           /\ \A id \in Requests :
                 /\ id \in ids => Dropped(out, ids)[id] # << >>
                 /\ id \notin ids => Dropped(out, ids)[id] = out[id]
                 /\ out[id] # << >> => Dropped(out, ids)[id] # << >>
<1>1. Dropped(out, ids) \in Outcomes /\ NoFrameAdded(out, Dropped(out, ids))
  BY DroppedAddsNoFrame
<1>2. ASSUME NEW id \in Requests, id \in ids
      PROVE  Dropped(out, ids)[id] # << >>
  BY <1>2, DroppedEnds
<1>3. ASSUME NEW id \in Requests, id \notin ids
      PROVE  Dropped(out, ids)[id] = out[id]
  BY <1>3 DEF Dropped, Ended
<1>4. ASSUME NEW id \in Requests, out[id] # << >>
      PROVE  Dropped(out, ids)[id] # << >>
  BY <1>1, <1>4 DEF NoFrameAdded
<1> QED
  BY <1>1, <1>2, <1>3, <1>4

\* What is cleared from the slots no longer waits, the rest does.
LEMMA ClearedPending ==
    ASSUME NEW n \in Nat, NEW sl \in [Qualities -> 0..n], NEW ids
    PROVE  /\ Cleared(sl, ids) \in [Qualities -> 0..n]
           /\ Pending(Cleared(sl, ids)) = Pending(sl) \ ids
           /\ \A q \in Qualities : \/ Cleared(sl, ids)[q] = None
                                   \/ Cleared(sl, ids)[q] = sl[q] /\ sl[q] \notin ids
  BY DEF Cleared, Pending, None

\* Giving requests up clears their slots and ends them; the one in flight stops
\* (editor_render_coordinator.cpp:395-436).
LEMMA GivingUp ==
    ASSUME NEW n, NEW sl, NEW job, NEW out, Placed(n, sl, job, out),
           NEW ids \in SUBSET (Pending(sl) \cup ({job} \ {None}))
    PROVE  /\ Placed(n, Cleared(sl, ids), job, Dropped(out, ids))
           /\ StagesOf(n, Cleared(sl, ids), job, Dropped(out, ids))
                = Promise!GivenUp(StagesOf(n, sl, job, out), {id \in ids : out[id] = << >>})
           /\ {id \in ids : out[id] = << >>}
                \subseteq Promise!At(StagesOf(n, sl, job, out), Promise!Open)
<1> DEFINE new  == Cleared(sl, ids)
           res  == Dropped(out, ids)
           st   == StagesOf(n, sl, job, out)
           live == {id \in ids : out[id] = << >>}
<1>1. /\ n \in Nat /\ n <= MaxRequests
      /\ sl \in [Qualities -> 0..n] /\ job \in 0..n /\ out \in Outcomes
      /\ \A p, q \in Qualities : sl[p] = sl[q] /\ sl[p] # None => p = q
      /\ \A id \in Requests :
            /\ id \in Pending(sl) => out[id] = << >> /\ id # job
            /\ id <= n /\ out[id] = << >> => id \in Pending(sl) \/ id = job
            /\ id > n => out[id] = << >>
  BY DEF Placed
<1>2. Pending(sl) \subseteq 1..n /\ Pending(sl) \subseteq Requests
  BY <1>1, PendingAccepted
<1>3. ids \subseteq 1..n /\ ids \subseteq Requests
  BY <1>1, <1>2, CoordinatorAssumption DEF None, Requests
<1>4. /\ new \in [Qualities -> 0..n] /\ Pending(new) = Pending(sl) \ ids
      /\ \A q \in Qualities : new[q] = None \/ (new[q] = sl[q] /\ sl[q] \notin ids)
  BY <1>1, ClearedPending
<1>5. /\ res \in Outcomes
      /\ \A id \in Requests :
            /\ id \in ids => res[id] # << >>
            /\ id \notin ids => res[id] = out[id]
            /\ out[id] # << >> => res[id] # << >>
  BY <1>1, DroppedValues
<1> HIDE DEF new, res
<1>6. Placed(n, new, job, res)
  <2>1. \A p, q \in Qualities : new[p] = new[q] /\ new[p] # None => p = q
    BY <1>1, <1>4
  <2>2. ASSUME NEW id \in Requests
        PROVE  /\ id \in Pending(new) => res[id] = << >> /\ id # job
               /\ id <= n /\ res[id] = << >> => id \in Pending(new) \/ id = job
               /\ id > n => res[id] = << >>
    BY <1>1, <1>3, <1>4, <1>5
  <2> QED
    BY <1>1, <1>4, <1>5, <2>1, <2>2 DEF Placed
<1>7. StagesOf(n, new, job, res) = Promise!GivenUp(st, live)
  <2>1. ASSUME NEW id \in Requests
        PROVE  StagesOf(n, new, job, res)[id] = Promise!GivenUp(st, live)[id]
    <3>1. CASE id > n
      BY <1>3, <3>1 DEF StagesOf, Promise!GivenUp, Promise!Become, Promise!At, Promise!Requests,
                        Requests
    <3>2. CASE ~(id > n) /\ id = job
      BY <1>1, <1>4, <1>5, <3>2
      DEF StagesOf, Promise!GivenUp, Promise!Become, Promise!At, Promise!Requests, Requests
    <3>3. CASE ~(id > n) /\ id # job
      BY <1>1, <1>4, <1>5, <3>3
      DEF StagesOf, Promise!GivenUp, Promise!Become, Promise!At, Promise!Requests, Requests
    <3> QED
      BY <3>1, <3>2, <3>3
  <2> QED
    BY <2>1 DEF StagesOf, Promise!GivenUp, Promise!Become, Promise!Requests, Requests
<1>8. live \subseteq Promise!At(st, Promise!Open)
  BY <1>1, <1>3 DEF StagesOf, Promise!At, Promise!Open, Promise!Requests, Requests
<1> QED
  BY <1>6, <1>7, <1>8 DEF new, res

----------------------------------------------------------------------------
\* The stages the coordinator shows are those of its slots, flight and results.
LEMMA StageIsShown ==
    ASSUME Len(submitted) \in Nat, inflight \in 0..Len(submitted)
    PROVE  [id \in Requests |-> StageOf(id)] = Stage
  BY CoordinatorAssumption DEF Stage, StagesOf, StageOf, Requests

LEMMA NextStageIsShown ==
    ASSUME Len(submitted') \in Nat, inflight' \in 0..Len(submitted')
    PROVE  [id \in Requests |-> StageOf(id)'] = Stage'
  BY CoordinatorAssumption DEF Stage, StagesOf, StageOf, Requests

\* ScheduleNext starts one waiting request and ends those it passes over, or
\* ends all of them (editor_render_coordinator.cpp:484-559).
LEMMA Scheduling ==
    ASSUME NEW sl, NEW out, ScheduleNext(sl, out),
           Placed(Len(submitted'), sl, inflight, out)
    PROVE  /\ PlacedInv'
           /\ Promise!Offered(StagesOf(Len(submitted'), sl, inflight, out))
<1> DEFINE n  == Len(submitted')
           st == StagesOf(n, sl, inflight, out)
           waiting == Promise!At(st, {"waiting"})
<1>1. /\ n \in Nat /\ n <= MaxRequests
      /\ sl \in [Qualities -> 0..n] /\ inflight \in 0..n /\ out \in Outcomes
      /\ \A p, q \in Qualities : sl[p] = sl[q] /\ sl[p] # None => p = q
      /\ \A id \in Requests :
            /\ id \in Pending(sl) => out[id] = << >> /\ id # inflight
            /\ id <= n /\ out[id] = << >> => id \in Pending(sl) \/ id = inflight
            /\ id > n => out[id] = << >>
  BY DEF Placed
<1>2. Pending(sl) \subseteq 1..n /\ Pending(sl) \subseteq Requests
  BY <1>1, PendingAccepted
<1> HIDE DEF n
<1>3. CASE inflight # None
  <2>1. slots' = sl /\ outcome' = out /\ inflight' = inflight
    BY <1>3 DEF ScheduleNext
  <2>2. PlacedInv'
    BY <2>1 DEF PlacedInv
  <2>3. Stage' = st
    BY <2>1 DEF Stage, n
  <2>4. [id \in Requests |-> StageOf(id)'] = Stage'
    BY <1>1, <2>1, NextStageIsShown DEF n
  <2>5. inflight \in Promise!Held(st)
    BY <1>1, <1>3, CoordinatorAssumption
    DEF Promise!Held, Promise!At, Promise!Requests, StagesOf, Requests, None
  <2> QED
    BY <2>2, <2>3, <2>4, <2>5 DEF Promise!Offered, n
<1>4. CASE inflight = None
  <2> DEFINE dropped == {id \in Pending(sl) : id \in token \/ IsObsolete(id)}
             left == Cleared(sl, dropped)
             refused(next) == {left[q] : q \in {p \in Qualities : p < next}} \ {None}
             rest(next) == Dropped(Dropped(out, dropped), refused(next))
             gone(next) == dropped \cup refused(next)
  <2>1. \/ \E next \in Qualities :
              /\ left[next] # None /\ running = None
              /\ inflight' = left[next] /\ running' = left[next]
              /\ slots' = [q \in Qualities |-> IF q <= next THEN None ELSE left[q]]
              /\ outcome' = rest(next)
        \/ /\ slots' = [q \in Qualities |-> None]
           /\ outcome' = rest(4)
           /\ UNCHANGED <<inflight, running>>
    BY <1>4 DEF ScheduleNext
  <2>2. /\ left \in [Qualities -> 0..n] /\ Pending(left) = Pending(sl) \ dropped
        /\ \A q \in Qualities : left[q] = None \/ (left[q] = sl[q] /\ sl[q] \notin dropped)
        /\ dropped \subseteq Pending(sl)
    BY <1>1, ClearedPending
  <2>3. ASSUME NEW next \in 1..4
        PROVE  /\ rest(next) \in Outcomes /\ gone(next) \subseteq Pending(sl)
               /\ \A id \in Requests :
                     /\ id \in gone(next) => rest(next)[id] # << >>
                     /\ id \notin gone(next) => rest(next)[id] = out[id]
    <3>1. /\ Dropped(out, dropped) \in Outcomes
          /\ \A id \in Requests :
                /\ id \in dropped => Dropped(out, dropped)[id] # << >>
                /\ id \notin dropped => Dropped(out, dropped)[id] = out[id]
      BY <1>1, DroppedValues
    <3>2. /\ rest(next) \in Outcomes
          /\ \A id \in Requests :
                /\ id \in refused(next) => rest(next)[id] # << >>
                /\ id \notin refused(next) => rest(next)[id] = Dropped(out, dropped)[id]
                /\ Dropped(out, dropped)[id] # << >> => rest(next)[id] # << >>
      BY <3>1, DroppedValues
    <3>3. refused(next) \subseteq Pending(left)
      BY DEF Pending
    <3> HIDE DEF dropped, refused, rest, left
    <3> QED
      BY <2>2, <3>1, <3>2, <3>3
  <2>4. Promise!Held(st) = {}
    BY <1>1, <1>4 DEF Promise!Held, Promise!At, Promise!Requests, StagesOf, Requests, None
  <2>5. waiting = Pending(sl)
    BY <1>1, <1>2, <1>4 DEF Promise!At, Promise!Requests, StagesOf, Requests, None
  <2>6. gone(4) = Pending(sl)
    <3>1. refused(4) = Pending(left)
      <4>1. {p \in Qualities : p < 4} = Qualities
        BY DEF Qualities
      <4> QED
        BY <4>1 DEF Pending
    <3> QED
      BY <2>2, <3>1
  <2>7. ASSUME NEW next \in Qualities, left[next] # None
        PROVE  /\ left[next] \in Pending(sl) \ gone(next)
               /\ left[next] = sl[next] /\ left[next] \in 1..n
    <3>1. left[next] = sl[next] /\ left[next] \in Pending(left) \ dropped
      BY <2>2, <2>7 DEF Pending
    <3>2. left[next] \notin refused(next)
      BY <1>1, <2>2, <2>7, <3>1, SMTT(60) DEF Qualities
    <3> QED
      BY <1>2, <2>2, <3>1, <3>2
  <2> HIDE DEF dropped, refused, rest, left, gone, st, waiting
  <2>8. CASE \E next \in Qualities :
              /\ left[next] # None /\ running = None
              /\ inflight' = left[next] /\ running' = left[next]
              /\ slots' = [q \in Qualities |-> IF q <= next THEN None ELSE left[q]]
              /\ outcome' = rest(next)
    <3>1. PICK next \in Qualities :
              /\ left[next] # None
              /\ inflight' = left[next]
              /\ slots' = [q \in Qualities |-> IF q <= next THEN None ELSE left[q]]
              /\ outcome' = rest(next)
      BY <2>8
    <3>2. next \in 1..4
      BY DEF Qualities
    <3>3. /\ rest(next) \in Outcomes /\ gone(next) \subseteq Pending(sl)
          /\ \A id \in Requests :
                /\ id \in gone(next) => rest(next)[id] # << >>
                /\ id \notin gone(next) => rest(next)[id] = out[id]
      BY <2>3, <3>2
    <3>4. /\ inflight' \in Pending(sl) \ gone(next)
          /\ inflight' = sl[next] /\ inflight' \in 1..n
      BY <2>7, <3>1
    <3>5. /\ slots' \in [Qualities -> 0..n]
          /\ \A q \in Qualities : \/ slots'[q] = None
                                  \/ slots'[q] = sl[q] /\ slots'[q] = left[q] /\ q > next
      BY <1>1, <2>2, <3>1 DEF None, Qualities
    <3>6. Pending(slots') = Pending(sl) \ (gone(next) \cup {inflight'})
      <4>1. Pending(slots') \subseteq Pending(sl) \ (gone(next) \cup {inflight'})
        BY <1>1, <2>2, <3>1, <3>4, <3>5, SMTT(60) DEF Pending, gone, refused, Qualities
      <4>2. Pending(sl) \ (gone(next) \cup {inflight'}) \subseteq Pending(slots')
        BY <1>1, <2>2, <3>1, <3>4, <3>5, SMTT(60) DEF Pending, gone, refused, Qualities
      <4> QED
        BY <4>1, <4>2
    <3>7. PlacedInv'
      <4>1. \A p, q \in Qualities : slots'[p] = slots'[q] /\ slots'[p] # None => p = q
        BY <1>1, <3>5
      <4>2. ASSUME NEW id \in Requests
            PROVE  /\ id \in Pending(slots') => outcome'[id] = << >> /\ id # inflight'
                   /\ id <= n /\ outcome'[id] = << >> => id \in Pending(slots') \/ id = inflight'
                   /\ id > n => outcome'[id] = << >>
        BY <1>1, <1>2, <1>4, <3>1, <3>3, <3>4, <3>6 DEF None, Requests
      <4> QED
        BY <1>1, <3>1, <3>3, <3>4, <3>5, <4>1, <4>2, SMTT(60) DEF PlacedInv, Placed, n
    <3>8. Stage' = Promise!Become(Promise!GivenUp(st, gone(next)), {inflight'}, "running")
      <4>1. ASSUME NEW id \in Requests
            PROVE  Stage'[id] =
                     Promise!Become(Promise!GivenUp(st, gone(next)), {inflight'}, "running")[id]
        <5>1. Stage'[id] =
                IF id > n THEN "new"
                ELSE IF id = inflight' THEN (IF outcome'[id] = << >> THEN "running" ELSE "stopping")
                ELSE IF outcome'[id] # << >> THEN "over"
                ELSE IF id \in Pending(slots') THEN "waiting" ELSE "lost"
          BY DEF Stage, StagesOf, n
        <5>2. st[id] =
                IF id > n THEN "new"
                ELSE IF id = None THEN (IF out[id] = << >> THEN "running" ELSE "stopping")
                ELSE IF out[id] # << >> THEN "over"
                ELSE IF id \in Pending(sl) THEN "waiting" ELSE "lost"
          BY <1>4 DEF st, StagesOf
        <5>3. Promise!Become(Promise!GivenUp(st, gone(next)), {inflight'}, "running")[id] =
                IF id = inflight' THEN "running"
                ELSE IF id \in gone(next) /\ st[id] = "running" THEN "stopping"
                ELSE IF id \in gone(next) /\ st[id] = "waiting" THEN "over" ELSE st[id]
          BY DEF Promise!Become, Promise!GivenUp, Promise!At, Promise!Requests, Requests
        <5> QED
          BY <1>1, <1>2, <3>1, <3>3, <3>4, <3>6, <5>1, <5>2, <5>3 DEF None, Requests
      <4> QED
        BY <4>1 DEF Stage, StagesOf, Promise!Become, Promise!Requests, Requests
    <3>9. [id \in Requests |-> StageOf(id)'] = Stage'
      BY <1>1, <3>4, NextStageIsShown DEF n
    <3>10. inflight' \in waiting /\ gone(next) \in SUBSET (waiting \ {inflight'})
      BY <2>5, <3>3, <3>4
    <3> QED
      BY <2>4, <3>7, <3>8, <3>9, <3>10 DEF Promise!Offered, waiting, st, n
  <2>9. CASE /\ slots' = [q \in Qualities |-> None]
             /\ outcome' = rest(4)
             /\ UNCHANGED <<inflight, running>>
    <3>1. /\ rest(4) \in Outcomes
          /\ \A id \in Requests :
                /\ id \in gone(4) => rest(4)[id] # << >>
                /\ id \notin gone(4) => rest(4)[id] = out[id]
      BY <2>3
    <3>2. Pending(slots') = {} /\ slots' \in [Qualities -> 0..n]
      BY <1>1, <2>9 DEF Pending, None
    <3>3. PlacedInv'
      <4>1. ASSUME NEW id \in Requests
            PROVE  /\ id \in Pending(slots') => outcome'[id] = << >> /\ id # inflight'
                   /\ id <= n /\ outcome'[id] = << >> => id \in Pending(slots') \/ id = inflight'
                   /\ id > n => outcome'[id] = << >>
        BY <1>1, <1>2, <1>4, <2>6, <2>9, <3>1, <3>2 DEF Requests
      <4> QED
        BY <1>1, <2>9, <3>1, <3>2, <4>1 DEF PlacedInv, Placed, n
    <3>4. Stage' = Promise!GivenUp(st, Pending(sl))
      <4>1. ASSUME NEW id \in Requests
            PROVE  Stage'[id] = Promise!GivenUp(st, Pending(sl))[id]
        <5>1. Stage'[id] =
                IF id > n THEN "new"
                ELSE IF outcome'[id] # << >> THEN "over" ELSE "lost"
          BY <1>4, <2>9, <3>2 DEF Stage, StagesOf, n, None, Requests
        <5>2. st[id] =
                IF id > n THEN "new"
                ELSE IF out[id] # << >> THEN "over"
                ELSE IF id \in Pending(sl) THEN "waiting" ELSE "lost"
          BY <1>4 DEF st, StagesOf, None, Requests
        <5>3. Promise!GivenUp(st, Pending(sl))[id] =
                IF id \in Pending(sl) /\ st[id] = "running" THEN "stopping"
                ELSE IF id \in Pending(sl) /\ st[id] = "waiting" THEN "over" ELSE st[id]
          BY DEF Promise!Become, Promise!GivenUp, Promise!At, Promise!Requests, Requests
        <5> QED
          BY <1>1, <1>2, <2>6, <2>9, <3>1, <5>1, <5>2, <5>3
      <4> QED
        BY <4>1 DEF Stage, StagesOf, Promise!GivenUp, Promise!Become, Promise!Requests, Requests
    <3>5. [id \in Requests |-> StageOf(id)'] = Stage'
      BY <1>1, <2>9, NextStageIsShown DEF n
    <3> QED
      BY <2>4, <2>5, <3>3, <3>4, <3>5 DEF Promise!Offered, waiting, st, n
  <2> QED
    BY <2>1, <2>8, <2>9
<1> QED
  BY <1>3, <1>4

----------------------------------------------------------------------------
\* The steps of the coordinator are steps of RenderRequests.

LEMMA GiveUpImplements ==
    ASSUME FlightInv, PlacedInv, UNCHANGED submitted,
           NEW ids \in SUBSET (Pending(slots) \cup ({inflight} \ {None})),
           \/ ScheduleNext(Cleared(slots, ids), Dropped(outcome, ids))
           \/ /\ slots' = Cleared(slots, ids) /\ outcome' = Dropped(outcome, ids)
              /\ UNCHANGED inflight
    PROVE  PlacedInv' /\ Promise!RequestsNext
<1> DEFINE n    == Len(submitted)
           live == {id \in ids : outcome[id] = << >>}
           sl   == Cleared(slots, ids)
           out  == Dropped(outcome, ids)
<1>1. n \in Nat /\ inflight \in 0..n /\ Len(submitted') = n
  BY DEF FlightInv, TypeOK
<1>2. /\ Placed(n, sl, inflight, out)
      /\ StagesOf(n, sl, inflight, out) = Promise!GivenUp(Stage, live)
      /\ live \subseteq Promise!At(Stage, Promise!Open)
  BY GivingUp DEF PlacedInv, Stage
<1>3. [id \in Requests |-> StageOf(id)] = Stage
  BY <1>1, StageIsShown
<1> HIDE DEF sl, out, live
<1>4. CASE ScheduleNext(sl, out)
  <2>1. PlacedInv' /\ Promise!Offered(StagesOf(n, sl, inflight, out))
    BY <1>1, <1>2, <1>4, Scheduling
  <2>2. Promise!GiveUp(live)
    BY <1>2, <1>3, <2>1 DEF Promise!GiveUp
  <2> QED
    BY <1>2, <1>3, <2>1, <2>2 DEF Promise!RequestsNext
<1>5. CASE slots' = sl /\ outcome' = out /\ UNCHANGED inflight
  <2>1. PlacedInv' /\ Stage' = Promise!GivenUp(Stage, live)
    BY <1>1, <1>2, <1>5 DEF PlacedInv, Stage
  <2>2. [id \in Requests |-> StageOf(id)'] = Stage'
    BY <1>1, <1>5, NextStageIsShown
  <2>3. Promise!GiveUp(live)
    BY <1>3, <2>1, <2>2 DEF Promise!GiveUp
  <2> QED
    BY <1>2, <1>3, <2>1, <2>3 DEF Promise!RequestsNext
<1> QED
  BY <1>4, <1>5 DEF sl, out

LEMMA SubmitImplements ==
    ASSUME FlightInv, PlacedInv, NEW l \in Loads, NEW q \in Qualities, Submit(l, q)
    PROVE  PlacedInv' /\ Promise!RequestsNext
<1> DEFINE n   == Len(submitted)
           id  == n + 1
           ids == {slots[q]} \ {None}
           mid == Cleared(slots, ids)
           sl  == [slots EXCEPT ![q] = id]
           out == Dropped(outcome, ids)
           r   == [load |-> l, quality |-> q]
<1>1. /\ n < MaxRequests /\ submitted' = Append(submitted, r)
      /\ ScheduleNext(sl, out)
  BY DEF Submit
<1>2. /\ submitted \in Seq([load : Loads, quality : Qualities]) /\ n \in Nat
      /\ inflight \in 0..n /\ slots \in [Qualities -> 0..n]
  BY DEF FlightInv, TypeOK
<1>3. /\ Len(submitted') = id /\ DOMAIN submitted' = 1..id /\ DOMAIN submitted = 1..n
      /\ \A i \in 1..n : submitted'[i] = submitted[i]
      /\ submitted'[id] = r
  BY <1>1, <1>2, AppendProperties
<1>4. ids \subseteq Pending(slots)
  BY DEF Pending
<1>5. /\ Placed(n, mid, inflight, out)
      /\ StagesOf(n, mid, inflight, out)
           = Promise!GivenUp(Stage, {i \in ids : outcome[i] = << >>})
      /\ {i \in ids : outcome[i] = << >>} \subseteq Promise!At(Stage, Promise!Open)
  BY <1>4, GivingUp DEF PlacedInv, Stage
<1>6. /\ mid \in [Qualities -> 0..n] /\ out \in Outcomes /\ n \in Nat
      /\ \A p, s \in Qualities : mid[p] = mid[s] /\ mid[p] # None => p = s
      /\ \A i \in Requests :
            /\ i \in Pending(mid) => out[i] = << >> /\ i # inflight
            /\ i <= n /\ out[i] = << >> => i \in Pending(mid) \/ i = inflight
            /\ i > n => out[i] = << >>
  BY <1>5 DEF Placed
<1>7. mid[q] = None /\ \A p \in Qualities \ {q} : mid[p] = slots[p]
  BY <1>2 DEF Cleared, PlacedInv, Placed, None
<1>8. /\ sl \in [Qualities -> 0..id] /\ sl[q] = id
      /\ \A p \in Qualities \ {q} : sl[p] = mid[p]
      /\ id # None
  <2>1. slots \in [Qualities -> 0..id] /\ id \in 0..id /\ id # None
    BY <1>2 DEF None
  <2> QED
    BY <1>7, <2>1
<1>9. Pending(sl) = Pending(mid) \cup {id}
  BY <1>7, <1>8 DEF Pending
<1>10. Pending(mid) \subseteq 1..n /\ Pending(slots) \subseteq 1..n
       /\ Pending(slots) \subseteq Requests
  <2>1. n <= MaxRequests
    BY <1>1, <1>2, CoordinatorAssumption
  <2> QED
    BY <1>2, <1>6, <2>1, PendingAccepted
<1> HIDE DEF mid, sl, out
<1>11. Placed(id, sl, inflight, out)
  <2>1. \A p, s \in Qualities : sl[p] = sl[s] /\ sl[p] # None => p = s
    BY <1>6, <1>8
  <2>2. ASSUME NEW i \in Requests
        PROVE  /\ i \in Pending(sl) => out[i] = << >> /\ i # inflight
               /\ i <= id /\ out[i] = << >> => i \in Pending(sl) \/ i = inflight
               /\ i > id => out[i] = << >>
    BY <1>2, <1>6, <1>9, <1>10, CoordinatorAssumption DEF Requests
  <2> QED
    BY <1>1, <1>2, <1>6, <1>8, <2>1, <2>2, CoordinatorAssumption DEF Placed
<1>12. /\ PlacedInv'
       /\ Promise!Offered(StagesOf(id, sl, inflight, out))
  BY <1>1, <1>3, <1>11, Scheduling
<1>13. {i \in ids : outcome[i] = << >>} = ids
  BY <1>4, <1>10 DEF PlacedInv, Placed
<1>14. Promise!GivenUp(Stage, ids) = Promise!GivenUp(Stage, {slots[q]})
  BY CoordinatorAssumption
  DEF Promise!GivenUp, Promise!Become, Promise!At, Promise!Requests, Requests, None
<1>15. StagesOf(id, sl, inflight, out)
         = [Promise!GivenUp(Stage, {slots[q]}) EXCEPT ![id] = "waiting"]
  <2>1. Promise!GivenUp(Stage, {slots[q]}) = StagesOf(n, mid, inflight, out)
    BY <1>5, <1>13, <1>14
  <2>2. ASSUME NEW i \in Requests
        PROVE  StagesOf(id, sl, inflight, out)[i]
                 = [StagesOf(n, mid, inflight, out) EXCEPT ![id] = "waiting"][i]
    BY <1>2, <1>6, <1>9, <1>10, CoordinatorAssumption DEF StagesOf, Requests
  <2> QED
    BY <2>1, <2>2 DEF StagesOf
<1>16. [i \in Requests |-> StageOf(i)] = Stage
  BY <1>2, StageIsShown
<1>17. slots[q] \in {None} \cup Promise!At(Stage, {"waiting"})
  <2>1. ASSUME slots[q] # None
        PROVE  slots[q] \in Promise!At(Stage, {"waiting"})
    <3>1. slots[q] \in Pending(slots) /\ slots[q] \in Requests /\ slots[q] \in 1..n
      BY <1>10, <2>1 DEF Pending
    <3> QED
      BY <1>2, <3>1 DEF Stage, StagesOf, PlacedInv, Placed, Promise!At, Promise!Requests, Requests
  <2> QED
    BY <2>1
<1>18. [i \in DOMAIN submitted' |-> submitted'[i].load]
         = Append([i \in DOMAIN submitted |-> submitted[i].load], l)
  <2> DEFINE old == [i \in DOMAIN submitted |-> submitted[i].load]
  <2>1. old \in Seq(Loads) /\ Len(old) = n /\ DOMAIN old = 1..n
    <3>1. \A i \in 1..n : submitted[i].load \in Loads
      <4>1. \A i \in 1..n : submitted[i] \in [load : Loads, quality : Qualities]
        BY <1>2, ElementOfSeq
      <4> QED
        BY <4>1
    <3>2. old \in [1..n -> Loads]
      BY <1>3, <3>1
    <3> QED
      BY <1>2, <3>2
  <2>2. /\ DOMAIN Append(old, l) = 1..id
        /\ \A i \in 1..n : Append(old, l)[i] = old[i]
        /\ Append(old, l)[id] = l
        /\ Append(old, l) \in Seq(Loads) /\ Len(Append(old, l)) = id
    BY <2>1, AppendProperties
  <2>3. Append(old, l) = [i \in 1..id |-> Append(old, l)[i]]
    BY <2>2
  <2> QED
    BY <1>2, <1>3, <2>2, <2>3
<1>19. Len([i \in DOMAIN submitted |-> submitted[i].load]) + 1 = id
  BY <1>2, <1>3
<1> PICK victim : victim = slots[q]
  OBVIOUS
<1>20. Promise!Ask(l, victim)
  <2> DEFINE asked == [i \in DOMAIN submitted |-> submitted[i].load]
             stage == [i \in Requests |-> StageOf(i)]
  <2>1. [Promise!GivenUp(stage, {victim}) EXCEPT ![Len(asked) + 1] = "waiting"]
          = StagesOf(id, sl, inflight, out)
    BY <1>15, <1>16, <1>19
  <2>2. Promise!Offered([Promise!GivenUp(stage, {victim}) EXCEPT ![Len(asked) + 1] = "waiting"])
    BY <1>12, <2>1
  <2>3. Len(asked) + 1 \in Promise!Requests
    BY <1>1, <1>2, <1>19, CoordinatorAssumption DEF Promise!Requests
  <2>4. victim \in {Promise!None} \cup Promise!At(stage, {"waiting"})
    BY <1>16, <1>17 DEF Promise!None, None
  <2> QED
    BY <1>18, <2>2, <2>3, <2>4 DEF Promise!Ask
<1>21. victim \in {Promise!None} \cup Promise!Requests
  BY <1>17 DEF Promise!At, Promise!None, None
<1> QED
  <2>1. \E v \in {Promise!None} \cup Promise!Requests : Promise!Ask(l, v)
    BY <1>20, <1>21
  <2>2. \E k \in Loads : \E v \in {Promise!None} \cup Promise!Requests : Promise!Ask(k, v)
    BY <2>1
  <2> QED
    BY <1>12, <2>2 DEF Promise!RequestsNext

LEMMA ReturnImplements ==
    ASSUME FlightInv, PlacedInv, NotifySchedulerCompleted
    PROVE  PlacedInv' /\ Promise!RequestsNext
<1> DEFINE n == Len(submitted)
           id == inflight
<1>1. /\ inflight # None /\ inflight = worker.id /\ worker.result \in EndKinds
      /\ n \in Nat /\ n <= MaxRequests /\ inflight \in 0..n
  BY DEF FlightInv, TypeOK, NotifySchedulerCompleted
<1>2. /\ outcome' = IF outcome[id] # << >> THEN outcome ELSE Ended(outcome, {id}, worker.result)
      /\ inflight' = None /\ UNCHANGED <<submitted, slots>>
  BY <1>1 DEF NotifySchedulerCompleted
<1>3. id \in Requests /\ id \in 1..n
  BY <1>1, CoordinatorAssumption DEF Requests, None
<1>4. outcome \in Outcomes /\ outcome' \in Outcomes
  BY <1>1, <1>2, EndedAppends DEF PlacedInv, Placed
<1>5. /\ outcome'[id] # << >>
      /\ \A i \in Requests : i # id => outcome'[i] = outcome[i]
  <2>1. CASE outcome[id] # << >>
    BY <1>2, <2>1
  <2>2. CASE outcome[id] = << >>
    <3>1. outcome'[id] = Append(outcome[id], worker.result)
      <4>1. Len(outcome[id]) < MaxEnds
        BY <2>2, EmptySeq DEF MaxEnds
      <4> QED
        BY <1>2, <1>3, <2>2, <4>1 DEF Ended
    <3>2. outcome[id] \in Seq(EndKinds)
      BY <1>3, <1>4 DEF Outcomes
    <3>3. Append(outcome[id], worker.result) # << >>
      BY <1>1, <3>2, AppendProperties
    <3> QED
      BY <1>2, <2>2, <3>1, <3>3 DEF Ended
  <2> QED
    BY <2>1, <2>2
<1>6. /\ slots \in [Qualities -> 0..n]
      /\ \A p, q \in Qualities : slots[p] = slots[q] /\ slots[p] # None => p = q
      /\ \A i \in Requests :
            /\ i \in Pending(slots) => outcome[i] = << >> /\ i # inflight
            /\ i <= n /\ outcome[i] = << >> => i \in Pending(slots) \/ i = inflight
            /\ i > n => outcome[i] = << >>
  BY DEF PlacedInv, Placed
<1>7. PlacedInv'
  <2>1. ASSUME NEW i \in Requests
        PROVE  /\ i \in Pending(slots) => outcome'[i] = << >> /\ i # None
               /\ i <= n /\ outcome'[i] = << >> => i \in Pending(slots) \/ i = None
               /\ i > n => outcome'[i] = << >>
    BY <1>3, <1>5, <1>6 DEF None, Requests
  <2>2. None \in 0..n
    BY <1>1 DEF None
  <2> QED
    BY <1>1, <1>2, <1>4, <1>6, <2>1, <2>2 DEF PlacedInv, Placed
<1>8. Stage' = [Stage EXCEPT ![id] = "over"]
  <2>1. ASSUME NEW i \in Requests
        PROVE  Stage'[i] = [Stage EXCEPT ![id] = "over"][i]
    <3>1. Stage'[i] =
            IF i > n THEN "new"
            ELSE IF i = None THEN (IF outcome'[i] = << >> THEN "running" ELSE "stopping")
            ELSE IF outcome'[i] # << >> THEN "over"
            ELSE IF i \in Pending(slots) THEN "waiting" ELSE "lost"
      BY <1>2 DEF Stage, StagesOf
    <3>2. Stage[i] =
            IF i > n THEN "new"
            ELSE IF i = id THEN (IF outcome[i] = << >> THEN "running" ELSE "stopping")
            ELSE IF outcome[i] # << >> THEN "over"
            ELSE IF i \in Pending(slots) THEN "waiting" ELSE "lost"
      BY DEF Stage, StagesOf
    <3>3. [Stage EXCEPT ![id] = "over"][i] = IF i = id THEN "over" ELSE Stage[i]
      BY DEF Stage, StagesOf
    <3> QED
      BY <1>3, <1>5, <3>1, <3>2, <3>3 DEF None, Requests
  <2> QED
    BY <2>1 DEF Stage, StagesOf
<1>9. /\ [i \in Requests |-> StageOf(i)] = Stage
      /\ [i \in Requests |-> StageOf(i)'] = Stage'
  <2>1. Len(submitted') \in Nat /\ inflight' \in 0..Len(submitted')
    BY <1>1, <1>2 DEF None
  <2> QED
    BY <1>1, <2>1, StageIsShown, NextStageIsShown
<1>10. id \in Promise!Held(Stage)
  BY <1>3 DEF Promise!Held, Promise!At, Promise!Requests, Stage, StagesOf, Requests
<1>11. Promise!Return(id)
  BY <1>2, <1>8, <1>9, <1>10 DEF Promise!Return
<1> QED
  BY <1>3, <1>7, <1>11 DEF Promise!RequestsNext, Promise!Requests, Requests

LEMMA Stutters ==
    ASSUME PlacedInv, UNCHANGED <<submitted, slots, inflight, outcome>>
    PROVE  /\ PlacedInv'
           /\ UNCHANGED <<[n \in DOMAIN submitted |-> submitted[n].load],
                          [id \in Requests |-> StageOf(id)]>>
  BY DEF PlacedInv, StageOf

\* Every step of the coordinator is a step of RenderRequests, or none.
LEMMA StepImplements ==
    ASSUME FlightInv, PlacedInv, [Next]_vars
    PROVE  /\ PlacedInv'
           /\ [Promise!RequestsNext]_<<[n \in DOMAIN submitted |-> submitted[n].load],
                                       [id \in Requests |-> StageOf(id)]>>
<1>1. ASSUME NEW l \in Loads, NEW q \in Qualities, Submit(l, q)
      PROVE  PlacedInv' /\ Promise!RequestsNext
  BY <1>1, SubmitImplements
<1>2. ASSUME NEW l \in Loads, SetActiveImageLoadRequest(l)
      PROVE  PlacedInv' /\ Promise!RequestsNext
  <2> DEFINE obsolete == (Pending(slots) \cup {inflight}) \ (OfLoad(l) \cup {None})
  <2>1. /\ slots' = Cleared(slots, obsolete) /\ outcome' = Dropped(outcome, obsolete)
        /\ UNCHANGED <<submitted, inflight>>
    BY <1>2 DEF SetActiveImageLoadRequest
  <2>2. obsolete \in SUBSET (Pending(slots) \cup ({inflight} \ {None}))
    OBVIOUS
  <2> HIDE DEF obsolete
  <2> QED
    BY <2>1, <2>2, GiveUpImplements
<1>3. ASSUME NEW l \in Loads, CancelWork(l)
      PROVE  PlacedInv' /\ Promise!RequestsNext
  <2> DEFINE gone == (Pending(slots) \cup {inflight}) \cap OfLoad(l)
  <2>1. /\ ScheduleNext(Cleared(slots, gone), Dropped(outcome, gone))
        /\ UNCHANGED submitted
    BY <1>3 DEF CancelWork
  <2>2. gone \in SUBSET (Pending(slots) \cup ({inflight} \ {None}))
    BY DEF OfLoad, None
  <2> HIDE DEF gone
  <2> QED
    BY <2>1, <2>2, GiveUpImplements
<1>4. ASSUME NEW id \in 1..Len(submitted), CancelRequest(id)
      PROVE  PlacedInv' /\ Promise!RequestsNext
  <2>1. CASE /\ id \in Pending(slots)
             /\ ScheduleNext(Cleared(slots, {id}), Dropped(outcome, {id}))
    <3>1. {id} \in SUBSET (Pending(slots) \cup ({inflight} \ {None})) /\ UNCHANGED submitted
      BY <1>4, <2>1 DEF CancelRequest
    <3> QED
      BY <2>1, <3>1, GiveUpImplements
  <2>2. CASE /\ id = inflight /\ outcome' = Dropped(outcome, {id})
             /\ UNCHANGED <<slots, inflight>>
    <3>1. {id} \in SUBSET (Pending(slots) \cup ({inflight} \ {None})) /\ UNCHANGED submitted
      BY <1>4, <2>2 DEF CancelRequest, None
    <3>2. Cleared(slots, {id}) = slots
      <4>1. id \in Requests /\ id \notin Pending(slots)
        BY <2>2, CoordinatorAssumption DEF FlightInv, TypeOK, Requests, PlacedInv, Placed
      <4>2. \A q \in Qualities : slots[q] # id
        BY <4>1, CoordinatorAssumption DEF Pending, Requests, None
      <4> QED
        BY <4>2 DEF Cleared, PlacedInv, Placed
    <3> QED
      BY <2>2, <3>1, <3>2, GiveUpImplements
  <2> QED
    BY <1>4, <2>1, <2>2 DEF CancelRequest
<1>5. ASSUME Pump
      PROVE  PlacedInv' /\ Promise!RequestsNext
  <2>1. ScheduleNext(slots, outcome) /\ UNCHANGED submitted
    BY <1>5 DEF Pump
  <2>2. Cleared(slots, {}) = slots /\ Dropped(outcome, {}) = outcome
    BY DEF Cleared, Dropped, Ended, PlacedInv, Placed, Outcomes
  <2>3. {} \in SUBSET (Pending(slots) \cup ({inflight} \ {None}))
    OBVIOUS
  <2> QED
    BY <2>1, <2>2, <2>3, GiveUpImplements
<1>6. ASSUME NotifySchedulerCompleted
      PROVE  PlacedInv' /\ Promise!RequestsNext
  BY <1>6, ReturnImplements
<1>7. ASSUME \/ \E id \in 1..Len(submitted) : CancelToken(id)
             \/ \E c \in Callbacks : ReportIdle(c)
             \/ FinishJob \/ UNCHANGED vars
      PROVE  /\ PlacedInv'
             /\ UNCHANGED <<[n \in DOMAIN submitted |-> submitted[n].load],
                            [id \in Requests |-> StageOf(id)]>>
  <2>1. UNCHANGED <<submitted, slots, inflight, outcome>>
    BY <1>7 DEF CancelToken, ReportIdle, FinishJob, vars
  <2> QED
    BY <2>1, Stutters
<1> QED
  BY <1>1, <1>2, <1>3, <1>4, <1>5, <1>6, <1>7
  DEF Next, Caller, Worker, CancelSession, CancelSessionForIdle

LEMMA InitiallyImplements ==
    ASSUME Init
    PROVE  PlacedInv /\ Promise!RequestsInit
<1>1. /\ submitted = << >> /\ Len(submitted) = 0
      /\ slots = [q \in Qualities |-> None] /\ inflight = None
      /\ outcome = [id \in Requests |-> << >>]
  BY DEF Init
<1>2. Pending(slots) = {} /\ outcome \in Outcomes
  BY <1>1 DEF Pending, Outcomes
<1>3. PlacedInv
  BY <1>1, <1>2, CoordinatorAssumption DEF PlacedInv, Placed, None, Requests
<1>4. [id \in Requests |-> StageOf(id)] = [id \in Requests |-> "new"]
  BY <1>1, CoordinatorAssumption DEF StageOf, Requests
<1>5. [n \in DOMAIN submitted |-> submitted[n].load] = << >>
  BY <1>1
<1> QED
  BY <1>3, <1>4, <1>5 DEF Promise!RequestsInit, Promise!Requests, Requests

\* The coordinator keeps the promise a session relies on: a request waits, runs
\* alone and ends once, and a cancelled job stays in the way until it returns,
\* whichever thread cancels, replaces or schedules
\* (editor_render_coordinator.cpp:130-184, 379-609).
THEOREM CoordinatorKeepsPromise == Spec => ImplementsRenderRequests
<1>1. Init => PlacedInv /\ Promise!RequestsInit
  BY InitiallyImplements
<1>2. FlightInv /\ PlacedInv /\ [Next]_vars
        => PlacedInv' /\ [Promise!RequestsNext]_<<[n \in DOMAIN submitted |-> submitted[n].load],
                                                 [id \in Requests |-> StageOf(id)]>>
  BY StepImplements
<1>3. Spec => [][Promise!RequestsNext]_<<[n \in DOMAIN submitted |-> submitted[n].load],
                                         [id \in Requests |-> StageOf(id)]>>
  BY <1>1, <1>2, FlightInvariant, PTL DEF Spec
<1>4. Spec => Promise!RequestsInit
  BY <1>1, PTL DEF Spec
<1> QED
  BY <1>3, <1>4, PTL DEF ImplementsRenderRequests, Promise!RequestsSpec
=============================================================================
