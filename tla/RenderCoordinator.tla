-------------------------- MODULE RenderCoordinator --------------------------
(***************************************************************************)
(* Rendering of the image in the editor (app/editor_render_coordinator.cpp  *)
(* above ui/.../editor_session_render_scheduler_port.cpp).  Requests wait in *)
(* one slot per quality, one job runs at a time on the pipeline's worker,    *)
(* and a session that leaves an image asks to be told when no render of it   *)
(* is left.                                                                *)
(*                                                                         *)
(* Each action is one section under the coordinator's mutex; owner thread    *)
(* and pipeline worker interleave between them.                             *)
(***************************************************************************)
EXTENDS Integers, Sequences, FiniteSets, SequencesExt

CONSTANTS
    MaxRequests,        \* requests one behaviour submits
    Loads,              \* image load requests the session may make active
    NoLoad,             \* no load is active yet
    Callbacks,          \* identities of idle callbacks
    SubmitAfterCancel   \* a load may get requests after it was cancelled for good

ASSUME CoordinatorAssumption ==
    /\ MaxRequests \in Nat
    /\ NoLoad \notin Loads
    /\ SubmitAfterCancel \in BOOLEAN

VARIABLES
    active,     \* active_image_load_request_id_
    submitted,  \* the accepted requests in order of their ids
    slots,      \* the pending request of each quality
    inflight,   \* the request handed to the scheduler port
    outcome,    \* history: terminal results emitted for each request
    token,      \* requests whose cancellation token is set
    running,    \* the port's running job
    worker,     \* what the pipeline worker does after its job returned
    callbacks   \* the idle callbacks and how far each one got

vars == <<active, submitted, slots, inflight, outcome, token, running, worker, callbacks>>

----------------------------------------------------------------------------
Requests  == 1..MaxRequests
None      == 0      \* no request

\* Interactive, Quality and Detail, the most urgent first.
Qualities == 1..3

\* How a request ends: with a frame, or Replaced, Cancelled, Failed or suspended.
EndKinds  == {"FrameReady", "NoFrame"}

\* Two terminal results of one request are as wrong as more.
MaxEnds == 2
Ended(out, ids, kind) ==
    [id \in Requests |-> IF id \in ids /\ Len(out[id]) < MaxEnds
                         THEN Append(out[id], kind) ELSE out[id]]
Dropped(out, ids) == Ended(out, ids, "NoFrame")

Pending(sl)      == {sl[q] : q \in Qualities} \ {None}
Cleared(sl, ids) == [q \in Qualities |-> IF sl[q] \in ids THEN None ELSE sl[q]]
OfLoad(l)        == {id \in 1..Len(submitted) : submitted[id].load = l}
IsObsolete(id)   == id <= Len(submitted) /\ submitted[id].load # active

HasSessionWork(l, sl, job) == (Pending(sl) \cup {job}) \cap OfLoad(l) # {}

Free == [at |-> "free", load |-> NoLoad]
Idle == [at |-> "idle", id |-> None, result |-> "None"]

Init ==
    /\ active = NoLoad /\ submitted = << >>
    /\ slots = [q \in Qualities |-> None] /\ inflight = None
    /\ outcome = [id \in Requests |-> << >>] /\ token = {}
    /\ running = None /\ worker = Idle
    /\ callbacks = [c \in Callbacks |-> Free]

----------------------------------------------------------------------------
\* ScheduleNext on slots sl and results out: drops what was cancelled or is
\* obsolete, then offers the rest by urgency until the port takes one.  The
\* port may refuse any of them and refuses all while it runs a job.
ScheduleNext(sl, out) ==
    IF inflight # None
    THEN slots' = sl /\ outcome' = out /\ UNCHANGED <<inflight, running>>
    ELSE LET dropped == {id \in Pending(sl) : id \in token \/ IsObsolete(id)}
             left    == Cleared(sl, dropped)
             refused(next) == {left[q] : q \in {p \in Qualities : p < next}} \ {None}
             rest(next)    == Dropped(Dropped(out, dropped), refused(next))
         IN  \/ \E next \in Qualities :
                   /\ left[next] # None /\ running = None
                   /\ inflight' = left[next] /\ running' = left[next]
                   /\ slots' = [q \in Qualities |-> IF q <= next THEN None ELSE left[q]]
                   /\ outcome' = rest(next)
             \/ /\ slots' = [q \in Qualities |-> None]
                /\ outcome' = rest(4)
                /\ UNCHANGED <<inflight, running>>

\* A request for another load than the active one is refused and leaves no
\* trace; an accepted one replaces the pending request of its quality.
Submit(l, q) ==
    LET id == Len(submitted) + 1
    IN  /\ l = active
        /\ SubmitAfterCancel \/ \A c \in Callbacks : callbacks[c].load # l
        /\ Len(submitted) < MaxRequests
        /\ submitted' = Append(submitted, [load |-> l, quality |-> q])
        /\ ScheduleNext([slots EXCEPT ![q] = id],
                        Dropped(outcome, {slots[q]} \ {None}))
        /\ UNCHANGED <<active, token, worker, callbacks>>

\* Mutant of SetActiveImageLoadRequest: what waits or runs for the old load is
\* kept.
SetActiveKeepingWork(l) ==
    /\ l # active
    /\ active' = l
    /\ UNCHANGED <<submitted, slots, inflight, outcome, token, running, worker, callbacks>>

\* The running job is cancelled again although it may have ended before; what
\* the port's Cancel does is to set the token that is already set here.
SetActiveImageLoadRequest(l) ==
    LET obsolete == (Pending(slots) \cup {inflight}) \ (OfLoad(l) \cup {None})
    IN  /\ l # active
        /\ active' = l
        /\ slots' = Cleared(slots, obsolete)
        /\ outcome' = Dropped(outcome, obsolete)
        /\ token' = token \cup (obsolete \cap {inflight})
        /\ UNCHANGED <<submitted, inflight, running, worker, callbacks>>

\* CancelSession, with an idle callback or without.
CancelWork(l) ==
    LET gone == (Pending(slots) \cup {inflight}) \cap OfLoad(l)
    IN  /\ ScheduleNext(Cleared(slots, gone), Dropped(outcome, gone))
        /\ token' = token \cup (gone \cap {inflight})
        /\ UNCHANGED <<active, submitted, worker>>

CancelSession(l) == CancelWork(l) /\ UNCHANGED callbacks

\* Mutant of CancelSessionForIdle: the callback does not wait for the job.
CancelReportingAtOnce(l, c) ==
    /\ callbacks[c] = Free
    /\ CancelWork(l)
    /\ callbacks' = [callbacks EXCEPT ![c] = [at |-> "taken", load |-> l]]

CancelSessionForIdle(l, c) ==
    /\ callbacks[c] = Free
    /\ CancelWork(l)
    /\ callbacks' = [callbacks EXCEPT ![c] =
                        [at |-> IF HasSessionWork(l, slots', inflight') THEN "waiting" ELSE "taken",
                         load |-> l]]

\* Mutant of CancelRequest: the request ends but keeps its slot.
CancelRequestInPlace(id) ==
    /\ id \in Pending(slots) /\ outcome[id] = << >>
    /\ outcome' = Dropped(outcome, {id})
    /\ UNCHANGED <<active, submitted, slots, inflight, token, running, worker, callbacks>>

\* A pending request is dropped and the next one started; a running one is
\* told to stop and stays in flight until its job returns.
CancelRequest(id) ==
    /\ outcome[id] = << >>
    /\ \/ /\ id \in Pending(slots)
          /\ ScheduleNext(Cleared(slots, {id}), Dropped(outcome, {id}))
          /\ UNCHANGED token
       \/ /\ id = inflight
          /\ outcome' = Dropped(outcome, {id})
          /\ token' = token \cup {id}
          /\ UNCHANGED <<slots, inflight, running>>
    /\ UNCHANGED <<active, submitted, worker, callbacks>>

\* The producer of a request that has not ended sets its token.
CancelToken(id) ==
    /\ id \in (Pending(slots) \cup {inflight}) \ (token \cup {None})
    /\ token' = token \cup {id}
    /\ UNCHANGED <<active, submitted, slots, inflight, outcome, running, worker, callbacks>>

----------------------------------------------------------------------------
\* Mutant of FinishJob: the port still holds the job while its completion runs.
FinishHoldingJob ==
    /\ worker = Idle /\ running # None
    /\ \E result \in EndKinds :
          worker' = [at |-> "finished", id |-> running, result |-> result]
    /\ UNCHANGED <<active, submitted, slots, inflight, outcome, token, running, callbacks>>

\* The worker's job returns; a frame that was cancelled meanwhile is no success.
FinishJob ==
    /\ worker = Idle /\ running # None
    /\ \E result \in EndKinds :
          /\ running \in token => result # "FrameReady"
          /\ worker' = [at |-> "finished", id |-> running, result |-> result]
    /\ running' = None
    /\ UNCHANGED <<active, submitted, slots, inflight, outcome, token, callbacks>>

\* TakeIdleCallbacks: the callbacks of the load, once it has no work.
Taken(l) ==
    [c \in Callbacks |-> IF callbacks[c].at = "waiting" /\ callbacks[c].load = l
                            /\ ~HasSessionWork(l, slots, None)
                         THEN [callbacks[c] EXCEPT !.at = "taken"] ELSE callbacks[c]]

\* Mutant of NotifySchedulerCompleted: the waiting callbacks are forgotten.
NotifyForgettingIdle ==
    /\ worker.at = "finished" /\ inflight = worker.id
    /\ outcome' = IF outcome[worker.id] # << >> THEN outcome
                  ELSE Ended(outcome, {worker.id}, worker.result)
    /\ inflight' = None
    /\ worker' = [worker EXCEPT !.at = "notified"]
    /\ UNCHANGED <<active, submitted, slots, token, running, callbacks>>

NotifySchedulerCompleted ==
    /\ worker.at = "finished"
    /\ worker' = [worker EXCEPT !.at = "notified"]
    /\ IF inflight = worker.id
       THEN /\ outcome' = IF outcome[inflight] # << >> THEN outcome
                          ELSE Ended(outcome, {inflight}, worker.result)
            /\ inflight' = None
            /\ callbacks' = Taken(submitted[inflight].load)
       ELSE UNCHANGED <<outcome, inflight, callbacks>>
    /\ UNCHANGED <<active, submitted, slots, token, running>>

\* Mutant of Pump: the next request is not started.
PumpNothing ==
    /\ worker.at = "notified"
    /\ worker' = Idle
    /\ UNCHANGED <<active, submitted, slots, inflight, outcome, token, running, callbacks>>

Pump ==
    /\ worker.at = "notified"
    /\ ScheduleNext(slots, outcome)
    /\ worker' = Idle
    /\ UNCHANGED <<active, submitted, token, callbacks>>

\* A taken callback runs after the mutex was released.
ReportIdle(c) ==
    /\ callbacks[c].at = "taken"
    /\ callbacks' = [callbacks EXCEPT ![c].at = "called"]
    /\ UNCHANGED <<active, submitted, slots, inflight, outcome, token, running, worker>>

Caller == \/ \E l \in Loads, q \in Qualities : Submit(l, q)
          \/ \E l \in Loads : SetActiveImageLoadRequest(l) \/ CancelSession(l)
          \/ \E l \in Loads, c \in Callbacks : CancelSessionForIdle(l, c)
          \/ \E id \in 1..Len(submitted) : CancelRequest(id) \/ CancelToken(id)
Worker == FinishJob \/ NotifySchedulerCompleted \/ Pump

Next == Caller \/ Worker \/ \E c \in Callbacks : ReportIdle(c)

\* The pipeline worker keeps running its jobs and their completions, and a
\* callback that was taken is called.
Fairness == WF_vars(Worker) /\ \A c \in Callbacks : WF_vars(ReportIdle(c))

Spec == Init /\ [][Next]_vars /\ Fairness
----------------------------------------------------------------------------
\* Every variable holds a value of its kind; ids are those that were given out.
TypeOK ==
    /\ active \in Loads \cup {NoLoad}
    /\ submitted \in Seq([load : Loads, quality : Qualities])
    /\ slots \in [Qualities -> 0..Len(submitted)]
    /\ inflight \in 0..Len(submitted) /\ running \in 0..Len(submitted)
    /\ outcome \in [Requests -> Seq(EndKinds)]
    /\ token \subseteq 1..Len(submitted)
    /\ worker \in [at : {"idle", "finished", "notified"}, id : 0..Len(submitted),
                   result : EndKinds \cup {"None"}]
    /\ callbacks \in [Callbacks -> [at : {"free", "waiting", "taken", "called"},
                                    load : Loads \cup {NoLoad}]]

\* The coordinator never offers a job to a port that still runs one, so the
\* port's busy refusal cannot fail a request, whichever thread schedules
\* (editor_session_render_scheduler_port.cpp:338-341).
SingleFlight == running \in {None, inflight}

\* How far a request got in the terms of RenderRequests.  One that has not ended
\* and is neither in a slot nor in flight has no stage there, and one that has
\* ended can never start.
StageOf(id) ==
    CASE id > Len(submitted) -> "new"
      [] id <= Len(submitted) /\ id = inflight ->
            IF outcome[id] = << >> THEN "running" ELSE "stopping"
      [] id <= Len(submitted) /\ id # inflight ->
            IF outcome[id] # << >> THEN "over"
            ELSE IF id \in Pending(slots) THEN "waiting" ELSE "lost"

Promise == INSTANCE RenderRequests
           WITH asked <- [n \in DOMAIN submitted |-> submitted[n].load],
                stage <- [id \in Requests |-> StageOf(id)]

\* The coordinator keeps what a session relies on: a request waits, runs alone
\* and ends, whichever thread cancels, replaces or schedules, and a job that was
\* cancelled stays in the way until it returns
\* (editor_render_coordinator.cpp:130-184, 395-460, 561-609).
ImplementsRenderRequests == Promise!RequestsSpec

\* A frame counts as ready only when its load is the active one, also when it
\* was finished while the session moved to another image
\* (editor_render_coordinator.cpp:130-184, 569-591).
OnlyCurrentFramesAreReady ==
    [][\A id \in 1..Len(submitted) :
          outcome'[id] # outcome[id] /\ Last(outcome'[id]) = "FrameReady"
             => submitted[id].load = active /\ outcome[id] = << >>]_vars

\* Every accepted request ends, although a cancelled job blocks the next one
\* until it returns and the start after it is left to Pump
\* (editor_render_coordinator.cpp:530-535, 561-609).
EveryRequestEnds ==
    \A id \in Requests : id <= Len(submitted) ~> outcome[id] # << >>

\* A session that was cancelled for good hears that it is idle.
IdleIsReported ==
    \A c \in Callbacks : callbacks[c].at = "waiting" ~> callbacks[c].at = "called"

\* ... and only at a moment when no slot and no job of it is left, so that no
\* frame of a released image is presented (editor_session_ports.hpp:623-624).
IdleMeansIdle ==
    [][\A c \in Callbacks :
          callbacks[c].at # "taken" /\ callbacks'[c].at = "taken"
             => ~HasSessionWork(callbacks'[c].load, slots', inflight')]_vars
=============================================================================
