-------------------------- MODULE SessionNavigation --------------------------
(***************************************************************************)
(* Opening, leaving and saving the image in the editor:                     *)
(* app/editor_session_navigation_controller.cpp with the lifecycle, the save *)
(* checkpoint service, the action policy and the reducers of                *)
(* app/editor_session_service.cpp.                                          *)
(*                                                                         *)
(* The session's owner thread runs one command or posted completion at a    *)
(* time.  Saves run on a storage thread and frames on the pipeline's worker; *)
(* both report by completions that queue up in the order they were posted.  *)
(* A command may run before completions that were posted after it was given. *)
(***************************************************************************)
EXTENDS Integers, Sequences, FiniteSets, SequencesExt

CONSTANTS
    Images, NoImage,
    MaxLoads,       \* images one behaviour acquires
    MaxSaves,       \* saves after which no command that saves is given
    MaxWaiting,     \* idle callbacks of one load that wait at a time; more count as one
    MaxPosted,      \* completions in the queue at which no command is given
    Failures        \* what may fail, a subset of FailureKinds

FailureKinds == {"settle", "capture", "save", "sync", "version",
                 "recover", "acquire", "frame"}

ASSUME NavigationAssumption ==
    /\ NoImage \notin Images
    /\ {MaxLoads, MaxSaves, MaxWaiting, MaxPosted} \subseteq Nat
    /\ Failures \subseteq FailureKinds

VARIABLES
    state, image, guard, load,      \* EditorSessionLifecycle; guard: the history is held
    accepting,                      \* Shutdown, the last command, has not run
    action, recovery, next,         \* EditorSessionNavigationState
    checkpoint,                     \* pending_history_checkpoint_: "None", "Persist" or "Paste"
    closing,                        \* pending_close_after_persist_
    leases,                         \* active_leases_
    owner,                          \* what the owner thread still does in its handler
    save,                           \* the save under way; it holds the global save lock
    frames,                         \* renders the coordinator holds: load and first frame?
    waiting,                        \* idle callbacks of each load
    posted,                         \* completions in the command queue
    loads, saves,                   \* load and save ids given out
    work,                           \* history: are the edits made with no action pending saved?
    wanted                          \* history: the last selection, while nothing failed

session == <<state, image, guard, load, accepting>>
pendings == <<action, recovery, next, checkpoint, closing, leases>>
render  == <<frames, waiting>>
vars == <<session, pendings, owner, save, render, posted, loads, saves, work, wanted>>

----------------------------------------------------------------------------
LoadIds == 1..MaxLoads
SaveIds == 1..(MaxSaves + 2)    \* a handler that goes on by itself may start one more
NoLoad  == 0
NoId    == 0

States == {"NoImage", "Loading", "Interactive", "Saving", "RetainedImageFailure",
           "Failed", "ShuttingDown"}

\* PendingEditorAction; saved says that checkpoint_result holds a value.
Actions == [kind : {"None", "Switch", "Close", "Version"}, target : Images \cup {NoImage},
            persist : BOOLEAN, ticket : {NoId} \cup SaveIds, sealed : {NoLoad} \cup LoadIds,
            idle : BOOLEAN, saved : BOOLEAN]
NewAction(kind, target, persist) ==
    [kind |-> kind, target |-> target, persist |-> persist, ticket |-> NoId,
     sealed |-> NoLoad, idle |-> FALSE, saved |-> FALSE]
None == NewAction("None", NoImage, FALSE)

NoSave == [id |-> NoId, load |-> NoLoad, for |-> "None"]
Free   == [does |-> "nothing", target |-> NoImage, promote |-> FALSE]

Lease(kind, id) == [kind |-> kind, save |-> id]
LeasesOf(kind)  == {l \in leases : l.kind = kind}

\* Completions.  A result is the coordinator's, a frame the event made of it.
Result(l, ok)     == [kind |-> "result", load |-> l, ok |-> ok, id |-> NoId]
Frame(l, ok)      == [kind |-> "frame", load |-> l, ok |-> ok, id |-> NoId]
RenderIdle(l)     == [kind |-> "idle", load |-> l, ok |-> TRUE, id |-> NoId]
Saved(s, ok)      == [kind |-> s.for, load |-> s.load, ok |-> ok, id |-> s.id]

Init ==
    /\ state = "NoImage" /\ image = NoImage /\ guard = FALSE /\ load = NoLoad
    /\ accepting = TRUE
    /\ action = None /\ recovery = None /\ next = NoImage
    /\ checkpoint = "None" /\ closing = FALSE /\ leases = {}
    /\ owner = Free /\ save = NoSave
    /\ frames = {} /\ waiting = [l \in LoadIds |-> 0] /\ posted = << >>
    /\ loads = 0 /\ saves = 0 /\ work = "saved" /\ wanted = NoImage

\* How a step of this kind may turn out.
Outcomes(kind) == IF kind \in Failures THEN BOOLEAN ELSE {TRUE}

------------------------------------------------------------------------

Least(a, b) == IF a < b THEN a ELSE b
FramesOf(l) == {f \in frames : f.load = l}

----------------------------------------------------------------------------
\* What the handlers share.  q is the queue they append to.

\* StartRenderIdleBarrier: what waits is dropped, what runs stays until its job
\* returns and no result of it counts.  Switch and Close are told when it is gone.
Barrier(a, q) ==
    \E left \in {{}, {[load |-> load, first |-> FALSE]}} :
        /\ FramesOf(load) = {} => left = {}
        /\ frames' = (frames \ FramesOf(load)) \cup left
        /\ IF a.kind # "Version" /\ left # {}
           THEN waiting' = [waiting EXCEPT ![load] = Least(@ + 1, MaxWaiting)]
           ELSE UNCHANGED waiting
        /\ posted' = IF a.kind # "Version" /\ left = {}
                     THEN Append(q, RenderIdle(load)) ELSE q

Sealed(a) == [a EXCEPT !.sealed = load, !.idle = @ \/ a.kind = "Version"]

\* RetainPendingFailure: the image stays, and a waits for Retry, Discard or Cancel.
Retain(a) ==
    /\ state' = "RetainedImageFailure" /\ recovery' = a /\ action' = None
    /\ wanted' = NoImage

StartSave(for, edited) ==
    /\ saves' = saves + 1
    /\ save' = [id |-> saves + 1, load |-> load, for |-> for]
    /\ state' = "Saving"
    /\ work' = IF edited THEN "captured" ELSE work
NoStart == UNCHANGED <<save, saves, work>>

\* SealAndStartSave and what its callers do with the ticket.
Seal(a, q, want) ==
    \/ /\ "settle" \in Failures
       /\ Retain(a) /\ NoStart
       /\ posted' = q /\ UNCHANGED render
    \/ /\ Barrier(a, q)
       /\ save # NoSave \/ ~guard \/ "capture" \in Failures
       /\ Retain(Sealed(a)) /\ NoStart
    \/ /\ Barrier(a, q)
       /\ save = NoSave /\ guard
       /\ StartSave("action", work = "edited")
       /\ action' = [Sealed(a) EXCEPT !.ticket = saves + 1]
       /\ recovery' = None /\ wanted' = want

\* An action that needs no save waits for the renders alone.
WithoutSave(a, q) ==
    /\ action' = [a EXCEPT !.saved = TRUE, !.sealed = load] /\ recovery' = None
    /\ Barrier(a, q)

CanReplace == action # None \/ next # NoImage

Allowed == Len(posted) < MaxPosted /\ owner = Free /\ accepting
MaySave == Allowed /\ saves < MaxSaves

----------------------------------------------------------------------------
\* Switch and open.

SelectAllowed ==
    LET blocked == LeasesOf("Paste") \cup LeasesOf("FailureRecovery") # {} IN
    \/ blocked /\ CanReplace
    \/ /\ ~blocked /\ state # "RetainedImageFailure"
       /\ CanReplace \/ state \notin {"Loading", "Saving"}

\* As SelectNext, but a selection that waits is not replaced.
SelectNextOnce(img) ==
    /\ MaySave /\ SelectAllowed /\ loads + 1 < MaxLoads
    /\ action.kind = "Switch"
    /\ next' = (IF next = NoImage THEN img ELSE next) /\ wanted' = img
    /\ UNCHANGED <<session, action, recovery, checkpoint, closing, leases, owner, save, render,
                   posted, loads, saves, work>>

\* A selection while an image is being left waits behind it and replaces the
\* one that waited.
SelectNext(img) ==
    /\ MaySave /\ SelectAllowed /\ loads + 1 < MaxLoads
    /\ action.kind = "Switch"
    /\ next' = img /\ wanted' = img
    /\ UNCHANGED <<session, action, recovery, checkpoint, closing, leases, owner, save, render,
                   posted, loads, saves, work>>

Select(img) ==
    /\ MaySave /\ SelectAllowed /\ loads < MaxLoads
    /\ action = None /\ recovery = None
    /\ img # image \/ state \notin {"Loading", "Interactive", "Saving"}
    /\ IF image = NoImage
       THEN /\ owner' = [does |-> "acquire", target |-> img, promote |-> FALSE]
            /\ wanted' = img /\ NoStart
            /\ UNCHANGED <<state, action, recovery, render, posted>>
       ELSE Seal(NewAction("Switch", img, TRUE), posted, img) /\ UNCHANGED owner
    /\ UNCHANGED <<image, guard, load, accepting, next, checkpoint, closing, leases, loads>>

\* ContinueToTarget.  Recovering the image's journal takes the save lock and
\* waits for it.  The selection that waited is left behind right after.
Acquire ==
    /\ owner.does = "acquire" /\ save = NoSave
    /\ loads' = loads + 1
    /\ \E how \in {"ok"} \cup ({"recover", "acquire"} \cap Failures) :
          /\ state' = IF how = "ok" THEN "Loading" ELSE "Failed"
          /\ image' = IF how = "recover" THEN NoImage ELSE owner.target
          /\ load'  = IF how = "recover" THEN NoLoad ELSE loads + 1
          /\ guard' = (how = "ok")
          /\ frames' = IF how # "ok" THEN frames
                       ELSE {[f EXCEPT !.first = FALSE] : f \in frames}
                            \cup {[load |-> loads + 1, first |-> TRUE]}
          /\ leases' = IF how = "ok" /\ ~owner.promote
                       THEN leases \cup {Lease("ImageLoad", NoId)} ELSE leases
          /\ wanted' = IF how = "ok" THEN wanted ELSE NoImage
    /\ owner' = IF owner.promote /\ next # NoImage
                THEN [owner EXCEPT !.does = "promote"] ELSE Free
    /\ work' = "saved"
    /\ UNCHANGED <<accepting, action, recovery, next, checkpoint, closing, save, waiting,
                   posted, saves>>

PromoteQueuedSwitchTarget ==
    /\ owner.does = "promote"
    /\ Seal(NewAction("Switch", next, TRUE), posted, wanted)
    /\ owner' = Free /\ next' = NoImage
    /\ UNCHANGED <<image, guard, load, accepting, checkpoint, closing, leases, loads>>

----------------------------------------------------------------------------
\* Versions and edits.

Editable == state = "Interactive" /\ image # NoImage /\ leases = {}

\* CheckoutVersion, CreateRootVersion and BranchFromCommit.
Version ==
    /\ MaySave /\ Editable /\ action = None /\ recovery = None
    /\ IF guard
       THEN Seal(NewAction("Version", NoImage, TRUE), posted, wanted)
       ELSE /\ state' = "Failed" /\ wanted' = NoImage /\ NoStart
            /\ UNCHANGED <<action, recovery, render, posted>>
    /\ UNCHANGED <<image, guard, load, accepting, next, checkpoint, closing, leases, owner, loads>>

\* Continue*Version from state st: a new frame of the image, or the failure kept.
Checkout(a, st) ==
    \/ /\ state' = IF st = "Interactive" THEN st ELSE "Loading"
       /\ action' = None /\ recovery' = None /\ UNCHANGED wanted
       /\ frames' = frames \cup {[load |-> load, first |-> FALSE]}
    \/ /\ "version" \in Failures \/ ~guard
       /\ Retain(a) /\ UNCHANGED frames

Edit ==
    /\ Allowed /\ Editable /\ guard
    /\ work' = IF action = None THEN "edited" ELSE work
    /\ frames' = frames \cup {[load |-> load, first |-> FALSE]}
    /\ UNCHANGED <<session, pendings, owner, save, waiting, posted, loads, saves, wanted>>

----------------------------------------------------------------------------
\* Saves that keep the image: Persist and Paste.

\* StartHistoryCheckpoint with leases ls.
StartHistoryCheckpoint(mark, ls) ==
    \/ /\ \/ ~guard \/ action # None \/ save # NoSave
          \/ {"settle", "capture"} \cap Failures # {}
       /\ checkpoint' = "None" /\ leases' = {l \in ls : l.kind # "Paste"}
       /\ UNCHANGED <<state, save, saves>>
       /\ work' = IF mark = "Paste" /\ action = None THEN "edited" ELSE work
    \/ /\ guard /\ action = None /\ save = NoSave
       /\ StartSave("history", work = "edited" \/ mark = "Paste")
       /\ checkpoint' = mark /\ leases' = ls \cup {Lease("SaveCheckpoint", saves + 1)}

PersistCurrentImage ==
    /\ MaySave /\ state = "Interactive" /\ image # NoImage
    /\ action = None /\ save = NoSave
    /\ StartHistoryCheckpoint("Persist", leases)
    /\ UNCHANGED <<image, guard, load, accepting, action, recovery, next, closing, owner, render, posted,
                   loads, wanted>>

PasteAdjustments ==
    /\ MaySave /\ Editable /\ guard
    /\ StartHistoryCheckpoint("Paste", leases \cup {Lease("Paste", saves + 1)})
    /\ UNCHANGED <<image, guard, load, accepting, action, recovery, next, closing, owner, render, posted,
                   loads, wanted>>

----------------------------------------------------------------------------
\* Leaving the editor.

\* RequestClose.
RequestClose(persist) ==
    IF persist /\ image # NoImage /\ guard
    THEN Seal(NewAction("Close", NoImage, TRUE), posted, NoImage)
    ELSE /\ WithoutSave(NewAction("Close", NoImage, persist), posted)
         /\ wanted' = NoImage
         /\ NoStart /\ UNCHANGED state

\* While a Persist or Paste is being saved, a saving Close waits for it.
Close(persist) ==
    /\ IF persist THEN MaySave ELSE Allowed
    /\ IF persist /\ checkpoint # "None"
       THEN /\ closing' = TRUE /\ wanted' = NoImage /\ NoStart
            /\ UNCHANGED <<state, action, recovery, render, posted>>
       ELSE /\ action = None /\ recovery = None
            /\ RequestClose(persist) /\ UNCHANGED closing
    /\ UNCHANGED <<image, guard, load, accepting, next, checkpoint, leases, owner, loads>>

\* The Close that waited, in the handler of the save's completion.
CloseAfterPersist ==
    /\ owner.does = "close"
    /\ owner' = Free
    /\ IF action = None /\ recovery = None
       THEN RequestClose(TRUE)
       ELSE NoStart /\ UNCHANGED <<state, action, recovery, render, posted, wanted>>
    /\ UNCHANGED <<image, guard, load, accepting, next, checkpoint, closing, leases, loads>>

Shutdown ==
    /\ Allowed
    /\ accepting' = FALSE
    /\ state' = "ShuttingDown" /\ image' = NoImage /\ load' = NoLoad /\ wanted' = NoImage
    /\ action' = None
    /\ save' = NoSave
    /\ posted' = IF save = NoSave THEN posted ELSE Append(posted, Saved(save, FALSE))
    /\ UNCHANGED <<guard, recovery, next, checkpoint, closing, leases, owner, render, loads,
                   saves, work>>

----------------------------------------------------------------------------
\* After a failed save.

\* The selection that waits comes after the one that failed.
Latest(img) == IF next # NoImage THEN next ELSE img

Recovering == recovery # None /\ state = "RetainedImageFailure"
Resolved   == {l \in leases : l.kind # "FailureRecovery"}

\* The action starts again with what it already waited for.
RetrySave ==
    /\ MaySave /\ Recovering
    /\ leases' = Resolved
    /\ Seal([recovery EXCEPT !.ticket = NoId], posted, Latest(recovery.target))
    /\ UNCHANGED <<image, guard, load, accepting, next, checkpoint, closing, owner, loads>>

DiscardAndContinue ==
    /\ Allowed /\ Recovering
    /\ leases' = Resolved
    /\ IF recovery.kind = "Version"
       THEN Checkout(recovery, "Interactive") /\ UNCHANGED <<waiting, posted>>
       ELSE /\ WithoutSave([recovery EXCEPT !.persist = FALSE, !.idle = FALSE], posted)
            /\ wanted' = Latest(recovery.target) /\ UNCHANGED state
    /\ UNCHANGED <<image, guard, load, accepting, next, checkpoint, closing, owner, save, loads, saves, work>>

CancelPendingNavigation ==
    /\ Allowed /\ Recovering
    /\ leases' = Resolved
    /\ recovery' = None /\ next' = NoImage /\ state' = "Interactive"
    /\ UNCHANGED <<image, guard, load, accepting, action, checkpoint, closing, owner, save, render, posted,
                   loads, saves, work, wanted>>

----------------------------------------------------------------------------
\* Completions, one at a time in the order they were posted.

\* CompleteCheckpoint and ReleaseAfterCheckpoint.
StillSaving == state
Resumed     == IF state = "Saving" THEN "Interactive" ELSE state
ReleaseLate == UNCHANGED guard /\ work' = "saved"
Release     == guard' = FALSE /\ work' = "saved"

\* CompletePendingAction for a, which has nothing left to wait for.
Complete(a) ==
    \/ /\ a.persist /\ guard /\ "sync" \in Failures
       /\ Retain(a)
       /\ UNCHANGED <<image, guard, load, owner, frames, work>>
    \/ /\ a.kind = "Version"
       /\ Checkout(a, Resumed)
       /\ UNCHANGED <<image, guard, load, owner, work>>
    \/ /\ a.kind # "Version"
       /\ action' = None /\ Release
       /\ IF a.kind = "Close"
          THEN /\ state' = "NoImage" /\ image' = NoImage /\ load' = NoLoad
               /\ UNCHANGED owner
          ELSE /\ owner' = [does |-> "acquire", target |-> a.target, promote |-> TRUE]
               /\ UNCHANGED <<state, image, load>>
       /\ UNCHANGED <<recovery, frames, wanted>>

\* TryCompletePendingAction.
Proceed(a) ==
    IF a.idle /\ a.saved
    THEN Complete(a)
    ELSE action' = a /\ UNCHANGED <<state, image, guard, load, recovery, owner, frames, work, wanted>>

\* OnRenderSessionIdle.
RenderSessionIdle(m) ==
    /\ action # None /\ action.sealed = m.load
    /\ Proceed([action EXCEPT !.idle = TRUE])
    /\ UNCHANGED <<accepting, next, checkpoint, closing, leases>>

\* As OnCheckpointFinished, but the result is not looked at.
FinishedAnyhow(m) ==
    /\ action # None /\ action.ticket \in {NoId, m.id}
    /\ Proceed([action EXCEPT !.saved = TRUE])
    /\ UNCHANGED <<accepting, next, checkpoint, closing, leases>>

\* OnCheckpointFinished.
CheckpointFinished(m) ==
    /\ action # None /\ action.ticket \in {NoId, m.id}
    /\ IF m.ok
       THEN Proceed([action EXCEPT !.saved = TRUE]) /\ UNCHANGED next
       ELSE /\ next' = NoImage /\ Retain(action)
            /\ UNCHANGED <<image, guard, load, owner, frames, work>>
    /\ UNCHANGED <<accepting, checkpoint, closing, leases>>

\* HandleSaveCheckpointCompletion, for the saves of Persist and Paste.
SaveCheckpointCompletion(m) ==
    LET of(kind) == LeasesOf(kind) IN
    IF state = "ShuttingDown"
    THEN /\ checkpoint' = "None" /\ closing' = FALSE
         /\ leases' = {l \in leases \ (of("SaveCheckpoint") \cup of("Paste")) : l.save # m.id}
         /\ UNCHANGED <<state, frames, owner, wanted>>
    ELSE IF m.load # load
    THEN checkpoint' = "None" /\ UNCHANGED <<state, closing, leases, frames, owner, wanted>>
    ELSE IF ~m.ok
    THEN /\ checkpoint' = "None" /\ closing' = FALSE
         /\ leases' = (leases \ of("Paste")) \cup {Lease("FailureRecovery", m.id)}
         /\ state' = "RetainedImageFailure" /\ wanted' = NoImage
         /\ UNCHANGED <<frames, owner>>
    ELSE /\ state' = Resumed
         /\ checkpoint' = "None" /\ closing' = FALSE
         /\ \E synced \in Outcomes("sync") :
              LET shown == synced \/ ~guard
                  ended == {l \in leases : l.save = m.id} \cup
                           (IF shown /\ checkpoint = "None" THEN {} ELSE of("Paste")) IN
              /\ leases' = leases \ ended
              /\ frames' = IF shown /\ checkpoint = "Paste"
                           THEN frames \cup {[load |-> load, first |-> FALSE]} ELSE frames
              /\ owner' = IF shown /\ closing THEN [Free EXCEPT !.does = "close"] ELSE Free
         /\ UNCHANGED wanted

\* NotifyRenderResult for a first frame: the event is posted again, and a
\* frame of full quality starts.
FirstFrameResult(m) ==
    IF m.load = load /\ m.ok
    THEN /\ frames' = frames \cup {[load |-> load, first |-> FALSE]}
         /\ posted' = Append(Tail(posted), Frame(load, TRUE))
    ELSE /\ posted' = IF m.load = load /\ state = "Loading"
                      THEN Append(Tail(posted), Frame(load, FALSE)) ELSE Tail(posted)
         /\ UNCHANGED frames

\* HandleRenderEvent.  The event names no load.
RenderEvent(m) ==
    IF m.ok
    THEN /\ leases' = leases \ LeasesOf("ImageLoad")
         /\ state' = IF state = "Loading" THEN "Interactive" ELSE state
         /\ UNCHANGED wanted
    ELSE /\ state' = "Failed" /\ wanted' = NoImage /\ UNCHANGED leases

Deliver ==
    /\ owner = Free /\ posted # << >>
    /\ LET m == Head(posted) IN
       \/ /\ m.kind = "result" /\ FirstFrameResult(m)
          /\ UNCHANGED <<session, pendings, owner, work, wanted>>
       \/ /\ m.kind # "result" /\ posted' = Tail(posted)
          /\ \/ /\ m.kind = "frame" /\ RenderEvent(m)
                /\ UNCHANGED <<image, guard, load, accepting, action, recovery, next, checkpoint, closing,
                               owner, frames, work>>
             \/ m.kind = "idle" /\ RenderSessionIdle(m)
             \/ m.kind = "action" /\ CheckpointFinished(m)
             \/ /\ m.kind = "history" /\ SaveCheckpointCompletion(m)
                /\ UNCHANGED <<image, guard, load, accepting, action, recovery, next, work>>
             \/ /\ \/ m.kind = "idle" /\ (action = None \/ action.sealed # m.load)
                   \/ m.kind = "action" /\ (action = None \/ action.ticket \notin {NoId, m.id})
                /\ UNCHANGED <<session, pendings, owner, frames, work, wanted>>
    /\ UNCHANGED <<save, waiting, loads, saves>>

----------------------------------------------------------------------------
\* The threads beside the owner.

\* The callbacks that wait for the last frame f of its load.
NobodyTold(f) == 0
Told(f) == IF FramesOf(f.load) = {f} THEN waiting[f.load] ELSE 0

\* A render leaves the pipeline; with the last one of a load, the callbacks run.
RenderEnds ==
    \E f \in frames, ok \in Outcomes("frame") :
        /\ frames' = frames \ {f}
        /\ posted' = (IF f.first THEN Append(posted, Result(f.load, ok)) ELSE posted)
                     \o [i \in 1..Told(f) |-> RenderIdle(f.load)]
        /\ waiting' = [waiting EXCEPT ![f.load] = @ - Told(f)]
        /\ UNCHANGED <<session, pendings, owner, save, loads, saves, work, wanted>>

\* The completions of a save; the first one says nothing of a failure.
OnlySuccess(ok) == IF ok THEN Append(posted, Saved(save, ok)) ELSE posted
Reported(ok)    == Append(posted, Saved(save, ok))

SaveEnds ==
    \E ok \in Outcomes("save") :
        /\ save # NoSave
        /\ save' = NoSave /\ posted' = Reported(ok)
        /\ work' = IF work = "captured" THEN (IF ok THEN "saved" ELSE "edited") ELSE work
        /\ UNCHANGED <<session, pendings, owner, render, loads, saves, wanted>>

Command ==
    \/ \E img \in Images : Select(img) \/ SelectNext(img)
    \/ Version \/ Edit \/ PersistCurrentImage \/ PasteAdjustments
    \/ \E persist \in BOOLEAN : Close(persist)
    \/ Shutdown
    \/ RetrySave \/ DiscardAndContinue \/ CancelPendingNavigation
Handler == Acquire \/ PromoteQueuedSwitchTarget \/ CloseAfterPersist
Next == Command \/ Handler \/ Deliver \/ RenderEnds \/ SaveEnds

Spec     == Init /\ [][Next]_vars
FairSpec == Spec /\ WF_vars(Handler) /\ WF_vars(Deliver) /\ WF_vars(RenderEnds)
                 /\ WF_vars(SaveEnds)

----------------------------------------------------------------------------
(* Properties.                                                              *)

Completions == [kind : {"result", "frame", "idle", "action", "history"},
                load : {NoLoad} \cup LoadIds, ok : BOOLEAN, id : {NoId} \cup SaveIds]

\* Type invariant.
TypeOK ==
    /\ state \in States /\ image \in Images \cup {NoImage} /\ guard \in BOOLEAN
    /\ accepting \in BOOLEAN
    /\ load \in {NoLoad} \cup LoadIds
    /\ {action, recovery} \subseteq Actions /\ next \in Images \cup {NoImage}
    /\ checkpoint \in {"None", "Persist", "Paste"} /\ closing \in BOOLEAN
    /\ leases \subseteq [kind : {"ImageLoad", "SaveCheckpoint", "Paste", "FailureRecovery"},
                         save : {NoId} \cup SaveIds]
    /\ owner \in [does : {"nothing", "acquire", "promote", "close"},
                  target : Images \cup {NoImage}, promote : BOOLEAN]
    /\ save \in [id : {NoId} \cup SaveIds, load : {NoLoad} \cup LoadIds,
                 for : {"None", "action", "history"}]
    /\ frames \subseteq [load : LoadIds, first : BOOLEAN]
    /\ waiting \in [LoadIds -> 0..MaxWaiting]
    /\ posted \in Seq(Completions)
    /\ loads \in 0..MaxLoads /\ saves \in {NoId} \cup SaveIds
    /\ work \in {"saved", "edited", "captured"} /\ wanted \in Images \cup {NoImage}

\* Once nothing is under way and nothing failed, the image in the editor is the
\* one selected last: a selection queued behind a save is neither lost nor
\* overtaken by an earlier one (RequestOpenOrSwitch, PromoteQueuedSwitchTarget).
LastSelectionWins ==
    /\ action = None /\ recovery = None /\ owner = Free
    /\ state \in {"Loading", "Interactive"} /\ wanted # NoImage
    => image = wanted

\* An image left by an action that saves is left with every edit saved that was
\* made while no action was pending, whatever failed and was retried in between
\* (SealAndStartSave, OnCheckpointFinished).
LeavingKeepsTheEdits ==
    [][guard /\ ~guard' /\ action.persist => work = "saved"]_vars

\* While commands are taken, a history that is held belongs to an image in the
\* editor: whatever failed on the way, Close and Switch gave it back before the
\* identity went (ReleaseAfterCheckpoint, CompleteClose, BeginAcquire).
HeldHistoryIsShown == guard /\ accepting => image # NoImage

\* An action waits for its save only while that save runs or its completion is
\* in the queue: no action waits for a completion that is never delivered.
ActionIsAwaited ==
    action # None /\ ~action.saved
    => \/ save.id = action.ticket
       \/ \E m \in ToSet(posted) : m.kind = "action" /\ m.id = action.ticket

\* Every Switch, Close and Version action that started is completed, retained
\* for recovery or dropped by Shutdown.
ActionEnds == (action # None) ~> (action = None)

\* The session does not stay in Saving.
SavingEnds == (state = "Saving") ~> (state # "Saving")
=============================================================================
