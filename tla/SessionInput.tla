----------------------------- MODULE SessionInput -----------------------------
(***************************************************************************)
(* Slider input of the editor: app/editor_pending_input.cpp between the GUI *)
(* thread and the session's owner thread, the admission of one cycle at a   *)
(* time (app/editor_serial_frame_admission.cpp) and the handlers of         *)
(* app/editor_session_service.cpp that consume the input, above the render  *)
(* coordinator.                                                             *)
(*                                                                         *)
(* The GUI thread admits a write without waiting for the owner: it reads the *)
(* session, admits, and posts a wakeup, and the owner may act between.  The  *)
(* owner takes a batch while no cycle is open and no render runs; the cycle  *)
(* ends with the result of the render it routed.  A handler of the owner is  *)
(* one action that leaves in todo the calls it still makes; the pipeline's   *)
(* worker runs between them.                                                *)
(*                                                                         *)
(* One parameter of one node is written.  Loads are numbered in the order    *)
(* they are opened, each for an image of its own.  A NodeSwitch boundary     *)
(* commits like a Release.  Commands that only route a frame are OtherRender. *)
(***************************************************************************)
EXTENDS RenderRequests, FiniteSets, SequencesExt

CONSTANTS
    MaxInputs,      \* inputs the GUI thread admits in one behaviour
    NoLoad          \* no image

ASSUME InputAssumption ==
    /\ MaxInputs \in Nat /\ MaxRequests \in Nat /\ IsFiniteSet(Loads)
    /\ Loads = 1..Cardinality(Loads) /\ 1 \in Loads /\ NoLoad \notin Loads

VARIABLES
    session,    \* lifecycle_: its state and the load of the image it holds
    inputs,     \* history: the inputs admitted; a write's value is its place
    caller,     \* what the GUI thread still does for the input it offers
    sealed,     \* sealed_ of the queue
    open,       \* open_ of the queue
    wakeup,     \* consume_wakeup_posted_
    mail,       \* completions posted to the owner
    cycle,      \* holding_ownership_, cycle_is_interactive_, inflight_request_id_
    early,      \* the interactive cadence of 16 ms is not over
    deadline,   \* a delayed consume is armed
    todo,       \* calls the owner's handler still makes
    first,      \* first_frame_request_id_
    document,   \* working document and history of each image
    replaced,   \* history: requests that ended by being replaced
    quiet       \* history: the owner went on without asking for another consume

renders == <<asked, stage>>
queue   == <<inputs, sealed, open>>
owner   == <<session, cycle, early, todo, first, document, quiet>>
posting == <<wakeup, mail, deadline>>
all     == <<renders, queue, owner, posting, caller, replaced>>

----------------------------------------------------------------------------
Kinds == {"Write", "Settled", "Release", "Cancel"}
Seals == {"None", "Release", "Cancel"}
SealOf == [Write |-> "None", Settled |-> "Release", Release |-> "Release", Cancel |-> "Cancel"]
Writes == {"Write", "Settled"}

\* A sequence of writes: value is the newest one, None when there is none.
Batch(l, value, seal) == [load |-> l, value |-> value, seal |-> seal]
NoBatch   == Batch(NoLoad, None, "None")
NoCaller  == [at |-> "idle", load |-> NoLoad, kind |-> "None"]
FreeCycle == [holds |-> FALSE, interactive |-> FALSE, request |-> None]
Message(kind, id) == [kind |-> kind, id |-> id]
Call(op, id)      == [op |-> op, id |-> id]

\* before is the committed value a preview covers, or -1 without a preview.
Unopened  == [live |-> 0, before |-> -1, commits |-> << >>]

Interactive == session.state = "Interactive"
OfLoad(l)   == {id \in 1..Len(asked) : asked[id] = l}

InputInit ==
    /\ RequestsInit
    /\ session = [state |-> "Interactive", load |-> 1]
    /\ inputs = << >> /\ caller = NoCaller
    /\ sealed = << >> /\ open = NoBatch
    /\ wakeup = FALSE /\ mail = << >> /\ cycle = FreeCycle
    /\ early = FALSE /\ deadline = FALSE /\ todo = << >> /\ first = None
    /\ document = [l \in Loads |-> Unopened] /\ replaced = {} /\ quiet = FALSE

----------------------------------------------------------------------------
\* The GUI thread: EnqueueAdjustmentInput and EnqueuePendingInputBoundary.

Offer(kind) ==
    /\ caller = NoCaller /\ Interactive /\ Len(inputs) < MaxInputs
    /\ caller' = [at |-> "read", load |-> session.load, kind |-> kind]
    /\ UNCHANGED <<renders, queue, owner, posting, replaced>>

\* The open sequence, or a new one, with an input of load l added; n is its place.
Extended(l, kind, n) ==
    [load  |-> l,
     value |-> IF kind \in Writes THEN n ELSE IF kind = "Release" THEN open.value ELSE None,
     seal  |-> SealOf[kind]]

AdmitInput(l, kind) ==
    LET b == Extended(l, kind, Len(inputs) + 1)
    IN  /\ inputs' = Append(inputs, [load |-> l, kind |-> kind])
        /\ IF b.seal = "None" THEN open' = b /\ UNCHANGED sealed
                              ELSE open' = NoBatch /\ sealed' = Append(sealed, b)

\* A sequence left open by another image refuses the input.
Refuse ==
    /\ caller.at = "read" /\ open.load \notin {NoLoad, caller.load}
    /\ caller' = NoCaller
    /\ UNCHANGED <<renders, queue, owner, posting, replaced>>

Admit ==
    /\ caller.at = "read" /\ open.load \in {NoLoad, caller.load}
    /\ AdmitInput(caller.load, caller.kind)
    /\ caller' = [caller EXCEPT !.at = "admitted"]
    /\ UNCHANGED <<renders, owner, posting, replaced>>

\* RequestPendingInputConsume behind the messages m, with the flag at w.
Wake(m, w) == wakeup' = TRUE /\ mail' = IF w THEN m ELSE Append(m, Message("wake", None))

RequestConsume ==
    /\ caller.at = "admitted"
    /\ Wake(mail, wakeup)
    /\ caller' = NoCaller
    /\ UNCHANGED <<renders, queue, owner, deadline, replaced>>

----------------------------------------------------------------------------
\* The working document of one image, a sequence of input at a time.

\* RestoreUnsettledPreview.
Restored(d) == IF d.before = -1 THEN d ELSE [d EXCEPT !.live = d.before, !.before = -1]

\* HandlePendingSequence, when the history takes it.  A sequence without a
\* write changes nothing, whatever it is sealed with.
Handled(d, b) ==
    CASE b.seal = "Cancel" -> Restored(d)
      [] b.seal # "Cancel" /\ b.value = None -> d
      [] b.seal = "Release" /\ b.value # None ->
            [live |-> b.value, before |-> -1, commits |-> Append(d.commits, b.value)]
      [] b.seal = "None" /\ b.value # None ->
            [d EXCEPT !.live = b.value, !.before = IF @ = -1 THEN d.live ELSE @]

NeedsFrame(d, b) == IF b.seal = "Cancel" THEN d.before # -1 ELSE b.value # None

\* TakeReadyBatch: the oldest sealed sequence, else the writes of the open one.
HasWork   == sealed # << >> \/ open.value # None
NextBatch == IF sealed # << >> THEN Head(sealed) ELSE open
Take      == /\ IF sealed # << >>
                THEN sealed' = Tail(sealed) /\ UNCHANGED open
                ELSE open' = [open EXCEPT !.value = None] /\ UNCHANGED sealed
             /\ UNCHANGED inputs

\* Mutant of HandleBatch: input queued for another image is applied to this one.
HandleAnyBatch(b, m, w) ==
    /\ document' = [document EXCEPT ![session.load] = Handled(@, b)]
    /\ mail' = m /\ wakeup' = w
    /\ cycle' = [FreeCycle EXCEPT !.holds = TRUE]
    /\ todo' = << Call("cycle", None) >> /\ quiet' = FALSE

\* ConsumeTakenSequence of b, and the end of the cycle when it fails.  m and w
\* are the messages and the flag the owner has left.
HandleBatch(b, m, w) ==
    LET d == document[session.load]
    IN  \/ /\ b.load # session.load          \* input of another image is dropped
           /\ cycle' = FreeCycle /\ Wake(m, w)
           /\ quiet' = FALSE /\ todo' = << >> /\ UNCHANGED document
        \/ /\ b.load = session.load
           /\ document' = [document EXCEPT ![session.load] = Handled(d, b)]
           /\ mail' = m /\ wakeup' = w
           /\ quiet' = ~NeedsFrame(d, b)
           /\ IF NeedsFrame(d, b)
              THEN /\ cycle' = [holds |-> TRUE, interactive |-> b.seal = "None",
                                request |-> None]
                   /\ todo' = << Call("cycle", None) >>
              ELSE cycle' = FreeCycle /\ todo' = << >>
        \/ /\ b.load = session.load /\ b.value # None     \* the history refuses it
           /\ document' = [document EXCEPT ![session.load] = Restored(d)]
           /\ cycle' = FreeCycle /\ Wake(m, w)
           /\ quiet' = FALSE /\ todo' = << >>

\* TryConsumePendingInput with the admission at c and the cadence at e, as the
\* last step of a handler.  An interactive batch waits for the cadence.
Consume(c, e, m, w) ==
    LET idle     == Interactive /\ ~c.holds
        mayBegin == idle /\ Held(stage) = {} /\ HasWork
        wait     == e /\ NextBatch.seal = "None"
    IN  /\ early' = e
        /\ IF mayBegin /\ ~wait
           THEN Take /\ HandleBatch(NextBatch, m, w) /\ UNCHANGED deadline
           ELSE /\ cycle' = c /\ mail' = m /\ wakeup' = w
                /\ deadline' = (deadline \/ (idle /\ e /\ (Held(stage) # {} \/ mayBegin)))
                /\ todo' = << >>
                /\ UNCHANGED <<queue, document, quiet>>

----------------------------------------------------------------------------
\* What the coordinator reports to the owner when it gives requests up: one
\* that is replaced only leaves its mark, the end of any other is posted.
Unended == Open \cup {"new"}
Posted(victim) ==
    LET ended == {id \in At(stage, Unended) : stage'[id] \notin Unended} \ {victim}
        ids   == SetToSeq(ended)
    IN  /\ mail' = mail \o [k \in DOMAIN ids |-> Message("noframe", ids[k])]
        /\ replaced' = replaced \cup ({victim} \ {None})
        /\ UNCHANGED <<wakeup, deadline>>

\* The worker's job returns; one that was told to stop has reported before.
JobReturns(id) ==
    /\ Return(id)
    /\ IF stage[id] = "running"
       THEN \E kind \in {"frame", "noframe"} : mail' = Append(mail, Message(kind, id))
       ELSE UNCHANGED mail
    /\ UNCHANGED <<queue, owner, wakeup, deadline, caller, replaced>>

\* The worker starts the next request.
JobStarts ==
    /\ Held(stage) = {} /\ At(stage, {"waiting"}) # {}
    /\ Offered(stage) /\ UNCHANGED asked /\ Posted(None)
    /\ UNCHANGED <<queue, owner, caller>>

\* The cadence runs out, and what it delayed is posted.
Tick == early /\ early' = FALSE
        /\ UNCHANGED <<renders, queue, session, cycle, todo, first, document, quiet, posting,
                       caller, replaced>>
Fire == /\ deadline /\ ~early
        /\ deadline' = FALSE /\ mail' = Append(mail, Message("deadline", None))
        /\ UNCHANGED <<renders, queue, owner, wakeup, caller, replaced>>

----------------------------------------------------------------------------
\* The owner thread between two of its handlers' calls.
Waiting == todo = << >>

\* Mutant of Finished: the cycle ends and nobody looks at the queue.
FinishedIdly(id, kind, m) ==
    /\ cycle' = IF cycle.request = id THEN FreeCycle ELSE cycle
    /\ mail' = m /\ todo' = << >>
    /\ UNCHANGED <<queue, early, document, quiet, wakeup, deadline>>

\* FinishSerialFrameIfNeeded: the cycle whose request ended is over, by its
\* frame or by none, and the next batch may start.
Finished(id, kind, m) ==
    IF cycle.holds /\ cycle.request = id
    THEN \E e \in IF cycle.interactive /\ kind = "frame" THEN BOOLEAN ELSE {FALSE} :
            Consume(FreeCycle, e, m, wakeup)
    ELSE Consume(cycle, early, m, wakeup)

\* The next message: a wakeup, the cadence's end, the end of a request or the
\* first frame, which makes the image interactive and asks for the full frame.
TakeMail ==
    /\ Waiting /\ mail # << >>
    /\ LET msg == Head(mail)
           m   == Tail(mail)
       IN  \/ /\ msg.kind = "wake"
              /\ Consume(cycle, early, m, FALSE)
              /\ UNCHANGED session
           \/ /\ msg.kind = "deadline"
              /\ Consume(cycle, early, m, wakeup)
              /\ UNCHANGED session
           \/ /\ msg.kind = "entered"
              /\ session' = IF session.state = "Loading"
                            THEN [session EXCEPT !.state = "Interactive"] ELSE session
              /\ mail' = m
              /\ UNCHANGED <<queue, cycle, early, todo, document, quiet, wakeup, deadline>>
           \/ /\ msg.kind = "frame" /\ msg.id = first /\ session.state = "Loading"
              /\ mail' = Append(m, Message("entered", None))
              /\ todo' = << Call("submit", None), Call("finish", msg.id) >>
              /\ UNCHANGED <<queue, session, cycle, early, document, quiet, wakeup, deadline>>
           \/ /\ msg.kind \in {"frame", "noframe"}
              /\ ~(msg.kind = "frame" /\ msg.id = first /\ session.state = "Loading")
              /\ Finished(msg.id, msg.kind, m)
              /\ UNCHANGED session
    /\ UNCHANGED <<renders, first, caller, replaced>>

\* RouteInitialRender for who; it returns no request when the bound is reached,
\* which stands for a presentation target that is not ready.
Route(who) ==
    LET id == Len(asked) + 1
    IN  IF Len(asked) < MaxRequests
        THEN /\ \E victim \in {None} \cup Requests : Ask(session.load, victim) /\ Posted(victim)
             /\ cycle' = IF who = "cycle" THEN [cycle EXCEPT !.request = id] ELSE cycle
             /\ first' = IF who = "first" THEN id ELSE first
             /\ UNCHANGED quiet
        ELSE /\ cycle' = IF who = "cycle" THEN FreeCycle ELSE cycle
             /\ quiet' = (quiet \/ who = "cycle")
             /\ UNCHANGED <<renders, posting, replaced, first>>

\* The next call of the owner's handler.
CallOn ==
    /\ ~Waiting
    /\ LET call == Head(todo)
       IN  \/ /\ call.op \in {"submit", "cycle", "first"}
              /\ Route(call.op)
              /\ todo' = Tail(todo)
              /\ UNCHANGED <<queue, session, early, document>>
           \/ /\ call.op = "cancel"
              /\ GiveUp(OfLoad(session.load)) /\ Posted(None)
              /\ todo' = Tail(todo)
              /\ UNCHANGED <<queue, session, cycle, early, first, document, quiet>>
           \/ /\ call.op = "activate"
              /\ GiveUp(1..Len(asked) \ OfLoad(session.load)) /\ Posted(None)
              /\ todo' = Tail(todo)
              /\ UNCHANGED <<queue, session, cycle, early, first, document, quiet>>
           \/ /\ call.op = "capture"    \* a preview that is not settled refuses it
              /\ \E state \in {"Leaving", "Retained"} :
                    /\ state = "Leaving" => document[session.load].before = -1
                    /\ session' = [session EXCEPT !.state = state]
              /\ todo' = Tail(todo)
              /\ UNCHANGED <<renders, queue, cycle, early, first, document, quiet, posting,
                             replaced>>
           \/ /\ call.op = "finish"
              /\ Finished(call.id, "frame", mail)
              /\ UNCHANGED <<renders, session, first, replaced>>
    /\ UNCHANGED caller

\* SettlePendingParameterInputForBoundary applies the batches bs, those of other
\* images are discarded.
SettledBy(d, bs) ==
    LET settled[n \in 0..Len(bs)] ==
          IF n = 0 THEN d
          ELSE IF bs[n].load = session.load THEN Handled(settled[n - 1], bs[n])
          ELSE settled[n - 1]
    IN  settled[Len(bs)]

\* SealAndStartSave of a selection, a close or a retry: the queue is emptied into
\* the history before the renders are cancelled and the history is captured.
\* A sequence of this image is sealed first.  The history may refuse a batch,
\* and the rest of the queue stays.
Leave ==
    LET own  == open.load = session.load
        rest == IF own THEN <<Extended(session.load, "Release", None)>>
                ELSE IF open.value # None THEN <<open>> ELSE << >>
        batches == sealed \o rest
        d    == document[session.load]
        bad  == {k \in DOMAIN batches : batches[k].load = session.load /\ batches[k].value # None}
    IN  /\ Waiting /\ session.state \in {"Interactive", "Retained"}
        /\ inputs' = IF own THEN Append(inputs, [load |-> session.load, kind |-> "Release"])
                            ELSE inputs
        /\ \/ /\ document' = [document EXCEPT ![session.load] = SettledBy(d, batches)]
              /\ sealed' = << >>
              /\ open' = IF own THEN NoBatch ELSE [open EXCEPT !.value = None]
              /\ todo' = << Call("cancel", None), Call("capture", None) >>
              /\ UNCHANGED session
           \/ \E k \in bad :
              /\ document' = [document EXCEPT ![session.load] =
                                 Restored(SettledBy(d, SubSeq(batches, 1, k - 1)))]
              /\ sealed' = SubSeq(batches, k + 1, IF own THEN Len(batches) ELSE Len(sealed))
              /\ open' = IF own THEN NoBatch ELSE open
              /\ session' = [session EXCEPT !.state = "Retained"]
              /\ UNCHANGED todo
        /\ UNCHANGED <<renders, cycle, early, first, quiet, posting, caller, replaced>>

\* The save and the last render of the image are over, or the save failed.
LeavingEnds ==
    /\ Waiting /\ session.state = "Leaving"
    /\ \/ /\ (Held(stage) \cup At(stage, Open)) \cap OfLoad(session.load) = {}
          /\ IF session.load + 1 \in Loads
             THEN /\ session' = [state |-> "Loading", load |-> session.load + 1]
                  /\ todo' = << Call("activate", None), Call("first", None) >>
             ELSE session' = [session EXCEPT !.state = "NoImage"] /\ UNCHANGED todo
       \/ session' = [session EXCEPT !.state = "Retained"] /\ UNCHANGED todo
    /\ UNCHANGED <<renders, queue, cycle, early, first, document, quiet, posting, caller, replaced>>

\* DiscardAndContinue leaves without a save, and what is queued stays queued.
Discard ==
    /\ Waiting /\ session.state = "Retained"
    /\ session' = [session EXCEPT !.state = "Leaving"]
    /\ todo' = << Call("cancel", None) >>
    /\ UNCHANGED <<renders, queue, cycle, early, first, document, quiet, posting, caller, replaced>>

\* CancelPendingNavigation wakes nobody.
Stay ==
    /\ Waiting /\ session.state = "Retained"
    /\ session' = [session EXCEPT !.state = "Interactive"]
    /\ quiet' = TRUE
    /\ UNCHANGED <<renders, queue, cycle, early, todo, first, document, posting, caller, replaced>>

\* A command that routes a frame of its own.
OtherRender ==
    /\ Waiting /\ Interactive /\ Len(asked) < MaxRequests
    /\ todo' = << Call("submit", None) >>
    /\ UNCHANGED <<renders, queue, session, cycle, early, first, document, quiet, posting, caller,
                   replaced>>

InputNext ==
    \/ \E kind \in Kinds : Offer(kind)
    \/ Refuse \/ Admit \/ RequestConsume
    \/ (\E id \in Requests : JobReturns(id)) \/ JobStarts \/ Tick \/ Fire
    \/ TakeMail \/ CallOn
    \/ Leave \/ LeavingEnds \/ Discard \/ Stay
    \/ OtherRender

InputSpec == InputInit /\ [][InputNext]_all
----------------------------------------------------------------------------
Batches   == [load : Loads \cup {NoLoad}, value : Nat, seal : Seals]
Documents == [live : Nat, before : Nat \cup {-1}, commits : Seq(Nat)]

\* Every variable of the input's path holds a value of its kind.
InputTypeOK ==
    /\ session \in [state : {"Interactive", "Leaving", "Retained", "Loading", "NoImage"},
                    load : Loads]
    /\ inputs \in Seq([load : Loads, kind : Kinds])
    /\ caller \in [at : {"idle", "read", "admitted"}, load : Loads \cup {NoLoad},
                   kind : Kinds \cup {"None"}]
    /\ sealed \in Seq(Batches) /\ open \in Batches
    /\ {wakeup, early, deadline, quiet} \subseteq BOOLEAN
    /\ cycle \in [holds : BOOLEAN, interactive : BOOLEAN, request : {None} \cup Requests]
    /\ mail \in Seq([kind : {"wake", "deadline", "entered", "frame", "noframe"},
                     id : {None} \cup Requests])
    /\ first \in {None} \cup Requests /\ replaced \subseteq Requests
    /\ document \in [Loads -> Documents]

\* Input j is the boundary that ends the sequence input i belongs to.
EndedBy(i, j) ==
    /\ j \in i..Len(inputs) /\ inputs[j].load = inputs[i].load /\ inputs[j].kind # "Write"
    /\ \A k \in i..(j - 1) : inputs[k].load = inputs[i].load => inputs[k].kind = "Write"

\* What the history of an image holds was written to this image, in this order,
\* and was the newest write of a sequence that was released and not cancelled,
\* although input outlives the image it was admitted for
\* (editor_session_service.cpp:2021-2024, 1996-2000).
CommitsAreReleasedEdits ==
    \A l \in Loads : \A n \in DOMAIN document[l].commits :
        LET i == document[l].commits[n]
        IN  /\ i \in DOMAIN inputs /\ inputs[i].load = l /\ inputs[i].kind \in Writes
            /\ n > 1 => document[l].commits[n - 1] < i
            /\ \E j \in DOMAIN inputs :
                  /\ EndedBy(i, j) /\ inputs[j].kind # "Cancel"
                  /\ \A k \in (i + 1)..j : inputs[k].load = l => inputs[k].kind \notin Writes

\* Input of the image the editor shows that the owner could take.
OwnWork == \/ \E n \in DOMAIN sealed : sealed[n].load = session.load
           \/ open.load = session.load /\ open.value # None

\* Input never waits for nobody: a cycle is held for a request that will still
\* report its end, and without a cycle a message, the GUI thread, the cadence or
\* a render makes the owner look at the queue again.  Excepted are a cycle whose
\* request was replaced, and the handlers that go on without a wakeup
\* (editor_session_service.cpp:1833-1842, 1890-1945, 2106-2122).
InputIsAwaited ==
    Waiting =>
        /\ cycle.holds => \/ stage[cycle.request] \in Open \/ cycle.request \in replaced
                          \/ \E n \in DOMAIN mail : /\ mail[n].id = cycle.request
                                                   /\ mail[n].kind \in {"frame", "noframe"}
        /\ Interactive /\ OwnWork /\ ~cycle.holds =>
               \/ \E n \in DOMAIN mail : mail[n].kind # "entered"
               \/ caller.at = "admitted" \/ deadline \/ quiet
               \/ At(stage, Open) # {}

\* Every persisting seal settles open input first, so that no preview is
\* unsettled when the history is captured (editor_history_checkpoint.cpp:37-38,
\* editor_session_service.cpp:1986).
SealSettlesPreview ==
    ~Waiting /\ Head(todo).op = "capture" => document[session.load].before = -1
=============================================================================
