---------------------------- MODULE RenderRequests ----------------------------
(***************************************************************************)
(* What the render coordinator promises a session: every request it accepts *)
(* waits, runs alone and ends, and a job that was told to stop is in the way *)
(* of the next one until it returns.  RenderCoordinator implements it,       *)
(* SessionInput relies on it.                                               *)
(***************************************************************************)
EXTENDS Integers, Sequences

CONSTANTS
    MaxRequests,    \* requests one behaviour accepts
    Loads           \* image loads requests are made for

VARIABLES
    asked,  \* the load of each accepted request, in order of their ids
    stage   \* how far each request got

Requests == 1..MaxRequests
None     == 0

\* A job that stops has reported its end and still holds the pipeline.
Open     == {"waiting", "running"}
Stages   == {"new", "stopping", "over"} \cup Open

At(st, stages) == {id \in Requests : st[id] \in stages}
Held(st)       == At(st, {"running", "stopping"})
Become(st, ids, s) == [id \in Requests |-> IF id \in ids THEN s ELSE st[id]]

\* The work of ids is given up: what waits ends, what runs is told to stop.
GivenUp(st, ids) ==
    Become(Become(st, ids \cap At(st, {"waiting"}), "over"),
           ids \cap At(st, {"running"}), "stopping")

RequestsInit == asked = << >> /\ stage = [id \in Requests |-> "new"]

\* What waits is offered to the free pipeline until one is taken; those before
\* it end, and all of them when none is taken.
Offered(st) ==
    LET waiting == At(st, {"waiting"})
    IN  IF Held(st) # {} THEN stage' = st
        ELSE \/ stage' = GivenUp(st, waiting)
             \/ \E next \in waiting : \E gone \in SUBSET (waiting \ {next}) :
                   stage' = Become(GivenUp(st, gone), {next}, "running")

\* The request of load l may replace one that waits, victim.
Ask(l, victim) ==
    LET id == Len(asked) + 1
    IN  /\ id \in Requests /\ asked' = Append(asked, l)
        /\ victim \in {None} \cup At(stage, {"waiting"})
        /\ Offered([GivenUp(stage, {victim}) EXCEPT ![id] = "waiting"])

\* Some requests are given up, and the next one may start or has to wait for
\* an occasion.
GiveUp(ids) ==
    /\ UNCHANGED asked
    /\ stage' = GivenUp(stage, ids) \/ Offered(GivenUp(stage, ids))

\* The job returns, and the next request is started in a step of its own.
Return(id) ==
    /\ UNCHANGED asked
    /\ id \in Held(stage)
    /\ stage' = [stage EXCEPT ![id] = "over"]

RequestsNext ==
    \/ \E l \in Loads : \E victim \in {None} \cup Requests : Ask(l, victim)
    \/ \E id \in Requests : Return(id)
    \/ \E ids \in SUBSET At(stage, Open) : GiveUp(ids)

RequestsSpec == RequestsInit /\ [][RequestsNext]_<<asked, stage>>
=============================================================================
