-------------------------- MODULE SessionInputProofs --------------------------
(***************************************************************************)
(* Theorems about SessionInput, for every number of images, inputs and       *)
(* renders: who waits for input, and what becomes of it.                     *)
(***************************************************************************)
EXTENDS SessionInput, SequenceTheorems, FiniteSetTheorems, WellFoundedInduction, TLAPS

Messages == [kind : {"wake", "deadline", "entered"}, id : {None}]
                \cup [kind : {"frame", "noframe"}, id : Requests]

\* The variables of the input's path hold values of their kinds.
KindsFit ==
    /\ session \in [state : {"Interactive", "Leaving", "Retained", "Loading", "NoImage"},
                    load : Loads]
    /\ inputs \in Seq([load : Loads \cup {NoLoad}, kind : Kinds])
    /\ caller \in [at : {"idle", "read", "admitted"}, load : Loads \cup {NoLoad},
                   kind : Kinds \cup {"None"}]
    /\ caller.at = "read" => caller.kind \in Kinds
    /\ sealed \in Seq(Batches) /\ open \in Batches
    /\ wakeup \in BOOLEAN /\ early \in BOOLEAN /\ deadline \in BOOLEAN /\ quiet \in BOOLEAN
    /\ cycle \in [holds : BOOLEAN, interactive : BOOLEAN, request : {None} \cup Requests]
    /\ mail \in Seq(Messages) /\ first \in {None} \cup Requests

\* A request that was accepted is not new, and only those of the load the
\* session is at are not over.
StagesFit ==
    /\ asked \in Seq(Loads) /\ Len(asked) <= MaxRequests
    /\ stage \in [Requests -> Stages]
    /\ \A id \in Requests : stage[id] = "new" <=> id > Len(asked)
    /\ \A id \in 1..Len(asked) : stage[id] # "over" => asked[id] = session.load

\* The loads the session has shown so far: input is of one of these.
Shown  == {l \in Loads : l < session.load \/ (l = session.load /\ session.state # "Loading")}
LoadsFit ==
    /\ caller.load \in Shown \cup {NoLoad} /\ open.load \in Shown \cup {NoLoad}
    /\ \A n \in 1..Len(sealed) : sealed[n].load \in Shown \cup {NoLoad}

\* The handler at work is to route a frame for the cycle, or to finish the cycle
\* of a request.
Routing       == cycle.request = None /\ todo = << Call("cycle", None) >>
Finishing(id) == \/ todo = << Call("submit", None), Call("finish", id) >>
                 \/ todo = << Call("finish", id) >>

\* What the owner's handlers leave to do.
TodoFits ==
    \/ todo = << >>
    \/ todo = << Call("submit", None) >> \/ todo = << Call("cycle", None) >>
    \/ todo = << Call("cancel", None), Call("capture", None) >>
    \/ todo = << Call("capture", None) >>
    \/ todo = << Call("cancel", None) >> /\ session.state = "Leaving"
    \/ todo = << Call("activate", None), Call("first", None) >> /\ session.state = "Loading"
    \/ todo = << Call("first", None) >> /\ session.state = "Loading"
    \/ /\ session.state = "Loading"
       /\ \E id \in Requests : Finishing(id)

\* What is among some messages: the end of a request, a wakeup, and anything
\* that makes the owner look at the queue.
Ends(m, id) == \E n \in 1..Len(m) : m[n].id = id /\ m[n].kind \in {"frame", "noframe"}
Wakes(m)    == \E n \in 1..Len(m) : m[n].kind = "wake"
Rouses(m)   == \E n \in 1..Len(m) : m[n].kind # "entered"

\* A cycle waits for its request, is about to route it or to be finished.
CycleFits ==
    cycle.holds =>
        \/ Routing
        \/ /\ cycle.request \in Requests
           /\ \/ stage[cycle.request] \in Open \/ cycle.request \in replaced
              \/ Ends(mail, cycle.request) \/ Finishing(cycle.request)

WakeupFits == wakeup => Wakes(mail)

\* A job is told to stop when the image is left.
StoppingFits ==
    At(stage, {"stopping"}) # {} =>
        quiet \/ session.state \in {"Leaving", "Retained"} \/ todo = << Call("capture", None) >>

\* The second half of InputIsAwaited, also while a handler is at work.
WorkIsAwaited ==
    Interactive /\ OwnWork /\ ~cycle.holds =>
        \/ Rouses(mail)
        \/ caller.at = "admitted" \/ deadline \/ quiet
        \/ At(stage, Open) # {}

InputInv ==
    /\ KindsFit /\ StagesFit /\ LoadsFit /\ TodoFits /\ CycleFits /\ WakeupFits /\ StoppingFits
    /\ WorkIsAwaited

----------------------------------------------------------------------------
\* Induction stated with a set: the provers cannot instantiate the library's,
\* which takes an operator.

Less == {pair \in Nat \X Nat : pair[1] < pair[2]}

\* The order of the naturals, as a relation, is well-founded.
LEMMA LessIsWellFounded == IsWellFoundedOn(Less, Nat)
<1>1. OpToRel(<, Nat) = Less
  BY Zenon DEF OpToRel, Less
<1> QED
  BY <1>1, NatLessThanWellFounded, Zenon

\* A set that holds 0 and, with each natural, its successor, holds them all.
LEMMA SetInduction ==
    ASSUME NEW S, 0 \in S, \A n \in Nat : n \in S => n + 1 \in S
    PROVE  Nat \subseteq S
<1> SUFFICES ASSUME Nat \ S # {} PROVE FALSE
  OBVIOUS
<1>1. PICK x \in Nat \ S : \A y \in Nat \ S : ~ (<<y, x>> \in Less)
  BY WFMin, LessIsWellFounded, Zenon
<1>2. x \in Nat /\ x # 0
  OBVIOUS
<1>3. x - 1 \in Nat /\ <<x - 1, x>> \in Less
  BY <1>2 DEF Less
<1>4. x - 1 \in S
  BY <1>1, <1>3
<1> QED
  BY <1>2, <1>3, <1>4

----------------------------------------------------------------------------
\* Loads and messages.

LEMMA LoadsAreNumbers == Loads \subseteq Nat
<1>1. Cardinality(Loads) \in Nat
  BY InputAssumption, FS_CardinalityType
<1> QED
  BY <1>1, InputAssumption

\* The messages k are m and more.
Continues(k, m) ==
    k \in Seq(Messages) /\ \A n \in 1..Len(m) : n \in 1..Len(k) /\ k[n] = m[n]

LEMMA MoreMessages ==
    ASSUME NEW m, NEW k, Continues(k, m)
    PROVE  /\ \A id : Ends(m, id) => Ends(k, id)
           /\ Wakes(m) => Wakes(k)
           /\ Rouses(m) => Rouses(k)
BY DEF Continues, Ends, Wakes, Rouses

LEMMA AppendMessage ==
    ASSUME NEW m \in Seq(Messages), NEW x \in Messages
    PROVE  /\ Append(m, x) \in Seq(Messages) /\ Continues(Append(m, x), m)
           /\ x.kind # "entered" => Rouses(Append(m, x))
           /\ x.kind = "wake" => Wakes(Append(m, x))
           /\ x.kind \in {"frame", "noframe"} => Ends(Append(m, x), x.id)
<1> DEFINE k == Append(m, x)
<1>1. /\ k \in Seq(Messages) /\ Len(k) = Len(m) + 1 /\ Len(m) \in Nat
      /\ k[Len(m) + 1] = x /\ \A n \in 1..Len(m) : k[n] = m[n]
  BY AppendProperties
<1>2. Len(m) + 1 \in 1..Len(k) /\ \A n \in 1..Len(m) : n \in 1..Len(k)
  BY <1>1
<1> HIDE DEF k
<1> QED
  BY <1>1, <1>2 DEF k, Continues, Rouses, Wakes, Ends

LEMMA TakeMessage ==
    ASSUME NEW m \in Seq(Messages), m # << >>
    PROVE  /\ Head(m) \in Messages /\ Tail(m) \in Seq(Messages)
           /\ \A id : Ends(m, id) => \/ Ends(Tail(m), id)
                                     \/ Head(m).id = id /\ Head(m).kind \in {"frame", "noframe"}
           /\ Wakes(m) => Wakes(Tail(m)) \/ Head(m).kind = "wake"
           /\ Rouses(m) => Rouses(Tail(m)) \/ Head(m).kind # "entered"
<1> DEFINE k == Tail(m)
<1>1. /\ k \in Seq(Messages) /\ Len(m) \in Nat \ {0} /\ Len(k) = Len(m) - 1
      /\ \A n \in 1..Len(k) : k[n] = m[n + 1]
      /\ Head(m) \in Messages /\ Head(m) = m[1]
  BY EmptySeq, HeadTailProperties
<1>2. ASSUME NEW n \in 1..Len(m), n # 1 PROVE n - 1 \in 1..Len(k) /\ k[n - 1] = m[n]
  <2>1. n - 1 \in 1..Len(k) /\ (n - 1) + 1 = n
    BY <1>1, <1>2
  <2> QED
    BY <1>1, <2>1
<1> HIDE DEF k
<1> QED
  BY <1>1, <1>2 DEF k, Ends, Wakes, Rouses

\* SetToSeq lists every request of a set.
LEMMA RequestsInOrder ==
    ASSUME NEW ids \in SUBSET Requests
    PROVE  /\ Cardinality(ids) \in Nat
           /\ SetToSeq(ids) \in [1..Cardinality(ids) -> ids]
           /\ \A id \in ids : \E n \in 1..Cardinality(ids) : SetToSeq(ids)[n] = id
<1> DEFINE c == Cardinality(ids)
           q == SetToSeq(ids)
<1>0. IsFiniteSet(Requests)
  <2>1. 1 \in Int /\ MaxRequests \in Int
    BY InputAssumption
  <2> QED
    BY <2>1, FS_Interval DEF Requests
<1>1. IsFiniteSet(ids)
  BY <1>0, FS_Subset
<1>2. c \in Nat /\ ExistsBijection(1..c, ids)
  BY <1>1, FS_CardinalityType
<1>3. PICK f \in [1..c -> ids] : IsInjective(f)
  BY <1>2 DEF ExistsBijection, Bijection, Injection, IsInjective
<1>4. q \in [1..c -> ids] /\ IsInjective(q)
  BY <1>3 DEF SetToSeq
<1>5. q \in Injection(1..c, ids)
  BY <1>4 DEF Injection, IsInjective
<1>6. IsFiniteSet(1..c) /\ Cardinality(1..c) = c
  <2>1. 1 \in Int /\ c \in Int /\ (IF 1 > c THEN 0 ELSE c - 1 + 1) = c
    BY <1>2
  <2>2. IsFiniteSet(1..c) /\ Cardinality(1..c) = IF 1 > c THEN 0 ELSE c - 1 + 1
    BY <2>1, FS_Interval, Zenon
  <2> QED
    BY <2>1, <2>2
<1>7. q \in Surjection(1..c, ids)
  BY <1>1, <1>5, <1>6, FS_Injection
<1> QED
  BY <1>2, <1>4, <1>7 DEF Surjection

\* What Posted adds to the messages: the ends of those that do not go on.
LEMMA PostedEnds ==
    ASSUME NEW victim, mail \in Seq(Messages), Posted(victim)
    PROVE  /\ Continues(mail', mail) /\ UNCHANGED <<wakeup, deadline>>
           /\ \A id \in Requests : stage[id] \in Unended /\ stage'[id] \notin Unended /\ id # victim
                                    => Ends(mail', id) /\ Rouses(mail')
           /\ replaced' = replaced \cup ({victim} \ {None})
<1> DEFINE ended == {id \in At(stage, Unended) : stage'[id] \notin Unended} \ {victim}
           ids == SetToSeq(ended)
           new == [k \in DOMAIN ids |-> Message("noframe", ids[k])]
           c == Cardinality(ended)
<1>1. mail' = mail \o new /\ UNCHANGED <<wakeup, deadline>> /\ replaced' = replaced \cup ({victim} \ {None})
  BY DEF Posted
<1>2. ended \subseteq Requests
  BY DEF At
<1>3. c \in Nat /\ ids \in [1..c -> ended] /\ \A id \in ended : \E n \in 1..c : ids[n] = id
  BY <1>2, RequestsInOrder
<1>4. \A id \in Requests : stage[id] \in Unended /\ stage'[id] \notin Unended /\ id # victim => id \in ended
  BY DEF At
<1> HIDE DEF ended, ids, c
<1>5. new = [k \in 1..c |-> Message("noframe", ids[k])]
  BY <1>3
<1>6. \A k \in 1..c : /\ Message("noframe", ids[k]) \in Messages
                      /\ Message("noframe", ids[k]).kind = "noframe"
                      /\ Message("noframe", ids[k]).id = ids[k]
  BY <1>2, <1>3 DEF Messages, Message
<1>7. new \in [1..c -> Messages] /\ \A k \in 1..c : new[k].kind = "noframe" /\ new[k].id = ids[k]
  BY <1>5, <1>6
<1> HIDE DEF new
<1>8. new \in Seq(Messages) /\ Len(new) = c
  BY <1>3, <1>7, SeqDef
<1>9. /\ mail' \in Seq(Messages) /\ Len(mail') = Len(mail) + c /\ Len(mail) \in Nat
      /\ \A n \in 1..Len(mail) : mail'[n] = mail[n]
      /\ \A n \in 1..c : mail'[Len(mail) + n] = new[n]
  <2>1. /\ mail \o new \in Seq(Messages) /\ Len(mail \o new) = Len(mail) + Len(new)
        /\ \A n \in 1..Len(mail) + Len(new) :
              (mail \o new)[n] = IF n <= Len(mail) THEN mail[n] ELSE new[n - Len(mail)]
    BY <1>8, ConcatProperties
  <2>2. Len(mail) \in Nat
    BY LenProperties
  <2>3. \A n \in 1..c : /\ Len(mail) + n \in 1..Len(mail) + Len(new) /\ ~(Len(mail) + n <= Len(mail))
                        /\ (Len(mail) + n) - Len(mail) = n
    BY <1>3, <1>8, <2>2
  <2>4. \A n \in 1..Len(mail) : n \in 1..Len(mail) + Len(new) /\ n <= Len(mail)
    BY <1>3, <1>8, <2>2
  <2> QED
    BY <1>1, <1>3, <1>8, <2>1, <2>2, <2>3, <2>4
<1>10. Continues(mail', mail)
  BY <1>3, <1>9 DEF Continues
<1>11. ASSUME NEW id \in ended PROVE Ends(mail', id) /\ Rouses(mail')
  <2>1. PICK n \in 1..c : ids[n] = id
    BY <1>3
  <2>2. Len(mail) + n \in 1..Len(mail')
    BY <1>3, <1>9
  <2>3. mail'[Len(mail) + n].kind = "noframe" /\ mail'[Len(mail) + n].id = id
    BY <1>7, <1>9, <2>1
  <2> QED
    BY <2>2, <2>3 DEF Ends, Rouses
<1> QED
  BY <1>1, <1>4, <1>10, <1>11

----------------------------------------------------------------------------
\* Renders.

LEMMA GivenUpTo ==
    ASSUME NEW st \in [Requests -> Stages], NEW ids
    PROVE  /\ GivenUp(st, ids) \in [Requests -> Stages]
           /\ \A r \in Requests :
                 GivenUp(st, ids)[r] = IF r \in ids /\ st[r] = "waiting" THEN "over"
                                       ELSE IF r \in ids /\ st[r] = "running" THEN "stopping"
                                       ELSE st[r]
<1> DEFINE a == ids \cap At(st, {"waiting"})
           b == ids \cap At(st, {"running"})
           sa == Become(st, a, "over")
<1>1. /\ \A r \in Requests : r \in a <=> r \in ids /\ st[r] = "waiting"
      /\ \A r \in Requests : r \in b <=> r \in ids /\ st[r] = "running"
  BY DEF At
<1> HIDE DEF a, b
<1>2. sa \in [Requests -> Stages] /\ \A r \in Requests : sa[r] = IF r \in a THEN "over" ELSE st[r]
  BY DEF Become, Stages
<1>3. GivenUp(st, ids) = Become(sa, b, "stopping")
  BY DEF GivenUp, a, b
<1> HIDE DEF sa
<1>4. /\ GivenUp(st, ids) \in [Requests -> Stages]
      /\ \A r \in Requests : GivenUp(st, ids)[r] = IF r \in b THEN "stopping" ELSE sa[r]
  BY <1>2, <1>3 DEF Become, Stages
<1> QED
  BY <1>1, <1>2, <1>4

LEMMA OfferedTo ==
    ASSUME NEW st \in [Requests -> Stages], Offered(st)
    PROVE  /\ stage' \in [Requests -> Stages]
           /\ \A r \in Requests : \/ stage'[r] = st[r]
                                  \/ st[r] = "waiting" /\ stage'[r] \in {"over", "running"}
<1> DEFINE waiting == At(st, {"waiting"})
<1>1. \A r \in Requests : r \in waiting <=> st[r] = "waiting"
  BY DEF At
<1> HIDE DEF waiting
<1>2. CASE stage' = st
  BY <1>2
<1>3. CASE stage' = GivenUp(st, waiting)
  BY <1>1, <1>3, GivenUpTo
<1>4. ASSUME NEW next \in waiting, NEW gone \in SUBSET (waiting \ {next}),
             stage' = Become(GivenUp(st, gone), {next}, "running")
      PROVE  /\ stage' \in [Requests -> Stages]
             /\ \A r \in Requests : \/ stage'[r] = st[r]
                                    \/ st[r] = "waiting" /\ stage'[r] \in {"over", "running"}
  <2> DEFINE g == GivenUp(st, gone)
  <2>1. /\ g \in [Requests -> Stages]
        /\ \A r \in Requests : g[r] = st[r] \/ (st[r] = "waiting" /\ g[r] = "over")
    BY <1>1, GivenUpTo
  <2> HIDE DEF g
  <2>2. stage' = [r \in Requests |-> IF r \in {next} THEN "running" ELSE g[r]]
    BY <1>4 DEF g, Become
  <2> QED
    BY <1>1, <2>1, <2>2 DEF Stages, Open
<1> QED
  BY <1>2, <1>3, <1>4 DEF Offered, waiting

\* How a request may move when the coordinator gives it up or offers it.
Moves(st) ==
    /\ st \in [Requests -> Stages]
    /\ \A r \in Requests : \/ st[r] = stage[r]
                           \/ stage[r] = "waiting" /\ st[r] \in {"over", "running"}
                           \/ stage[r] = "running" /\ st[r] = "stopping"

LEMMA GiveUpMoves ==
    ASSUME StagesFit, NEW ids, GiveUp(ids)
    PROVE  /\ Moves(stage') /\ UNCHANGED asked
           /\ \A r \in Requests : r \notin ids /\ stage[r] # "waiting" => stage'[r] = stage[r]
<1> DEFINE g == GivenUp(stage, ids)
<1>1. stage \in [Requests -> Stages]
  BY DEF StagesFit
<1>2. /\ g \in [Requests -> Stages]
      /\ \A r \in Requests : g[r] = IF r \in ids /\ stage[r] = "waiting" THEN "over"
                                    ELSE IF r \in ids /\ stage[r] = "running" THEN "stopping"
                                    ELSE stage[r]
  BY <1>1, GivenUpTo
<1>3. /\ stage' = g \/ Offered(g)
      /\ UNCHANGED asked
  BY DEF GiveUp
<1> HIDE DEF g
<1>4. CASE stage' = g
  BY <1>1, <1>2, <1>3, <1>4 DEF Moves
<1>5. CASE Offered(g)
  <2>1. /\ stage' \in [Requests -> Stages]
        /\ \A r \in Requests : \/ stage'[r] = g[r]
                               \/ g[r] = "waiting" /\ stage'[r] \in {"over", "running"}
    BY <1>2, <1>5, OfferedTo
  <2> QED
    BY <1>1, <1>2, <1>3, <2>1 DEF Moves
<1> QED
  BY <1>3, <1>4, <1>5

LEMMA AskMoves ==
    ASSUME StagesFit, NEW l \in Loads, NEW victim, Ask(l, victim)
    PROVE  LET new == Len(asked) + 1
           IN  /\ new \in Requests /\ asked' = Append(asked, l) /\ stage[new] = "new"
               /\ victim = None \/ (victim \in Requests /\ stage[victim] = "waiting")
               /\ stage' \in [Requests -> Stages]
               /\ stage'[new] \in {"waiting", "running", "over"}
               /\ \A r \in Requests \ {new} :
                     \/ stage'[r] = stage[r]
                     \/ stage[r] = "waiting" /\ stage'[r] \in {"over", "running"}
<1> DEFINE new == Len(asked) + 1
           g == GivenUp(stage, {victim})
           h == [g EXCEPT ![new] = "waiting"]
<1>1. /\ stage \in [Requests -> Stages] /\ Len(asked) \in Nat
      /\ \A id \in Requests : stage[id] = "new" <=> id > Len(asked)
  BY LenProperties DEF StagesFit
<1>2. /\ new \in Requests /\ asked' = Append(asked, l)
      /\ victim \in {None} \cup At(stage, {"waiting"}) /\ Offered(h)
  BY DEF Ask
<1>3. victim = None \/ (victim \in Requests /\ stage[victim] = "waiting")
  BY <1>2 DEF At
<1>4. stage[new] = "new"
  BY <1>1, <1>2 DEF Requests
<1>5. /\ g \in [Requests -> Stages]
      /\ \A r \in Requests : g[r] = stage[r] \/ (stage[r] = "waiting" /\ g[r] = "over")
  <2>1. ASSUME NEW r \in Requests, r \in {victim} PROVE stage[r] = "waiting"
    BY <1>3, <2>1 DEF Requests, None
  <2>2. /\ g \in [Requests -> Stages]
        /\ \A r \in Requests : g[r] = IF r \in {victim} /\ stage[r] = "waiting" THEN "over"
                                      ELSE IF r \in {victim} /\ stage[r] = "running" THEN "stopping"
                                      ELSE stage[r]
    BY <1>1, GivenUpTo
  <2> QED
    BY <2>1, <2>2
<1> HIDE DEF g, new
<1>6. /\ h \in [Requests -> Stages] /\ h[new] = "waiting"
      /\ \A r \in Requests : r # new => h[r] = g[r]
  BY <1>2, <1>5 DEF Stages, Open
<1> HIDE DEF h
<1>7. /\ stage' \in [Requests -> Stages]
      /\ \A r \in Requests : \/ stage'[r] = h[r]
                             \/ h[r] = "waiting" /\ stage'[r] \in {"over", "running"}
  BY <1>2, <1>6, OfferedTo
<1> QED
  BY <1>2, <1>3, <1>4, <1>5, <1>6, <1>7 DEF new

----------------------------------------------------------------------------
\* The owner takes a batch.

Cycles == [holds : BOOLEAN, interactive : BOOLEAN, request : {None} \cup Requests]

\* The admission c waits for the end of a request, with the messages m.
Admitted(c, m) ==
    c.holds => /\ c.request \in Requests
               /\ stage[c.request] \in Open \/ c.request \in replaced \/ Ends(m, c.request)

LEMMA FreeCycleFits == FreeCycle \in Cycles /\ ~FreeCycle.holds
BY DEF FreeCycle, Cycles

\* What TakeReadyBatch leaves in the queue.
LEMMA TakeKeeps ==
    ASSUME KindsFit, LoadsFit, Take, HasWork, UNCHANGED session
    PROVE  /\ sealed' \in Seq(Batches) /\ open' \in Batches /\ UNCHANGED inputs
           /\ open'.load \in Shown \cup {NoLoad}
           /\ \A n \in 1..Len(sealed') : sealed'[n].load \in Shown \cup {NoLoad}
<1>1. CASE sealed # << >>
  <2>1. /\ sealed' = Tail(sealed) /\ open' = open /\ inputs' = inputs
        /\ sealed \in Seq(Batches) /\ open \in Batches
    BY <1>1 DEF Take, KindsFit
  <2>2. /\ sealed' \in Seq(Batches) /\ Len(sealed) \in Nat \ {0} /\ Len(sealed') = Len(sealed) - 1
        /\ \A n \in 1..Len(sealed') : sealed'[n] = sealed[n + 1]
    BY <1>1, <2>1, EmptySeq, HeadTailProperties
  <2>3. \A n \in 1..Len(sealed') : n + 1 \in 1..Len(sealed)
    BY <2>2
  <2> QED
    BY <2>1, <2>2, <2>3 DEF LoadsFit
<1>2. CASE sealed = << >>
  <2>1. open' = [open EXCEPT !.value = None] /\ sealed' = sealed /\ inputs' = inputs /\ open \in Batches
    BY <1>2 DEF Take, KindsFit
  <2>2. open' \in Batches /\ open'.load = open.load
    BY <2>1 DEF Batches, None
  <2> QED
    BY <2>1, <2>2 DEF LoadsFit, KindsFit
<1> QED
  BY <1>1, <1>2

LEMMA WakeKeeps ==
    ASSUME NEW m \in Seq(Messages), NEW w \in BOOLEAN, w => Wakes(m), Wake(m, w)
    PROVE  /\ mail' \in Seq(Messages) /\ wakeup' = TRUE /\ Wakes(mail') /\ Rouses(mail')
           /\ Continues(mail', m)
<1>1. Message("wake", None) \in Messages /\ Message("wake", None).kind = "wake"
  BY DEF Message, Messages
<1>2. mail' \in Seq(Messages) /\ wakeup' = TRUE /\ Wakes(mail') /\ Continues(mail', m)
  <2>1. CASE w
    <3>1. mail' = m /\ wakeup' = TRUE
      BY <2>1 DEF Wake
    <3>2. Continues(m, m)
      BY DEF Continues
    <3> QED
      BY <2>1, <3>1, <3>2
  <2>2. CASE ~w
    BY <1>1, <2>2, AppendMessage DEF Wake
  <2> QED
    BY <2>1, <2>2
<1> QED
  BY <1>2 DEF Wakes, Rouses

LEMMA ConsumeKeeps ==
    ASSUME KindsFit, StagesFit, LoadsFit, NEW c \in Cycles, NEW e \in BOOLEAN,
           NEW m \in Seq(Messages), NEW w \in BOOLEAN, w => Wakes(m), Admitted(c, m),
           At(stage, {"stopping"}) # {} => quiet \/ session.state \in {"Leaving", "Retained"},
           Consume(c, e, m, w), UNCHANGED <<renders, session, first, caller, replaced>>
    PROVE  InputInv'
<1> DEFINE idle == Interactive /\ ~c.holds
           mayBegin == idle /\ Held(stage) = {} /\ HasWork
           wait == e /\ NextBatch.seal = "None"
<1>1. StagesFit'
  BY DEF StagesFit, renders
<1>2. UNCHANGED <<asked, stage, session, first, caller, replaced, Interactive, Shown>> /\ early' = e
  BY DEF renders, Interactive, Shown, Consume
<1>3. CASE ~(mayBegin /\ ~wait)
  <2>1. /\ cycle' = c /\ mail' = m /\ wakeup' = w /\ todo' = << >>
        /\ deadline' = (deadline \/ (idle /\ e /\ (Held(stage) # {} \/ mayBegin)))
        /\ UNCHANGED <<inputs, sealed, open, document, quiet>>
    BY <1>3 DEF Consume, queue
  <2>2. KindsFit'
    BY <1>2, <2>1 DEF KindsFit, Cycles
  <2>3. LoadsFit'
    BY <1>2, <2>1 DEF LoadsFit
  <2>4. TodoFits' /\ WakeupFits'
    BY <2>1 DEF TodoFits, WakeupFits
  <2>5. CycleFits'
    BY <1>2, <2>1 DEF CycleFits, Admitted
  <2>6. StoppingFits'
    BY <1>2, <2>1 DEF StoppingFits
  <2>7. WorkIsAwaited'
    <3> SUFFICES ASSUME Interactive, OwnWork', ~c.holds
                 PROVE  deadline' \/ quiet' \/ At(stage', Open) # {}
      BY <1>2, <2>1 DEF WorkIsAwaited
    <3>1. OwnWork
      BY <1>2, <2>1 DEF OwnWork
    <3>2. HasWork
      <4>1. CASE sealed = << >>
        BY <3>1, <4>1 DEF OwnWork, HasWork
      <4> QED
        BY <4>1 DEF HasWork
    <3>3. CASE Held(stage) = {}
      BY <1>3, <2>1, <3>2, <3>3
    <3>4. CASE Held(stage) # {}
      <4>1. At(stage, {"stopping"}) # {} \/ At(stage, Open) # {}
        BY <3>4 DEF Held, At, Open
      <4> QED
        BY <1>2, <2>1, <4>1 DEF Interactive
    <3> QED
      BY <3>3, <3>4
  <2> QED
    BY <1>1, <2>2, <2>3, <2>4, <2>5, <2>6, <2>7 DEF InputInv
<1>4. CASE mayBegin /\ ~wait
  <2> DEFINE b == NextBatch
  <2>1. Take /\ HandleBatch(b, m, w) /\ UNCHANGED deadline
    BY <1>4 DEF Consume
  <2>2. /\ sealed' \in Seq(Batches) /\ open' \in Batches /\ UNCHANGED inputs
        /\ open'.load \in Shown \cup {NoLoad}
        /\ \A n \in 1..Len(sealed') : sealed'[n].load \in Shown \cup {NoLoad}
    BY <1>2, <1>4, <2>1, TakeKeeps
  <2>3. At(stage', {"stopping"}) = {}
    BY <1>2, <1>4 DEF Held, At
  <2> DEFINE Frees ==
               cycle' = FreeCycle /\ Wake(m, w) /\ quiet' = FALSE /\ todo' = << >>
             Needs ==
               /\ mail' = m /\ wakeup' = w /\ quiet' = FALSE
               /\ cycle' = [holds |-> TRUE, interactive |-> b.seal = "None", request |-> None]
               /\ todo' = << Call("cycle", None) >>
             Silent ==
               mail' = m /\ wakeup' = w /\ quiet' = TRUE /\ cycle' = FreeCycle /\ todo' = << >>
  <2>4. Frees \/ Needs \/ Silent
    <3> HIDE DEF b
    <3>1. NeedsFrame(document[session.load], b) \in BOOLEAN
      BY DEF NeedsFrame
    <3> QED
      BY <2>1, <3>1 DEF HandleBatch
  <2>5. LoadsFit' /\ StoppingFits'
    BY <1>2, <2>2, <2>3 DEF LoadsFit, StoppingFits
  <2>6. CASE Frees
    <3> HIDE DEF b
    <3>1. /\ mail' \in Seq(Messages) /\ wakeup' = TRUE /\ Wakes(mail') /\ Rouses(mail')
      BY <2>6, WakeKeeps
    <3>2. KindsFit'
      BY <1>2, <2>1, <2>2, <2>6, <3>1, FreeCycleFits DEF KindsFit, Cycles
    <3>3. TodoFits' /\ WakeupFits' /\ CycleFits' /\ WorkIsAwaited'
      BY <2>6, <3>1, FreeCycleFits DEF TodoFits, WakeupFits, CycleFits, Routing, WorkIsAwaited
    <3> QED
      BY <1>1, <2>5, <3>2, <3>3 DEF InputInv
  <2>7. CASE Needs
    <3>1. KindsFit'
      BY <1>2, <2>1, <2>2, <2>7 DEF KindsFit
    <3>2. TodoFits' /\ WakeupFits' /\ CycleFits' /\ WorkIsAwaited'
      BY <2>7 DEF TodoFits, WakeupFits, CycleFits, Routing, WorkIsAwaited
    <3> QED
      BY <1>1, <2>5, <3>1, <3>2 DEF InputInv
  <2>8. CASE Silent
    <3> HIDE DEF b
    <3>1. KindsFit'
      BY <1>2, <2>1, <2>2, <2>8, FreeCycleFits DEF KindsFit, Cycles
    <3>2. TodoFits' /\ WakeupFits' /\ CycleFits' /\ WorkIsAwaited'
      BY <2>8, FreeCycleFits DEF TodoFits, WakeupFits, CycleFits, Routing, WorkIsAwaited
    <3> QED
      BY <1>1, <2>5, <3>1, <3>2 DEF InputInv
  <2> QED
    BY <2>4, <2>6, <2>7, <2>8
<1> QED
  BY <1>3, <1>4

----------------------------------------------------------------------------
\* The GUI thread.

LEMMA OfferKeeps ==
    ASSUME InputInv, NEW kind \in Kinds, Offer(kind)
    PROVE  InputInv'
<1>1. /\ caller = NoCaller /\ Interactive
      /\ caller' = [at |-> "read", load |-> session.load, kind |-> kind]
      /\ UNCHANGED <<asked, stage, inputs, sealed, open, session, cycle, early, todo, first, quiet>>
      /\ UNCHANGED <<wakeup, mail, deadline, replaced>>
  BY DEF Offer, renders, queue, owner, posting
<1>2. KindsFit'
  BY <1>1 DEF InputInv, KindsFit
<1>3. LoadsFit'
  <2>1. session.load \in Shown
    BY <1>1 DEF InputInv, KindsFit, Shown, Interactive
  <2> QED
    BY <1>1, <2>1 DEF InputInv, LoadsFit, Shown
<1>4. StagesFit' /\ TodoFits' /\ CycleFits' /\ WakeupFits' /\ StoppingFits'
  BY <1>1 DEF InputInv, StagesFit, TodoFits, CycleFits, Routing, Finishing, WakeupFits, StoppingFits
<1>5. WorkIsAwaited'
  BY <1>1 DEF InputInv, WorkIsAwaited, NoCaller, Interactive, OwnWork
<1> QED
  BY <1>2, <1>3, <1>4, <1>5 DEF InputInv

LEMMA RefuseKeeps ==
    ASSUME InputInv, Refuse
    PROVE  InputInv'
<1>1. /\ caller.at = "read" /\ caller' = NoCaller
      /\ UNCHANGED <<asked, stage, inputs, sealed, open, session, cycle, early, todo, first, quiet>>
      /\ UNCHANGED <<wakeup, mail, deadline, replaced>>
  BY DEF Refuse, renders, queue, owner, posting
<1>2. KindsFit' /\ LoadsFit'
  BY <1>1 DEF InputInv, KindsFit, LoadsFit, NoCaller, Shown
<1>3. StagesFit' /\ TodoFits' /\ CycleFits' /\ WakeupFits' /\ StoppingFits'
  BY <1>1 DEF InputInv, StagesFit, TodoFits, CycleFits, Routing, Finishing, WakeupFits, StoppingFits
<1>4. WorkIsAwaited'
  BY <1>1 DEF InputInv, WorkIsAwaited, Interactive, OwnWork
<1> QED
  BY <1>2, <1>3, <1>4 DEF InputInv

\* A sequence the GUI thread extends.
LEMMA ExtendedKept ==
    ASSUME KindsFit, LoadsFit, NEW l \in Shown \cup {NoLoad}, NEW kind \in Kinds, NEW n \in Nat
    PROVE  Extended(l, kind, n) \in Batches /\ Extended(l, kind, n).load = l
<1>1. SealOf[kind] \in Seals
  BY DEF SealOf, Kinds, Seals
<1>2. l \in Loads \cup {NoLoad} /\ open.value \in Nat /\ None \in Nat
  BY DEF Shown, KindsFit, Batches, None
<1> QED
  BY <1>1, <1>2 DEF Extended, Batches

LEMMA AppendKept ==
    ASSUME KindsFit, LoadsFit, NEW b \in Batches, b.load \in Shown \cup {NoLoad}
    PROVE  /\ Append(sealed, b) \in Seq(Batches)
           /\ \A n \in 1..Len(Append(sealed, b)) : Append(sealed, b)[n].load \in Shown \cup {NoLoad}
<1> DEFINE s == Append(sealed, b)
<1>1. /\ s \in Seq(Batches) /\ Len(s) = Len(sealed) + 1 /\ Len(sealed) \in Nat
      /\ s[Len(sealed) + 1] = b /\ \A n \in 1..Len(sealed) : s[n] = sealed[n]
  BY AppendProperties DEF KindsFit
<1> HIDE DEF s
<1>2. ASSUME NEW n \in 1..Len(s) PROVE s[n].load \in Shown \cup {NoLoad}
  <2>1. n = Len(sealed) + 1 \/ n \in 1..Len(sealed)
    BY <1>1
  <2> QED
    BY <1>1, <2>1 DEF LoadsFit
<1> QED
  BY <1>1, <1>2 DEF s

LEMMA AdmitKeeps ==
    ASSUME InputInv, Admit
    PROVE  InputInv'
<1> DEFINE n == Len(inputs) + 1
           b == Extended(caller.load, caller.kind, n)
<1>1. /\ caller.at = "read" /\ AdmitInput(caller.load, caller.kind)
      /\ caller' = [caller EXCEPT !.at = "admitted"]
      /\ UNCHANGED <<asked, stage, session, cycle, early, todo, first, quiet>>
      /\ UNCHANGED <<wakeup, mail, deadline, replaced>>
  BY DEF Admit, renders, owner, posting
<1>2. /\ inputs' = Append(inputs, [load |-> caller.load, kind |-> caller.kind])
      /\ \/ open' = b /\ sealed' = sealed
         \/ open' = NoBatch /\ sealed' = Append(sealed, b)
  BY <1>1 DEF AdmitInput
<1>3. caller.kind \in Kinds
  BY <1>1 DEF InputInv, KindsFit
<1>4. n \in Nat
  BY LenProperties DEF InputInv, KindsFit
<1> HIDE DEF n
<1>5. b \in Batches /\ b.load = caller.load
  BY <1>3, <1>4, ExtendedKept DEF InputInv, LoadsFit
<1> HIDE DEF b
<1>6. NoBatch \in Batches /\ NoBatch.load = NoLoad
  BY DEF NoBatch, Batch, Batches, None, Seals
<1>7. /\ sealed' \in Seq(Batches) /\ open' \in Batches /\ open'.load \in Shown \cup {NoLoad}
      /\ \A i \in 1..Len(sealed') : sealed'[i].load \in Shown \cup {NoLoad}
  BY <1>2, <1>5, <1>6, AppendKept, ZenonT(60) DEF InputInv, KindsFit, LoadsFit
<1>8. KindsFit'
  <2>1. inputs' \in Seq([load : Loads \cup {NoLoad}, kind : Kinds])
    <3>1. [load |-> caller.load, kind |-> caller.kind] \in [load : Loads \cup {NoLoad}, kind : Kinds]
      BY <1>3 DEF InputInv, KindsFit
    <3> QED
      BY <1>2, <3>1, AppendProperties DEF InputInv, KindsFit
  <2> QED
    BY <1>1, <1>7, <2>1, SMTT(60) DEF InputInv, KindsFit
<1>9. LoadsFit'
  <2>1. caller'.load = caller.load
    BY <1>1 DEF InputInv, KindsFit
  <2> QED
    BY <1>1, <1>7, <2>1 DEF InputInv, LoadsFit, Shown
<1>10. StagesFit' /\ TodoFits' /\ CycleFits' /\ WakeupFits' /\ StoppingFits'
  BY <1>1 DEF InputInv, StagesFit, TodoFits, CycleFits, Routing, Finishing, WakeupFits, StoppingFits
<1>11. WorkIsAwaited'
  BY <1>1 DEF InputInv, KindsFit, WorkIsAwaited
<1> QED
  BY <1>8, <1>9, <1>10, <1>11 DEF InputInv

LEMMA RequestConsumeKeeps ==
    ASSUME InputInv, RequestConsume
    PROVE  InputInv'
<1>1. /\ Wake(mail, wakeup) /\ caller' = NoCaller
      /\ UNCHANGED <<asked, stage, inputs, sealed, open, session, cycle, early, todo, first, quiet>>
      /\ UNCHANGED <<deadline, replaced>>
  BY DEF RequestConsume, renders, queue, owner
<1>2. mail' \in Seq(Messages) /\ wakeup' = TRUE /\ Wakes(mail') /\ Rouses(mail') /\ Continues(mail', mail)
  BY <1>1, WakeKeeps DEF InputInv, KindsFit, WakeupFits
<1>3. KindsFit' /\ LoadsFit'
  BY <1>1, <1>2 DEF InputInv, KindsFit, LoadsFit, NoCaller, Shown
<1>4. CycleFits'
  <2>1. \A id : Ends(mail, id) => Ends(mail', id)
    BY <1>2, MoreMessages
  <2> QED
    BY <1>1, <2>1 DEF InputInv, CycleFits, Routing, Finishing
<1>5. StagesFit' /\ TodoFits' /\ WakeupFits' /\ StoppingFits' /\ WorkIsAwaited'
  BY <1>1, <1>2 DEF InputInv, StagesFit, TodoFits, Finishing, WakeupFits, StoppingFits, WorkIsAwaited
<1> QED
  BY <1>3, <1>4, <1>5 DEF InputInv

----------------------------------------------------------------------------
\* The worker and the clock.

LEMMA JobReturnsKeeps ==
    ASSUME InputInv, NEW id \in Requests, JobReturns(id)
    PROVE  InputInv'
<1>1. /\ stage[id] \in {"running", "stopping"} /\ stage' = [stage EXCEPT ![id] = "over"]
      /\ UNCHANGED <<asked, inputs, sealed, open, session, cycle, early, todo, first, quiet>>
      /\ UNCHANGED <<wakeup, deadline, caller, replaced>>
  BY DEF JobReturns, Return, Held, At, queue, owner
<1>2. PICK kind \in {"frame", "noframe"} :
         mail' = IF stage[id] = "running" THEN Append(mail, Message(kind, id)) ELSE mail
  BY DEF JobReturns
<1>3. Message(kind, id) \in Messages /\ Message(kind, id).kind = kind /\ Message(kind, id).id = id
  BY DEF Message, Messages
<1>4. mail \in Seq(Messages) /\ stage \in [Requests -> Stages]
  BY DEF InputInv, KindsFit, StagesFit
<1>5. /\ Continues(mail', mail)
      /\ stage[id] = "running" => Ends(mail', id) /\ Rouses(mail')
  <2>1. CASE stage[id] = "running"
    BY <1>2, <1>3, <1>4, <2>1, AppendMessage
  <2>2. CASE stage[id] # "running"
    BY <1>2, <1>4, <2>2 DEF Continues
  <2> QED
    BY <2>1, <2>2
<1>6. /\ stage' \in [Requests -> Stages] /\ stage'[id] = "over"
      /\ \A r \in Requests : r # id => stage'[r] = stage[r]
  BY <1>1, <1>4 DEF Stages
<1>7. KindsFit' /\ LoadsFit' /\ TodoFits'
  BY <1>1, <1>5 DEF InputInv, KindsFit, LoadsFit, TodoFits, Finishing, Shown, Continues
<1>8. StagesFit'
  <2>1. asked \in Seq(Loads) /\ Len(asked) <= MaxRequests /\ Len(asked) \in Nat
    BY LenProperties DEF InputInv, StagesFit
  <2>2. 1..Len(asked) \subseteq Requests
    BY <2>1, InputAssumption DEF Requests
  <2> QED
    BY <1>1, <1>6, <2>1, <2>2 DEF InputInv, StagesFit
<1>9. CycleFits'
  <2>1. \A r : Ends(mail, r) => Ends(mail', r)
    BY <1>5, MoreMessages
  <2>2. \A r \in Requests : stage[r] \in Open => stage'[r] \in Open \/ Ends(mail', r)
    BY <1>1, <1>5, <1>6 DEF Open
  <2> QED
    BY <1>1, <2>1, <2>2 DEF InputInv, CycleFits, Routing, Finishing
<1>10. WakeupFits'
  BY <1>1, <1>5, MoreMessages DEF InputInv, WakeupFits
<1>11. StoppingFits'
  <2>1. At(stage', {"stopping"}) \subseteq At(stage, {"stopping"})
    BY <1>6 DEF At
  <2> QED
    BY <1>1, <2>1 DEF InputInv, StoppingFits
<1>12. WorkIsAwaited'
  <2>1. At(stage, Open) # {} => At(stage', Open) # {} \/ Rouses(mail')
    BY <1>1, <1>5, <1>6 DEF At, Open
  <2>2. Rouses(mail) => Rouses(mail')
    BY <1>5, MoreMessages
  <2> QED
    BY <1>1, <2>1, <2>2 DEF InputInv, WorkIsAwaited, Interactive, OwnWork
<1> QED
  BY <1>7, <1>8, <1>9, <1>10, <1>11, <1>12 DEF InputInv

\* What the coordinator gives up is reported to the owner.
LEMMA GivenUpReports ==
    ASSUME InputInv, Moves(stage'), UNCHANGED asked, Posted(None)
    PROVE  /\ Continues(mail', mail) /\ UNCHANGED <<wakeup, deadline>> /\ replaced' = replaced
           /\ \A r \in Requests : stage[r] \in Open => stage'[r] \in Open \/ Ends(mail', r)
           /\ At(stage, Open) # {} => At(stage', Open) # {} \/ Rouses(mail')
           /\ StagesFit' \/ session' # session
<1>1. mail \in Seq(Messages) /\ stage \in [Requests -> Stages] /\ stage' \in [Requests -> Stages]
  BY DEF InputInv, KindsFit, StagesFit, Moves
<1>2. /\ Continues(mail', mail) /\ UNCHANGED <<wakeup, deadline>>
      /\ \A r \in Requests : stage[r] \in Unended /\ stage'[r] \notin Unended /\ r # None
                              => Ends(mail', r) /\ Rouses(mail')
      /\ replaced' = replaced \cup ({None} \ {None})
  BY <1>1, PostedEnds
<1>3. \A r \in Requests : r # None
  BY InputAssumption DEF Requests, None
<1>4. \A r \in Requests : stage[r] \in Open =>
         stage[r] \in Unended /\ (stage'[r] \in Open \/ stage'[r] \notin Unended)
  BY DEF Moves, Open, Unended
<1>5. \A r \in Requests : stage[r] \in Open => stage'[r] \in Open \/ (Ends(mail', r) /\ Rouses(mail'))
  BY <1>2, <1>3, <1>4
<1>6. At(stage, Open) # {} => At(stage', Open) # {} \/ Rouses(mail')
  BY <1>5 DEF At
<1>7. ASSUME session' = session PROVE StagesFit'
  <2>1. asked \in Seq(Loads) /\ Len(asked) <= MaxRequests /\ Len(asked) \in Nat
    BY LenProperties DEF InputInv, StagesFit
  <2>2. 1..Len(asked) \subseteq Requests
    BY <2>1, InputAssumption DEF Requests
  <2>3. \A r \in Requests : /\ stage'[r] = "new" <=> stage[r] = "new"
                            /\ stage[r] = "over" => stage'[r] = "over"
    BY DEF Moves
  <2> QED
    BY <1>1, <1>7, <2>1, <2>2, <2>3 DEF InputInv, StagesFit
<1> QED
  BY <1>2, <1>5, <1>6, <1>7

LEMMA GivingUpKeeps ==
    ASSUME InputInv, Moves(stage'), UNCHANGED asked, Posted(None), TodoFits', StoppingFits',
           UNCHANGED <<inputs, sealed, open, caller, session, cycle, early, first, quiet>>,
           Routing => Routing', \A id : Finishing(id) => Finishing(id)'
    PROVE  InputInv'
<1>1. /\ Continues(mail', mail) /\ UNCHANGED <<wakeup, deadline>> /\ replaced' = replaced
      /\ \A r \in Requests : stage[r] \in Open => stage'[r] \in Open \/ Ends(mail', r)
      /\ At(stage, Open) # {} => At(stage', Open) # {} \/ Rouses(mail')
      /\ StagesFit'
  BY GivenUpReports
<1>2. /\ \A id : Ends(mail, id) => Ends(mail', id)
      /\ Wakes(mail) => Wakes(mail')
      /\ Rouses(mail) => Rouses(mail')
  BY <1>1, MoreMessages
<1>3. KindsFit' /\ LoadsFit'
  BY <1>1 DEF InputInv, KindsFit, LoadsFit, Shown, Continues
<1>4. CycleFits'
  BY <1>1, <1>2 DEF InputInv, CycleFits
<1>5. WakeupFits' /\ WorkIsAwaited'
  BY <1>1, <1>2 DEF InputInv, WakeupFits, WorkIsAwaited, Interactive, OwnWork
<1> QED
  BY <1>1, <1>3, <1>4, <1>5 DEF InputInv

LEMMA JobStartsKeeps ==
    ASSUME InputInv, JobStarts
    PROVE  InputInv'
<1>1. /\ Offered(stage) /\ Posted(None)
      /\ UNCHANGED <<asked, inputs, sealed, open, session, cycle, early, todo, first, quiet, caller>>
  BY DEF JobStarts, queue, owner
<1>2. /\ stage' \in [Requests -> Stages]
      /\ \A r \in Requests : \/ stage'[r] = stage[r]
                             \/ stage[r] = "waiting" /\ stage'[r] \in {"over", "running"}
  BY <1>1, OfferedTo DEF InputInv, StagesFit
<1>3. Moves(stage')
  BY <1>2 DEF Moves
<1>4. TodoFits'
  BY <1>1 DEF InputInv, TodoFits, Finishing
<1>5. StoppingFits'
  <2>1. At(stage', {"stopping"}) \subseteq At(stage, {"stopping"})
    BY <1>2 DEF At
  <2> QED
    BY <1>1, <2>1 DEF InputInv, StoppingFits
<1> QED
  BY <1>1, <1>3, <1>4, <1>5, GivingUpKeeps DEF Routing, Finishing

LEMMA ClockKeeps ==
    ASSUME InputInv, Tick \/ Fire
    PROVE  InputInv'
<1>1. /\ UNCHANGED <<asked, stage, inputs, sealed, open, session, cycle, todo, first, quiet>>
      /\ UNCHANGED <<wakeup, caller, replaced>> /\ early' \in BOOLEAN
      /\ \/ UNCHANGED <<mail, deadline>>
         \/ deadline' = FALSE /\ mail' = Append(mail, Message("deadline", None))
  BY DEF Tick, Fire, renders, queue, owner, posting, InputInv, KindsFit
<1>2. mail \in Seq(Messages)
  BY DEF InputInv, KindsFit
<1>3. Continues(mail', mail) /\ deadline' \in BOOLEAN /\ (deadline => deadline' \/ Rouses(mail'))
  <2>1. CASE UNCHANGED <<mail, deadline>>
    BY <1>2, <2>1 DEF Continues, InputInv, KindsFit
  <2>2. CASE deadline' = FALSE /\ mail' = Append(mail, Message("deadline", None))
    <3>1. Message("deadline", None) \in Messages /\ Message("deadline", None).kind # "entered"
      BY DEF Message, Messages
    <3> QED
      BY <1>2, <2>2, <3>1, AppendMessage
  <2> QED
    BY <1>1, <2>1, <2>2
<1>4. /\ \A id : Ends(mail, id) => Ends(mail', id)
      /\ Wakes(mail) => Wakes(mail')
      /\ Rouses(mail) => Rouses(mail')
  BY <1>3, MoreMessages
<1>5. KindsFit' /\ LoadsFit' /\ StagesFit' /\ TodoFits'
  BY <1>1, <1>3 DEF InputInv, KindsFit, LoadsFit, StagesFit, TodoFits, Finishing, Shown, Continues
<1>6. CycleFits' /\ WakeupFits' /\ StoppingFits'
  BY <1>1, <1>4 DEF InputInv, CycleFits, Routing, Finishing, WakeupFits, StoppingFits
<1>7. WorkIsAwaited'
  BY <1>1, <1>3, <1>4 DEF InputInv, WorkIsAwaited, Interactive, OwnWork
<1> QED
  BY <1>5, <1>6, <1>7 DEF InputInv

----------------------------------------------------------------------------
\* The owner thread.

LEMMA FinishedKeeps ==
    ASSUME InputInv, NEW id \in Requests, NEW kind, NEW m \in Seq(Messages), wakeup => Wakes(m),
           ~Routing, \A r : Ends(mail, r) \/ Finishing(r) => Ends(m, r) \/ r = id,
           At(stage, {"stopping"}) # {} => quiet \/ session.state \in {"Leaving", "Retained"},
           Finished(id, kind, m), UNCHANGED <<renders, session, first, caller, replaced>>
    PROVE  InputInv'
<1>1. KindsFit /\ StagesFit /\ LoadsFit /\ cycle \in Cycles /\ early \in BOOLEAN /\ wakeup \in BOOLEAN
  BY DEF InputInv, KindsFit, Cycles
<1>2. CASE cycle.holds /\ cycle.request = id
  <2>1. PICK e \in BOOLEAN : Consume(FreeCycle, e, m, wakeup)
    BY <1>2 DEF Finished
  <2>2. FreeCycle \in Cycles /\ Admitted(FreeCycle, m)
    BY FreeCycleFits DEF Admitted
  <2> QED
    BY <1>1, <2>1, <2>2, ConsumeKeeps
<1>3. CASE ~(cycle.holds /\ cycle.request = id)
  <2>1. Consume(cycle, early, m, wakeup)
    BY <1>3 DEF Finished
  <2>2. Admitted(cycle, m)
    BY <1>3 DEF Admitted, InputInv, CycleFits
  <2> QED
    BY <1>1, <2>1, <2>2, ConsumeKeeps
<1> QED
  BY <1>2, <1>3

LEMMA TakeMailKeeps ==
    ASSUME InputInv, TakeMail
    PROVE  InputInv'
<1> DEFINE msg == Head(mail)
           m == Tail(mail)
<1>1. /\ todo = << >> /\ mail # << >>
      /\ UNCHANGED <<renders, first, caller, replaced>> /\ UNCHANGED <<asked, stage>>
  BY DEF TakeMail, Waiting, renders
<1>2. /\ KindsFit /\ StagesFit /\ LoadsFit /\ cycle \in Cycles /\ early \in BOOLEAN
      /\ wakeup \in BOOLEAN /\ mail \in Seq(Messages)
  BY DEF InputInv, KindsFit, Cycles
<1>3. /\ msg \in Messages /\ m \in Seq(Messages)
      /\ \A id : Ends(mail, id) => \/ Ends(m, id)
                                   \/ msg.id = id /\ msg.kind \in {"frame", "noframe"}
      /\ Wakes(mail) => Wakes(m) \/ msg.kind = "wake"
      /\ Rouses(mail) => Rouses(m) \/ msg.kind # "entered"
  BY <1>1, <1>2, TakeMessage
<1>4. ~Routing /\ \A id : ~Finishing(id)
  BY <1>1 DEF Routing, Finishing
<1>5. At(stage, {"stopping"}) # {} => quiet \/ session.state \in {"Leaving", "Retained"}
  BY <1>1 DEF InputInv, StoppingFits
<1>6. wakeup => Wakes(m) \/ msg.kind = "wake"
  BY <1>3 DEF InputInv, WakeupFits
<1>7. msg.kind \notin {"frame", "noframe"} => Admitted(cycle, m)
  BY <1>3, <1>4 DEF InputInv, CycleFits, Admitted
<1>8. CASE msg.kind = "wake"
  <2>1. Consume(cycle, early, m, FALSE) /\ UNCHANGED session
    BY <1>8 DEF TakeMail
  <2> HIDE DEF m, msg
  <2> QED
    BY <1>1, <1>2, <1>3, <1>5, <1>7, <1>8, <2>1, ConsumeKeeps
<1>9. CASE msg.kind = "deadline"
  <2>1. Consume(cycle, early, m, wakeup) /\ UNCHANGED session
    BY <1>9 DEF TakeMail
  <2>2. wakeup => Wakes(m)
    BY <1>6, <1>9
  <2> HIDE DEF m, msg
  <2> QED
    BY <1>1, <1>2, <1>3, <1>5, <1>7, <1>9, <2>1, <2>2, ConsumeKeeps
<1>10. CASE msg.kind = "entered"
  <2>1. /\ session' = IF session.state = "Loading"
                      THEN [session EXCEPT !.state = "Interactive"] ELSE session
        /\ mail' = m
        /\ UNCHANGED <<inputs, sealed, open, cycle, early, todo, quiet, wakeup, deadline>>
    BY <1>10 DEF TakeMail, queue
  <2> HIDE DEF m, msg
  <2>2. /\ session' \in [state : {"Interactive", "Leaving", "Retained", "Loading", "NoImage"},
                         load : Loads]
        /\ session'.load = session.load
        /\ session.state = "Loading" => session'.state = "Interactive"
        /\ session.state # "Loading" => session' = session
    BY <1>2, <2>1 DEF KindsFit
  <2>3. KindsFit'
    BY <1>1, <1>2, <1>3, <2>1, <2>2 DEF KindsFit
  <2>4. StagesFit' /\ TodoFits'
    BY <1>1, <1>2, <2>1, <2>2 DEF StagesFit, TodoFits
  <2>5. LoadsFit'
    <3>1. Shown \subseteq Shown'
      BY <2>2 DEF Shown
    <3> QED
      BY <1>1, <1>2, <2>1, <3>1 DEF LoadsFit
  <2>6. CycleFits' /\ WakeupFits'
    BY <1>1, <1>3, <1>4, <1>6, <1>10, <2>1 DEF InputInv, CycleFits, WakeupFits
  <2>7. StoppingFits'
    BY <1>1, <1>5, <2>1, <2>2 DEF StoppingFits
  <2>8. WorkIsAwaited'
    <3>1. CASE session.state = "Loading"
      <4>1. session.load \notin Shown \cup {NoLoad}
        <5>1. session.load \in Loads /\ session.load \in Nat /\ session.load # NoLoad
          BY <1>2, InputAssumption, LoadsAreNumbers DEF KindsFit
        <5>2. ~(session.load < session.load)
          BY <5>1
        <5>3. session.load \notin Shown
          BY <3>1, <5>2 DEF Shown
        <5> QED
          BY <5>1, <5>3
      <4>2. ~OwnWork'
        BY <1>2, <2>1, <2>2, <4>1 DEF OwnWork, LoadsFit
      <4> QED
        BY <4>2 DEF WorkIsAwaited
    <3>2. CASE session.state # "Loading"
      BY <1>1, <1>3, <1>10, <2>1, <2>2, <3>2 DEF InputInv, WorkIsAwaited, Interactive, OwnWork
    <3> QED
      BY <3>1, <3>2
  <2> QED
    BY <2>3, <2>4, <2>5, <2>6, <2>7, <2>8 DEF InputInv
<1>11. CASE msg.kind \in {"frame", "noframe"}
  <2>1. msg.id \in Requests /\ (wakeup => Wakes(m))
    BY <1>3, <1>6, <1>11 DEF Messages
  <2>2. CASE msg.kind = "frame" /\ msg.id = first /\ session.state = "Loading"
    <3>1. /\ mail' = Append(m, Message("entered", None))
          /\ todo' = << Call("submit", None), Call("finish", msg.id) >>
          /\ UNCHANGED <<inputs, sealed, open, session, cycle, early, quiet, wakeup, deadline>>
      BY <1>11, <2>2 DEF TakeMail, queue
    <3> HIDE DEF m, msg
    <3>2. Message("entered", None) \in Messages
      BY DEF Message, Messages
    <3>3. /\ Continues(mail', m) /\ \A id : Ends(m, id) => Ends(mail', id)
          /\ Wakes(m) => Wakes(mail')
      BY <1>3, <3>1, <3>2, AppendMessage, MoreMessages
    <3>4. KindsFit' /\ LoadsFit' /\ StagesFit'
      BY <1>1, <1>2, <3>1, <3>3 DEF KindsFit, LoadsFit, StagesFit, Shown, Continues
    <3>5. TodoFits' /\ WakeupFits'
      BY <2>1, <2>2, <3>1, <3>3 DEF TodoFits, Finishing, WakeupFits
    <3>6. CycleFits'
      <4>1. PICK id \in Requests : id = msg.id
        BY <2>1
      <4>2. Finishing(id)'
        BY <3>1, <4>1 DEF Finishing
      <4> QED
        BY <1>1, <1>3, <1>4, <3>1, <3>3, <4>1, <4>2 DEF InputInv, CycleFits
    <3>7. StoppingFits' /\ WorkIsAwaited'
      BY <1>1, <1>5, <2>2, <3>1 DEF StoppingFits, WorkIsAwaited, Interactive
    <3> QED
      BY <3>4, <3>5, <3>6, <3>7 DEF InputInv
  <2>3. CASE ~(msg.kind = "frame" /\ msg.id = first /\ session.state = "Loading")
    <3>1. Finished(msg.id, msg.kind, m) /\ UNCHANGED session
      BY <1>11, <2>3 DEF TakeMail
    <3> HIDE DEF m, msg
    <3>2. \A r : Ends(mail, r) \/ Finishing(r) => Ends(m, r) \/ r = msg.id
      BY <1>3, <1>4
    <3> QED
      BY <1>1, <1>3, <1>4, <1>5, <2>1, <3>1, <3>2, FinishedKeeps
  <2> QED
    BY <2>2, <2>3
<1> QED
  BY <1>3, <1>8, <1>9, <1>10, <1>11 DEF Messages


\* A handler routes a frame.
LEMMA RouteKeeps ==
    ASSUME InputInv, NEW who \in {"submit", "cycle", "first"}, Route(who), TodoFits',
           who = "cycle" <=> todo = << Call("cycle", None) >>, todo # << Call("capture", None) >>,
           \A id : Finishing(id) => Finishing(id)',
           UNCHANGED <<queue, session, early, document, caller>>
    PROVE  InputInv'
<1> DEFINE new == Len(asked) + 1
<1>0. /\ UNCHANGED <<inputs, sealed, open, session, early, caller>>
      /\ mail \in Seq(Messages) /\ cycle \in Cycles /\ first \in {None} \cup Requests /\ quiet \in BOOLEAN
      /\ session.load \in Loads
  BY DEF queue, InputInv, KindsFit, Cycles
<1>1. CASE ~(Len(asked) < MaxRequests)
  <2>1. /\ cycle' = IF who = "cycle" THEN FreeCycle ELSE cycle
        /\ quiet' = (quiet \/ who = "cycle")
        /\ UNCHANGED <<asked, stage, mail, wakeup, deadline, replaced, first>>
    BY <1>1 DEF Route, renders, posting
  <2>2. KindsFit' /\ LoadsFit' /\ StagesFit'
    BY <1>0, <2>1, FreeCycleFits DEF InputInv, KindsFit, LoadsFit, StagesFit, Shown, Cycles
  <2>3. CycleFits' /\ WakeupFits'
    BY <1>0, <2>1, FreeCycleFits DEF InputInv, CycleFits, WakeupFits, Routing
  <2>4. StoppingFits' /\ WorkIsAwaited'
    BY <1>0, <2>1 DEF InputInv, StoppingFits, WorkIsAwaited, Interactive, OwnWork
  <2> QED
    BY <2>2, <2>3, <2>4 DEF InputInv
<1>2. CASE Len(asked) < MaxRequests
  <2>1. PICK victim \in {None} \cup Requests : Ask(session.load, victim) /\ Posted(victim)
    BY <1>2 DEF Route
  <2>2. /\ cycle' = IF who = "cycle" THEN [cycle EXCEPT !.request = new] ELSE cycle
        /\ first' = IF who = "first" THEN new ELSE first
        /\ quiet' = quiet
    BY <1>2 DEF Route
  <2>3. /\ new \in Requests /\ asked' = Append(asked, session.load) /\ stage[new] = "new"
        /\ victim = None \/ (victim \in Requests /\ stage[victim] = "waiting")
        /\ stage' \in [Requests -> Stages]
        /\ stage'[new] \in {"waiting", "running", "over"}
        /\ \A r \in Requests \ {new} :
              \/ stage'[r] = stage[r]
              \/ stage[r] = "waiting" /\ stage'[r] \in {"over", "running"}
    BY <1>0, <2>1, AskMoves DEF InputInv
  <2>4. /\ Continues(mail', mail) /\ UNCHANGED <<wakeup, deadline>>
        /\ \A id \in Requests : stage[id] \in Unended /\ stage'[id] \notin Unended /\ id # victim
                                 => Ends(mail', id) /\ Rouses(mail')
        /\ replaced' = replaced \cup ({victim} \ {None})
    BY <1>0, <2>1, PostedEnds
  <2>5. asked \in Seq(Loads) /\ Len(asked) \in Nat
    BY LenProperties DEF InputInv, StagesFit
  <2>6. new # victim
    <3>1. new # None
      BY <2>5 DEF None
    <3> QED
      BY <2>3, <3>1
  <2>7. stage'[new] \in Open \/ (Ends(mail', new) /\ Rouses(mail'))
    BY <2>3, <2>4, <2>6 DEF Open, Unended
  <2>8. \A id : Ends(mail, id) => Ends(mail', id)
    BY <2>4, MoreMessages
  <2>9. ASSUME NEW r \in Requests, stage[r] \in Open
        PROVE  stage'[r] \in Open \/ r \in replaced' \/ Ends(mail', r)
    <3>1. r # new /\ r # None
      BY <2>3, <2>9, InputAssumption DEF Open, Requests, None
    <3>2. stage'[r] \in Open \/ (stage[r] \in Unended /\ stage'[r] \notin Unended)
      BY <2>3, <2>9, <3>1 DEF Open, Unended
    <3> QED
      BY <2>4, <3>1, <3>2
  <2>10. StagesFit'
    <3> HIDE DEF new
    <3>1. /\ asked' \in Seq(Loads) /\ Len(asked') = Len(asked) + 1
          /\ asked'[Len(asked) + 1] = session.load
          /\ \A n \in 1..Len(asked) : asked'[n] = asked[n]
      BY <1>0, <2>3, <2>5, AppendProperties
    <3>2. Len(asked') <= MaxRequests
      BY <1>2, <2>5, <3>1, InputAssumption
    <3>3. ASSUME NEW id \in Requests PROVE stage'[id] = "new" <=> id > Len(asked')
      <4>1. stage[id] = "new" <=> id > Len(asked)
        BY DEF InputInv, StagesFit
      <4>2. CASE id = new
        BY <2>3, <2>5, <3>1, <4>2 DEF new
      <4>3. CASE id # new
        <5>1. stage'[id] = "new" <=> stage[id] = "new"
          BY <2>3, <4>3
        <5>2. id > Len(asked) <=> id > Len(asked')
          BY <2>5, <3>1, <4>3, InputAssumption DEF new, Requests
        <5> QED
          BY <4>1, <5>1, <5>2
      <4> QED
        BY <4>2, <4>3
    <3>4. ASSUME NEW id \in 1..Len(asked'), stage'[id] # "over" PROVE asked'[id] = session'.load
      <4>1. CASE id = new
        BY <1>0, <3>1, <4>1 DEF new
      <4>2. CASE id # new
        <5>1. id \in 1..Len(asked) /\ id \in Requests
          BY <2>5, <3>1, <3>2, <4>2, InputAssumption DEF new, Requests
        <5>2. stage[id] # "over"
          BY <2>3, <3>4, <4>2, <5>1
        <5> QED
          BY <1>0, <3>1, <5>1, <5>2 DEF InputInv, StagesFit
      <4> QED
        BY <4>1, <4>2
    <3> QED
      BY <2>3, <3>1, <3>2, <3>3, <3>4 DEF StagesFit
  <2> HIDE DEF new
  <2>11. KindsFit' /\ LoadsFit'
    <3>1. cycle' \in Cycles /\ first' \in {None} \cup Requests
      BY <1>0, <2>2, <2>3 DEF Cycles
    <3>2. mail' \in Seq(Messages)
      BY <2>4 DEF Continues
    <3> QED
      BY <1>0, <2>2, <2>4, <3>1, <3>2 DEF InputInv, KindsFit, LoadsFit, Shown, Cycles
  <2>12. CycleFits'
    <3>1. CASE who = "cycle"
      <4>1. cycle'.request = new
        BY <1>0, <2>2, <3>1 DEF Cycles
      <4> QED
        BY <2>3, <2>7, <4>1 DEF CycleFits
    <3>2. CASE who # "cycle"
      <4>1. cycle' = cycle /\ ~Routing
        BY <2>2, <3>2 DEF Routing
      <4>2. replaced \subseteq replaced'
        BY <2>4
      <4> QED
        BY <2>8, <2>9, <4>1, <4>2 DEF InputInv, CycleFits
    <3> QED
      BY <3>1, <3>2
  <2>13. WakeupFits' /\ WorkIsAwaited'
    <3>1. At(stage', Open) # {} \/ Rouses(mail')
      BY <2>3, <2>7 DEF At
    <3>2. Wakes(mail) => Wakes(mail')
      BY <2>4, MoreMessages
    <3> QED
      BY <2>4, <3>1, <3>2 DEF InputInv, WakeupFits, WorkIsAwaited
  <2>14. StoppingFits'
    <3>1. At(stage', {"stopping"}) \subseteq At(stage, {"stopping"})
      BY <2>3 DEF At
    <3> QED
      BY <1>0, <2>2, <3>1 DEF InputInv, StoppingFits
  <2> QED
    BY <2>10, <2>11, <2>12, <2>13, <2>14 DEF InputInv
<1> QED
  BY <1>1, <1>2


LEMMA CallOnKeeps ==
    ASSUME InputInv, CallOn
    PROVE  InputInv'
<1> DEFINE call == Head(todo)
<1>1. todo # << >> /\ UNCHANGED caller
  BY DEF CallOn, Waiting
<1>2. CASE call.op \in {"submit", "cycle", "first"}
  <2>1. /\ Route(call.op) /\ todo' = Tail(todo)
        /\ UNCHANGED <<queue, session, early, document, caller>>
    BY <1>1, <1>2 DEF CallOn
  <2>2. CASE todo = << Call("submit", None) >>
    <3>1. call.op = "submit" /\ todo' = << >>
      BY <2>1, <2>2 DEF Call
    <3>2. TodoFits' /\ \A id : ~Finishing(id)
      BY <2>2, <3>1 DEF TodoFits, Finishing, Call
    <3>3. todo # << Call("capture", None) >> /\ todo # << Call("cycle", None) >>
      BY <2>2 DEF Call
    <3> QED
      BY <2>1, <3>1, <3>2, <3>3, RouteKeeps
  <2>3. CASE todo = << Call("cycle", None) >>
    <3>1. call.op = "cycle" /\ todo' = << >>
      BY <2>1, <2>3 DEF Call
    <3>2. TodoFits' /\ \A id : ~Finishing(id)
      BY <2>3, <3>1 DEF TodoFits, Finishing, Call
    <3>3. todo # << Call("capture", None) >>
      BY <2>3 DEF Call
    <3> QED
      BY <2>1, <2>3, <3>1, <3>2, <3>3, RouteKeeps
  <2>4. CASE todo = << Call("activate", None), Call("first", None) >>
    BY <1>2, <2>4 DEF Call
  <2>5. CASE todo = << Call("first", None) >>
    <3>1. call.op = "first" /\ todo' = << >>
      BY <2>1, <2>5 DEF Call
    <3>2. TodoFits' /\ \A id : ~Finishing(id)
      BY <2>5, <3>1 DEF TodoFits, Finishing, Call
    <3>3. todo # << Call("capture", None) >> /\ todo # << Call("cycle", None) >>
      BY <2>5 DEF Call
    <3> QED
      BY <2>1, <3>1, <3>2, <3>3, RouteKeeps
  <2>6. ASSUME session.state = "Loading", NEW id \in Requests, Finishing(id) PROVE InputInv'
    <3>1. todo = << Call("submit", None), Call("finish", id) >>
      BY <1>2, <2>6 DEF Finishing, Call
    <3>2. call.op = "submit" /\ todo' = << Call("finish", id) >>
      BY <2>1, <3>1 DEF Call
    <3>3. TodoFits'
      <4>1. Finishing(id)'
        BY <3>2 DEF Finishing
      <4>2. session'.state = "Loading"
        BY <2>1, <2>6
      <4> QED
        BY <4>1, <4>2 DEF TodoFits
    <3>4. ASSUME NEW r, Finishing(r) PROVE Finishing(r)'
      <4>1. r = id
        BY <3>1, <3>4 DEF Finishing, Call
      <4> QED
        BY <3>2, <4>1 DEF Finishing
    <3>5. todo # << Call("capture", None) >> /\ todo # << Call("cycle", None) >>
      BY <3>1 DEF Call
    <3> QED
      BY <2>1, <3>2, <3>3, <3>4, <3>5, RouteKeeps
  <2>7. call.op \notin {"cancel", "capture"}
    BY <1>2
  <2> QED
    BY <1>1, <2>2, <2>3, <2>4, <2>5, <2>6, <2>7 DEF InputInv, TodoFits, Call
<1>3. CASE call.op \in {"cancel", "activate"}
  <2> DEFINE ids == IF call.op = "cancel" THEN OfLoad(session.load)
                    ELSE 1..Len(asked) \ OfLoad(session.load)
  <2>1. /\ GiveUp(ids) /\ Posted(None) /\ todo' = Tail(todo)
        /\ UNCHANGED <<inputs, sealed, open, caller, session, cycle, early, first, quiet>>
    BY <1>1, <1>3 DEF CallOn, queue
  <2>2. /\ Moves(stage') /\ UNCHANGED asked
        /\ \A r \in Requests : r \notin ids /\ stage[r] # "waiting" => stage'[r] = stage[r]
    <3> HIDE DEF ids
    <3> QED
      BY <2>1, GiveUpMoves DEF InputInv
  <2>3. todo \notin {<< Call("cycle", None) >>} /\ \A id : ~Finishing(id)
    BY <1>3 DEF Finishing, Call
  <2>4. \/ call.op = "cancel" /\ todo = << Call("cancel", None), Call("capture", None) >>
        \/ call.op = "cancel" /\ todo = << Call("cancel", None) >> /\ session.state = "Leaving"
        \/ /\ call.op = "activate" /\ todo = << Call("activate", None), Call("first", None) >>
           /\ session.state = "Loading"
    BY <1>1, <1>3, <2>3 DEF InputInv, TodoFits, Call
  <2>5. TodoFits'
    <3>1. CASE todo = << Call("cancel", None), Call("capture", None) >>
      <4>1. todo' = << Call("capture", None) >>
        BY <2>1, <3>1 DEF Call
      <4> QED
        BY <4>1 DEF TodoFits
    <3>2. CASE todo = << Call("cancel", None) >>
      <4>1. todo' = << >>
        BY <2>1, <3>2 DEF Call
      <4> QED
        BY <4>1 DEF TodoFits
    <3>3. CASE /\ todo = << Call("activate", None), Call("first", None) >>
               /\ session.state = "Loading"
      <4>1. todo' = << Call("first", None) >> /\ session'.state = "Loading"
        BY <2>1, <3>3 DEF Call
      <4> QED
        BY <4>1 DEF TodoFits
    <3> QED
      BY <2>4, <3>1, <3>2, <3>3
  <2>6. StoppingFits'
    <3>1. CASE call.op = "cancel"
      <4>1. CASE todo = << Call("cancel", None), Call("capture", None) >>
        <5>1. todo' = << Call("capture", None) >>
          BY <2>1, <4>1 DEF Call
        <5> QED
          BY <5>1 DEF StoppingFits
      <4>2. CASE session.state = "Leaving"
        BY <2>1, <4>2 DEF StoppingFits
      <4> QED
        BY <2>4, <3>1, <4>1, <4>2
    <3>2. CASE call.op = "activate"
      <4>1. ASSUME NEW r \in Requests, stage'[r] = "stopping", stage[r] # "stopping" PROVE FALSE
        <5>1. stage[r] = "running" /\ r \in ids
          BY <2>2, <4>1 DEF Moves
        <5>2. r \in 1..Len(asked) /\ asked[r] # session.load
          BY <3>2, <5>1 DEF OfLoad
        <5> QED
          BY <5>1, <5>2 DEF InputInv, StagesFit
      <4>2. At(stage', {"stopping"}) \subseteq At(stage, {"stopping"})
        BY <4>1 DEF At
      <4>3. At(stage, {"stopping"}) # {} => quiet
        BY <2>4, <3>2 DEF InputInv, StoppingFits, Call
      <4> QED
        BY <2>1, <4>2, <4>3 DEF StoppingFits
    <3> QED
      BY <1>3, <3>1, <3>2
  <2>7. Routing => Routing'
    BY <2>3 DEF Routing
  <2> HIDE DEF ids
  <2> QED
    BY <2>1, <2>2, <2>3, <2>5, <2>6, <2>7, GivingUpKeeps
<1>4. CASE call.op = "capture"
  <2>1. PICK state \in {"Leaving", "Retained"} : session' = [session EXCEPT !.state = state]
    BY <1>4 DEF CallOn
  <2>2. /\ todo' = Tail(todo) /\ UNCHANGED <<inputs, sealed, open, cycle, early, first, quiet>>
        /\ UNCHANGED <<asked, stage, wakeup, mail, deadline, caller, replaced>>
    BY <1>1, <1>4 DEF CallOn, queue, renders, posting
  <2>3. todo = << Call("capture", None) >>
    BY <1>1, <1>4 DEF InputInv, TodoFits, Finishing, Call
  <2>4. todo' = << >> /\ ~Routing /\ \A id : ~Finishing(id)
    BY <2>2, <2>3 DEF Routing, Finishing, Call
  <2>5. /\ session'.load = session.load /\ session'.state = state
        /\ session' \in [state : {"Interactive", "Leaving", "Retained", "Loading", "NoImage"},
                         load : Loads]
    BY <2>1 DEF InputInv, KindsFit
  <2>6. KindsFit' /\ StagesFit' /\ TodoFits'
    BY <2>2, <2>4, <2>5 DEF InputInv, KindsFit, StagesFit, TodoFits
  <2>7. LoadsFit'
    <3>1. Shown \subseteq Shown'
      BY <2>5 DEF Shown
    <3> QED
      BY <2>2, <3>1 DEF InputInv, LoadsFit
  <2>8. CycleFits' /\ WakeupFits'
    BY <2>2, <2>4 DEF InputInv, CycleFits, WakeupFits
  <2>9. StoppingFits' /\ WorkIsAwaited'
    BY <2>5 DEF StoppingFits, WorkIsAwaited, Interactive
  <2> QED
    BY <2>6, <2>7, <2>8, <2>9 DEF InputInv
<1>5. CASE call.op = "finish"
  <2>1. Finished(call.id, "frame", mail) /\ UNCHANGED <<renders, session, first, caller, replaced>>
    BY <1>1, <1>5 DEF CallOn
  <2>2. PICK id \in Requests : session.state = "Loading" /\ todo = << Call("finish", id) >>
    BY <1>1, <1>5 DEF InputInv, TodoFits, Finishing, Call
  <2>3. call.id = id
    BY <2>2 DEF Call
  <2>4. ~Routing /\ \A r : Finishing(r) => r = id
    BY <2>2 DEF Routing, Finishing, Call
  <2>5. At(stage, {"stopping"}) # {} => quiet \/ session.state \in {"Leaving", "Retained"}
    BY <2>2 DEF InputInv, StoppingFits, Call
  <2>6. mail \in Seq(Messages) /\ (wakeup => Wakes(mail))
    BY DEF InputInv, KindsFit, WakeupFits
  <2> HIDE DEF call
  <2> QED
    BY <2>1, <2>3, <2>4, <2>5, <2>6, FinishedKeeps
<1>6. call.op \in {"submit", "cycle", "first", "cancel", "activate", "capture", "finish"}
  BY DEF CallOn
<1> QED
  BY <1>2, <1>3, <1>4, <1>5, <1>6


\* The queue of a session that is left, with its own open sequence sealed.
LEMMA LeaveKeeps ==
    ASSUME InputInv, Leave
    PROVE  InputInv'
<1> DEFINE own == open.load = session.load
           rest == IF own THEN << Extended(session.load, "Release", None) >>
                   ELSE IF open.value # None THEN << open >> ELSE << >>
           batches == sealed \o rest
           last == IF own THEN Len(batches) ELSE Len(sealed)
           Fit(b) == b \in Batches /\ b.load \in Shown \cup {NoLoad}
<1>1. /\ todo = << >> /\ session.state \in {"Interactive", "Retained"}
      /\ UNCHANGED <<asked, stage, cycle, early, first, quiet, wakeup, mail, deadline, caller, replaced>>
      /\ inputs' = IF own THEN Append(inputs, [load |-> session.load, kind |-> "Release"]) ELSE inputs
  BY DEF Leave, Waiting, renders, posting
<1>2. \/ /\ sealed' = << >> /\ session' = session
         /\ open' = IF own THEN NoBatch ELSE [open EXCEPT !.value = None]
         /\ todo' = << Call("cancel", None), Call("capture", None) >>
      \/ \E k \in DOMAIN batches :
            /\ sealed' = SubSeq(batches, k + 1, last)
            /\ open' = IF own THEN NoBatch ELSE open
            /\ session' = [session EXCEPT !.state = "Retained"] /\ todo' = todo
  BY DEF Leave
<1>3. /\ KindsFit /\ LoadsFit /\ sealed \in Seq(Batches) /\ open \in Batches /\ session.load \in Shown
      /\ session.load \in Loads /\ NoLoad \notin Loads
  BY <1>1, InputAssumption DEF InputInv, KindsFit, Shown
<1>4. inputs' \in Seq([load : Loads \cup {NoLoad}, kind : Kinds])
  <2>1. [load |-> session.load, kind |-> "Release"] \in [load : Loads \cup {NoLoad}, kind : Kinds]
    BY <1>3 DEF Kinds
  <2> QED
    BY <1>1, <2>1, AppendProperties DEF InputInv, KindsFit
<1>5. NoBatch \in Batches /\ NoBatch.load = NoLoad /\ [open EXCEPT !.value = None] \in Batches
  BY <1>3 DEF NoBatch, Batch, Batches, None, Seals
<1>6. CycleFits' /\ WakeupFits'
  <2>1. ~Routing /\ \A id : ~Finishing(id)
    BY <1>1 DEF Routing, Finishing
  <2> QED
    BY <1>1, <2>1 DEF InputInv, CycleFits, WakeupFits
<1>7. ASSUME /\ sealed' = << >> /\ session' = session
             /\ open' = IF own THEN NoBatch ELSE [open EXCEPT !.value = None]
             /\ todo' = << Call("cancel", None), Call("capture", None) >>
      PROVE  InputInv'
  <2>1. << >> \in Seq(Batches) /\ Len(<< >>) = 0
    OBVIOUS
  <2>2. open' \in Batches /\ open'.load \in {NoLoad, open.load} /\ open'.load # session.load
    BY <1>3, <1>5, <1>7 DEF Batches
  <2>3. KindsFit' /\ StagesFit'
    BY <1>1, <1>4, <1>7, <2>1, <2>2 DEF InputInv, KindsFit, StagesFit
  <2>4. LoadsFit'
    BY <1>1, <1>7, <2>1, <2>2 DEF InputInv, LoadsFit, Shown
  <2>5. TodoFits'
    BY <1>7 DEF TodoFits
  <2>6. StoppingFits'
    BY <1>1, <1>7 DEF InputInv, StoppingFits
  <2>7. ~OwnWork'
    BY <1>7, <2>2 DEF OwnWork
  <2> QED
    BY <1>6, <2>3, <2>4, <2>5, <2>6, <2>7 DEF InputInv, WorkIsAwaited
<1>8. ASSUME NEW k \in DOMAIN batches,
             /\ sealed' = SubSeq(batches, k + 1, last)
             /\ open' = IF own THEN NoBatch ELSE open
             /\ session' = [session EXCEPT !.state = "Retained"] /\ todo' = todo
      PROVE  InputInv'
  <2>1. rest \in Seq(Batches) /\ \A n \in 1..Len(rest) : Fit(rest[n])
    <3>1. Fit(Extended(session.load, "Release", None))
      BY <1>3, ExtendedKept DEF Kinds, None
    <3>2. Fit(open)
      BY <1>3 DEF LoadsFit
    <3>3. CASE own
      <4> DEFINE b == Extended(session.load, "Release", None)
      <4>1. rest = << b >>
        BY <3>3
      <4> HIDE DEF b, rest
      <4>2. Len(rest) = 1 /\ rest[1] = b
        BY <4>1
      <4> QED
        BY <3>1, <4>1, <4>2 DEF b
    <3>4. CASE ~own /\ open.value # None
      <4>1. rest = << open >>
        BY <3>4
      <4> HIDE DEF rest
      <4> QED
        BY <3>2, <4>1
    <3>5. CASE ~own /\ open.value = None
      <4>1. rest = << >>
        BY <3>5
      <4> HIDE DEF rest
      <4> QED
        BY <4>1
    <3> QED
      BY <3>3, <3>4, <3>5
  <2> HIDE DEF rest
  <2>2. /\ batches \in Seq(Batches) /\ Len(batches) = Len(sealed) + Len(rest)
        /\ \A n \in 1..Len(batches) : batches[n] = IF n <= Len(sealed) THEN sealed[n]
                                                   ELSE rest[n - Len(sealed)]
        /\ Len(sealed) \in Nat /\ Len(rest) \in Nat
    BY <1>3, <2>1, ConcatProperties, LenProperties
  <2>3. ASSUME NEW n \in 1..Len(batches) PROVE Fit(batches[n])
    <3>1. CASE n <= Len(sealed)
      BY <1>3, <2>2, <3>1, ElementOfSeq DEF LoadsFit
    <3>2. CASE ~(n <= Len(sealed))
      <4>1. n - Len(sealed) \in 1..Len(rest)
        BY <2>2, <3>2
      <4> QED
        BY <2>1, <2>2, <3>2, <4>1
    <3> QED
      BY <3>1, <3>2
  <2>4. k \in 1..Len(batches) /\ last \in Nat /\ last <= Len(batches)
    BY <1>8, <2>2
  <2> HIDE DEF batches, last
  <2>5. k + 1 \in Int /\ last \in Int /\ \A n \in (k + 1)..last : n \in 1..Len(batches)
    BY <2>2, <2>4
  <2>6. /\ sealed' \in Seq(Batches)
        /\ Len(sealed') = IF k + 1 <= last THEN last - (k + 1) + 1 ELSE 0
        /\ \A n \in 1..last - (k + 1) + 1 : sealed'[n] = batches[(k + 1) + n - 1]
    <3>1. \A n \in (k + 1)..last : batches[n] \in Batches
      BY <2>3, <2>5
    <3> QED
      BY <1>8, <2>5, <3>1, SubSeqProperties
  <2>7. ASSUME NEW n \in 1..Len(sealed') PROVE sealed'[n].load \in Shown \cup {NoLoad}
    <3>1. n \in 1..last - (k + 1) + 1 /\ (k + 1) + n - 1 \in (k + 1)..last
      BY <2>4, <2>6
    <3> QED
      BY <2>3, <2>5, <2>6, <3>1
  <2>8. /\ session' \in [state : {"Interactive", "Leaving", "Retained", "Loading", "NoImage"},
                         load : Loads]
        /\ session'.load = session.load /\ session'.state = "Retained"
    BY <1>3, <1>8 DEF KindsFit
  <2>9. open' \in Batches /\ open'.load \in {NoLoad, open.load}
    BY <1>3, <1>5, <1>8
  <2>10. KindsFit' /\ StagesFit' /\ TodoFits'
    BY <1>1, <1>4, <1>8, <2>6, <2>8, <2>9 DEF InputInv, KindsFit, StagesFit, TodoFits
  <2>11. LoadsFit'
    <3>1. Shown' = Shown
      BY <1>1, <2>8 DEF Shown
    <3> QED
      BY <1>1, <1>3, <2>7, <2>9, <3>1 DEF LoadsFit
  <2>12. StoppingFits' /\ WorkIsAwaited'
    BY <2>8 DEF StoppingFits, WorkIsAwaited, Interactive
  <2> QED
    BY <1>6, <2>10, <2>11, <2>12 DEF InputInv
<1> QED
  BY <1>2, <1>7, <1>8

LEMMA LeavingEndsKeeps ==
    ASSUME InputInv, LeavingEnds
    PROVE  InputInv'
<1>1. /\ todo = << >> /\ session.state = "Leaving"
      /\ UNCHANGED <<asked, stage, inputs, sealed, open, cycle, early, first, quiet, caller>>
      /\ UNCHANGED <<wakeup, mail, deadline, replaced>>
  BY DEF LeavingEnds, Waiting, renders, queue, posting
<1>2. KindsFit /\ StagesFit /\ LoadsFit /\ session.load \in Loads /\ Loads \subseteq Nat
  BY LoadsAreNumbers DEF InputInv, KindsFit
<1>3. CycleFits' /\ WakeupFits'
  <2>1. ~Routing /\ \A id : ~Finishing(id)
    BY <1>1 DEF Routing, Finishing
  <2> QED
    BY <1>1, <2>1 DEF InputInv, CycleFits, WakeupFits
<1>4. ASSUME (Held(stage) \cup At(stage, Open)) \cap OfLoad(session.load) = {}
      PROVE  /\ \A id \in 1..Len(asked) : stage[id] = "over"
             /\ At(stage, {"stopping"}) = {}
  <2>1. 1..Len(asked) \subseteq Requests
    <3>1. Len(asked) \in Nat /\ Len(asked) <= MaxRequests
      BY <1>2, LenProperties DEF StagesFit
    <3> QED
      BY <3>1, InputAssumption DEF Requests
  <2>2. ASSUME NEW id \in 1..Len(asked), stage[id] # "over" PROVE FALSE
    <3>1. id \in OfLoad(session.load)
      BY <1>2, <2>2 DEF StagesFit, OfLoad
    <3>2. id \in Requests /\ stage[id] \in Stages /\ stage[id] # "new"
      <4>1. id \in Requests /\ ~(id > Len(asked))
        BY <1>2, <2>1, LenProperties DEF StagesFit
      <4> QED
        BY <1>2, <4>1 DEF StagesFit
    <3> QED
      BY <1>4, <2>2, <3>1, <3>2 DEF Held, At, Open, Stages
  <2>3. ASSUME NEW id \in Requests, stage[id] = "stopping" PROVE FALSE
    <3>1. id \in 1..Len(asked)
      BY <1>2, <2>3, InputAssumption, LenProperties DEF StagesFit, Requests
    <3> QED
      BY <2>2, <2>3, <3>1
  <2> QED
    BY <2>2, <2>3 DEF At
<1>5. ASSUME NEW state \in {"Loading", "NoImage", "Retained"}, NEW l \in Loads,
             session' = [state |-> state, load |-> l],
             l = IF state = "Loading" THEN session.load + 1 ELSE session.load, TodoFits',
             \/ state = "Retained"
             \/ (Held(stage) \cup At(stage, Open)) \cap OfLoad(session.load) = {}
      PROVE  InputInv'
  <2>1. KindsFit'
    BY <1>1, <1>2, <1>5 DEF KindsFit
  <2>2. StagesFit'
    BY <1>1, <1>2, <1>4, <1>5 DEF StagesFit
  <2>3. LoadsFit'
    <3>1. Shown \subseteq Shown'
      <4>1. ASSUME NEW x \in Loads, x < session.load \/ x = session.load
            PROVE  x < l \/ (x = l /\ state # "Loading")
        <5>1. x \in Nat /\ session.load \in Nat
          BY <1>2
        <5> QED
          BY <1>5, <4>1, <5>1
      <4> QED
        BY <1>5, <4>1 DEF Shown
    <3> QED
      BY <1>1, <1>2, <3>1 DEF LoadsFit
  <2>4. StoppingFits'
    BY <1>1, <1>4, <1>5 DEF StoppingFits
  <2>5. WorkIsAwaited'
    BY <1>5 DEF WorkIsAwaited, Interactive
  <2> QED
    BY <1>3, <1>5, <2>1, <2>2, <2>3, <2>4, <2>5 DEF InputInv
<1>6. session = [state |-> session.state, load |-> session.load]
  BY <1>2 DEF KindsFit
<1>7. CASE /\ (Held(stage) \cup At(stage, Open)) \cap OfLoad(session.load) = {}
           /\ session.load + 1 \in Loads
           /\ session' = [state |-> "Loading", load |-> session.load + 1]
           /\ todo' = << Call("activate", None), Call("first", None) >>
  <2>1. TodoFits'
    BY <1>7 DEF TodoFits
  <2> QED
    BY <1>5, <1>7, <2>1
<1>8. CASE /\ (Held(stage) \cup At(stage, Open)) \cap OfLoad(session.load) = {}
           /\ session' = [session EXCEPT !.state = "NoImage"] /\ todo' = todo
  <2>1. TodoFits' /\ session' = [state |-> "NoImage", load |-> session.load]
    BY <1>1, <1>6, <1>8 DEF TodoFits
  <2> QED
    BY <1>2, <1>5, <1>8, <2>1
<1>9. CASE session' = [session EXCEPT !.state = "Retained"] /\ todo' = todo
  <2>1. TodoFits' /\ session' = [state |-> "Retained", load |-> session.load]
    BY <1>1, <1>6, <1>9 DEF TodoFits
  <2> QED
    BY <1>2, <1>5, <2>1
<1> QED
  BY <1>7, <1>8, <1>9 DEF LeavingEnds

\* What the session is told while it is left or works.
LEMMA CommandKeeps ==
    ASSUME InputInv, Discard \/ Stay \/ OtherRender
    PROVE  InputInv'
<1>1. /\ todo = << >>
      /\ UNCHANGED <<asked, stage, inputs, sealed, open, cycle, early, first, caller>>
      /\ UNCHANGED <<wakeup, mail, deadline, replaced>>
      /\ \/ /\ session.state = "Retained" /\ session' = [session EXCEPT !.state = "Leaving"]
            /\ todo' = << Call("cancel", None) >> /\ quiet' = quiet
         \/ /\ session.state = "Retained" /\ session' = [session EXCEPT !.state = "Interactive"]
            /\ todo' = todo /\ quiet' = TRUE
         \/ session' = session /\ todo' = << Call("submit", None) >> /\ quiet' = quiet
  BY DEF Discard, Stay, OtherRender, Waiting, renders, queue, posting
<1>2. /\ session' \in [state : {"Interactive", "Leaving", "Retained", "Loading", "NoImage"},
                       load : Loads]
      /\ session'.load = session.load
      /\ session'.state # "Loading" \/ session' = session
      /\ session'.state = "Leaving" \/ todo' = << >> \/ todo' = << Call("submit", None) >>
  BY <1>1 DEF InputInv, KindsFit
<1>3. KindsFit' /\ StagesFit'
  <2>1. quiet' \in BOOLEAN
    BY <1>1 DEF InputInv, KindsFit
  <2> QED
    BY <1>1, <1>2, <2>1 DEF InputInv, KindsFit, StagesFit
<1>4. LoadsFit'
  <2>1. Shown' = Shown
    BY <1>1, <1>2 DEF Shown
  <2> QED
    BY <1>1, <2>1 DEF InputInv, LoadsFit
<1>5. TodoFits'
  BY <1>1, <1>2 DEF TodoFits
<1>6. CycleFits' /\ WakeupFits'
  <2>1. ~Routing /\ \A id : ~Finishing(id)
    BY <1>1 DEF Routing, Finishing
  <2> QED
    BY <1>1, <2>1 DEF InputInv, CycleFits, WakeupFits
<1>7. StoppingFits' /\ WorkIsAwaited'
  BY <1>1, <1>2 DEF InputInv, KindsFit, StoppingFits, WorkIsAwaited, Interactive, OwnWork
<1> QED
  BY <1>3, <1>4, <1>5, <1>6, <1>7 DEF InputInv

LEMMA InputStarts == InputInit => InputInv
<1> SUFFICES ASSUME InputInit PROVE InputInv
  OBVIOUS
<1>1. /\ asked = << >> /\ stage = [id \in Requests |-> "new"]
      /\ session = [state |-> "Interactive", load |-> 1]
      /\ inputs = << >> /\ caller = NoCaller /\ sealed = << >> /\ open = NoBatch
      /\ wakeup = FALSE /\ mail = << >> /\ cycle = FreeCycle
      /\ early = FALSE /\ deadline = FALSE /\ todo = << >> /\ first = None /\ quiet = FALSE
  BY DEF InputInit, RequestsInit
<1>2. KindsFit
  <2>1. /\ session \in [state : {"Interactive", "Leaving", "Retained", "Loading", "NoImage"},
                          load : Loads]
        /\ caller \in [at : {"idle", "read", "admitted"}, load : Loads \cup {NoLoad},
                        kind : Kinds \cup {"None"}]
        /\ caller.at # "read" /\ NoBatch \in Batches
    BY <1>1, InputAssumption DEF NoCaller, NoBatch, Batch, Batches, None, Seals
  <2>2. /\ inputs \in Seq([load : Loads \cup {NoLoad}, kind : Kinds])
        /\ sealed \in Seq(Batches) /\ mail \in Seq(Messages)
    BY <1>1
  <2>3. cycle \in [holds : BOOLEAN, interactive : BOOLEAN, request : {None} \cup Requests]
    BY <1>1, FreeCycleFits DEF Cycles
  <2> QED
    BY <1>1, <2>1, <2>2, <2>3 DEF KindsFit
<1>3. StagesFit
  <2>1. \A id \in Requests : id > 0
    BY InputAssumption DEF Requests
  <2> QED
    BY <1>1, <2>1, InputAssumption DEF StagesFit, Stages
<1>4. LoadsFit
  BY <1>1 DEF LoadsFit, NoCaller, NoBatch, Batch
<1>5. TodoFits /\ CycleFits /\ WakeupFits /\ StoppingFits
  BY <1>1, FreeCycleFits DEF TodoFits, CycleFits, WakeupFits, StoppingFits, At
<1>6. WorkIsAwaited
  BY <1>1, InputAssumption DEF WorkIsAwaited, OwnWork, NoBatch, Batch
<1> QED
  BY <1>2, <1>3, <1>4, <1>5, <1>6 DEF InputInv

LEMMA InputStepKeeps == InputInv /\ [InputNext]_all => InputInv'
<1> SUFFICES ASSUME InputInv, [InputNext]_all PROVE InputInv'
  OBVIOUS
<1>1. CASE UNCHANGED all
  <2>1. /\ UNCHANGED <<asked, stage, inputs, sealed, open, session, cycle, early, todo, first, quiet>>
        /\ UNCHANGED <<wakeup, mail, deadline, caller, replaced>>
    BY <1>1 DEF all, renders, queue, owner, posting
  <2>2. KindsFit' /\ LoadsFit' /\ StagesFit'
    BY <2>1 DEF InputInv, KindsFit, LoadsFit, StagesFit, Shown
  <2>3. TodoFits' /\ CycleFits' /\ WakeupFits' /\ StoppingFits'
    BY <2>1 DEF InputInv, TodoFits, CycleFits, Routing, Finishing, WakeupFits, StoppingFits
  <2>4. WorkIsAwaited'
    BY <2>1 DEF InputInv, WorkIsAwaited, Interactive, OwnWork
  <2> QED
    BY <2>2, <2>3, <2>4 DEF InputInv
<1>2. CASE InputNext
  BY <1>2, OfferKeeps, RefuseKeeps, AdmitKeeps, RequestConsumeKeeps, JobReturnsKeeps, JobStartsKeeps,
     ClockKeeps, TakeMailKeeps, CallOnKeeps, LeaveKeeps, LeavingEndsKeeps, CommandKeeps DEF InputNext
<1> QED
  BY <1>1, <1>2

LEMMA InputFits == InputSpec => []InputInv
BY InputStarts, InputStepKeeps, PTL DEF InputSpec

\* Input never waits for nobody, for any number of images, inputs and renders: a
\* cycle is held for a request that still reports its end, and input of the
\* image the editor shows is behind something that makes the owner look at it
\* (editor_session_service.cpp:1833-1842, 1890-1945, 2106-2122).
THEOREM InputIsAlwaysAwaited == InputSpec => []InputIsAwaited
<1>1. ASSUME InputInv PROVE InputIsAwaited
  <2> SUFFICES ASSUME Waiting PROVE InputIsAwaited
    BY DEF InputIsAwaited
  <2>1. ~Routing /\ \A id : ~Finishing(id)
    BY DEF Waiting, Routing, Finishing
  <2>2. DOMAIN mail = 1..Len(mail)
    BY <1>1 DEF InputInv, KindsFit
  <2>3. cycle.holds => \/ stage[cycle.request] \in Open \/ cycle.request \in replaced
                       \/ Ends(mail, cycle.request)
    BY <1>1, <2>1 DEF InputInv, CycleFits
  <2>4. Interactive /\ OwnWork /\ ~cycle.holds =>
           \/ Rouses(mail) \/ caller.at = "admitted" \/ deadline \/ quiet \/ At(stage, Open) # {}
    BY <1>1 DEF InputInv, WorkIsAwaited
  <2> QED
    BY <2>2, <2>3, <2>4 DEF InputIsAwaited, Ends, Rouses
<1> QED
  BY <1>1, InputFits, PTL


----------------------------------------------------------------------------
\* What becomes of the input.

\* The inputs of an image that are the newest write of a released sequence.
Released(l) ==
    {i \in 1..Len(inputs) :
        /\ inputs[i].load = l /\ inputs[i].kind \in Writes
        /\ \E j \in 1..Len(inputs) :
              /\ EndedBy(i, j) /\ inputs[j].kind # "Cancel"
              /\ \A k \in (i + 1)..j : inputs[k].load = l => inputs[k].kind \notin Writes}

\* A sealed sequence holds a released write, an open one the newest input of
\* all, and they are queued in the order they were admitted.
QueueFits ==
    /\ caller.at = "read" => caller.load \in Loads
    /\ open.seal = "None"
    /\ open.value # None =>
          /\ open.load \in Loads /\ open.value = Len(inputs)
          /\ inputs[open.value] = [load |-> open.load, kind |-> "Write"]
    /\ \A n \in 1..Len(sealed) : sealed[n].value # None =>
          /\ sealed[n].seal = "Release" /\ sealed[n].value \in Released(sealed[n].load)
          /\ open.value # None => sealed[n].value < open.value
    /\ \A m, n \in 1..Len(sealed) :
          m < n /\ sealed[m].value # None /\ sealed[n].value # None => sealed[m].value < sealed[n].value

\* A history c of values of R, each newer than the one before, that i continues.
History(c, R) ==
    /\ c \in Seq(Nat) /\ \A n \in 1..Len(c) : c[n] \in R
    /\ \A n \in 2..Len(c) : c[n - 1] < c[n]
Below(c, i) == \A n \in 1..Len(c) : c[n] < i

\* The histories hold released writes, and what is queued continues them.
HistoriesFit ==
    /\ document \in [Loads -> Documents]
    /\ \A l \in Loads :
          /\ History(document[l].commits, Released(l))
          /\ open.load = l /\ open.value # None => Below(document[l].commits, open.value)
          /\ \A n \in 1..Len(sealed) :
                sealed[n].load = l /\ sealed[n].value # None => Below(document[l].commits, sealed[n].value)

CommitsInv == QueueFits /\ HistoriesFit

\* More input releases no less.
LEMMA ReleasedGrows ==
    ASSUME NEW l, Len(inputs) \in Nat, Len(inputs) <= Len(inputs)', Len(inputs)' \in Nat,
           \A n \in 1..Len(inputs) : inputs'[n] = inputs[n]
    PROVE  Released(l) \subseteq Released(l)'
<1> SUFFICES ASSUME NEW i \in Released(l) PROVE i \in Released(l)'
  OBVIOUS
<1>1. PICK j \in 1..Len(inputs) :
         /\ EndedBy(i, j) /\ inputs[j].kind # "Cancel"
         /\ \A k \in (i + 1)..j : inputs[k].load = l => inputs[k].kind \notin Writes
  BY DEF Released
<1>2. i \in 1..Len(inputs) /\ inputs[i].load = l /\ inputs[i].kind \in Writes
  BY DEF Released
<1>3. i \in 1..Len(inputs)' /\ j \in 1..Len(inputs)' /\ inputs'[i] = inputs[i] /\ inputs'[j] = inputs[j]
  BY <1>2
<1>4. \A k \in i..j : k \in 1..Len(inputs)
  BY <1>2
<1>5. EndedBy(i, j)'
  <2>1. \A k \in i..(j - 1) : k \in 1..Len(inputs) /\ k \in i..j
    BY <1>2
  <2>2. j \in i..Len(inputs)'
    BY <1>1, <1>2 DEF EndedBy
  <2> QED
    BY <1>1, <1>3, <2>1, <2>2 DEF EndedBy
<1>6. \A k \in (i + 1)..j : inputs'[k].load = l => inputs'[k].kind \notin Writes
  <2>1. \A k \in (i + 1)..j : k \in 1..Len(inputs)
    BY <1>2
  <2> QED
    BY <1>1, <2>1
<1> QED
  BY <1>1, <1>2, <1>3, <1>5, <1>6 DEF Released

\* A boundary of the image releases the write that is still open.
LEMMA BoundaryReleases ==
    ASSUME NEW l, NEW n \in Nat, Len(inputs) = n, Len(inputs)' = n + 1,
           \A m \in 1..n : inputs'[m] = inputs[m]
    PROVE  /\ (inputs'[n + 1] = [load |-> l, kind |-> "Release"] /\ n # 0
                  /\ inputs[n] = [load |-> l, kind |-> "Write"]) => n \in Released(l)'
           /\ inputs'[n + 1] = [load |-> l, kind |-> "Settled"] => n + 1 \in Released(l)'
<1>1. ASSUME /\ inputs'[n + 1] = [load |-> l, kind |-> "Release"]
             /\ n # 0 /\ inputs[n] = [load |-> l, kind |-> "Write"]
      PROVE  n \in Released(l)'
  <2>1. /\ n \in 1..Len(inputs)' /\ n + 1 \in 1..Len(inputs)' /\ n + 1 \in n..Len(inputs)'
        /\ inputs'[n] = [load |-> l, kind |-> "Write"]
        /\ \A k \in n..((n + 1) - 1) : k = n
        /\ \A k \in (n + 1)..(n + 1) : k = n + 1
    BY <1>1
  <2>2. EndedBy(n, n + 1)'
    BY <1>1, <2>1 DEF EndedBy
  <2> QED
    BY <1>1, <2>1, <2>2 DEF Released, Writes
<1>2. ASSUME inputs'[n + 1] = [load |-> l, kind |-> "Settled"] PROVE n + 1 \in Released(l)'
  <2>1. /\ n + 1 \in 1..Len(inputs)' /\ n + 1 \in (n + 1)..Len(inputs)'
        /\ \A k \in (n + 1)..((n + 1) - 1) : FALSE
        /\ \A k \in ((n + 1) + 1)..(n + 1) : FALSE
    OBVIOUS
  <2>2. EndedBy(n + 1, n + 1)'
    BY <1>2, <2>1 DEF EndedBy
  <2> QED
    BY <1>2, <2>1, <2>2 DEF Released, Writes
<1> QED
  BY <1>1, <1>2

\* One more value of a history.
LEMMA HistoryGrows ==
    ASSUME NEW R, NEW c, History(c, R), NEW i \in Nat, i \in R, Below(c, i)
    PROVE  /\ History(Append(c, i), R)
           /\ \A x \in Nat : Below(c, x) /\ i < x => Below(Append(c, i), x)
<1> DEFINE a == Append(c, i)
<1>1. /\ a \in Seq(Nat) /\ Len(a) = Len(c) + 1 /\ Len(c) \in Nat
      /\ a[Len(c) + 1] = i /\ \A n \in 1..Len(c) : a[n] = c[n]
  BY AppendProperties DEF History
<1> HIDE DEF a
<1>2. \A n \in 1..Len(a) : n = Len(c) + 1 \/ n \in 1..Len(c)
  BY <1>1
<1>3. ASSUME NEW n \in 2..Len(a) PROVE a[n - 1] < a[n]
  <2>1. n - 1 \in 1..Len(c) /\ a[n - 1] = c[n - 1]
    <3>1. n - 1 \in 1..Len(c)
      BY <1>1
    <3> QED
      BY <1>1, <3>1
  <2>2. CASE n = Len(c) + 1
    <3>1. c[n - 1] < i
      BY <2>1 DEF Below
    <3> QED
      BY <1>1, <2>1, <2>2, <3>1
  <2>3. CASE n \in 2..Len(c)
    <3>1. n \in 1..Len(c)
      BY <1>1, <2>3
    <3> QED
      BY <1>1, <2>1, <2>3, <3>1 DEF History
  <2> QED
    BY <1>1, <2>2, <2>3
<1>4. History(a, R)
  BY <1>1, <1>2, <1>3 DEF History
<1>5. \A x \in Nat : Below(c, x) /\ i < x => Below(a, x)
  BY <1>1, <1>2 DEF Below
<1> QED
  BY <1>4, <1>5 DEF a

LEMMA HandledCommits ==
    ASSUME NEW d \in Documents, NEW b \in Batches
    PROVE  /\ Handled(d, b) \in Documents /\ Restored(d) \in Documents
           /\ Restored(d).commits = d.commits
           /\ Handled(d, b).commits = IF b.seal = "Release" /\ b.value # None
                                      THEN Append(d.commits, b.value) ELSE d.commits
<1>1. Restored(d) \in Documents /\ Restored(d).commits = d.commits
  <2>1. CASE d.before = -1
    BY <2>1 DEF Restored
  <2>2. CASE d.before # -1
    <3>1. d.before \in Nat
      BY <2>2 DEF Documents
    <3> QED
      BY <2>2, <3>1 DEF Restored, Documents
  <2> QED
    BY <2>1, <2>2
<1>2. CASE b.seal = "Cancel"
  BY <1>1, <1>2 DEF Handled
<1>3. CASE b.seal # "Cancel" /\ b.value = None
  BY <1>1, <1>3 DEF Handled
<1>4. CASE b.seal = "Release" /\ b.value # None
  <2>1. Append(d.commits, b.value) \in Seq(Nat) /\ b.value \in Nat
    BY AppendProperties DEF Documents, Batches
  <2>2. Handled(d, b) = [live |-> b.value, before |-> -1, commits |-> Append(d.commits, b.value)]
    BY <1>4 DEF Handled
  <2> QED
    BY <1>1, <1>4, <2>1, <2>2 DEF Documents
<1>5. CASE b.seal = "None" /\ b.value # None
  <2>1. Handled(d, b) = [d EXCEPT !.live = b.value, !.before = IF @ = -1 THEN d.live ELSE @]
    BY <1>5 DEF Handled
  <2>2. b.value \in Nat /\ d.live \in Nat /\ d.before \in Nat \cup {-1}
    BY DEF Documents, Batches
  <2> QED
    BY <1>1, <1>5, <2>1, <2>2 DEF Documents
<1> QED
  BY <1>2, <1>3, <1>4, <1>5 DEF Batches, Seals


\* SettledBy by the equations of its recursion.
LEMMA SettledByUnfolds ==
    ASSUME NEW d, NEW bs, Len(bs) \in Nat
    PROVE  \E settled :
              /\ settled[0] = d
              /\ \A i \in 1..Len(bs) :
                    settled[i] = IF bs[i].load = session.load THEN Handled(settled[i - 1], bs[i])
                                 ELSE settled[i - 1]
              /\ SettledBy(d, bs) = settled[Len(bs)]
<1> DEFINE n == Len(bs)
           Step(x, i) == IF bs[i].load = session.load THEN Handled(x, bs[i]) ELSE x
           Upto(f, m) == f = [i \in 0..m |-> IF i = 0 THEN d ELSE Step(f[i - 1], i)]
           T == {m \in Nat : \E f : Upto(f, m)}
           settled[i \in 0..n] == IF i = 0 THEN d
                                  ELSE IF bs[i].load = session.load THEN Handled(settled[i - 1], bs[i])
                                  ELSE settled[i - 1]
<1>1. n \in Nat
  OBVIOUS
<1> HIDE DEF Step
<1>2. 0 \in T
  <2>1. Upto([i \in 0..0 |-> d], 0)
    OBVIOUS
  <2> QED
    BY <2>1
<1>3. ASSUME NEW m \in Nat, m \in T PROVE m + 1 \in T
  <2>1. PICK f : Upto(f, m)
    BY <1>3
  <2> DEFINE last == Step(f[m], m + 1)
             g == [i \in 0..(m + 1) |-> IF i = m + 1 THEN last ELSE f[i]]
             h == [i \in 0..(m + 1) |-> IF i = 0 THEN d ELSE Step(g[i - 1], i)]
  <2>2. ASSUME NEW i \in 0..(m + 1) PROVE g[i] = h[i]
    <3>1. CASE i = m + 1
      <4>1. g[i] = last /\ g[i - 1] = f[m] /\ i # 0
        BY <3>1
      <4>2. h[i] = last
        BY <3>1, <4>1
      <4> QED
        BY <4>1, <4>2
    <3>2. CASE i \in 1..m
      <4>1. g[i] = f[i] /\ g[i - 1] = f[i - 1]
        BY <3>2
      <4>2. f[i] = Step(f[i - 1], i)
        BY <2>1, <3>2
      <4>3. h[i] = f[i]
        <5>1. i \in 0..(m + 1) /\ i # 0
          BY <3>2
        <5> HIDE DEF g
        <5> QED
          BY <4>1, <4>2, <5>1
      <4> HIDE DEF h, g
      <4> QED
        BY <4>1, <4>3
    <3>3. CASE i = 0
      BY <2>1, <3>3
    <3> QED
      BY <3>1, <3>2, <3>3
  <2>3. g = h
    BY <2>2
  <2>4. Upto(g, m + 1)
    <3> HIDE DEF g
    <3> QED
      BY <2>3
  <2> HIDE DEF g, Upto
  <2> QED
    BY <2>4
<1>4. \E f : Upto(f, n)
  <2> HIDE DEF T, Upto, n
  <2>1. Nat \subseteq T
    BY <1>2, <1>3, SetInduction
  <2> QED
    BY <1>1, <2>1 DEF T
<1> HIDE DEF n
<1>5. settled = [i \in 0..n |->
                   IF i = 0 THEN d
                   ELSE IF bs[i].load = session.load THEN Handled(settled[i - 1], bs[i])
                   ELSE settled[i - 1]]
  <2>1. \E f : f = [i \in 0..n |->
                   IF i = 0 THEN d
                   ELSE IF bs[i].load = session.load THEN Handled(f[i - 1], bs[i]) ELSE f[i - 1]]
    BY <1>4 DEF Step
  <2> QED
    BY <2>1
<1>6. SettledBy(d, bs) = settled[n]
  BY DEF SettledBy, n
<1> HIDE DEF settled
<1>7. settled[0] = d
  BY <1>1, <1>5
<1>8. ASSUME NEW i \in 1..n
      PROVE  settled[i] = IF bs[i].load = session.load THEN Handled(settled[i - 1], bs[i])
                          ELSE settled[i - 1]
  <2>1. i \in 0..n /\ i # 0
    BY <1>1
  <2> QED
    BY <1>5, <2>1
<1> QED
  BY <1>6, <1>7, <1>8 DEF n

\* A batch that adds its value to the history of the image.
Adds(b) == b.load = session.load /\ b.seal = "Release" /\ b.value # None

\* The history of the image settled by batches of R that continue it in order,
\* which another value goes on to continue.
LEMMA SettledCommits ==
    ASSUME NEW R, NEW d \in Documents, NEW bs \in Seq(Batches), History(d.commits, R),
           \A n \in 1..Len(bs) : Adds(bs[n]) => bs[n].value \in R /\ Below(d.commits, bs[n].value),
           \A m, n \in 1..Len(bs) : m < n /\ Adds(bs[m]) /\ Adds(bs[n]) => bs[m].value < bs[n].value
    PROVE  /\ SettledBy(d, bs) \in Documents /\ History(SettledBy(d, bs).commits, R)
           /\ \A x \in Nat : /\ Below(d.commits, x)
                             /\ \A n \in 1..Len(bs) : Adds(bs[n]) => bs[n].value < x
                             => Below(SettledBy(d, bs).commits, x)
<1>1. Len(bs) \in Nat /\ \A n \in 1..Len(bs) : bs[n] \in Batches
  BY LenProperties, ElementOfSeq
<1>2. PICK settled :
         /\ settled[0] = d
         /\ \A i \in 1..Len(bs) :
               settled[i] = IF bs[i].load = session.load THEN Handled(settled[i - 1], bs[i])
                            ELSE settled[i - 1]
         /\ SettledBy(d, bs) = settled[Len(bs)]
  BY <1>1, SettledByUnfolds
<1> DEFINE Fine(n) ==
             /\ settled[n] \in Documents /\ History(settled[n].commits, R)
             /\ \A x \in Nat :
                   Below(d.commits, x) /\ (\A m \in 1..n : Adds(bs[m]) => bs[m].value < x)
                      => Below(settled[n].commits, x)
           T == {n \in Nat : n <= Len(bs) => Fine(n)}
<1>3. 0 \in T
  BY <1>2
<1>4. ASSUME NEW n \in Nat, n \in T PROVE n + 1 \in T
  <2> SUFFICES ASSUME n + 1 <= Len(bs) PROVE Fine(n + 1)
    OBVIOUS
  <2>1. Fine(n) /\ n + 1 \in 1..Len(bs) /\ bs[n + 1] \in Batches /\ (n + 1) - 1 = n
    BY <1>1, <1>4
  <2> DEFINE b == bs[n + 1]
             c == settled[n].commits
  <2>2. settled[n + 1] = IF b.load = session.load THEN Handled(settled[n], b) ELSE settled[n]
    BY <1>2, <2>1
  <2>3. \A m \in 1..n : m \in 1..(n + 1) /\ m \in 1..Len(bs) /\ m < n + 1
    BY <1>1
  <2>0. /\ Handled(settled[n], b) \in Documents
        /\ Handled(settled[n], b).commits = IF b.seal = "Release" /\ b.value # None
                                            THEN Append(c, b.value) ELSE c
    <3>1. settled[n] \in Documents /\ b \in Batches
      BY <2>1
    <3> HIDE DEF b
    <3> QED
      BY <3>1, HandledCommits
  <2>4. CASE Adds(b)
    <3>1. settled[n + 1] \in Documents /\ settled[n + 1].commits = Append(c, b.value)
      BY <2>0, <2>2, <2>4 DEF Adds
    <3>2. b.value \in Nat /\ b.value \in R /\ Below(d.commits, b.value)
      BY <2>1, <2>4 DEF Batches
    <3>3. \A m \in 1..n : Adds(bs[m]) => bs[m].value < b.value
      BY <2>1, <2>3, <2>4
    <3>4. Below(c, b.value) /\ History(c, R)
      BY <2>1, <3>2, <3>3
    <3> HIDE DEF b, c
    <3>5. /\ History(Append(c, b.value), R)
          /\ \A x \in Nat : Below(c, x) /\ b.value < x => Below(Append(c, b.value), x)
      BY <3>2, <3>4, HistoryGrows
    <3>6. ASSUME NEW x \in Nat, Below(d.commits, x),
                 \A m \in 1..(n + 1) : Adds(bs[m]) => bs[m].value < x
          PROVE  Below(settled[n + 1].commits, x)
      <4>1. b.value < x
        BY <2>1, <2>4, <3>6 DEF b
      <4>2. Below(c, x)
        BY <2>1, <2>3, <3>6 DEF c
      <4> QED
        BY <3>1, <3>5, <4>1, <4>2
    <3> QED
      BY <3>1, <3>5, <3>6
  <2>5. CASE ~Adds(b)
    <3>1. settled[n + 1] \in Documents /\ settled[n + 1].commits = c
      BY <2>0, <2>1, <2>2, <2>5 DEF Adds
    <3>2. ASSUME NEW x \in Nat, Below(d.commits, x),
                 \A m \in 1..(n + 1) : Adds(bs[m]) => bs[m].value < x
          PROVE  Below(c, x)
      BY <2>1, <2>3, <3>2
    <3> HIDE DEF b, c
    <3> QED
      BY <2>1, <3>1, <3>2 DEF c
  <2> QED
    BY <2>4, <2>5
<1>5. Fine(Len(bs))
  <2> HIDE DEF Fine
  <2>1. Nat \subseteq T
    <3> HIDE DEF T
    <3> QED
      BY <1>3, <1>4, SetInduction
  <2> QED
    BY <1>1, <2>1
<1> QED
  BY <1>2, <1>5


\* What the queue and the histories rest on.
LEMMA CommitsTyped ==
    ASSUME InputInv, CommitsInv
    PROVE  /\ inputs \in Seq([load : Loads \cup {NoLoad}, kind : Kinds]) /\ Len(inputs) \in Nat
           /\ sealed \in Seq(Batches) /\ Len(sealed) \in Nat /\ \A n \in 1..Len(sealed) : sealed[n] \in Batches
           /\ open \in Batches /\ session.load \in Loads /\ document \in [Loads -> Documents]
           /\ \A l \in Loads : /\ document[l] \in Documents /\ document[l].commits \in Seq(Nat)
                               /\ Below(document[l].commits, Len(inputs) + 1)
<1>1. /\ inputs \in Seq([load : Loads \cup {NoLoad}, kind : Kinds]) /\ Len(inputs) \in Nat
      /\ sealed \in Seq(Batches) /\ Len(sealed) \in Nat /\ \A n \in 1..Len(sealed) : sealed[n] \in Batches
      /\ open \in Batches /\ session.load \in Loads
  BY LenProperties, ElementOfSeq DEF InputInv, KindsFit
<1>2. document \in [Loads -> Documents]
  BY DEF CommitsInv, HistoriesFit
<1>3. ASSUME NEW l \in Loads
      PROVE  /\ document[l] \in Documents /\ document[l].commits \in Seq(Nat)
             /\ Below(document[l].commits, Len(inputs) + 1)
  <2>1. History(document[l].commits, Released(l))
    BY DEF CommitsInv, HistoriesFit
  <2>2. Released(l) \subseteq 1..Len(inputs)
    BY DEF Released
  <2> QED
    BY <1>1, <1>2, <2>1, <2>2 DEF History, Below
<1> QED
  BY <1>1, <1>2, <1>3

LEMMA QuietCommits ==
    ASSUME CommitsInv, UNCHANGED <<inputs, sealed, open, document>>,
           caller'.at = "read" => caller'.load \in Loads
    PROVE  CommitsInv'
<1>1. \A l : Released(l)' = Released(l)
  BY DEF Released, EndedBy
<1> QED
  BY <1>1 DEF CommitsInv, QueueFits, HistoriesFit

\* The owner settles batches into the history of its image: what R holds is
\* released, and the rest of the queue continues the new history.
LEMMA NewHistory ==
    ASSUME InputInv, CommitsInv, NEW own \in Loads, own = session.load, NEW e \in Documents,
           document' = [document EXCEPT ![own] = e],
           History(e.commits, Released(own)'),
           \A l \in Loads : Released(l) \subseteq Released(l)',
           \A l \in Loads : l # own =>
              /\ (open'.load = l /\ open'.value # None => open' = open)
              /\ \A n \in 1..Len(sealed)' : sealed'[n].load = l /\ sealed'[n].value # None
                    => Below(document[l].commits, sealed'[n].value),
           open'.load = own /\ open'.value # None => Below(e.commits, open'.value),
           \A n \in 1..Len(sealed)' : sealed'[n].load = own /\ sealed'[n].value # None
              => Below(e.commits, sealed'[n].value)
    PROVE  HistoriesFit'
<1>1. document \in [Loads -> Documents] /\ own \in Loads
  BY CommitsTyped
<1>2. /\ document' \in [Loads -> Documents] /\ document'[own] = e
      /\ \A l \in Loads : l # own => document'[l] = document[l]
  BY <1>1
<1>3. ASSUME NEW l \in Loads, l # own
      PROVE  /\ History(document'[l].commits, Released(l)')
             /\ open'.load = l /\ open'.value # None => Below(document'[l].commits, open'.value)
  BY <1>2, <1>3 DEF CommitsInv, HistoriesFit, History
<1>4. ASSUME NEW l \in Loads, NEW n \in 1..Len(sealed)', sealed'[n].load = l, sealed'[n].value # None
      PROVE  Below(document'[l].commits, sealed'[n].value)
  <2>1. CASE l = own
    BY <1>2, <1>4, <2>1
  <2>2. CASE l # own
    BY <1>2, <1>4, <2>2
  <2> QED
    BY <2>1, <2>2
<1>5. ASSUME NEW l \in Loads
      PROVE  /\ History(document'[l].commits, Released(l)')
             /\ open'.load = l /\ open'.value # None => Below(document'[l].commits, open'.value)
  <2>1. CASE l = own
    BY <1>2, <2>1
  <2>2. CASE l # own
    BY <1>3, <2>2
  <2> QED
    BY <2>1, <2>2
<1> QED
  BY <1>2, <1>4, <1>5 DEF HistoriesFit

LEMMA ConsumeCommits ==
    ASSUME InputInv, CommitsInv, NEW c, NEW e, NEW m, NEW w, Consume(c, e, m, w), UNCHANGED caller
    PROVE  CommitsInv'
<1> DEFINE b == NextBatch
           d == document[session.load]
<1>1. CASE UNCHANGED <<queue, document>>
  <2>1. UNCHANGED <<inputs, sealed, open, document>>
    BY <1>1 DEF queue
  <2> QED
    BY <2>1, QuietCommits DEF CommitsInv, QueueFits
<1>2. ASSUME Take, HandleBatch(b, m, w), HasWork PROVE CommitsInv'
  <2>0. /\ inputs' = inputs /\ session.load \in Loads /\ d \in Documents /\ d.commits \in Seq(Nat)
        /\ sealed \in Seq(Batches) /\ Len(sealed) \in Nat /\ open \in Batches
        /\ \A n \in 1..Len(sealed) : sealed[n] \in Batches
        /\ document \in [Loads -> Documents]
    BY <1>2, CommitsTyped DEF Take
  <2>1. \A l : Released(l)' = Released(l)
    BY <2>0 DEF Released, EndedBy
  <2>2. History(d.commits, Released(session.load))
    BY <2>0 DEF CommitsInv, HistoriesFit
  <2>3. /\ b \in Batches
        /\ \/ /\ sealed # << >> /\ b = sealed[1] /\ 1 \in 1..Len(sealed) /\ open' = open
              /\ sealed' = Tail(sealed) /\ Len(sealed') = Len(sealed) - 1
              /\ \A n \in 1..Len(sealed') : /\ sealed'[n] = sealed[n + 1] /\ n + 1 \in 1..Len(sealed)
                                            /\ 1 < n + 1
           \/ /\ sealed = << >> /\ b = open /\ sealed' = sealed
              /\ open' = [open EXCEPT !.value = None]
    <3>1. CASE sealed # << >>
      <4>1. b = Head(sealed) /\ sealed' = Tail(sealed) /\ open' = open
        BY <1>2, <3>1 DEF NextBatch, Take
      <4>2. /\ Len(sealed) # 0 /\ Head(sealed) = sealed[1] /\ Head(sealed) \in Batches
            /\ Tail(sealed) \in Seq(Batches) /\ Len(Tail(sealed)) = Len(sealed) - 1
            /\ \A n \in 1..Len(Tail(sealed)) : Tail(sealed)[n] = sealed[n + 1]
        BY <2>0, <3>1, EmptySeq, HeadTailProperties
      <4>3. \A n \in 1..Len(Tail(sealed)) : n + 1 \in 1..Len(sealed) /\ 1 < n + 1
        BY <2>0, <4>2
      <4>4. 1 \in 1..Len(sealed)
        BY <2>0, <4>2
      <4> HIDE DEF b
      <4> QED
        BY <3>1, <4>1, <4>2, <4>3, <4>4
    <3>2. CASE sealed = << >>
      BY <1>2, <2>0, <3>2 DEF NextBatch, Take
    <3> QED
      BY <3>1, <3>2
  <2>4. /\ Handled(d, b) \in Documents /\ Restored(d) \in Documents
        /\ Restored(d).commits = d.commits
        /\ Handled(d, b).commits = IF b.seal = "Release" /\ b.value # None
                                   THEN Append(d.commits, b.value) ELSE d.commits
    <3>1. b \in Batches
      BY <2>3
    <3> HIDE DEF b, d
    <3> QED
      BY <2>0, <3>1, HandledCommits
  <2>5. \/ document' = document
        \/ document' = [document EXCEPT ![session.load] = Restored(d)]
        \/ b.load = session.load /\ document' = [document EXCEPT ![session.load] = Handled(d, b)]
    <3> HIDE DEF b
    <3> QED
      BY <1>2 DEF HandleBatch
  <2>6. QueueFits'
    <3>1. CASE sealed # << >>
      <4> HIDE DEF b, d
      <4>1. \A n \in 1..Len(sealed') : /\ sealed'[n] = sealed[n + 1] /\ n + 1 \in 1..Len(sealed)
        BY <2>3, <3>1
      <4>2. \A i, n \in 1..Len(sealed') : i < n => i + 1 < n + 1
        BY <2>0, <2>3, <3>1
      <4>3. open' = open
        BY <2>3, <3>1
      <4>4. ASSUME NEW i \in 1..Len(sealed'), NEW n \in 1..Len(sealed'), i < n,
                   sealed'[i].value # None, sealed'[n].value # None
            PROVE  sealed'[i].value < sealed'[n].value
        BY <4>1, <4>2, <4>4 DEF CommitsInv, QueueFits
      <4>5. ASSUME NEW n \in 1..Len(sealed'), sealed'[n].value # None
            PROVE  /\ sealed'[n].seal = "Release" /\ sealed'[n].value \in Released(sealed'[n].load)
                   /\ open.value # None => sealed'[n].value < open.value
        BY <4>1, <4>5 DEF CommitsInv, QueueFits
      <4> QED
        BY <2>0, <2>1, <4>3, <4>4, <4>5 DEF CommitsInv, QueueFits
    <3>2. CASE sealed = << >>
      <4>1. open'.value = None /\ open'.seal = open.seal /\ sealed' = sealed /\ Len(sealed) = 0
        BY <2>0, <2>3, <3>2 DEF Batches
      <4> QED
        BY <2>0, <4>1 DEF CommitsInv, QueueFits
    <3> QED
      BY <3>1, <3>2
  <2>7. /\ \A n \in 1..Len(sealed)' : sealed'[n].value # None =>
              \E k \in 1..Len(sealed) : sealed[k] = sealed'[n] /\ 1 < k
        /\ open'.value # None => open' = open
    <3>1. CASE sealed # << >>
      BY <2>3, <3>1
    <3>2. CASE sealed = << >>
      <4>1. open'.value = None /\ Len(sealed)' = 0
        BY <2>0, <2>3, <3>2 DEF Batches
      <4> QED
        BY <4>1
    <3> QED
      BY <3>1, <3>2
  <2>8. ASSUME NEW x \in Documents, x.commits = d.commits \/ (Adds(b) /\ x.commits = Append(d.commits, b.value)),
               document' = [document EXCEPT ![session.load] = x]
        PROVE  HistoriesFit'
    <3>1. ASSUME Adds(b)
          PROVE  /\ b = sealed[1] /\ 1 \in 1..Len(sealed) /\ b.value \in Nat
                 /\ b.value \in Released(session.load) /\ Below(d.commits, b.value)
                 /\ \A k \in 1..Len(sealed) : 1 < k /\ sealed[k].value # None => b.value < sealed[k].value
                 /\ open.value # None => b.value < open.value
      <4>1. sealed # << >>
        BY <2>3, <3>1 DEF CommitsInv, QueueFits, Adds
      <4>2. b = sealed[1] /\ 1 \in 1..Len(sealed)
        BY <2>3, <4>1
      <4> HIDE DEF b
      <4> QED
        BY <2>0, <3>1, <4>2 DEF CommitsInv, QueueFits, HistoriesFit, Adds, Batches
    <3>2. History(x.commits, Released(session.load))
      <4>1. ASSUME Adds(b) PROVE History(Append(d.commits, b.value), Released(session.load))
        BY <2>2, <3>1, <4>1, HistoryGrows
      <4> QED
        BY <2>2, <2>8, <4>1
    <3>3. ASSUME NEW i \in Nat, Below(d.commits, i), Adds(b) => b.value < i PROVE Below(x.commits, i)
      <4>1. CASE Adds(b)
        <5>1. Below(Append(d.commits, b.value), i)
          BY <2>2, <3>1, <3>3, <4>1, HistoryGrows
        <5> QED
          BY <2>8, <3>3, <5>1
      <4> QED
        BY <2>8, <3>3, <4>1
    <3> HIDE DEF b, d
    <3>4. ASSUME NEW n \in 1..Len(sealed)', sealed'[n].value # None
          PROVE  /\ sealed'[n].load = session.load => Below(x.commits, sealed'[n].value)
                 /\ \A l \in Loads : sealed'[n].load = l => Below(document[l].commits, sealed'[n].value)
      <4>1. PICK k \in 1..Len(sealed) : sealed[k] = sealed'[n] /\ 1 < k
        BY <2>7, <3>4
      <4>2. sealed'[n].value \in Nat
        BY <2>0, <4>1 DEF Batches
      <4>3. \A l \in Loads : sealed'[n].load = l => Below(document[l].commits, sealed'[n].value)
        BY <3>4, <4>1 DEF CommitsInv, HistoriesFit
      <4>4. Adds(b) => b.value < sealed'[n].value
        BY <3>1, <3>4, <4>1
      <4> QED
        BY <2>0, <3>3, <4>2, <4>3, <4>4 DEF d
    <3>5. open'.load = session.load /\ open'.value # None => Below(x.commits, open'.value)
      <4> SUFFICES ASSUME open'.load = session.load, open'.value # None
                   PROVE  Below(x.commits, open'.value)
        OBVIOUS
      <4>1. open' = open /\ open.value \in Nat
        BY <2>0, <2>7 DEF Batches
      <4>2. Below(d.commits, open.value)
        BY <2>0, <4>1 DEF CommitsInv, HistoriesFit, d
      <4> QED
        BY <3>1, <3>3, <4>1, <4>2
    <3>6. PICK own \in Loads : own = session.load
      BY <2>0
    <3>9. /\ History(x.commits, Released(own)')
          /\ \A l \in Loads : Released(l) \subseteq Released(l)'
      BY <2>1, <3>2, <3>6
    <3>7. \A l \in Loads : l # session.load =>
             /\ (open'.load = l /\ open'.value # None => open' = open)
             /\ \A n \in 1..Len(sealed)' : sealed'[n].load = l /\ sealed'[n].value # None
                   => Below(document[l].commits, sealed'[n].value)
      BY <2>7, <3>4
    <3>8. \A n \in 1..Len(sealed)' : sealed'[n].load = session.load /\ sealed'[n].value # None
             => Below(x.commits, sealed'[n].value)
      BY <3>4
    <3> QED
      BY <2>8, <3>5, <3>6, <3>7, <3>8, <3>9, NewHistory
  <2>9. CASE document' = document
    <3>1. document' = [document EXCEPT ![session.load] = d]
      BY <2>0, <2>9
    <3> QED
      BY <2>0, <2>6, <2>8, <3>1 DEF CommitsInv
  <2>10. CASE document' = [document EXCEPT ![session.load] = Restored(d)]
    BY <2>4, <2>6, <2>8, <2>10 DEF CommitsInv
  <2>11. CASE b.load = session.load /\ document' = [document EXCEPT ![session.load] = Handled(d, b)]
    <3>1. \/ Handled(d, b).commits = d.commits
          \/ Adds(b) /\ Handled(d, b).commits = Append(d.commits, b.value)
      BY <2>4, <2>11 DEF Adds
    <3> HIDE DEF b, d
    <3> QED
      BY <2>4, <2>6, <2>8, <2>11, <3>1 DEF CommitsInv
  <2> QED
    BY <2>5, <2>9, <2>10, <2>11
<1> QED
  BY <1>1, <1>2 DEF Consume


\* An input is appended to the history of inputs.
LEMMA InputAppends ==
    ASSUME InputInv, CommitsInv, NEW x \in [load : Loads \cup {NoLoad}, kind : Kinds],
           inputs' = Append(inputs, x)
    PROVE  /\ Len(inputs)' = Len(inputs) + 1 /\ inputs'[Len(inputs) + 1] = x
           /\ \A n \in 1..Len(inputs) : inputs'[n] = inputs[n]
           /\ \A l : Released(l) \subseteq Released(l)'
<1>1. /\ Len(inputs)' = Len(inputs) + 1 /\ inputs'[Len(inputs) + 1] = x
      /\ \A n \in 1..Len(inputs) : inputs'[n] = inputs[n]
  BY CommitsTyped, AppendProperties
<1>2. ASSUME NEW l PROVE Released(l) \subseteq Released(l)'
  BY <1>1, CommitsTyped, ReleasedGrows
<1> QED
  BY <1>1, <1>2

\* The value of a sequence in the queue is older than the next input.
LEMMA QueuedAreOld ==
    ASSUME InputInv, CommitsInv, NEW n \in 1..Len(sealed), sealed[n].value # None
    PROVE  sealed[n].value \in Nat /\ sealed[n].value < Len(inputs) + 1
<1>1. sealed[n].value \in Released(sealed[n].load) /\ Len(inputs) \in Nat
  BY CommitsTyped DEF CommitsInv, QueueFits
<1> QED
  BY <1>1 DEF Released

LEMMA AdmitCommits ==
    ASSUME InputInv, CommitsInv, Admit
    PROVE  CommitsInv'
<1>1. PICK l \in Loads, kind \in Kinds : l = caller.load /\ kind = caller.kind
  BY DEF Admit, InputInv, KindsFit, CommitsInv, QueueFits
<1>2. PICK n \in Nat : n = Len(inputs)
  BY CommitsTyped
<1> DEFINE b == Extended(l, kind, n + 1)
           x == [load |-> l, kind |-> kind]
<1>3. /\ inputs' = Append(inputs, x) /\ open.load \in {NoLoad, l} /\ document' = document
      /\ \/ b.seal = "None" /\ open' = b /\ sealed' = sealed
         \/ b.seal # "None" /\ open' = NoBatch /\ sealed' = Append(sealed, b)
      /\ caller' = [caller EXCEPT !.at = "admitted"]
  BY <1>1, <1>2 DEF Admit, AdmitInput, owner
<1>4. /\ Len(inputs)' = n + 1 /\ inputs'[n + 1] = x
      /\ \A m \in 1..n : inputs'[m] = inputs[m]
      /\ \A r : Released(r) \subseteq Released(r)'
  BY <1>2, <1>3, InputAppends
<1>5. /\ sealed \in Seq(Batches) /\ Len(sealed) \in Nat /\ \A m \in 1..Len(sealed) : sealed[m] \in Batches
      /\ document \in [Loads -> Documents] /\ open \in Batches
      /\ \A r \in Loads : Below(document[r].commits, n + 1)
      /\ \A m \in 1..Len(sealed) : sealed[m].value # None =>
            sealed[m].value \in Nat /\ sealed[m].value < n + 1
  BY <1>2, CommitsTyped, QueuedAreOld
<1>6. caller'.at # "read"
  BY <1>3 DEF InputInv, KindsFit
<1>7. /\ b.load = l /\ b.value = IF kind \in Writes THEN n + 1
                                 ELSE IF kind = "Release" THEN open.value ELSE None
      /\ b.seal = SealOf[kind]
  BY DEF Extended
<1>8. ASSUME NEW r \in Loads PROVE History(document[r].commits, Released(r)')
  BY <1>4 DEF CommitsInv, HistoriesFit, History
<1>9. CASE kind = "Write"
  <2>1. b.seal = "None" /\ b.value = n + 1 /\ n + 1 # None
    BY <1>7, <1>9 DEF SealOf, Writes, None
  <2>2. open' = b /\ sealed' = sealed
    BY <1>3, <2>1
  <2> HIDE DEF b
  <2>3. QueueFits'
    <3>1. ASSUME NEW m \in 1..Len(sealed), sealed[m].value # None
          PROVE  /\ sealed[m].seal = "Release" /\ sealed[m].value \in Released(sealed[m].load)'
                 /\ sealed[m].value < n + 1
      <4>1. sealed[m].seal = "Release" /\ sealed[m].value \in Released(sealed[m].load)
        BY <3>1 DEF CommitsInv, QueueFits
      <4>2. PICK r : r = sealed[m].load
        OBVIOUS
      <4> QED
        BY <1>4, <1>5, <2>2, <3>1, <4>1, <4>2
    <3>2. \A m \in 1..Len(sealed)' : sealed'[m].value # None =>
             /\ sealed'[m].seal = "Release" /\ sealed'[m].value \in Released(sealed[m].load)'
             /\ open'.value # None => sealed'[m].value < open'.value
      BY <2>1, <2>2, <3>1
    <3>3. \A i, m \in 1..Len(sealed)' :
             i < m /\ sealed'[i].value # None /\ sealed'[m].value # None => sealed'[i].value < sealed'[m].value
      BY <2>2 DEF CommitsInv, QueueFits
    <3>4. /\ open'.value # None =>
                /\ open'.load \in Loads /\ open'.value = Len(inputs)'
                /\ inputs'[open'.value] = [load |-> open'.load, kind |-> "Write"]
          /\ open'.seal = "None"
      BY <1>4, <1>7, <1>9, <2>1, <2>2
    <3> QED
      BY <1>6, <3>2, <3>3, <3>4 DEF QueueFits
  <2>4. HistoriesFit'
    BY <1>3, <1>5, <1>8, <2>1, <2>2 DEF CommitsInv, HistoriesFit
  <2> QED
    BY <2>3, <2>4 DEF CommitsInv
<1>10. CASE kind # "Write"
  <2>1. b.seal \in {"Release", "Cancel"} /\ (b.seal = "Cancel" => b.value = None)
    BY <1>7, <1>10 DEF SealOf, Writes, Kinds
  <2>2. open' = NoBatch /\ sealed' = Append(sealed, b) /\ open'.value = None /\ open'.seal = "None"
    BY <1>3, <2>1 DEF NoBatch, Batch
  <2>3. ASSUME b.value # None
        PROVE  /\ b.seal = "Release" /\ b.value \in Released(l)' /\ b.value \in Nat
               /\ Below(document[l].commits, b.value)
               /\ \A m \in 1..Len(sealed) : sealed[m].value # None => sealed[m].value < b.value
    <3>1. CASE kind = "Settled"
      <4>1. b.value = n + 1
        BY <1>7, <3>1 DEF Writes
      <4>2. n + 1 \in Released(l)'
        BY <1>2, <1>4, <3>1, BoundaryReleases
      <4> HIDE DEF b
      <4> QED
        BY <1>5, <2>1, <2>3, <4>1, <4>2
    <3>2. CASE kind = "Release"
      <4>1. b.value = open.value /\ open.value # None
        BY <1>7, <2>3, <3>2 DEF Writes
      <4>2. /\ open.load = l /\ open.value = n /\ inputs[n] = [load |-> l, kind |-> "Write"]
            /\ Below(document[l].commits, open.value)
            /\ \A m \in 1..Len(sealed) : sealed[m].value # None => sealed[m].value < open.value
        BY <1>2, <1>3, <4>1, InputAssumption DEF CommitsInv, QueueFits, HistoriesFit
      <4>3. n \in Released(l)'
        <5>1. n # 0
          BY <4>1, <4>2 DEF None
        <5> QED
          BY <1>2, <1>4, <3>2, <4>2, <5>1, BoundaryReleases
      <4> HIDE DEF b
      <4> QED
        BY <2>1, <2>3, <4>1, <4>2, <4>3
    <3>3. CASE kind = "Cancel"
      BY <1>7, <2>3, <3>3 DEF Writes
    <3> QED
      BY <1>10, <3>1, <3>2, <3>3 DEF Kinds
  <2>4. b \in Batches
    <3>1. n + 1 \in Nat /\ None \in Nat /\ open.value \in Nat
      BY <1>5 DEF Batches, None
    <3> QED
      BY <2>1, <3>1 DEF Extended, Batches, Seals
  <2>5. b.load = l
    BY <1>7
  <2> HIDE DEF b
  <2>6. /\ Len(sealed') = Len(sealed) + 1 /\ sealed'[Len(sealed) + 1] = b
        /\ \A m \in 1..Len(sealed) : sealed'[m] = sealed[m]
    BY <1>5, <2>2, <2>4, AppendProperties
  <2>7. \A m \in 1..Len(sealed') : m = Len(sealed) + 1 \/ m \in 1..Len(sealed)
    BY <1>5, <2>6
  <2>8. ASSUME NEW m \in 1..Len(sealed'), sealed'[m].value # None, NEW r, r = sealed'[m].load
        PROVE  /\ sealed'[m].seal = "Release" /\ sealed'[m].value \in Released(r)'
               /\ r \in Loads => Below(document[r].commits, sealed'[m].value)
    <3>1. CASE m = Len(sealed) + 1
      BY <2>3, <2>5, <2>6, <2>8, <3>1
    <3>2. CASE m \in 1..Len(sealed)
      BY <1>4, <2>6, <2>8, <3>2 DEF CommitsInv, QueueFits, HistoriesFit
    <3> QED
      BY <2>7, <3>1, <3>2
  <2>9. ASSUME NEW i \in 1..Len(sealed'), NEW m \in 1..Len(sealed'), i < m,
               sealed'[i].value # None, sealed'[m].value # None
        PROVE  sealed'[i].value < sealed'[m].value
    <3>1. i \in 1..Len(sealed)
      BY <1>5, <2>6, <2>9
    <3>2. CASE m = Len(sealed) + 1
      BY <2>3, <2>6, <2>9, <3>1, <3>2
    <3>3. CASE m \in 1..Len(sealed)
      BY <2>6, <2>9, <3>1, <3>3 DEF CommitsInv, QueueFits
    <3> QED
      BY <2>7, <3>2, <3>3
  <2>10. QueueFits'
    BY <1>6, <2>2, <2>8, <2>9 DEF QueueFits
  <2>11. HistoriesFit'
    BY <1>3, <1>5, <1>8, <2>2, <2>8 DEF HistoriesFit
  <2> QED
    BY <2>10, <2>11 DEF CommitsInv
<1> QED
  BY <1>9, <1>10


LEMMA LeaveCommits ==
    ASSUME InputInv, CommitsInv, Leave
    PROVE  CommitsInv'
<1>1. PICK own \in Loads, n \in Nat : own = session.load /\ n = Len(inputs)
  BY CommitsTyped
<1> DEFINE mine == open.load = own
           b == Extended(own, "Release", None)
           rest == IF mine THEN << b >> ELSE IF open.value # None THEN << open >> ELSE << >>
           batches == sealed \o rest
           last == IF mine THEN Len(batches) ELSE Len(sealed)
           d == document[own]
           part(k) == SubSeq(batches, 1, k - 1)
<1>2. /\ inputs' = IF mine THEN Append(inputs, [load |-> own, kind |-> "Release"]) ELSE inputs
      /\ caller' = caller
      /\ \/ /\ document' = [document EXCEPT ![own] = SettledBy(d, batches)]
            /\ sealed' = << >>
            /\ open' = IF mine THEN NoBatch ELSE [open EXCEPT !.value = None]
         \/ \E k \in DOMAIN batches :
               /\ document' = [document EXCEPT ![own] = Restored(SettledBy(d, part(k)))]
               /\ sealed' = SubSeq(batches, k + 1, last)
               /\ open' = IF mine THEN NoBatch ELSE open
  BY <1>1 DEF Leave
<1>3. /\ sealed \in Seq(Batches) /\ Len(sealed) \in Nat /\ \A m \in 1..Len(sealed) : sealed[m] \in Batches
      /\ document \in [Loads -> Documents] /\ open \in Batches /\ d \in Documents
      /\ \A r \in Loads : Below(document[r].commits, n + 1)
      /\ \A m \in 1..Len(sealed) : sealed[m].value # None =>
            sealed[m].value \in Nat /\ sealed[m].value < n + 1
  BY <1>1, CommitsTyped, QueuedAreOld
<1>4. /\ \A r : Released(r) \subseteq Released(r)'
      /\ mine /\ open.value # None => open.value \in Released(own)'
      /\ ~mine => inputs' = inputs
  <2>1. CASE mine
    <3>0. [load |-> own, kind |-> "Release"] \in [load : Loads \cup {NoLoad}, kind : Kinds]
      BY DEF Kinds
    <3>1. /\ Len(inputs)' = n + 1 /\ inputs'[n + 1] = [load |-> own, kind |-> "Release"]
          /\ \A m \in 1..n : inputs'[m] = inputs[m]
          /\ \A r : Released(r) \subseteq Released(r)'
      BY <1>1, <1>2, <2>1, <3>0, InputAppends
    <3>2. ASSUME open.value # None PROVE open.value \in Released(own)'
      <4>1. open.value = n /\ n # 0 /\ inputs[n] = [load |-> own, kind |-> "Write"]
        BY <1>1, <2>1, <3>2 DEF CommitsInv, QueueFits, None
      <4> QED
        BY <1>1, <3>1, <4>1, BoundaryReleases
    <3> QED
      BY <2>1, <3>1, <3>2
  <2>2. CASE ~mine
    <3>1. inputs' = inputs
      BY <1>2, <2>2
    <3> QED
      BY <2>2, <3>1 DEF Released, EndedBy
  <2> QED
    BY <2>1, <2>2
<1>5. b.load = own /\ b.value = open.value /\ b.seal = "Release" /\ b \in Batches
  <2>1. b = [load |-> own, value |-> open.value, seal |-> "Release"]
    BY DEF Extended, Writes, SealOf
  <2> QED
    BY <1>3, <2>1 DEF Batches, Seals
<1> HIDE DEF b
<1>6. /\ rest \in Seq(Batches) /\ Len(rest) \in {0, 1} /\ (mine => Len(rest) = 1)
      /\ Len(rest) = 1 => rest[1].load = open.load /\ rest[1].value = open.value
      /\ Len(rest) = 1 => rest[1].seal = IF mine THEN "Release" ELSE "None"
  <2>1. CASE mine
    <3>1. rest = << b >>
      BY <2>1
    <3> HIDE DEF rest
    <3> QED
      BY <1>5, <2>1, <3>1
  <2>2. CASE ~mine /\ open.value # None
    <3>1. rest = << open >> /\ open.seal = "None"
      BY <2>2 DEF CommitsInv, QueueFits
    <3> HIDE DEF rest
    <3> QED
      BY <1>3, <2>2, <3>1
  <2>3. CASE ~mine /\ open.value = None
    <3>1. rest = << >>
      BY <2>3
    <3> HIDE DEF rest
    <3> QED
      BY <2>3, <3>1
  <2> QED
    BY <2>1, <2>2, <2>3
<1> HIDE DEF rest
<1>7. /\ batches \in Seq(Batches) /\ Len(batches) = Len(sealed) + Len(rest)
      /\ \A m \in 1..Len(batches) :
            \/ m \in 1..Len(sealed) /\ batches[m] = sealed[m]
            \/ m = Len(sealed) + 1 /\ Len(rest) = 1 /\ batches[m] = rest[1]
      /\ last \in Nat /\ last <= Len(batches) /\ (~mine => last = Len(sealed))
  <2>1. /\ batches \in Seq(Batches) /\ Len(batches) = Len(sealed) + Len(rest)
        /\ \A m \in 1..Len(batches) : batches[m] = IF m <= Len(sealed) THEN sealed[m]
                                                   ELSE rest[m - Len(sealed)]
    BY <1>3, <1>6, ConcatProperties
  <2> HIDE DEF batches
  <2>2. ASSUME NEW m \in 1..Len(batches), ~(m <= Len(sealed))
        PROVE  m = Len(sealed) + 1 /\ Len(rest) = 1 /\ m - Len(sealed) = 1
    BY <1>3, <1>6, <2>1, <2>2
  <2> QED
    BY <1>3, <1>6, <2>1, <2>2
<1> HIDE DEF batches, last
<1>8. ASSUME NEW m \in 1..Len(batches), batches[m].value # None, NEW r, r = batches[m].load
      PROVE  /\ batches[m].value \in Nat
             /\ batches[m].seal = "Release" => batches[m].value \in Released(r)'
             /\ r \in Loads => Below(document[r].commits, batches[m].value)
             /\ m <= last => batches[m].seal = "Release"
  <2>1. CASE m \in 1..Len(sealed) /\ batches[m] = sealed[m]
    BY <1>3, <1>4, <1>8, <2>1 DEF CommitsInv, QueueFits, HistoriesFit
  <2>2. CASE m = Len(sealed) + 1 /\ Len(rest) = 1 /\ batches[m] = rest[1]
    <3>1. /\ batches[m].load = open.load /\ batches[m].value = open.value /\ open.value # None
          /\ batches[m].seal = IF mine THEN "Release" ELSE "None"
      BY <1>6, <1>8, <2>2
    <3>2. open.value \in Nat
      BY <1>3 DEF Batches
    <3>3. m <= last => mine
      BY <1>3, <1>7, <2>2
    <3>4. r = open.load
      BY <1>8, <3>1
    <3>5. mine => open.value \in Released(r)'
      <4>1. mine => r = own
        BY <3>4
      <4> QED
        BY <1>4, <3>1, <4>1
    <3>6. r \in Loads => Below(document[r].commits, open.value)
      BY <3>1, <3>4 DEF CommitsInv, HistoriesFit
    <3> QED
      BY <3>1, <3>2, <3>3, <3>5, <3>6
  <2> QED
    BY <1>7, <2>1, <2>2
<1>9. ASSUME NEW i \in 1..Len(batches), NEW m \in 1..Len(batches), i < m,
             batches[i].value # None, batches[m].value # None
      PROVE  batches[i].value < batches[m].value
  <2>1. i \in 1..Len(sealed) /\ batches[i] = sealed[i]
    BY <1>3, <1>6, <1>7, <1>9
  <2>2. CASE m \in 1..Len(sealed) /\ batches[m] = sealed[m]
    BY <1>9, <2>1, <2>2 DEF CommitsInv, QueueFits
  <2>3. CASE m = Len(sealed) + 1 /\ Len(rest) = 1 /\ batches[m] = rest[1]
    BY <1>6, <1>9, <2>1, <2>3 DEF CommitsInv, QueueFits
  <2> QED
    BY <1>7, <2>2, <2>3
<1>10. History(d.commits, Released(own)')
  BY <1>4 DEF CommitsInv, HistoriesFit, History
\* Some of the batches, in order.
<1>11. ASSUME NEW bs \in Seq(Batches), Len(bs) <= Len(batches), \A m \in 1..Len(bs) : bs[m] = batches[m]
       PROVE  /\ SettledBy(d, bs) \in Documents /\ History(SettledBy(d, bs).commits, Released(own)')
              /\ \A x \in Nat : /\ Below(d.commits, x)
                                /\ \A m \in 1..Len(bs) : Adds(bs[m]) => bs[m].value < x
                                => Below(SettledBy(d, bs).commits, x)
  <2>1. \A m \in 1..Len(bs) : m \in 1..Len(batches)
    BY <1>7, <1>11, LenProperties
  <2>2. ASSUME NEW m \in 1..Len(bs), Adds(bs[m])
        PROVE  bs[m].value \in Released(own)' /\ Below(d.commits, bs[m].value)
    <3>1. /\ m \in 1..Len(batches) /\ bs[m] = batches[m] /\ bs[m].load = own /\ bs[m].value # None
          /\ bs[m].seal = "Release"
      BY <1>1, <1>11, <2>1, <2>2 DEF Adds
    <3> QED
      BY <1>8, <3>1
  <2>3. \A i, m \in 1..Len(bs) : i < m /\ Adds(bs[i]) /\ Adds(bs[m]) => bs[i].value < bs[m].value
    BY <1>9, <1>11, <2>1 DEF Adds
  <2> HIDE DEF d
  <2> QED
    BY <1>3, <1>10, <2>2, <2>3, SettledCommits
<1>12. caller'.at = "read" => caller'.load \in Loads
  BY <1>2 DEF CommitsInv, QueueFits
<1>13. CASE /\ document' = [document EXCEPT ![own] = SettledBy(d, batches)]
            /\ sealed' = << >>
            /\ open' = IF mine THEN NoBatch ELSE [open EXCEPT !.value = None]
  <2>1. open'.value = None /\ open'.seal = "None" /\ Len(sealed)' = 0
    BY <1>3, <1>13 DEF NoBatch, Batch, Batches, CommitsInv, QueueFits
  <2>2. QueueFits'
    BY <1>12, <2>1 DEF QueueFits
  <2>3. SettledBy(d, batches) \in Documents /\ History(SettledBy(d, batches).commits, Released(own)')
    BY <1>7, <1>11
  <2>4. HistoriesFit'
    <3> DEFINE e == SettledBy(d, batches)
    <3>1. /\ e \in Documents /\ History(e.commits, Released(own)')
          /\ document' = [document EXCEPT ![own] = e]
      BY <1>13, <2>3
    <3> HIDE DEF e, d
    <3>2. \A m \in 1..Len(sealed)' : FALSE
      BY <2>1
    <3> QED
      BY <1>1, <1>4, <2>1, <3>1, <3>2, NewHistory
  <2> QED
    BY <2>2, <2>4 DEF CommitsInv
<1>14. ASSUME NEW k \in DOMAIN batches,
              document' = [document EXCEPT ![own] = Restored(SettledBy(d, part(k)))],
              sealed' = SubSeq(batches, k + 1, last), open' = IF mine THEN NoBatch ELSE open
       PROVE  CommitsInv'
  <2> DEFINE bs == part(k)
             f == SettledBy(d, bs)
             e == Restored(f)
  <2>1. k \in 1..Len(batches) /\ Len(batches) \in Nat
    BY <1>3, <1>6, <1>7
  <2>2. /\ bs \in Seq(Batches) /\ Len(bs) = k - 1 /\ Len(bs) <= Len(batches)
        /\ \A m \in 1..Len(bs) : bs[m] = batches[m]
    <3>1. 1 \in Int /\ k - 1 \in Int /\ \A m \in 1..(k - 1) : batches[m] \in Batches
      BY <1>7, <2>1, ElementOfSeq
    <3>2. /\ bs \in Seq(Batches) /\ Len(bs) = IF 1 <= k - 1 THEN (k - 1) - 1 + 1 ELSE 0
          /\ \A m \in 1..(k - 1) - 1 + 1 : bs[m] = batches[1 + m - 1]
      BY <3>1, SubSeqProperties
    <3> HIDE DEF bs
    <3> QED
      BY <2>1, <3>2
  <2>3. /\ sealed' \in Seq(Batches)
        /\ \A m \in 1..Len(sealed') : /\ sealed'[m] = batches[k + m] /\ k + m \in 1..Len(batches)
                                      /\ k + m <= last
    <3>1. k + 1 \in Int /\ last \in Int /\ \A m \in (k + 1)..last : batches[m] \in Batches
      BY <1>7, <2>1, ElementOfSeq
    <3>2. /\ sealed' \in Seq(Batches)
          /\ Len(sealed') = IF k + 1 <= last THEN last - (k + 1) + 1 ELSE 0
          /\ \A m \in 1..last - (k + 1) + 1 : sealed'[m] = batches[(k + 1) + m - 1]
      BY <1>14, <3>1, SubSeqProperties
    <3>3. ASSUME NEW m \in 1..Len(sealed')
          PROVE  /\ m \in 1..last - (k + 1) + 1 /\ (k + 1) + m - 1 = k + m
                 /\ k + m \in 1..Len(batches) /\ k + m <= last
      BY <1>7, <2>1, <3>2, SMTT(60)
    <3> QED
      BY <3>2, <3>3
  <2> HIDE DEF bs
  <2>4. /\ f \in Documents /\ History(f.commits, Released(own)')
        /\ \A x \in Nat : /\ Below(d.commits, x)
                          /\ \A m \in 1..Len(bs) : Adds(bs[m]) => bs[m].value < x
                          => Below(f.commits, x)
    BY <1>11, <2>2
  <2> HIDE DEF f
  <2>5. e \in Documents /\ e.commits = f.commits
    <3>1. NoBatch \in Batches
      BY InputAssumption DEF NoBatch, Batch, Batches, None, Seals
    <3> QED
      BY <2>4, <3>1, HandledCommits
  <2>6. document' = [document EXCEPT ![own] = e]
    BY <1>14 DEF f, bs
  <2> HIDE DEF e
  <2>7. ASSUME NEW m \in 1..Len(sealed'), sealed'[m].value # None, NEW r, r = sealed'[m].load
        PROVE  /\ sealed'[m].seal = "Release" /\ sealed'[m].value \in Released(r)'
               /\ r \in Loads => Below(document[r].commits, sealed'[m].value)
               /\ r = own => Below(e.commits, sealed'[m].value)
    <3>1. sealed'[m] = batches[k + m] /\ k + m \in 1..Len(batches) /\ k + m <= last
      BY <2>3
    <3>2. PICK x \in Nat : x = batches[k + m].value
      BY <1>8, <2>7, <3>1
    <3>3. /\ batches[k + m].seal = "Release" /\ batches[k + m].value \in Released(r)'
          /\ r \in Loads => Below(document[r].commits, x)
      BY <1>8, <2>7, <3>1, <3>2
    <3>4. \A i \in 1..Len(bs) : bs[i] = batches[i] /\ i \in 1..Len(batches) /\ i < k + m
      BY <2>1, <2>2
    <3>5. \A i \in 1..Len(bs) : Adds(bs[i]) => bs[i].value < x
      BY <1>9, <2>7, <3>1, <3>2, <3>4 DEF Adds
    <3>6. r = own => Below(e.commits, x)
      BY <2>4, <2>5, <3>3, <3>5
    <3> QED
      BY <3>1, <3>2, <3>3, <3>6
  <2>8. ASSUME NEW i \in 1..Len(sealed'), NEW m \in 1..Len(sealed'), i < m,
               sealed'[i].value # None, sealed'[m].value # None
        PROVE  sealed'[i].value < sealed'[m].value
    <3>1. k + i < k + m
      BY <2>1, <2>8
    <3> QED
      BY <1>9, <2>3, <2>8, <3>1
  <2>9. /\ open'.seal = "None"
        /\ open'.value # None => ~mine /\ open' = open /\ inputs' = inputs
    BY <1>4, <1>14 DEF NoBatch, Batch, CommitsInv, QueueFits
  <2>10. ASSUME NEW m \in 1..Len(sealed'), sealed'[m].value # None, open'.value # None
         PROVE  sealed'[m].value < open'.value
    <3>1. k + m \in 1..Len(sealed) /\ batches[k + m] = sealed[k + m]
      BY <1>3, <1>7, <2>3, <2>9, <2>10
    <3> QED
      BY <2>3, <2>9, <2>10, <3>1 DEF CommitsInv, QueueFits
  <2>11. QueueFits'
    <3>1. open'.value # None =>
             /\ open'.load \in Loads /\ open'.value = Len(inputs)'
             /\ inputs'[open'.value] = [load |-> open'.load, kind |-> "Write"]
      BY <2>9 DEF CommitsInv, QueueFits
    <3> QED
      BY <1>12, <2>7, <2>8, <2>9, <2>10, <3>1 DEF QueueFits
  <2>12. HistoriesFit'
    BY <1>1, <1>4, <2>4, <2>5, <2>6, <2>7, <2>9, NewHistory
  <2> QED
    BY <2>11, <2>12 DEF CommitsInv
<1> QED
  BY <1>2, <1>13, <1>14


LEMMA FinishedCommits ==
    ASSUME InputInv, CommitsInv, NEW id, NEW kind, NEW m, Finished(id, kind, m), UNCHANGED caller
    PROVE  CommitsInv'
<1>1. \E c, e : Consume(c, e, m, wakeup)
  BY DEF Finished
<1> QED
  BY <1>1, ConsumeCommits

\* The owner takes a message or makes its next call.
LEMMA OwnerCommits ==
    ASSUME InputInv, CommitsInv, TakeMail \/ CallOn
    PROVE  CommitsInv'
<1>1. UNCHANGED caller /\ (caller'.at = "read" => caller'.load \in Loads)
  BY DEF TakeMail, CallOn, CommitsInv, QueueFits
<1>2. CASE UNCHANGED <<queue, document>>
  <2>1. UNCHANGED <<inputs, sealed, open, document>>
    BY <1>2 DEF queue
  <2> QED
    BY <1>1, <2>1, QuietCommits
<1>3. CASE TakeMail
  <2>1. \/ UNCHANGED <<queue, document>>
        \/ \E c, e, w : Consume(c, e, Tail(mail), w)
        \/ Finished(Head(mail).id, Head(mail).kind, Tail(mail))
    BY <1>3 DEF TakeMail
  <2> QED
    BY <1>1, <1>2, <2>1, ConsumeCommits, FinishedCommits
<1>4. CASE CallOn
  <2>1. UNCHANGED <<queue, document>> \/ Finished(Head(todo).id, "frame", mail)
    BY <1>4 DEF CallOn
  <2> QED
    BY <1>1, <1>2, <2>1, FinishedCommits
<1> QED
  BY <1>3, <1>4

LEMMA CommitsStart == InputInit => CommitsInv
<1> SUFFICES ASSUME InputInit PROVE CommitsInv
  OBVIOUS
<1>1. /\ inputs = << >> /\ caller = NoCaller /\ sealed = << >> /\ open = NoBatch
      /\ document = [l \in Loads |-> Unopened]
  BY DEF InputInit
<1>2. Unopened \in Documents /\ Unopened.commits = << >>
  BY DEF Unopened, Documents
<1>3. QueueFits
  BY <1>1 DEF QueueFits, NoCaller, NoBatch, Batch
<1>4. HistoriesFit
  <2>1. \A R : History(<< >>, R)
    BY DEF History
  <2>2. document \in [Loads -> Documents] /\ \A l \in Loads : document[l].commits = << >>
    BY <1>1, <1>2
  <2>3. open.value = None /\ Len(sealed) = 0
    BY <1>1 DEF NoBatch, Batch
  <2> QED
    BY <2>1, <2>2, <2>3 DEF HistoriesFit
<1> QED
  BY <1>3, <1>4 DEF CommitsInv

LEMMA CommitsStep == InputInv /\ CommitsInv /\ [InputNext]_all => CommitsInv'
<1> SUFFICES ASSUME InputInv, CommitsInv, [InputNext]_all PROVE CommitsInv'
  OBVIOUS
<1>1. ASSUME UNCHANGED <<inputs, sealed, open, document>>,
             caller' = caller \/ caller'.at # "read" \/ caller'.load = session.load
      PROVE  CommitsInv'
  <2>1. caller'.at = "read" => caller'.load \in Loads
    BY <1>1, CommitsTyped DEF CommitsInv, QueueFits
  <2> QED
    BY <1>1, <2>1, QuietCommits
<1>2. CASE UNCHANGED all
  BY <1>1, <1>2 DEF all, queue, owner
<1>3. CASE (\E kind \in Kinds : Offer(kind)) \/ Refuse \/ RequestConsume
  BY <1>1, <1>3 DEF Offer, Refuse, RequestConsume, queue, owner, NoCaller
<1>4. CASE (\E id \in Requests : JobReturns(id)) \/ JobStarts \/ Tick \/ Fire
  BY <1>1, <1>4 DEF JobReturns, JobStarts, Tick, Fire, queue, owner
<1>5. CASE LeavingEnds \/ Discard \/ Stay \/ OtherRender
  BY <1>1, <1>5 DEF LeavingEnds, Discard, Stay, OtherRender, queue
<1> QED
  BY <1>2, <1>3, <1>4, <1>5, AdmitCommits, OwnerCommits, LeaveCommits DEF InputNext

\* What the history of an image holds was written to this image, in this order,
\* and released, although input outlives the image it was admitted for, for any
\* number of images and inputs (editor_session_service.cpp:2021-2024, 1996-2000).
THEOREM CommitsAreAlwaysReleasedEdits == InputSpec => []CommitsAreReleasedEdits
<1>1. ASSUME InputInv, CommitsInv PROVE CommitsAreReleasedEdits
  <2> SUFFICES ASSUME NEW l \in Loads, NEW n \in DOMAIN document[l].commits
               PROVE  LET i == document[l].commits[n]
                      IN  /\ i \in DOMAIN inputs /\ inputs[i].load = l /\ inputs[i].kind \in Writes
                          /\ n > 1 => document[l].commits[n - 1] < i
                          /\ \E j \in DOMAIN inputs :
                                /\ EndedBy(i, j) /\ inputs[j].kind # "Cancel"
                                /\ \A k \in (i + 1)..j : inputs[k].load = l
                                      => inputs[k].kind \notin Writes
    BY DEF CommitsAreReleasedEdits
  <2> DEFINE c == document[l].commits
  <2>1. History(c, Released(l))
    BY <1>1 DEF CommitsInv, HistoriesFit
  <2>2. n \in 1..Len(c) /\ Len(c) \in Nat
    BY <2>1 DEF History
  <2>3. c[n] \in Released(l) /\ (n > 1 => c[n - 1] < c[n])
    <3>1. n > 1 => n \in 2..Len(c)
      BY <2>2
    <3> QED
      BY <2>1, <2>2, <3>1 DEF History
  <2>4. DOMAIN inputs = 1..Len(inputs)
    BY <1>1 DEF InputInv, KindsFit
  <2> QED
    BY <2>3, <2>4 DEF Released
<1> QED
  BY <1>1, CommitsStart, CommitsStep, InputFits, PTL DEF InputSpec


\* What was admitted and replaced, kept for the properties.
RecordsFit == inputs \in Seq([load : Loads, kind : Kinds]) /\ replaced \subseteq Requests

LEMMA RecordsStep ==
    ASSUME InputInv, CommitsInv, RecordsFit, [InputNext]_all
    PROVE  RecordsFit'
<1>1. ASSUME NEW x \in [load : Loads, kind : Kinds], inputs' = Append(inputs, x), replaced' = replaced
      PROVE  RecordsFit'
  BY <1>1, AppendProperties DEF RecordsFit
<1>2. ASSUME inputs' = inputs,
             replaced' = replaced \/ \E victim \in {None} \cup Requests : Posted(victim)
      PROVE  RecordsFit'
  <2>1. replaced' \subseteq replaced \cup Requests
    BY <1>2 DEF Posted
  <2> QED
    BY <1>2, <2>1 DEF RecordsFit
<1>3. CASE Admit
  <2>1. caller.at = "read" /\ caller.load \in Loads /\ caller.kind \in Kinds
    BY <1>3 DEF Admit, InputInv, KindsFit, CommitsInv, QueueFits
  <2>2. /\ inputs' = Append(inputs, [load |-> caller.load, kind |-> caller.kind])
        /\ replaced' = replaced
    BY <1>3 DEF Admit, AdmitInput
  <2>3. [load |-> caller.load, kind |-> caller.kind] \in [load : Loads, kind : Kinds]
    BY <2>1
  <2> QED
    BY <1>1, <2>2, <2>3
<1>4. CASE Leave
  <2>1. replaced' = replaced
    BY <1>4 DEF Leave
  <2>2. inputs' = inputs \/ inputs' = Append(inputs, [load |-> session.load, kind |-> "Release"])
    BY <1>4 DEF Leave
  <2>3. [load |-> session.load, kind |-> "Release"] \in [load : Loads, kind : Kinds]
    BY CommitsTyped DEF Kinds
  <2> QED
    BY <1>1, <1>2, <2>1, <2>2, <2>3
<1>5. ASSUME NEW c, NEW e, NEW m, NEW w, Consume(c, e, m, w) PROVE inputs' = inputs
  BY <1>5 DEF Consume, queue, Take
<1>6. CASE TakeMail
  <2>1. inputs' = inputs
    <3>1. UNCHANGED queue \/ \E c, e, m, w : Consume(c, e, m, w)
      BY <1>6 DEF TakeMail, Finished
    <3> QED
      BY <1>5, <3>1 DEF queue
  <2> QED
    BY <1>2, <1>6, <2>1 DEF TakeMail
<1>7. CASE CallOn
  <2>1. inputs' = inputs
    <3>1. UNCHANGED queue \/ \E c, e, m, w : Consume(c, e, m, w)
      BY <1>7 DEF CallOn, Finished
    <3> QED
      BY <1>5, <3>1 DEF queue
  <2>2. replaced' = replaced \/ \E victim \in {None} \cup Requests : Posted(victim)
    BY <1>7 DEF CallOn, Route
  <2> QED
    BY <1>2, <2>1, <2>2
<1>8. CASE UNCHANGED all
  BY <1>2, <1>8 DEF all, queue
<1>9. CASE (\E kind \in Kinds : Offer(kind)) \/ Refuse \/ RequestConsume
  BY <1>2, <1>9 DEF Offer, Refuse, RequestConsume, queue
<1>10. CASE (\E id \in Requests : JobReturns(id)) \/ Tick \/ Fire
  BY <1>2, <1>10 DEF JobReturns, Tick, Fire, queue
<1>11. CASE JobStarts
  <2>1. inputs' = inputs /\ \E victim \in {None} \cup Requests : Posted(victim)
    BY <1>11 DEF JobStarts, queue
  <2> QED
    BY <1>2, <2>1
<1>12. CASE LeavingEnds \/ Discard \/ Stay \/ OtherRender
  BY <1>2, <1>12 DEF LeavingEnds, Discard, Stay, OtherRender, queue
<1> QED
  BY <1>3, <1>4, <1>6, <1>7, <1>8, <1>9, <1>10, <1>11, <1>12 DEF InputNext

\* Every variable of the input's path holds a value of its kind.
THEOREM InputKeepsTypes == InputSpec => []InputTypeOK
<1>1. InputInit => RecordsFit
  BY DEF InputInit, RecordsFit
<1>2. InputInv /\ CommitsInv /\ RecordsFit => InputTypeOK
  <2> SUFFICES ASSUME InputInv, CommitsInv, RecordsFit PROVE InputTypeOK
    OBVIOUS
  <2> DEFINE kinds == [kind : {"wake", "deadline", "entered", "frame", "noframe"},
                       id : {None} \cup Requests]
  <2>1. Messages \subseteq kinds
    BY DEF Messages
  <2>2. mail \in Seq(kinds)
    <3>1. mail \in Seq(Messages) /\ Len(mail) \in Nat /\ \A n \in 1..Len(mail) : mail[n] \in Messages
      BY LenProperties, ElementOfSeq DEF InputInv, KindsFit
    <3> HIDE DEF kinds
    <3>2. mail \in [1..Len(mail) -> kinds]
      BY <2>1, <3>1
    <3> QED
      BY <3>1, <3>2, SeqDef
  <2>3. document \in [Loads -> Documents]
    BY DEF CommitsInv, HistoriesFit
  <2> QED
    BY <2>2, <2>3 DEF InputInv, KindsFit, RecordsFit, InputTypeOK
<1> QED
  BY <1>1, <1>2, CommitsStart, CommitsStep, RecordsStep, InputFits, PTL DEF InputSpec
=============================================================================
