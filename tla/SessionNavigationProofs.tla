----------------------- MODULE SessionNavigationProofs -----------------------
(***************************************************************************)
(* What SessionNavigation promises, for any number of images, loads and      *)
(* saves, any length of the queue, and whatever fails.                       *)
(***************************************************************************)
EXTENDS SessionNavigation, TLAPS

One(b) == IF b THEN 1 ELSE 0

Kinds == {action.kind, recovery.kind}

\* The image, its load and its history come and go together.
Identity ==
    /\ image = NoImage <=> load = NoLoad
    /\ ~accepting => image = NoImage
    /\ guard /\ accepting => image # NoImage

\* A record of no kind is None, and only a Switch has a target.
Kinded(a) == (a.kind = "None" => a = None) /\ (a.kind = "Switch" <=> a.target # NoImage)

\* At most one of an action, a retained action, and an image being acquired; a
\* selection waits behind a Switch or the image it acquires.
Pending ==
    /\ Kinded(action) /\ Kinded(recovery)
    /\ recovery # None => action = None
    /\ owner.does \in {"acquire", "promote"} => action = None /\ recovery = None
    /\ owner.does = "acquire" => owner.target # NoImage
    /\ owner.does = "promote" => next # NoImage
    /\ owner.does = "close" => ~closing
    /\ next # NoImage /\ accepting =>
          \/ "Switch" \in Kinds
          \/ owner.does = "promote" \/ (owner.does = "acquire" /\ owner.promote)
    /\ ~accepting => action = None /\ owner = Free
    /\ accepting /\ "Version" \in Kinds => image # NoImage

\* Ids are left for the loads and saves that handlers go on to by themselves.
Room ==
    accepting =>
       /\ loads + One(owner.does = "acquire") + One("Switch" \in Kinds) + One(next # NoImage)
            <= MaxLoads
       /\ saves + One(next # NoImage) + One(closing \/ owner.does = "close") <= MaxSaves + 2

\* The save under way and the completions name a load and a save; no completion
\* of the save under way is there yet.
OfALoad == {m \in Completions : m.kind # "idle" => m.load # NoLoad}
Named ==
    /\ save = NoSave \/ (save.id # NoId /\ save.load # NoLoad /\ save.for # "None")
    /\ save.id <= saves
    /\ posted \in Seq(OfALoad)
    /\ \A m \in ToSet(posted) : m.id <= saves /\ (save # NoSave => m.id # save.id)

EndOf(t) == {m \in ToSet(posted) : m.kind = "action" /\ m.id = t}
Awaited ==
    action # None /\ ~action.saved =>
       /\ action.ticket # NoId
       /\ (save.id = action.ticket /\ save.for = "action") \/ EndOf(action.ticket) # {}

\* The image that is selected is where the session is going.
Goal ==
    IF action.kind = "Switch" THEN Latest(action.target)
    ELSE IF owner.does = "acquire" THEN Latest(owner.target)
    ELSE IF owner.does = "promote" THEN next
    ELSE image
Wanted ==
    /\ recovery # None \/ ~accepting \/ action.kind = "Close" => wanted = NoImage
    /\ wanted # NoImage => wanted = Goal

\* An action that saves and is not to wait for its save any more has left no
\* edit unsaved; while it waits, its save has captured them all.
LateStates    == {"RetainedImageFailure", "Failed", "ShuttingDown"}
KeepsEdits(a) == a.persist /\ a.saved /\ guard => work = "saved"
Kept ==
    /\ work = "captured" /\ accepting => save # NoSave
    /\ recovery # None => state \in LateStates
    /\ KeepsEdits(action) /\ KeepsEdits(recovery)
    /\ action # None /\ ~action.saved /\ action.persist /\ guard =>
          /\ save = NoSave \/ save.id = action.ticket
          /\ save.id = action.ticket => work # "edited"
          /\ \A m \in EndOf(action.ticket) : m.ok => work = "saved"

NavInv ==
    TypeOK /\ Identity /\ Pending /\ Room /\ Named /\ Awaited /\ Wanted /\ Kept
----------------------------------------------------------------------------
\* The queue.

LEMMA Appended ==
  ASSUME NEW S, NEW q \in Seq(S), NEW m \in S
  PROVE  /\ Append(q, m) \in Seq(S)
         /\ ToSet(Append(q, m)) = ToSet(q) \cup {m}
<1>1. Append(q, m) \in Seq(S) /\ DOMAIN q = 1..Len(q) /\ Len(q) \in Nat
  OBVIOUS
<1>2. DOMAIN Append(q, m) = 1..(Len(q) + 1) /\ Append(q, m)[Len(q) + 1] = m
  OBVIOUS
<1>3. \A i \in 1..Len(q) : Append(q, m)[i] = q[i]
  OBVIOUS
<1>4. ToSet(Append(q, m)) \subseteq ToSet(q) \cup {m}
  BY <1>1, <1>2, <1>3 DEF ToSet
<1>5. ToSet(q) \cup {m} \subseteq ToSet(Append(q, m))
  BY <1>1, <1>2, <1>3 DEF ToSet
<1> QED
  BY <1>1, <1>4, <1>5

LEMMA Delivered ==
  ASSUME NEW S, NEW q \in Seq(S), q # << >>
  PROVE  /\ Tail(q) \in Seq(S) /\ Head(q) \in ToSet(q) /\ Head(q) \in S
         /\ ToSet(q) = {Head(q)} \cup ToSet(Tail(q))
<1>1. Tail(q) \in Seq(S) /\ Head(q) \in S /\ Len(q) \in Nat /\ Len(q) > 0
  OBVIOUS
<1>2. Head(q) = q[1] /\ DOMAIN q = 1..Len(q)
  OBVIOUS
<1>3. DOMAIN Tail(q) = 1..(Len(q) - 1) /\ \A i \in 1..(Len(q) - 1) : Tail(q)[i] = q[i + 1]
  OBVIOUS
<1>4. ToSet(q) \subseteq {Head(q)} \cup ToSet(Tail(q))
  <2> SUFFICES ASSUME NEW i \in 1..Len(q), i # 1 PROVE q[i] \in ToSet(Tail(q))
    BY <1>2 DEF ToSet
  <2>1. i - 1 \in 1..(Len(q) - 1) /\ q[i] = Tail(q)[i - 1]
    BY <1>1, <1>3
  <2> QED
    BY <2>1, <1>3 DEF ToSet
<1>5. ToSet(Tail(q)) \subseteq ToSet(q) /\ Head(q) \in ToSet(q)
  BY <1>1, <1>2, <1>3 DEF ToSet
<1> QED
  BY <1>1, <1>4, <1>5

LEMMA Joined ==
  ASSUME NEW S, NEW q \in Seq(S), NEW m \in S, NEW n \in Nat
  PROVE  /\ q \o [i \in 1..n |-> m] \in Seq(S)
         /\ ToSet(q) \subseteq ToSet(q \o [i \in 1..n |-> m])
         /\ ToSet(q \o [i \in 1..n |-> m]) \subseteq ToSet(q) \cup {m}
<1> DEFINE r == [i \in 1..n |-> m]
<1>1. r \in Seq(S) /\ Len(r) = n /\ \A i \in 1..n : r[i] = m
  OBVIOUS
<1> HIDE DEF r
<1>2. q \o r \in Seq(S) /\ Len(q \o r) = Len(q) + n
  BY <1>1
<1>3. \A i \in 1..(Len(q) + n) : (q \o r)[i] = IF i <= Len(q) THEN q[i] ELSE r[i - Len(q)]
  BY <1>1
<1>4. ToSet(q) \subseteq ToSet(q \o r)
  BY <1>1, <1>2, <1>3, SMTT(60) DEF ToSet
<1>5. ToSet(q \o r) \subseteq ToSet(q) \cup {m}
  <2> SUFFICES ASSUME NEW i \in 1..(Len(q) + n) PROVE (q \o r)[i] \in ToSet(q) \cup {m}
    BY <1>2 DEF ToSet
  <2>1. CASE i <= Len(q)
    BY <2>1, <1>3 DEF ToSet
  <2>2. CASE i > Len(q)
    <3>1. i - Len(q) \in 1..n
      BY <2>2
    <3> QED
      BY <2>2, <3>1, <1>1, <1>3
  <2>3. \A k \in Nat : i <= k \/ i > k
    OBVIOUS
  <2>4. Len(q) \in Nat
    OBVIOUS
  <2> QED
    BY <2>1, <2>2, <2>3, <2>4
<1> QED
  BY <1>2, <1>4, <1>5 DEF r
----------------------------------------------------------------------------
LEMMA Initially == Init => NavInv
<1> SUFFICES ASSUME Init PROVE NavInv
  OBVIOUS
<1> USE NavigationAssumption
<1>1. None \in Actions /\ Free \in [does : {"nothing", "acquire", "promote", "close"},
                                    target : Images \cup {NoImage}, promote : BOOLEAN]
  BY DEF None, NewAction, Actions, Free, NoId, NoLoad
<1>2. waiting \in [LoadIds -> 0..MaxWaiting] /\ posted \in Seq(Completions)
  BY DEF Init
<1>3. saves \in {NoId} \cup SaveIds /\ loads \in 0..MaxLoads
  BY DEF Init, NoId
<1>4. TypeOK
  BY <1>1, <1>2, <1>3 DEF Init, TypeOK, States, NoLoad, NoId, NoSave, LoadIds
<1>5. ToSet(posted) = {} /\ posted \in Seq(OfALoad)
  BY DEF Init, ToSet
<1> QED
  BY <1>4, <1>5 DEF Init, NavInv, Identity, Pending, Kinded, Kinds, Room, One, Named, Awaited, EndOf,
       Wanted, Goal, Kept, KeepsEdits, None, NewAction, Free, NoSave, NoId, NoLoad

----------------------------------------------------------------------------
\* What the handlers share.

Like(a, b) ==
    b \in Actions /\ b.kind = a.kind /\ b.target = a.target /\ b.persist = a.persist
                  /\ b.saved = a.saved

RenderTyped == frames \subseteq [load : LoadIds, first : BOOLEAN]
               /\ waiting \in [LoadIds -> 0..MaxWaiting]

\* A step posts no end of an action's save; it takes at most the first completion.
Adds ==
    /\ posted' \in Seq(OfALoad)
    /\ \A m \in ToSet(posted') : m \in ToSet(posted) \/ (m.kind # "action" /\ m.id = NoId)
Posts == RenderTyped' /\ Adds /\ ToSet(posted) \subseteq ToSet(posted')
Takes == Adds /\ posted # << >> /\ ToSet(posted) \ {Head(posted)} \subseteq ToSet(posted')

LEMMA BarrierPosts ==
  ASSUME NavInv, NEW a, Barrier(a, posted)
  PROVE  Posts
<1> USE NavigationAssumption
<1>1. PICK left \in {{}, {[load |-> load, first |-> FALSE]}} :
        /\ FramesOf(load) = {} => left = {}
        /\ frames' = (frames \ FramesOf(load)) \cup left
        /\ IF a.kind # "Version" /\ left # {}
           THEN waiting' = [waiting EXCEPT ![load] = Least(@ + 1, MaxWaiting)]
           ELSE UNCHANGED waiting
        /\ posted' = IF a.kind # "Version" /\ left = {}
                     THEN Append(posted, RenderIdle(load)) ELSE posted
  BY DEF Barrier
<1>2. load \in {NoLoad} \cup LoadIds /\ RenderTyped /\ posted \in Seq(OfALoad)
  BY DEF NavInv, TypeOK, Named, RenderTyped
<1>3. left # {} => load \in LoadIds
  BY <1>1, <1>2 DEF FramesOf, RenderTyped
<1>4. frames' \subseteq [load : LoadIds, first : BOOLEAN]
  <2>1. left \subseteq [load : LoadIds, first : BOOLEAN]
    <3>1. CASE left = {}
      BY <3>1
    <3>2. CASE left = {[load |-> load, first |-> FALSE]}
      BY <3>2, <1>3
    <3> QED
      BY <3>1, <3>2, <1>1
  <2> QED
    BY <1>1, <1>2, <2>1 DEF RenderTyped
<1>5. waiting' \in [LoadIds -> 0..MaxWaiting]
  BY <1>1, <1>2, <1>3 DEF RenderTyped, Least
<1>6. RenderIdle(load) \in OfALoad
  BY <1>2 DEF RenderIdle, OfALoad, Completions
<1>7. /\ Append(posted, RenderIdle(load)) \in Seq(OfALoad)
      /\ ToSet(Append(posted, RenderIdle(load))) = ToSet(posted) \cup {RenderIdle(load)}
  BY <1>2, <1>6, Appended
<1>8. RenderTyped'
  BY <1>4, <1>5 DEF RenderTyped
<1>9. RenderIdle(load).kind = "idle" /\ RenderIdle(load).id = NoId
  BY DEF RenderIdle
<1>10. posted' \in {posted, Append(posted, RenderIdle(load))}
  BY <1>1
<1> QED
  BY <1>2, <1>7, <1>8, <1>9, <1>10 DEF Posts, Adds

LEMMA StaysPosts ==
  ASSUME NavInv, UNCHANGED <<frames, waiting, posted>>
  PROVE  Posts
  BY DEF NavInv, TypeOK, Named, Posts, Adds, RenderTyped

LEMMA EndsStay ==
  ASSUME Posts, NEW t
  PROVE  {m \in ToSet(posted') : m.kind = "action" /\ m.id = t} = EndOf(t)
  BY DEF Posts, Adds, EndOf

\* What Named says of the queue after such a step, for the save there is then.
LEMMA QueueNamed ==
  ASSUME NavInv, Adds, saves' \in {saves, saves + 1},
         save' = save \/ (saves' = saves + 1 /\ save'.id = saves + 1)
  PROVE  /\ posted' \in Seq(OfALoad)
         /\ \A m \in ToSet(posted') : m.id <= saves' /\ (save' # NoSave => m.id # save'.id)
<1>1. saves \in Nat
  BY NavigationAssumption DEF NavInv, TypeOK, SaveIds, NoId
<1>2. \A m \in ToSet(posted) : m \in OfALoad
  BY DEF NavInv, Named, ToSet
<1>3. \A m \in ToSet(posted) : m.id \in Nat
  BY <1>2, NavigationAssumption DEF OfALoad, Completions, SaveIds, NoId
<1>4. save # NoSave => save.id # NoId
  BY DEF NavInv, Named
<1>5. \A m \in ToSet(posted) : m.id <= saves /\ (save # NoSave => m.id # save.id)
  BY DEF NavInv, Named
<1> QED
  BY <1>1, <1>3, <1>4, <1>5 DEF Adds, NoId

LEMMA SealCases ==
  ASSUME NavInv, NEW a \in Actions, NEW want, Seal(a, posted, want), saves + 1 \in SaveIds
  PROVE  /\ Posts
         /\ \/ NoStart /\ \E b : Like(a, b) /\ Retain(b)
            \/ /\ save = NoSave /\ guard /\ StartSave("action", work = "edited")
               /\ Like(a, action') /\ action'.ticket = saves + 1
               /\ recovery' = None /\ wanted' = want
<1>1. load \in {NoLoad} \cup LoadIds
  BY DEF NavInv, TypeOK
<1>2. Like(a, a) /\ Like(a, Sealed(a)) /\ Like(a, [Sealed(a) EXCEPT !.ticket = saves + 1])
      /\ [Sealed(a) EXCEPT !.ticket = saves + 1].ticket = saves + 1
  BY <1>1 DEF Like, Sealed, Actions
<1>3. Posts
  BY BarrierPosts, StaysPosts DEF Seal, render
<1> QED
  BY <1>2, <1>3 DEF Seal

LEMMA SealKeeps ==
  ASSUME NavInv, accepting, action = None,
         NEW a \in Actions, NEW want \in Images \cup {NoImage}, Seal(a, posted, want),
         a.kind # "None", Kinded(a), KeepsEdits(a), a.kind = "Version" => image # NoImage,
         UNCHANGED <<image, guard, load, accepting, loads, checkpoint, closing>>,
         leases' \subseteq leases, owner' = Free,
         next' \in {next, NoImage}, next' # NoImage => a.kind = "Switch",
         loads + One(a.kind = "Switch") + One(next' # NoImage) <= MaxLoads,
         saves + 1 + One(next' # NoImage) + One(closing) <= MaxSaves + 2,
         a.kind = "Close" => want = NoImage,
         want # NoImage =>
            want = (IF a.kind # "Switch" THEN image ELSE IF next' # NoImage THEN next' ELSE a.target)
  PROVE  NavInv'
<1> USE NavigationAssumption
<1>1. saves \in Nat /\ loads \in Nat
  BY DEF NavInv, TypeOK, SaveIds, NoId
<1>2. saves + 1 \in SaveIds
  BY <1>1 DEF SaveIds, One
<1>3. /\ Posts
      /\ \/ NoStart /\ \E b : Like(a, b) /\ Retain(b)
         \/ /\ save = NoSave /\ guard /\ StartSave("action", work = "edited")
            /\ Like(a, action') /\ action'.ticket = saves + 1
            /\ recovery' = None /\ wanted' = want
  BY <1>2, SealCases
<1>4. None \in Actions /\ NoImage \notin Images /\ None.kind = "None" /\ None.target = NoImage
      /\ ~None.persist /\ ~None.saved
  BY DEF None, NewAction, Actions, NoId, NoLoad
<1>5. RenderTyped' /\ posted' \in Seq(Completions)
  <2>1. OfALoad \subseteq Completions
    BY DEF OfALoad
  <2> QED
    BY <1>3, <2>1 DEF Posts, Adds
<1>6. Free \in [does : {"nothing", "acquire", "promote", "close"},
                target : Images \cup {NoImage}, promote : BOOLEAN] /\ Free.does = "nothing"
  BY DEF Free
<1>7. CASE NoStart /\ \E b : Like(a, b) /\ Retain(b)
  <2>1. PICK b : Like(a, b) /\ Retain(b)
    BY <1>7
  <2>2. b # None /\ Kinded(b)
    BY <2>1, <1>4 DEF Like, Kinded
  <2>3. TypeOK'
    BY <1>5, <1>6, <1>4, <2>1, <1>7 DEF NavInv, TypeOK, Retain, NoStart, Like, RenderTyped, States
  <2>4. Identity'
    BY DEF NavInv, Identity
  <2>5. Pending'
    BY <1>4, <1>6, <2>1, <2>2 DEF NavInv, Pending, Kinds, Kinded, Retain, Like
  <2>6. Room'
    BY <1>1, <1>4, <1>6, <1>7, <2>1 DEF Room, Kinds, Retain, Like, NoStart, One
  <2>7. Named'
    BY <1>3, <1>7, QueueNamed DEF NavInv, Named, NoStart, Posts
  <2>8. Awaited' /\ Wanted'
    BY <1>4, <2>1 DEF Awaited, Wanted, Retain
  <2>9. Kept'
    BY <1>4, <1>7, <2>1 DEF NavInv, Kept, KeepsEdits, Retain, Like, NoStart, LateStates
  <2> QED
    BY <2>3, <2>4, <2>5, <2>6, <2>7, <2>8, <2>9 DEF NavInv
<1>8. CASE /\ save = NoSave /\ guard /\ StartSave("action", work = "edited")
           /\ Like(a, action') /\ action'.ticket = saves + 1
           /\ recovery' = None /\ wanted' = want
  <2>1. Kinded(action') /\ action' # None
    BY <1>4, <1>8 DEF Like, Kinded
  <2>2. load \in LoadIds /\ load # NoLoad /\ save' = [id |-> saves + 1, load |-> load, for |-> "action"]
        /\ saves' = saves + 1 /\ state' = "Saving"
    BY <1>8 DEF NavInv, TypeOK, Identity, StartSave
  <2>3. save' \in [id : {NoId} \cup SaveIds, load : {NoLoad} \cup LoadIds,
                   for : {"None", "action", "history"}] /\ save' # NoSave
    BY <1>2, <2>2 DEF NoSave
  <2>4. TypeOK'
    BY <1>2, <1>5, <1>6, <1>4, <2>2, <2>3, <1>8
       DEF NavInv, TypeOK, StartSave, Like, RenderTyped, States
  <2>5. Identity'
    BY DEF NavInv, Identity
  <2>6. Pending'
    BY <1>4, <1>6, <1>8, <2>1 DEF NavInv, Pending, Kinds, Kinded, Like
  <2>7. Room'
    BY <1>1, <1>4, <1>6, <1>8, <2>2 DEF Room, Kinds, Like, One
  <2>8. Named'
    BY <1>1, <1>3, <2>2, <2>3, QueueNamed DEF NavInv, Named, NoId, Posts
  <2>9. Awaited'
    BY <1>1, <1>8, <2>2 DEF Awaited, NoId
  <2>10. Wanted'
    BY <1>4, <1>6, <1>8 DEF Wanted, Goal, Latest, Like
  <2>11. \A m \in ToSet(posted') : ~(m.kind = "action" /\ m.id = saves + 1)
    <3>1. \A m \in ToSet(posted') : m.kind = "action" /\ m.id = saves + 1
                                      => m \in EndOf(saves + 1)
      BY <1>3, EndsStay
    <3>2. \A m \in ToSet(posted) : m.id <= saves
      BY DEF NavInv, Named
    <3> QED
      BY <1>1, <3>1, <3>2 DEF EndOf
  <2>12. Kept'
    BY <1>4, <1>8, <2>2, <2>3, <2>11 DEF NavInv, Kept, KeepsEdits, Like, StartSave, EndOf
  <2> QED
    BY <2>4, <2>5, <2>6, <2>7, <2>8, <2>9, <2>10, <2>12 DEF NavInv
<1> QED
  BY <1>3, <1>7, <1>8

LEMMA NoneTyped ==
  /\ None \in Actions /\ None.kind = "None" /\ None.target = NoImage /\ ~None.persist /\ ~None.saved
  /\ NoImage \notin Images
  BY NavigationAssumption DEF None, NewAction, Actions, NoId, NoLoad

LEMMA FreeTyped ==
  /\ Free \in [does : {"nothing", "acquire", "promote", "close"},
               target : Images \cup {NoImage}, promote : BOOLEAN]
  /\ Free.does = "nothing"
  BY DEF Free

LEMMA CountersTyped ==
  ASSUME NavInv
  PROVE  saves \in Nat /\ loads \in Nat /\ {MaxLoads, MaxSaves} \subseteq Nat
  BY NavigationAssumption DEF NavInv, TypeOK, SaveIds, NoId
----------------------------------------------------------------------------
\* Every action keeps NavInv.  Switch and open.

LEMMA SelectNextKeeps ==
  ASSUME NavInv, NEW img \in Images, SelectNext(img)
  PROVE  NavInv'
<1> USE DEF SelectNext, MaySave, Allowed
<1>1. TypeOK'
  BY DEF NavInv, TypeOK, session, pendings, render
<1>2. Identity' /\ Pending'
  BY NoneTyped, FreeTyped DEF NavInv, Identity, Pending, Kinds, Kinded, session, pendings
<1>3. Room'
  BY NoneTyped, FreeTyped, CountersTyped
     DEF NavInv, Room, Kinds, Pending, One, session, pendings
<1>4. Named' /\ Awaited' /\ Kept'
  BY DEF NavInv, Named, Awaited, Kept, KeepsEdits, EndOf, session, pendings
<1>5. Wanted'
  BY NoneTyped DEF NavInv, Wanted, Goal, Latest, Pending, session, pendings
<1> QED
  BY <1>1, <1>2, <1>3, <1>4, <1>5 DEF NavInv

LEMMA SelectKeeps ==
  ASSUME NavInv, NEW img \in Images, Select(img)
  PROVE  NavInv'
<1> USE DEF Select, MaySave, Allowed
<1>1. next = NoImage /\ accepting /\ owner = Free /\ action = None /\ recovery = None
  BY NoneTyped, FreeTyped DEF NavInv, Pending, Kinds
<1>2. CASE image = NoImage
  <2>1. owner' = [does |-> "acquire", target |-> img, promote |-> FALSE] /\ wanted' = img
        /\ UNCHANGED <<session, pendings, save, saves, work, render, posted, loads>>
    BY <1>2 DEF NoStart, session, pendings, render
  <2>2. owner' \in [does : {"nothing", "acquire", "promote", "close"},
                    target : Images \cup {NoImage}, promote : BOOLEAN]
    BY <2>1
  <2>3. TypeOK'
    BY <2>1, <2>2 DEF NavInv, TypeOK, session, pendings, render
  <2>4. Identity' /\ Pending'
    BY <1>1, <2>1, NoneTyped DEF NavInv, Identity, Pending, Kinds, Kinded, session, pendings
  <2>5. Room'
    BY <1>1, <2>1, NoneTyped, FreeTyped, CountersTyped
       DEF NavInv, Room, Kinds, One, session, pendings
  <2>6. Named' /\ Awaited' /\ Kept'
    BY <2>1 DEF NavInv, Named, Awaited, Kept, KeepsEdits, EndOf, session, pendings
  <2>7. Wanted'
    BY <1>1, <2>1, NoneTyped DEF NavInv, Wanted, Goal, Latest, session, pendings
  <2> QED
    BY <2>3, <2>4, <2>5, <2>6, <2>7 DEF NavInv
<1>3. CASE image # NoImage
  <2> DEFINE a == NewAction("Switch", img, TRUE)
  <2>1. a \in Actions /\ a.kind = "Switch" /\ a.target = img /\ ~a.saved
    BY DEF NewAction, Actions, NoId, NoLoad
  <2>2. Kinded(a) /\ KeepsEdits(a) /\ Seal(a, posted, img)
    BY <1>3, <2>1, NoneTyped DEF Kinded, KeepsEdits
  <2>3. loads + One(a.kind = "Switch") + One(next' # NoImage) <= MaxLoads
    BY <1>1, <2>1, CountersTyped DEF One
  <2>4. saves + 1 + One(next' # NoImage) + One(closing) <= MaxSaves + 2
    BY <1>1, CountersTyped DEF One
  <2> HIDE DEF a
  <2> QED
    BY <1>1, <1>3, <2>1, <2>2, <2>3, <2>4, SealKeeps, NoneTyped
<1> QED
  BY <1>2, <1>3

LEMMA PromoteKeeps ==
  ASSUME NavInv, PromoteQueuedSwitchTarget
  PROVE  NavInv'
<1> USE DEF PromoteQueuedSwitchTarget
<1> DEFINE a == NewAction("Switch", next, TRUE)
<1>1. accepting /\ action = None /\ recovery = None /\ next # NoImage
  BY FreeTyped DEF NavInv, Pending
<1>2. next \in Images \cup {NoImage} /\ wanted \in Images \cup {NoImage}
  BY DEF NavInv, TypeOK
<1>3. a \in Actions /\ a.kind = "Switch" /\ a.target = next /\ ~a.saved
  BY <1>2 DEF NewAction, Actions, NoId, NoLoad
<1>4. Kinded(a) /\ KeepsEdits(a) /\ Seal(a, posted, wanted)
  BY <1>1, <1>3, NoneTyped DEF Kinded, KeepsEdits
<1>5. loads + One(a.kind = "Switch") + One(next' # NoImage) <= MaxLoads
  BY <1>1, <1>3, NoneTyped, CountersTyped DEF NavInv, Room, Kinds, One
<1>6. saves + 1 + One(next' # NoImage) + One(closing) <= MaxSaves + 2
  BY <1>1, CountersTyped DEF NavInv, Room, One
<1>7. wanted # NoImage => wanted = next
  BY <1>1, NoneTyped DEF NavInv, Wanted, Goal
<1> HIDE DEF a
<1> QED
  BY <1>1, <1>2, <1>3, <1>4, <1>5, <1>6, <1>7, SealKeeps
----------------------------------------------------------------------------
\* Versions and edits.

LEMMA VersionKeeps ==
  ASSUME NavInv, Version
  PROVE  NavInv'
<1> USE DEF Version, MaySave, Allowed, Editable
<1>1. next = NoImage /\ accepting /\ owner = Free /\ action = None /\ recovery = None
  BY NoneTyped, FreeTyped DEF NavInv, Pending, Kinds
<1>2. CASE guard
  <2> DEFINE a == NewAction("Version", NoImage, TRUE)
  <2>1. a \in Actions /\ a.kind = "Version" /\ a.target = NoImage /\ ~a.saved
    BY DEF NewAction, Actions, NoId, NoLoad
  <2>2. Kinded(a) /\ KeepsEdits(a) /\ Seal(a, posted, wanted)
    BY <1>2, <2>1, NoneTyped DEF Kinded, KeepsEdits
  <2>3. loads + One(a.kind = "Switch") + One(next' # NoImage) <= MaxLoads
    <3>1. next' = NoImage /\ loads <= MaxLoads
      BY <1>1 DEF NavInv, TypeOK
    <3>2. a.kind # "Switch" /\ next' = NoImage
      BY <2>1, <3>1
    <3> HIDE DEF a, Version
    <3> QED
      BY <3>1, <3>2, CountersTyped DEF One
  <2>4. saves + 1 + One(next' # NoImage) + One(closing) <= MaxSaves + 2
    BY <1>1, CountersTyped DEF One
  <2>5. wanted \in Images \cup {NoImage} /\ (wanted # NoImage => wanted = image)
    BY <1>1, NoneTyped, FreeTyped DEF NavInv, TypeOK, Wanted, Goal
  <2> HIDE DEF a
  <2> QED
    BY <1>1, <2>1, <2>2, <2>3, <2>4, <2>5, SealKeeps
<1>3. CASE ~guard
  <2>1. state' = "Failed" /\ wanted' = NoImage
        /\ UNCHANGED <<image, guard, load, accepting, pendings, owner, save, saves, work, render,
                       posted, loads>>
    BY <1>3 DEF NoStart, pendings
  <2>2. TypeOK'
    BY <2>1 DEF NavInv, TypeOK, States, pendings, render
  <2>3. Identity' /\ Pending' /\ Room'
    BY <2>1 DEF NavInv, Identity, Pending, Kinds, Kinded, Room, pendings
  <2>4. Named' /\ Awaited' /\ Wanted'
    BY <2>1 DEF NavInv, Named, Awaited, EndOf, Wanted, pendings
  <2>5. Kept'
    BY <2>1 DEF NavInv, Kept, KeepsEdits, EndOf, LateStates, pendings
  <2> QED
    BY <2>2, <2>3, <2>4, <2>5 DEF NavInv
<1> QED
  BY <1>2, <1>3

LEMMA EditKeeps ==
  ASSUME NavInv, Edit
  PROVE  NavInv'
<1> USE DEF Edit, Allowed, Editable
<1>1. load \in LoadIds /\ accepting
  BY DEF NavInv, TypeOK, Identity
<1>2. frames' \subseteq [load : LoadIds, first : BOOLEAN]
  <2>1. [load |-> load, first |-> FALSE] \in [load : LoadIds, first : BOOLEAN]
    BY <1>1
  <2> QED
    BY <2>1 DEF NavInv, TypeOK
<1>3. TypeOK'
  BY <1>2 DEF NavInv, TypeOK, session, pendings
<1>4. Identity' /\ Pending' /\ Room'
  BY DEF NavInv, Identity, Pending, Kinds, Kinded, Room, session, pendings
<1>5. Named' /\ Awaited' /\ Wanted'
  BY DEF NavInv, Named, Awaited, EndOf, Wanted, Goal, Latest, session, pendings
<1>6. Kept'
  BY NoneTyped DEF NavInv, Kept, KeepsEdits, EndOf, LateStates, session, pendings
<1> QED
  BY <1>3, <1>4, <1>5, <1>6 DEF NavInv

LEMMA AcquireKeeps ==
  ASSUME NavInv, Acquire
  PROVE  NavInv'
<1> USE DEF Acquire
<1>1. /\ accepting /\ action = None /\ recovery = None
      /\ owner.target \in Images /\ owner.does = "acquire"
  BY FreeTyped DEF NavInv, TypeOK, Pending
<1>2. PICK how \in {"ok"} \cup ({"recover", "acquire"} \cap Failures) :
          /\ state' = IF how = "ok" THEN "Loading" ELSE "Failed"
          /\ image' = IF how = "recover" THEN NoImage ELSE owner.target
          /\ load'  = IF how = "recover" THEN NoLoad ELSE loads + 1
          /\ guard' = (how = "ok")
          /\ frames' = IF how # "ok" THEN frames
                       ELSE {[f EXCEPT !.first = FALSE] : f \in frames}
                            \cup {[load |-> loads + 1, first |-> TRUE]}
          /\ leases' = IF how = "ok" /\ ~owner.promote
                       THEN leases \cup {Lease("ImageLoad", NoId)} ELSE leases
          /\ wanted' = IF how = "ok" THEN wanted ELSE NoImage
  OBVIOUS
<1>3. loads + 1 \in LoadIds /\ loads + 1 \in 0..MaxLoads /\ loads + 1 # NoLoad
  BY <1>1, NoneTyped, CountersTyped DEF NavInv, Room, Kinds, One, LoadIds, NoLoad
<1>4. frames' \subseteq [load : LoadIds, first : BOOLEAN]
  <2>1. frames \subseteq [load : LoadIds, first : BOOLEAN]
    BY DEF NavInv, TypeOK
  <2>2. {[f EXCEPT !.first = FALSE] : f \in frames} \subseteq [load : LoadIds, first : BOOLEAN]
    BY <2>1
  <2>3. [load |-> loads + 1, first |-> TRUE] \in [load : LoadIds, first : BOOLEAN]
    BY <1>3
  <2> QED
    BY <1>2, <2>1, <2>2, <2>3
<1>5. leases' \subseteq [kind : {"ImageLoad", "SaveCheckpoint", "Paste", "FailureRecovery"},
                         save : {NoId} \cup SaveIds]
  BY <1>2 DEF NavInv, TypeOK, Lease
<1>6. /\ owner' \in [does : {"nothing", "acquire", "promote", "close"},
                     target : Images \cup {NoImage}, promote : BOOLEAN]
      /\ owner'.does = IF owner.promote /\ next # NoImage THEN "promote" ELSE "nothing"
  BY FreeTyped DEF NavInv, TypeOK
<1>7. TypeOK'
  <2>1. state' \in States /\ work' = "saved"
    BY <1>2 DEF States
  <2>2. image' \in Images \cup {NoImage} /\ load' \in {NoLoad} \cup LoadIds /\ guard' \in BOOLEAN
    BY <1>1, <1>2, <1>3
  <2>3. wanted' \in Images \cup {NoImage} /\ loads' \in 0..MaxLoads
    BY <1>2, <1>3 DEF NavInv, TypeOK
  <2> QED
    BY <1>4, <1>5, <1>6, <2>1, <2>2, <2>3 DEF NavInv, TypeOK
<1>8. Identity'
  BY <1>1, <1>2, <1>3, NoneTyped DEF Identity
<1>9. Pending'
  BY <1>1, <1>6, NoneTyped DEF NavInv, Pending, Kinds, Kinded
<1>10. Room'
  BY <1>1, <1>6, CountersTyped DEF NavInv, Room, Kinds, One
<1>11. Named' /\ Awaited' /\ Kept'
  BY <1>1, NoneTyped DEF NavInv, Named, Awaited, Kept, KeepsEdits, EndOf
<1>12. Wanted'
  BY <1>1, <1>2, <1>6, NoneTyped DEF NavInv, Wanted, Goal, Latest, Pending, Kinds
<1> QED
  BY <1>7, <1>8, <1>9, <1>10, <1>11, <1>12 DEF NavInv
----------------------------------------------------------------------------
\* Leaving the editor.

LEMMA WithoutSaveKeeps ==
  ASSUME NavInv, accepting, action = None,
         NEW a \in Actions, WithoutSave(a, posted),
         a.kind \in {"Switch", "Close"}, Kinded(a), ~(a.persist /\ guard),
         UNCHANGED <<state, image, guard, load, accepting, loads, checkpoint, closing, next,
                     save, saves, work>>,
         leases' \subseteq leases, owner' = Free,
         next # NoImage => a.kind = "Switch",
         loads + One(a.kind = "Switch") + One(next # NoImage) <= MaxLoads,
         saves + One(next # NoImage) + One(closing) <= MaxSaves + 2,
         wanted' = IF a.kind = "Switch" THEN Latest(a.target) ELSE NoImage
  PROVE  NavInv'
<1>1. Posts /\ recovery' = None
  BY BarrierPosts DEF WithoutSave
<1>2. /\ action' \in Actions /\ action'.kind = a.kind /\ action'.target = a.target
      /\ action'.persist = a.persist /\ action'.saved
  BY DEF WithoutSave, NavInv, TypeOK, Actions
<1>3. Kinded(action') /\ action' # None
  BY <1>2, NoneTyped DEF Kinded
<1>4. RenderTyped' /\ posted' \in Seq(Completions)
  <2>1. OfALoad \subseteq Completions
    BY DEF OfALoad
  <2> QED
    BY <1>1, <2>1 DEF Posts, Adds
<1>5. a.target \in Images \cup {NoImage}
  BY DEF Actions
<1>6. TypeOK'
  BY <1>1, <1>2, <1>4, <1>5, NoneTyped, FreeTyped DEF NavInv, TypeOK, RenderTyped, Latest
<1>7. Identity'
  BY DEF NavInv, Identity
<1>8. Pending'
  BY <1>1, <1>2, <1>3, NoneTyped, FreeTyped DEF NavInv, Pending, Kinds, Kinded
<1>9. Room'
  BY <1>1, <1>2, NoneTyped, FreeTyped, CountersTyped DEF Room, Kinds, One
<1>10. Named'
  BY <1>1, QueueNamed DEF NavInv, Named, Posts
<1>11. Awaited' /\ Wanted'
  BY <1>1, <1>2, NoneTyped DEF Awaited, Wanted, Goal, Latest
<1>12. Kept'
  BY <1>1, <1>2, NoneTyped DEF NavInv, Kept, KeepsEdits
<1> QED
  BY <1>6, <1>7, <1>8, <1>9, <1>10, <1>11, <1>12 DEF NavInv

LEMMA RequestCloseKeeps ==
  ASSUME NavInv, accepting, action = None, recovery = None,
         owner.does \in {"nothing", "close"}, NEW persist \in BOOLEAN, RequestClose(persist),
         UNCHANGED <<image, guard, load, accepting, loads, checkpoint, closing, next, leases>>,
         owner' = Free,
         persist => saves + 1 + One(closing) <= MaxSaves + 2
  PROVE  NavInv'
<1> DEFINE a == NewAction("Close", NoImage, persist)
<1>1. next = NoImage
  BY NoneTyped DEF NavInv, Pending, Kinds
<1>2. a \in Actions /\ a.kind = "Close" /\ a.target = NoImage /\ a.persist = persist /\ ~a.saved
  BY DEF NewAction, Actions, NoId, NoLoad
<1>3. Kinded(a) /\ KeepsEdits(a)
  BY <1>2 DEF Kinded, KeepsEdits
<1>4. loads + One(a.kind = "Switch") + One(next # NoImage) <= MaxLoads
  <2>1. loads <= MaxLoads
    BY DEF NavInv, TypeOK
  <2> HIDE DEF a
  <2> QED
    BY <1>1, <1>2, <2>1, CountersTyped DEF One
<1>5. CASE persist /\ image # NoImage /\ guard
  <2>1. Seal(a, posted, NoImage)
    BY <1>5 DEF RequestClose
  <2>2. saves + 1 + One(next' # NoImage) + One(closing) <= MaxSaves + 2
    BY <1>1, <1>5, CountersTyped DEF One
  <2> HIDE DEF a
  <2> QED
    BY <1>1, <1>2, <1>3, <1>4, <2>1, <2>2, SealKeeps, NoneTyped
<1>6. CASE ~(persist /\ image # NoImage /\ guard)
  <2>1. WithoutSave(a, posted) /\ wanted' = NoImage /\ UNCHANGED <<state, save, saves, work>>
    BY <1>6 DEF RequestClose, NoStart
  <2>2. ~(a.persist /\ guard)
    BY <1>2, <1>6 DEF NavInv, Identity
  <2>3. saves + One(next # NoImage) + One(closing) <= MaxSaves + 2
    BY <1>1, CountersTyped DEF NavInv, Room, One
  <2> HIDE DEF a
  <2> QED
    BY <1>1, <1>2, <1>3, <1>4, <2>1, <2>2, <2>3, WithoutSaveKeeps
<1> QED
  BY <1>5, <1>6

LEMMA CloseKeeps ==
  ASSUME NavInv, NEW persist \in BOOLEAN, Close(persist)
  PROVE  NavInv'
<1>1. accepting /\ owner = Free /\ (persist => saves < MaxSaves)
      /\ UNCHANGED <<image, guard, load, accepting, next, checkpoint, leases, owner, loads>>
  BY DEF Close, MaySave, Allowed
<1>2. CASE persist /\ checkpoint # "None"
  <2>1. closing' = TRUE /\ wanted' = NoImage
        /\ UNCHANGED <<state, action, recovery, save, saves, work, frames, waiting, posted>>
    BY <1>2 DEF Close, NoStart, render
  <2>2. TypeOK'
    BY <1>1, <2>1 DEF NavInv, TypeOK
  <2>3. Identity' /\ Pending'
    BY <1>1, <2>1, FreeTyped DEF NavInv, Identity, Pending, Kinds, Kinded
  <2>4. Room'
    BY <1>1, <1>2, <2>1, FreeTyped, CountersTyped DEF NavInv, Room, Kinds, One
  <2>5. Named' /\ Awaited' /\ Wanted' /\ Kept'
    BY <1>1, <2>1 DEF NavInv, Named, Awaited, EndOf, Wanted, Kept, KeepsEdits
  <2> QED
    BY <2>2, <2>3, <2>4, <2>5 DEF NavInv
<1>3. CASE ~(persist /\ checkpoint # "None")
  <2>1. action = None /\ recovery = None /\ RequestClose(persist) /\ UNCHANGED closing
    BY <1>3 DEF Close
  <2>2. persist => saves + 1 + One(closing) <= MaxSaves + 2
    BY <1>1, CountersTyped DEF One
  <2> QED
    BY <1>1, <2>1, <2>2, RequestCloseKeeps, FreeTyped
<1> QED
  BY <1>2, <1>3

LEMMA CloseAfterPersistKeeps ==
  ASSUME NavInv, CloseAfterPersist
  PROVE  NavInv'
<1>1. owner.does = "close" /\ owner' = Free /\ accepting
      /\ UNCHANGED <<image, guard, load, accepting, next, checkpoint, closing, leases, loads>>
  BY FreeTyped DEF CloseAfterPersist, NavInv, Pending
<1>2. CASE action = None /\ recovery = None
  <2>1. saves + 1 + One(closing) <= MaxSaves + 2
    BY <1>1, CountersTyped DEF NavInv, Room, Pending, One
  <2> QED
    BY <1>1, <1>2, <2>1, RequestCloseKeeps DEF CloseAfterPersist
<1>3. CASE ~(action = None /\ recovery = None)
  <2>1. UNCHANGED <<state, action, recovery, save, saves, work, frames, waiting, posted, wanted>>
    BY <1>3 DEF CloseAfterPersist, NoStart, render
  <2>2. TypeOK'
    BY <1>1, <2>1, FreeTyped DEF NavInv, TypeOK
  <2>3. Identity' /\ Pending'
    BY <1>1, <2>1, FreeTyped DEF NavInv, Identity, Pending, Kinds, Kinded
  <2>4. Room'
    BY <1>1, <2>1, FreeTyped, CountersTyped DEF NavInv, Room, Kinds, One
  <2>5. Named' /\ Awaited' /\ Kept'
    BY <1>1, <2>1 DEF NavInv, Named, Awaited, EndOf, Kept, KeepsEdits
  <2>6. Wanted'
    BY <1>1, <2>1, FreeTyped DEF NavInv, Wanted, Goal, Latest
  <2> QED
    BY <2>2, <2>3, <2>4, <2>5, <2>6 DEF NavInv
<1> QED
  BY <1>2, <1>3

LEMMA SavedTyped ==
  ASSUME NavInv, save # NoSave, NEW ok \in BOOLEAN
  PROVE  /\ Saved(save, ok) \in OfALoad /\ Saved(save, ok).id = save.id
         /\ Saved(save, ok).kind = save.for /\ Saved(save, ok).ok = ok
         /\ Append(posted, Saved(save, ok)) \in Seq(OfALoad)
         /\ ToSet(Append(posted, Saved(save, ok))) = ToSet(posted) \cup {Saved(save, ok)}
<1>1. Saved(save, ok) \in OfALoad
  BY DEF NavInv, TypeOK, Named, Saved, OfALoad, Completions
<1>2. posted \in Seq(OfALoad)
  BY DEF NavInv, Named
<1> QED
  BY <1>1, <1>2, Appended DEF Saved

LEMMA ShutdownKeeps ==
  ASSUME NavInv, Shutdown
  PROVE  NavInv'
<1>1. /\ accepting /\ owner = Free /\ ~accepting' /\ accepting' \in BOOLEAN
      /\ state' = "ShuttingDown" /\ image' = NoImage /\ load' = NoLoad /\ wanted' = NoImage
      /\ action' = None /\ save' = NoSave
      /\ UNCHANGED <<guard, recovery, next, checkpoint, closing, leases, owner, frames, waiting,
                     loads, saves, work>>
  BY DEF Shutdown, Allowed, render
<1>2. /\ posted' \in Seq(OfALoad)
      /\ \A m \in ToSet(posted') : m.id <= saves
  <2>1. posted' = IF save = NoSave THEN posted ELSE Append(posted, Saved(save, FALSE))
    BY DEF Shutdown
  <2> QED
    BY <2>1, SavedTyped DEF NavInv, Named
<1>3. NoSave \in [id : {NoId} \cup SaveIds, load : {NoLoad} \cup LoadIds,
                  for : {"None", "action", "history"}]
  BY DEF NoSave
<1>4. posted' \in Seq(Completions)
  BY <1>2 DEF OfALoad
<1>5. TypeOK'
  <2>1. state' \in States /\ image' \in Images \cup {NoImage} /\ load' \in {NoLoad} \cup LoadIds
        /\ wanted' \in Images \cup {NoImage}
    BY <1>1 DEF States
  <2>2. {action', recovery'} \subseteq Actions /\ save' \in {NoSave}
    BY <1>1, NoneTyped DEF NavInv, TypeOK
  <2> QED
    BY <1>1, <1>3, <1>4, <2>1, <2>2 DEF NavInv, TypeOK
<1>6. Identity' /\ Pending' /\ Room'
  BY <1>1, NoneTyped, FreeTyped DEF NavInv, Identity, Pending, Kinds, Kinded, Room
<1>7. Named'
  <2>1. save' = NoSave /\ NoSave.id = 0 /\ saves' = saves
    BY <1>1 DEF NoSave, NoId
  <2> QED
    BY <1>2, <2>1, CountersTyped DEF Named
<1>8. Awaited' /\ Wanted'
  BY <1>1 DEF Awaited, Wanted
<1>9. Kept'
  BY <1>1, NoneTyped DEF NavInv, Kept, KeepsEdits, LateStates
<1> QED
  BY <1>5, <1>6, <1>7, <1>8, <1>9 DEF NavInv
----------------------------------------------------------------------------
\* Saves that keep the image.

LEMMA HistoryCheckpointKeeps ==
  ASSUME NavInv, accepting, image # NoImage, state = "Interactive", saves < MaxSaves, owner = Free,
         NEW mark \in {"Persist", "Paste"},
         NEW ls \in SUBSET [kind : {"ImageLoad", "SaveCheckpoint", "Paste", "FailureRecovery"},
                            save : {NoId} \cup SaveIds],
         StartHistoryCheckpoint(mark, ls),
         UNCHANGED <<image, guard, load, accepting, action, recovery, next, closing, owner, render,
                     posted, loads, wanted>>
  PROVE  NavInv'
<1>1. recovery = None /\ load \in LoadIds /\ load # NoLoad
  BY DEF NavInv, Kept, LateStates, TypeOK, Identity
<1>2. UNCHANGED <<frames, waiting>>
  BY DEF render
<1>3. CASE /\ checkpoint' = "None" /\ leases' = {l \in ls : l.kind # "Paste"}
           /\ UNCHANGED <<state, save, saves>>
           /\ work' = IF mark = "Paste" /\ action = None THEN "edited" ELSE work
  <2>1. TypeOK'
    BY <1>2, <1>3 DEF NavInv, TypeOK
  <2>2. Identity' /\ Pending' /\ Room'
    BY <1>3 DEF NavInv, Identity, Pending, Kinds, Kinded, Room
  <2>3. Named' /\ Awaited' /\ Wanted'
    BY <1>3 DEF NavInv, Named, Awaited, EndOf, Wanted, Goal, Latest
  <2>4. Kept'
    BY <1>1, <1>3, NoneTyped DEF NavInv, Kept, KeepsEdits, EndOf
  <2> QED
    BY <2>1, <2>2, <2>3, <2>4 DEF NavInv
<1>4. CASE /\ guard /\ action = None /\ save = NoSave
           /\ StartSave("history", work = "edited" \/ mark = "Paste")
           /\ checkpoint' = mark /\ leases' = ls \cup {Lease("SaveCheckpoint", saves + 1)}
  <2>1. /\ saves' = saves + 1 /\ save' = [id |-> saves + 1, load |-> load, for |-> "history"]
        /\ state' = "Saving" /\ saves + 1 \in SaveIds /\ work' \in {"captured", work}
    BY <1>4, CountersTyped DEF StartSave, SaveIds
  <2>2. /\ save' \in [id : {NoId} \cup SaveIds, load : {NoLoad} \cup LoadIds,
                      for : {"None", "action", "history"}]
        /\ save' # NoSave
    BY <1>1, <2>1 DEF NoSave
  <2>3. TypeOK'
    BY <1>2, <1>4, <2>1, <2>2 DEF NavInv, TypeOK, States, Lease
  <2>4. Identity' /\ Pending'
    BY DEF NavInv, Identity, Pending, Kinds, Kinded
  <2>5. Room'
    <3>1. next = NoImage
      BY <1>1, <1>4, NoneTyped, FreeTyped DEF NavInv, Pending, Kinds
    <3> QED
      BY <1>1, <1>4, <2>1, <3>1, CountersTyped DEF NavInv, Room, Kinds, One
  <2>6. Named'
    <3>1. Adds
      BY DEF NavInv, Named, Adds
    <3> QED
      BY <1>1, <2>1, <2>2, <3>1, CountersTyped, QueueNamed DEF Named, NoId
  <2>7. Awaited' /\ Wanted'
    BY <1>4 DEF NavInv, Awaited, Wanted, Goal, Latest
  <2>8. Kept'
    BY <1>1, <1>4, <2>1, <2>2, NoneTyped DEF NavInv, Kept, KeepsEdits
  <2> QED
    BY <2>3, <2>4, <2>5, <2>6, <2>7, <2>8 DEF NavInv
<1> QED
  BY <1>3, <1>4 DEF StartHistoryCheckpoint

LEMMA PersistKeeps ==
  ASSUME NavInv, PersistCurrentImage
  PROVE  NavInv'
<1>1. leases \in SUBSET [kind : {"ImageLoad", "SaveCheckpoint", "Paste", "FailureRecovery"},
                         save : {NoId} \cup SaveIds]
  BY DEF NavInv, TypeOK
<1> QED
  BY <1>1, HistoryCheckpointKeeps DEF PersistCurrentImage, MaySave, Allowed

LEMMA PasteKeeps ==
  ASSUME NavInv, PasteAdjustments
  PROVE  NavInv'
<1> DEFINE ls == leases \cup {Lease("Paste", saves + 1)}
<1>1. saves + 1 \in SaveIds
  BY CountersTyped DEF PasteAdjustments, MaySave, SaveIds
<1>2. ls \in SUBSET [kind : {"ImageLoad", "SaveCheckpoint", "Paste", "FailureRecovery"},
                     save : {NoId} \cup SaveIds]
  BY <1>1 DEF NavInv, TypeOK, Lease
<1>3. StartHistoryCheckpoint("Paste", ls)
  BY DEF PasteAdjustments
<1> HIDE DEF ls
<1> QED
  BY <1>2, <1>3, HistoryCheckpointKeeps DEF PasteAdjustments, MaySave, Allowed, Editable
----------------------------------------------------------------------------
\* After a failed save.

LEMMA RetryKeeps ==
  ASSUME NavInv, RetrySave
  PROVE  NavInv'
<1> DEFINE a == [recovery EXCEPT !.ticket = NoId]
<1>1. /\ accepting /\ owner = Free /\ saves < MaxSaves /\ recovery # None /\ action = None
      /\ leases' \subseteq leases /\ Seal(a, posted, Latest(recovery.target))
      /\ UNCHANGED <<image, guard, load, accepting, next, checkpoint, closing, owner, loads>>
  BY DEF RetrySave, MaySave, Allowed, Recovering, Resolved, NavInv, Pending
<1>2. /\ a \in Actions /\ a.kind = recovery.kind /\ a.target = recovery.target
      /\ a.persist = recovery.persist /\ a.saved = recovery.saved
  BY DEF NavInv, TypeOK, Actions
<1>3. /\ a.kind # "None" /\ Kinded(a) /\ KeepsEdits(a)
      /\ (a.kind = "Version" => image # NoImage)
  BY <1>1, <1>2, NoneTyped DEF NavInv, Pending, Kinds, Kinded, Kept, KeepsEdits
<1>4. next # NoImage => a.kind = "Switch"
  BY <1>1, <1>2, NoneTyped, FreeTyped DEF NavInv, Pending, Kinds
<1>5. loads + One(a.kind = "Switch") + One(next # NoImage) <= MaxLoads
  BY <1>1, <1>2, NoneTyped, FreeTyped, CountersTyped DEF NavInv, Room, Kinds, One
<1>6. saves + 1 + One(next # NoImage) + One(closing) <= MaxSaves + 2
  BY <1>1, CountersTyped DEF One
<1>7. Latest(recovery.target) \in Images \cup {NoImage} /\ next \in Images \cup {NoImage}
  BY DEF NavInv, TypeOK, Latest, Actions
<1>8. /\ a.kind = "Close" => Latest(recovery.target) = NoImage
      /\ Latest(recovery.target) # NoImage =>
            Latest(recovery.target) = (IF a.kind # "Switch" THEN image
                                       ELSE IF next # NoImage THEN next ELSE a.target)
  BY <1>2, <1>3, <1>4 DEF Latest, Kinded
<1> HIDE DEF a
<1> QED
  BY <1>1, <1>2, <1>3, <1>4, <1>5, <1>6, <1>7, <1>8, SealKeeps

\* Continue*Version for a, from a state with no action left but a.
LEMMA CheckoutKeeps ==
  ASSUME NavInv, accepting, action = None \/ recovery = None,
         NEW a \in Actions, a.kind = "Version", a.target = NoImage, image # NoImage,
         owner = Free, next = NoImage, KeepsEdits(a),
         NEW st \in States, Checkout(a, st),
         /\ wanted # NoImage => wanted = image
         /\ recovery # None \/ ~accepting => wanted = NoImage,
         UNCHANGED <<image, guard, load, accepting, next, checkpoint, closing, owner, waiting, save,
                     loads, saves, work>>,
         leases' \subseteq leases, Takes \/ UNCHANGED posted
  PROVE  NavInv'
<1>1. Adds /\ posted' \in Seq(Completions)
  <2>1. Adds
    BY DEF NavInv, Named, Takes, Adds
  <2> QED
    BY <2>1 DEF Adds, OfALoad
<1>2. load \in LoadIds
  BY DEF NavInv, TypeOK, Identity
<1>3. frames' \subseteq [load : LoadIds, first : BOOLEAN]
  <2>1. [load |-> load, first |-> FALSE] \in [load : LoadIds, first : BOOLEAN]
    BY <1>2
  <2> QED
    BY <2>1 DEF NavInv, TypeOK, Checkout
<1>4. /\ action' = None /\ recovery' \in {None, a} /\ (recovery' = a => wanted' = NoImage)
      /\ wanted' \in {NoImage, wanted} /\ state' \in States
      /\ recovery' # None => state' \in LateStates
  BY NoneTyped DEF Checkout, Retain, States, LateStates
<1>5. a # None
  BY NoneTyped
<1>6. TypeOK'
  BY <1>1, <1>3, <1>4, NoneTyped DEF NavInv, TypeOK
<1>7. Identity' /\ Named'
  BY <1>1, QueueNamed DEF NavInv, Identity, Named
<1>8. Pending'
  BY <1>4, <1>5, NoneTyped, FreeTyped DEF NavInv, Pending, Kinds, Kinded
<1>9. Room'
  BY <1>4, NoneTyped, FreeTyped, CountersTyped DEF NavInv, Room, Kinds, One
<1>10. Awaited'
  BY <1>4 DEF Awaited
<1>11. Wanted'
  BY <1>4, NoneTyped, FreeTyped DEF Wanted, Goal
<1>12. Kept'
  BY <1>4, NoneTyped DEF NavInv, Kept, KeepsEdits
<1> QED
  BY <1>6, <1>7, <1>8, <1>9, <1>10, <1>11, <1>12 DEF NavInv

LEMMA DiscardKeeps ==
  ASSUME NavInv, DiscardAndContinue
  PROVE  NavInv'
<1>1. /\ accepting /\ owner = Free /\ recovery # None /\ action = None /\ leases' \subseteq leases
      /\ UNCHANGED <<image, guard, load, accepting, next, checkpoint, closing, owner, save, loads,
                     saves, work>>
  BY DEF DiscardAndContinue, Allowed, Recovering, Resolved, NavInv, Pending
<1>2. next # NoImage => recovery.kind = "Switch"
  BY <1>1, NoneTyped, FreeTyped DEF NavInv, Pending, Kinds
<1>3. recovery \in Actions /\ recovery.kind # "None" /\ Kinded(recovery) /\ KeepsEdits(recovery)
      /\ (recovery.kind = "Version" => image # NoImage)
  BY <1>1, NoneTyped DEF NavInv, TypeOK, Pending, Kinds, Kinded, Kept
<1>4. CASE recovery.kind = "Version"
  <2>1. Checkout(recovery, "Interactive") /\ UNCHANGED <<waiting, posted>>
    BY <1>4 DEF DiscardAndContinue
  <2>2. wanted = NoImage /\ next = NoImage /\ recovery.target = NoImage /\ "Interactive" \in States
    BY <1>1, <1>2, <1>3, <1>4 DEF NavInv, Wanted, Kinded, States
  <2> QED
    BY <1>1, <1>3, <1>4, <2>1, <2>2, CheckoutKeeps
<1>5. CASE recovery.kind # "Version"
  <2> DEFINE a == [recovery EXCEPT !.persist = FALSE, !.idle = FALSE]
  <2>1. WithoutSave(a, posted) /\ wanted' = Latest(recovery.target) /\ UNCHANGED state
    BY <1>5 DEF DiscardAndContinue
  <2>2. /\ a \in Actions /\ a.kind = recovery.kind /\ a.target = recovery.target /\ ~a.persist
    BY <1>3 DEF Actions
  <2>3. a.kind \in {"Switch", "Close"} /\ Kinded(a)
    BY <1>3, <1>5, <2>2 DEF Kinded, Actions
  <2>4. loads + One(a.kind = "Switch") + One(next # NoImage) <= MaxLoads
    BY <1>1, <2>2, NoneTyped, FreeTyped, CountersTyped DEF NavInv, Room, Kinds, One
  <2>5. saves + One(next # NoImage) + One(closing) <= MaxSaves + 2
    BY <1>1, FreeTyped, CountersTyped DEF NavInv, Room, One
  <2>6. wanted' = IF a.kind = "Switch" THEN Latest(a.target) ELSE NoImage
    BY <1>2, <1>3, <2>1, <2>2 DEF Latest, Kinded
  <2> HIDE DEF a
  <2> QED
    BY <1>1, <1>2, <2>1, <2>2, <2>3, <2>4, <2>5, <2>6, WithoutSaveKeeps
<1> QED
  BY <1>4, <1>5

LEMMA CancelKeeps ==
  ASSUME NavInv, CancelPendingNavigation
  PROVE  NavInv'
<1>1. /\ accepting /\ owner = Free /\ recovery # None /\ action = None /\ leases' \subseteq leases
      /\ recovery' = None /\ next' = NoImage /\ state' = "Interactive"
      /\ UNCHANGED <<image, guard, load, accepting, action, checkpoint, closing, owner, save, frames,
                     waiting, posted, loads, saves, work, wanted>>
  BY DEF CancelPendingNavigation, Allowed, Recovering, Resolved, NavInv, Pending, render
<1>2. TypeOK'
  BY <1>1, NoneTyped DEF NavInv, TypeOK, States
<1>3. Identity' /\ Pending'
  BY <1>1, NoneTyped, FreeTyped DEF NavInv, Identity, Pending, Kinds, Kinded
<1>4. Room'
  BY <1>1, NoneTyped, FreeTyped, CountersTyped DEF NavInv, Room, Kinds, One
<1>5. Named' /\ Awaited' /\ Wanted'
  BY <1>1 DEF NavInv, Named, Awaited, EndOf, Wanted
<1>6. Kept'
  BY <1>1, NoneTyped DEF NavInv, Kept, KeepsEdits
<1> QED
  BY <1>2, <1>3, <1>4, <1>5, <1>6 DEF NavInv
----------------------------------------------------------------------------
\* Completions.

LEMMA TakesSome ==
  ASSUME NavInv, owner = Free, posted # << >>, posted' = Tail(posted)
  PROVE  Takes /\ Head(posted) \in OfALoad /\ Head(posted) \in ToSet(posted)
<1>1. posted \in Seq(OfALoad)
  BY DEF NavInv, Named
<1> QED
  BY <1>1, Delivered DEF Takes, Adds

LEMMA EndsTaken ==
  ASSUME Takes, NEW t
  PROVE  /\ {m \in ToSet(posted') : m.kind = "action" /\ m.id = t} \subseteq EndOf(t)
         /\ Head(posted).kind # "action" \/ Head(posted).id # t
              => {m \in ToSet(posted') : m.kind = "action" /\ m.id = t} = EndOf(t)
  BY DEF Takes, Adds, EndOf

LEMMA AddsTyped ==
  ASSUME Adds
  PROVE  posted' \in Seq(Completions)
  BY DEF Adds, OfALoad

LEMMA CompleteKeeps ==
  ASSUME NavInv, owner = Free, action # None,
         NEW b \in Actions, b.kind = action.kind, b.target = action.target,
         b.persist = action.persist, KeepsEdits(b), Complete(b), Takes,
         UNCHANGED <<accepting, next, checkpoint, closing, leases, save, waiting, loads, saves>>
  PROVE  NavInv'
<1>1. accepting /\ recovery = None /\ b.kind # "None" /\ Kinded(b) /\ b # None
  BY NoneTyped DEF NavInv, Pending, Kinded
<1>2. Adds /\ posted' \in Seq(Completions)
  BY AddsTyped DEF Takes
<1>3. Named'
  BY <1>2, QueueNamed DEF NavInv, Named
<1>4. next # NoImage => b.kind = "Switch"
  BY <1>1, NoneTyped, FreeTyped DEF NavInv, Pending, Kinds
<1>5. CASE Retain(b) /\ UNCHANGED <<image, guard, load, owner, frames, work>>
  <2>1. state' = "RetainedImageFailure" /\ recovery' = b /\ action' = None /\ wanted' = NoImage
    BY <1>5 DEF Retain
  <2>2. TypeOK'
    BY <1>2, <1>5, <2>1, NoneTyped DEF NavInv, TypeOK, States
  <2>3. Identity'
    BY <1>5 DEF NavInv, Identity
  <2>4. Pending'
    BY <1>1, <1>4, <1>5, <2>1, NoneTyped, FreeTyped DEF NavInv, Pending, Kinds, Kinded
  <2>5. Room'
    BY <1>1, <1>5, <2>1, NoneTyped, FreeTyped, CountersTyped DEF NavInv, Room, Kinds, One
  <2>6. Awaited' /\ Wanted'
    BY <2>1 DEF Awaited, Wanted
  <2>7. Kept'
    BY <1>1, <1>5, <2>1, NoneTyped DEF NavInv, Kept, KeepsEdits, LateStates
  <2> QED
    BY <1>3, <2>2, <2>3, <2>4, <2>5, <2>6, <2>7 DEF NavInv
<1>6. CASE b.kind = "Version" /\ Checkout(b, Resumed)
           /\ UNCHANGED <<image, guard, load, owner, work>>
  <2>1. b.target = NoImage /\ image # NoImage /\ next = NoImage
    BY <1>1, <1>4, <1>6, NoneTyped DEF NavInv, Pending, Kinds, Kinded
  <2>2. Resumed \in States
    BY DEF NavInv, TypeOK, Resumed, States
  <2>3. wanted # NoImage => wanted = image
    BY <1>6, FreeTyped DEF NavInv, Wanted, Goal
  <2> QED
    BY <1>1, <1>6, <2>1, <2>2, <2>3, CheckoutKeeps
<1>7. CASE /\ b.kind # "Version" /\ action' = None /\ Release
           /\ IF b.kind = "Close"
              THEN /\ state' = "NoImage" /\ image' = NoImage /\ load' = NoLoad
                   /\ UNCHANGED owner
              ELSE /\ owner' = [does |-> "acquire", target |-> b.target, promote |-> TRUE]
                   /\ UNCHANGED <<state, image, load>>
           /\ UNCHANGED <<recovery, frames, wanted>>
  <2>1. /\ ~guard' /\ guard' \in BOOLEAN /\ work' = "saved" /\ action' = None
        /\ UNCHANGED <<recovery, frames, wanted>>
    BY <1>7 DEF Release
  <2>2. CASE b.kind = "Close"
    <3>1. state' = "NoImage" /\ image' = NoImage /\ load' = NoLoad /\ owner' = owner
      BY <1>7, <2>2
    <3>2. TypeOK'
      BY <1>2, <2>1, <3>1, NoneTyped DEF NavInv, TypeOK, States
    <3>3. Identity' /\ Pending'
      BY <1>1, <1>4, <2>1, <2>2, <3>1, NoneTyped, FreeTyped
         DEF NavInv, Identity, Pending, Kinds, Kinded
    <3>4. Room'
      BY <1>1, <1>4, <2>1, <2>2, <3>1, NoneTyped, FreeTyped, CountersTyped
         DEF NavInv, Room, Kinds, One
    <3>5. Awaited' /\ Wanted'
      BY <1>1, <2>1, <2>2, NoneTyped DEF NavInv, Awaited, Wanted
    <3>6. Kept'
      BY <1>1, <2>1, NoneTyped DEF Kept, KeepsEdits
    <3> QED
      BY <1>3, <3>2, <3>3, <3>4, <3>5, <3>6 DEF NavInv
  <2>3. CASE b.kind # "Close"
    <3>1. b.kind = "Switch" /\ b.target \in Images /\ b.target # NoImage
      BY <1>1, <1>7, <2>3 DEF Actions, Kinded
    <3>2. owner' = [does |-> "acquire", target |-> b.target, promote |-> TRUE]
          /\ UNCHANGED <<state, image, load>>
      BY <1>7, <2>3
    <3>3. owner' \in [does : {"nothing", "acquire", "promote", "close"},
                      target : Images \cup {NoImage}, promote : BOOLEAN]
      BY <3>1, <3>2
    <3>4. TypeOK'
      BY <1>2, <2>1, <3>2, <3>3, NoneTyped DEF NavInv, TypeOK
    <3>5. Identity' /\ Pending'
      BY <1>1, <2>1, <3>1, <3>2, NoneTyped DEF NavInv, Identity, Pending, Kinds, Kinded
    <3>6. Room'
      BY <1>1, <2>1, <3>1, <3>2, NoneTyped, FreeTyped, CountersTyped
         DEF NavInv, Room, Kinds, One
    <3>7. Awaited' /\ Wanted'
      BY <1>1, <2>1, <3>1, <3>2, NoneTyped DEF NavInv, Awaited, Wanted, Goal, Latest
    <3>8. Kept'
      BY <1>1, <2>1, NoneTyped DEF Kept, KeepsEdits
    <3> QED
      BY <1>3, <3>4, <3>5, <3>6, <3>7, <3>8 DEF NavInv
  <2> QED
    BY <2>2, <2>3
<1> QED
  BY <1>5, <1>6, <1>7 DEF Complete

LEMMA ProceedKeeps ==
  ASSUME NavInv, owner = Free, action # None,
         NEW b \in Actions, b.kind = action.kind, b.target = action.target,
         b.persist = action.persist, KeepsEdits(b), Proceed(b), Takes,
         ~b.saved => ~action.saved /\ b.ticket = action.ticket /\ Head(posted).kind # "action",
         UNCHANGED <<accepting, next, checkpoint, closing, leases, save, waiting, loads, saves>>
  PROVE  NavInv'
<1>1. CASE b.idle /\ b.saved
  BY <1>1, CompleteKeeps DEF Proceed
<1>2. CASE ~(b.idle /\ b.saved)
  <2>1. action' = b
        /\ UNCHANGED <<state, image, guard, load, recovery, owner, frames, work, wanted>>
    BY <1>2 DEF Proceed
  <2>2. b # None /\ Kinded(b) /\ recovery = None
    BY NoneTyped DEF NavInv, Pending, Kinded
  <2>3. Adds /\ posted' \in Seq(Completions)
    BY AddsTyped DEF Takes
  <2>4. TypeOK'
    BY <2>1, <2>3 DEF NavInv, TypeOK
  <2>5. Identity' /\ Pending'
    BY <2>1, <2>2, NoneTyped DEF NavInv, Identity, Pending, Kinds, Kinded
  <2>6. Room'
    BY <2>1, <2>2 DEF NavInv, Room, Kinds
  <2>7. Named'
    BY <2>3, QueueNamed DEF NavInv, Named
  <2>8. Awaited'
    BY <2>1, EndsTaken DEF NavInv, Awaited, EndOf
  <2>9. Wanted'
    BY <2>1 DEF NavInv, Wanted, Goal, Latest
  <2>10. Kept'
    BY <2>1, <2>2, NoneTyped, EndsTaken DEF NavInv, Kept, KeepsEdits, EndOf
  <2> QED
    BY <2>4, <2>5, <2>6, <2>7, <2>8, <2>9, <2>10 DEF NavInv
<1> QED
  BY <1>1, <1>2

LEMMA RenderSessionIdleKeeps ==
  ASSUME NavInv, owner = Free, posted # << >>, posted' = Tail(posted), Head(posted).kind = "idle",
         RenderSessionIdle(Head(posted)), UNCHANGED <<save, waiting, loads, saves>>
  PROVE  NavInv'
<1> DEFINE b == [action EXCEPT !.idle = TRUE]
<1>1. action # None /\ Proceed(b) /\ UNCHANGED <<accepting, next, checkpoint, closing, leases>>
  BY DEF RenderSessionIdle
<1>2. /\ b \in Actions /\ b.kind = action.kind /\ b.target = action.target
      /\ b.persist = action.persist /\ b.saved = action.saved /\ b.ticket = action.ticket
  BY DEF NavInv, TypeOK, Actions
<1>3. KeepsEdits(b)
  BY <1>2 DEF NavInv, Kept, KeepsEdits
<1> HIDE DEF b
<1> QED
  BY <1>1, <1>2, <1>3, TakesSome, ProceedKeeps

LEMMA CheckpointFinishedKeeps ==
  ASSUME NavInv, owner = Free, posted # << >>, posted' = Tail(posted), Head(posted).kind = "action",
         CheckpointFinished(Head(posted)), UNCHANGED <<save, waiting, loads, saves>>
  PROVE  NavInv'
<1> DEFINE m == Head(posted)
<1>1. action # None /\ action.ticket \in {NoId, m.id}
      /\ UNCHANGED <<accepting, checkpoint, closing, leases>>
  BY DEF CheckpointFinished
<1>2. Takes /\ m \in ToSet(posted)
  BY TakesSome
<1>3. CASE m.ok
  <2> DEFINE b == [action EXCEPT !.saved = TRUE]
  <2>1. Proceed(b) /\ UNCHANGED next
    BY <1>3 DEF CheckpointFinished
  <2>2. /\ b \in Actions /\ b.kind = action.kind /\ b.target = action.target
        /\ b.persist = action.persist /\ b.saved
    BY DEF NavInv, TypeOK, Actions
  <2>3. KeepsEdits(b)
    <3>1. ~action.saved => m \in EndOf(action.ticket)
      BY <1>1, <1>2 DEF NavInv, Awaited, EndOf
    <3> QED
      BY <1>1, <1>3, <2>2, <3>1 DEF NavInv, Kept, KeepsEdits
  <2> HIDE DEF b
  <2> QED
    BY <1>1, <1>2, <2>1, <2>2, <2>3, ProceedKeeps
<1>4. CASE ~m.ok
  <2>1. /\ next' = NoImage /\ Retain(action)
        /\ UNCHANGED <<image, guard, load, owner, frames, work>>
    BY <1>4 DEF CheckpointFinished
  <2>2. state' = "RetainedImageFailure" /\ recovery' = action /\ action' = None
        /\ wanted' = NoImage
    BY <2>1 DEF Retain
  <2>3. accepting /\ recovery = None
    BY <1>1, NoneTyped DEF NavInv, Pending
  <2>4. Adds /\ posted' \in Seq(Completions)
    BY <1>2, AddsTyped DEF Takes
  <2>5. TypeOK'
    BY <1>1, <2>1, <2>2, <2>4, NoneTyped DEF NavInv, TypeOK, States
  <2>6. Identity' /\ Pending'
    BY <1>1, <2>1, <2>2, <2>3, NoneTyped, FreeTyped
       DEF NavInv, Identity, Pending, Kinds, Kinded
  <2>7. Room'
    BY <1>1, <2>1, <2>2, <2>3, NoneTyped, FreeTyped, CountersTyped
       DEF NavInv, Room, Kinds, One
  <2>8. Named'
    BY <2>4, QueueNamed DEF NavInv, Named
  <2>9. Awaited' /\ Wanted'
    BY <2>2 DEF Awaited, Wanted
  <2>10. Kept'
    BY <1>1, <2>1, <2>2, <2>3, NoneTyped DEF NavInv, Kept, KeepsEdits, LateStates
  <2> QED
    BY <2>5, <2>6, <2>7, <2>8, <2>9, <2>10 DEF NavInv
<1> HIDE DEF m
<1> QED
  BY <1>3, <1>4

\* A completion of no action: it changes what is shown, leased and rendered.
LEMMA EventKeeps ==
  ASSUME NavInv, owner = Free, Takes,
         action # None => Head(posted).kind # "action" \/ Head(posted).id # action.ticket,
         state' \in States, checkpoint' \in {checkpoint, "None"}, closing' \in {closing, FALSE},
         leases' \subseteq [kind : {"ImageLoad", "SaveCheckpoint", "Paste", "FailureRecovery"},
                            save : {NoId} \cup SaveIds],
         frames' \subseteq [load : LoadIds, first : BOOLEAN],
         \/ owner' = Free
         \/ owner' = [Free EXCEPT !.does = "close"] /\ closing /\ ~closing' /\ accepting,
         wanted' \in {wanted, NoImage}, recovery # None => state' \in LateStates,
         UNCHANGED <<image, guard, load, accepting, action, recovery, next, work, save, waiting,
                     loads, saves>>
  PROVE  NavInv'
<1>1. /\ owner' \in [does : {"nothing", "acquire", "promote", "close"},
                     target : Images \cup {NoImage}, promote : BOOLEAN]
      /\ owner'.does \in {"nothing", "close"}
      /\ owner'.does = "close" => closing /\ ~closing'
      /\ ~accepting => owner' = Free
  BY FreeTyped DEF Free
<1>2. Adds /\ posted' \in Seq(Completions)
  BY AddsTyped DEF Takes
<1>3. TypeOK'
  <2>1. /\ closing' \in BOOLEAN /\ checkpoint' \in {"None", "Persist", "Paste"}
        /\ wanted' \in Images \cup {NoImage}
    BY DEF NavInv, TypeOK
  <2> QED
    BY <1>1, <1>2, <2>1 DEF NavInv, TypeOK
<1>4. Identity' /\ Pending'
  BY <1>1, FreeTyped DEF NavInv, Identity, Pending, Kinds, Kinded
<1>5. Room'
  <2>1. /\ One(closing' \/ owner'.does = "close") <= One(closing \/ owner.does = "close")
        /\ One(owner'.does = "acquire") = 0 /\ One(owner.does = "acquire") = 0
    <3>1. closing' \/ owner'.does = "close" => closing
      BY <1>1
    <3>2. owner'.does # "acquire" /\ owner.does # "acquire"
      BY <1>1, FreeTyped
    <3> QED
      BY <3>1, <3>2 DEF One
  <2>2. One(next # NoImage) \in 0..1 /\ One(closing \/ owner.does = "close") \in 0..1
        /\ One(closing' \/ owner'.does = "close") \in 0..1
    BY DEF One
  <2> QED
    BY <2>1, <2>2, CountersTyped DEF NavInv, Room, Kinds
<1>6. Named'
  BY <1>2, QueueNamed DEF NavInv, Named
<1>7. Awaited'
  BY EndsTaken DEF NavInv, Awaited, EndOf
<1>8. Wanted'
  BY <1>1, FreeTyped, NoneTyped DEF NavInv, Wanted, Goal, Latest
<1>9. Kept'
  BY EndsTaken DEF NavInv, Kept, KeepsEdits, EndOf
<1> QED
  BY <1>3, <1>4, <1>5, <1>6, <1>7, <1>8, <1>9 DEF NavInv

LEMMA FirstFrameKeeps ==
  ASSUME NavInv, owner = Free, posted # << >>, Head(posted).kind = "result",
         FirstFrameResult(Head(posted)),
         UNCHANGED <<session, pendings, owner, work, wanted, save, waiting, loads, saves>>
  PROVE  NavInv'
<1> DEFINE m == Head(posted)
<1>1. /\ posted \in Seq(OfALoad) /\ Tail(posted) \in Seq(OfALoad) /\ m \in OfALoad
      /\ ToSet(posted) = {m} \cup ToSet(Tail(posted))
  BY Delivered DEF NavInv, Named
<1>2. PICK ok \in BOOLEAN : /\ posted' \in {Tail(posted), Append(Tail(posted), Frame(load, ok))}
                            /\ posted' # Tail(posted) => m.load = load
  BY DEF FirstFrameResult
<1>3. frames' \in {frames, frames \cup {[load |-> load, first |-> FALSE]}}
      /\ (frames' # frames => m.load = load)
  BY DEF FirstFrameResult
<1>4. m.load # NoLoad /\ load \in {NoLoad} \cup LoadIds
  BY <1>1 DEF OfALoad, NavInv, TypeOK
<1>5. Takes
  <2>1. CASE posted' = Tail(posted)
    BY <1>1, <2>1 DEF Takes, Adds
  <2>2. CASE posted' = Append(Tail(posted), Frame(load, ok)) /\ m.load = load
    <3>1. Frame(load, ok) \in OfALoad /\ Frame(load, ok).kind # "action"
          /\ Frame(load, ok).id = NoId
      BY <1>4, <2>2 DEF Frame, OfALoad, Completions
    <3>2. posted' \in Seq(OfALoad) /\ ToSet(posted') = ToSet(Tail(posted)) \cup {Frame(load, ok)}
      <4>1. \A q \in Seq(OfALoad), e \in OfALoad :
               Append(q, e) \in Seq(OfALoad) /\ ToSet(Append(q, e)) = ToSet(q) \cup {e}
        BY Appended
      <4> QED
        BY <1>1, <2>2, <3>1, <4>1
    <3> QED
      BY <1>1, <2>2, <3>1, <3>2 DEF Takes, Adds
  <2> QED
    BY <1>2, <2>1, <2>2
<1>6. frames' \subseteq [load : LoadIds, first : BOOLEAN]
  <2>1. load \in LoadIds => [load |-> load, first |-> FALSE] \in [load : LoadIds, first : BOOLEAN]
    OBVIOUS
  <2> QED
    BY <1>3, <1>4, <2>1, ZenonT(60) DEF NavInv, TypeOK
<1>7. /\ UNCHANGED <<state, image, guard, load, accepting, action, recovery, next, checkpoint,
                     closing, leases, owner, work, wanted, save, waiting, loads, saves>>
      /\ state \in States /\ (recovery # None => state \in LateStates)
      /\ leases \subseteq [kind : {"ImageLoad", "SaveCheckpoint", "Paste", "FailureRecovery"},
                           save : {NoId} \cup SaveIds]
  BY DEF session, pendings, NavInv, TypeOK, Kept
<1> QED
  BY <1>5, <1>6, <1>7, EventKeeps

LEMMA RenderEventKeeps ==
  ASSUME NavInv, owner = Free, posted # << >>, posted' = Tail(posted), Head(posted).kind = "frame",
         RenderEvent(Head(posted)),
         UNCHANGED <<image, guard, load, accepting, action, recovery, next, checkpoint, closing,
                     owner, frames, work, save, waiting, loads, saves>>
  PROVE  NavInv'
<1>1. /\ state' \in States /\ (recovery # None => state' \in LateStates)
      /\ leases' \subseteq leases /\ wanted' \in {wanted, NoImage}
  BY DEF RenderEvent, NavInv, TypeOK, States, Kept, LateStates
<1>2. leases' \subseteq [kind : {"ImageLoad", "SaveCheckpoint", "Paste", "FailureRecovery"},
                         save : {NoId} \cup SaveIds]
      /\ frames \subseteq [load : LoadIds, first : BOOLEAN]
  BY <1>1 DEF NavInv, TypeOK
<1> QED
  BY <1>1, <1>2, TakesSome, EventKeeps

LEMMA SaveCheckpointCompletionKeeps ==
  ASSUME NavInv, owner = Free, posted # << >>, posted' = Tail(posted),
         Head(posted).kind = "history", SaveCheckpointCompletion(Head(posted)),
         UNCHANGED <<image, guard, load, accepting, action, recovery, next, work, save, waiting,
                     loads, saves>>
  PROVE  NavInv'
<1> DEFINE m == Head(posted)
<1> USE DEF SaveCheckpointCompletion
<1>1. Takes /\ m \in OfALoad
  BY TakesSome
<1>2. /\ leases \subseteq [kind : {"ImageLoad", "SaveCheckpoint", "Paste", "FailureRecovery"},
                           save : {NoId} \cup SaveIds]
      /\ frames \subseteq [load : LoadIds, first : BOOLEAN] /\ state \in States
      /\ load \in {NoLoad} \cup LoadIds /\ m.load # NoLoad /\ m.id \in {NoId} \cup SaveIds
      /\ recovery # None => state \in LateStates
  BY <1>1 DEF NavInv, TypeOK, Kept, OfALoad, Completions
<1>3. CASE state = "ShuttingDown"
  <2>1. /\ checkpoint' = "None" /\ closing' = FALSE /\ leases' \subseteq leases
        /\ UNCHANGED <<state, frames, owner, wanted>>
    BY <1>3
  <2> QED
    BY <1>1, <1>2, <2>1, EventKeeps
<1>4. CASE state # "ShuttingDown" /\ m.load # load
  <2>1. checkpoint' = "None" /\ UNCHANGED <<state, closing, leases, frames, owner, wanted>>
    BY <1>4
  <2> QED
    BY <1>1, <1>2, <2>1, EventKeeps
<1>5. CASE state # "ShuttingDown" /\ m.load = load /\ ~m.ok
  <2>1. /\ checkpoint' = "None" /\ closing' = FALSE
        /\ leases' \subseteq leases \cup {Lease("FailureRecovery", m.id)}
        /\ state' = "RetainedImageFailure" /\ wanted' = NoImage /\ UNCHANGED <<frames, owner>>
    BY <1>5
  <2>2. leases' \subseteq [kind : {"ImageLoad", "SaveCheckpoint", "Paste", "FailureRecovery"},
                           save : {NoId} \cup SaveIds]
    BY <1>2, <2>1 DEF Lease
  <2>3. state' \in States /\ state' \in LateStates
    BY <2>1 DEF States, LateStates
  <2> QED
    BY <1>1, <1>2, <2>1, <2>2, <2>3, EventKeeps
<1>6. CASE state # "ShuttingDown" /\ m.load = load /\ m.ok
  <2>1. accepting /\ load \in LoadIds
    BY <1>2, <1>6 DEF NavInv, Identity
  <2>2. /\ state' = Resumed /\ checkpoint' = "None" /\ closing' = FALSE /\ leases' \subseteq leases
        /\ frames' \in {frames, frames \cup {[load |-> load, first |-> FALSE]}}
        /\ owner' = Free \/ (owner' = [Free EXCEPT !.does = "close"] /\ closing)
        /\ UNCHANGED wanted
    BY <1>6
  <2>3. state' \in States /\ (recovery # None => state' \in LateStates)
    BY <1>2, <2>2 DEF Resumed, States, LateStates
  <2>4. frames' \subseteq [load : LoadIds, first : BOOLEAN]
    <3>1. [load |-> load, first |-> FALSE] \in [load : LoadIds, first : BOOLEAN]
      BY <2>1
    <3> QED
      BY <1>2, <2>2, <3>1
  <2> QED
    BY <1>1, <1>2, <2>1, <2>2, <2>3, <2>4, EventKeeps
<1> QED
  BY <1>3, <1>4, <1>5, <1>6

LEMMA DeliverKeeps ==
  ASSUME NavInv, Deliver
  PROVE  NavInv'
<1> DEFINE m == Head(posted)
<1>1. owner = Free /\ posted # << >> /\ UNCHANGED <<save, waiting, loads, saves>>
  BY DEF Deliver
<1>2. CASE /\ m.kind = "result" /\ FirstFrameResult(m)
           /\ UNCHANGED <<session, pendings, owner, work, wanted>>
  BY <1>1, <1>2, FirstFrameKeeps
<1>3. CASE /\ m.kind # "result" /\ posted' = Tail(posted)
           /\ m.kind = "frame" /\ RenderEvent(m)
           /\ UNCHANGED <<image, guard, load, accepting, action, recovery, next, checkpoint, closing,
                          owner, frames, work>>
  BY <1>1, <1>3, RenderEventKeeps
<1>4. CASE m.kind = "idle" /\ posted' = Tail(posted) /\ RenderSessionIdle(m)
  BY <1>1, <1>4, RenderSessionIdleKeeps
<1>5. CASE m.kind = "action" /\ posted' = Tail(posted) /\ CheckpointFinished(m)
  BY <1>1, <1>5, CheckpointFinishedKeeps
<1>6. CASE /\ m.kind = "history" /\ posted' = Tail(posted) /\ SaveCheckpointCompletion(m)
           /\ UNCHANGED <<image, guard, load, accepting, action, recovery, next, work>>
  BY <1>1, <1>6, SaveCheckpointCompletionKeeps
<1>7. CASE /\ posted' = Tail(posted)
           /\ \/ m.kind = "idle" /\ (action = None \/ action.sealed # m.load)
              \/ m.kind = "action" /\ (action = None \/ action.ticket \notin {NoId, m.id})
           /\ UNCHANGED <<session, pendings, owner, frames, work, wanted>>
  <2>1. Takes /\ m \in ToSet(posted)
    BY <1>1, <1>7, TakesSome
  <2>2. action # None => m.kind # "action" \/ m.id # action.ticket
    BY <1>7
  <2> QED
    BY <1>1, <1>7, <2>1, <2>2, EventKeeps DEF session, pendings, NavInv, TypeOK, Kept
<1> QED
  BY <1>1, <1>2, <1>3, <1>4, <1>5, <1>6, <1>7 DEF Deliver
----------------------------------------------------------------------------
\* The threads beside the owner.

LEMMA RenderEndsKeeps ==
  ASSUME NavInv, RenderEnds
  PROVE  NavInv'
<1>1. PICK f \in frames, ok \in Outcomes("frame") :
        /\ frames' = frames \ {f}
        /\ posted' = (IF f.first THEN Append(posted, Result(f.load, ok)) ELSE posted)
                     \o [i \in 1..Told(f) |-> RenderIdle(f.load)]
        /\ waiting' = [waiting EXCEPT ![f.load] = @ - Told(f)]
        /\ UNCHANGED <<session, pendings, owner, save, loads, saves, work, wanted>>
  BY DEF RenderEnds
<1>2. f.load \in LoadIds /\ f.load # NoLoad /\ ok \in BOOLEAN /\ posted \in Seq(OfALoad)
  <2>1. ok \in BOOLEAN
    BY DEF Outcomes
  <2> QED
    BY <2>1 DEF NavInv, TypeOK, Named, LoadIds, NoLoad
<1>3. Told(f) \in Nat /\ waiting' \in [LoadIds -> 0..MaxWaiting]
  BY <1>1, <1>2, NavigationAssumption DEF NavInv, TypeOK, Told
<1>4. Posts
  <2> DEFINE q == IF f.first THEN Append(posted, Result(f.load, ok)) ELSE posted
  <2>1. /\ Result(f.load, ok) \in OfALoad /\ RenderIdle(f.load) \in OfALoad
        /\ Result(f.load, ok).kind # "action" /\ RenderIdle(f.load).kind # "action"
        /\ Result(f.load, ok).id = NoId /\ RenderIdle(f.load).id = NoId
    BY <1>2 DEF Result, RenderIdle, OfALoad, Completions
  <2>2. /\ q \in Seq(OfALoad) /\ ToSet(posted) \subseteq ToSet(q)
        /\ ToSet(q) \subseteq ToSet(posted) \cup {Result(f.load, ok)}
    BY <1>2, <2>1, Appended
  <2>3. posted' = q \o [i \in 1..Told(f) |-> RenderIdle(f.load)]
    BY <1>1
  <2> HIDE DEF q
  <2>4. /\ posted' \in Seq(OfALoad) /\ ToSet(q) \subseteq ToSet(posted')
        /\ ToSet(posted') \subseteq ToSet(q) \cup {RenderIdle(f.load)}
    <3>1. \A m \in OfALoad, n \in Nat :
             /\ q \o [i \in 1..n |-> m] \in Seq(OfALoad)
             /\ ToSet(q) \subseteq ToSet(q \o [i \in 1..n |-> m])
             /\ ToSet(q \o [i \in 1..n |-> m]) \subseteq ToSet(q) \cup {m}
      BY <2>2, Joined
    <3> QED
      BY <1>3, <2>1, <2>3, <3>1
  <2>5. RenderTyped'
    BY <1>1, <1>3 DEF NavInv, TypeOK, RenderTyped
  <2> QED
    BY <2>1, <2>2, <2>4, <2>5 DEF Posts, Adds
<1>5. Adds /\ posted' \in Seq(Completions) /\ RenderTyped'
  BY <1>4, AddsTyped DEF Posts
<1>6. UNCHANGED <<state, image, guard, load, accepting, action, recovery, next, checkpoint, closing,
                  leases, owner, save, loads, saves, work, wanted>>
  BY <1>1 DEF session, pendings
<1>7. TypeOK'
  BY <1>5, <1>6 DEF NavInv, TypeOK, RenderTyped
<1>8. Identity' /\ Pending' /\ Room' /\ Wanted'
  BY <1>6 DEF NavInv, Identity, Pending, Kinds, Kinded, Room, Wanted, Goal, Latest
<1>9. Named'
  BY <1>5, <1>6, QueueNamed DEF NavInv, Named
<1>10. Awaited' /\ Kept'
  BY <1>4, <1>6, EndsStay DEF NavInv, Awaited, Kept, KeepsEdits, EndOf
<1> QED
  BY <1>7, <1>8, <1>9, <1>10 DEF NavInv

LEMMA SaveEndsKeeps ==
  ASSUME NavInv, SaveEnds
  PROVE  NavInv'
<1>1. PICK ok \in Outcomes("save") :
        /\ save # NoSave /\ save' = NoSave /\ posted' = Append(posted, Saved(save, ok))
        /\ work' = IF work = "captured" THEN (IF ok THEN "saved" ELSE "edited") ELSE work
        /\ UNCHANGED <<session, pendings, owner, render, loads, saves, wanted>>
  BY DEF SaveEnds, Reported
<1>2. ok \in BOOLEAN
  BY DEF Outcomes
<1> DEFINE m == Saved(save, ok)
<1>3. /\ posted' \in Seq(OfALoad) /\ ToSet(posted') = ToSet(posted) \cup {m}
      /\ m.id = save.id /\ m.kind = save.for /\ m.ok = ok
  BY <1>1, <1>2, SavedTyped
<1>4. UNCHANGED <<state, image, guard, load, accepting, action, recovery, next, checkpoint, closing,
                  leases, owner, frames, waiting, loads, saves, wanted>>
  BY <1>1 DEF session, pendings, render
<1> HIDE DEF m
<1>5. NoSave \in [id : {NoId} \cup SaveIds, load : {NoLoad} \cup LoadIds,
                  for : {"None", "action", "history"}] /\ NoSave.id = NoId
  BY DEF NoSave
<1>6. TypeOK'
  <2>1. posted' \in Seq(Completions) /\ work' \in {"saved", "edited", "captured"}
    BY <1>1, <1>3 DEF NavInv, TypeOK, OfALoad
  <2> QED
    BY <1>1, <1>4, <1>5, <2>1 DEF NavInv, TypeOK
<1>7. Identity' /\ Pending' /\ Room' /\ Wanted'
  BY <1>4 DEF NavInv, Identity, Pending, Kinds, Kinded, Room, Wanted, Goal, Latest
<1>8. Named'
  <2>1. save.id <= saves /\ \A x \in ToSet(posted) : x.id <= saves
    BY DEF NavInv, Named
  <2>2. save' = NoSave /\ NoSave.id = 0 /\ saves' = saves
    BY <1>1, <1>4 DEF NoSave, NoId
  <2> QED
    BY <1>3, <2>1, <2>2, CountersTyped DEF Named
<1>9. Awaited'
  BY <1>3, <1>4 DEF NavInv, Awaited, EndOf
<1>10. Kept'
  <2>1. /\ work' # "captured" /\ (work = "saved" => work' = "saved")
        /\ ok /\ work # "edited" => work' = "saved"
    BY <1>1 DEF NavInv, TypeOK
  <2>2. KeepsEdits(action)' /\ KeepsEdits(recovery)'
    BY <1>4, <2>1 DEF NavInv, Kept, KeepsEdits
  <2> SUFFICES ASSUME action # None, ~action.saved, action.persist, guard
      PROVE  /\ action.ticket # NoId
             /\ \A x \in ToSet(posted') :
                    x.kind = "action" /\ x.id = action.ticket /\ x.ok => work' = "saved"
    BY <1>1, <1>4, <1>5, <2>1, <2>2 DEF NavInv, Kept, EndOf
  <2> QED
    BY <1>3, <2>1 DEF NavInv, Awaited, Kept, EndOf
<1> QED
  BY <1>6, <1>7, <1>8, <1>9, <1>10 DEF NavInv
----------------------------------------------------------------------------
LEMMA NavStep == NavInv /\ [Next]_vars => NavInv'
<1> SUFFICES ASSUME NavInv, [Next]_vars PROVE NavInv'
  OBVIOUS
<1>1. CASE Command
  BY <1>1, SelectKeeps, SelectNextKeeps, VersionKeeps, EditKeeps, PersistKeeps, PasteKeeps,
     CloseKeeps, ShutdownKeeps, RetryKeeps, DiscardKeeps, CancelKeeps DEF Command
<1>2. CASE Handler
  BY <1>2, AcquireKeeps, PromoteKeeps, CloseAfterPersistKeeps DEF Handler
<1>3. CASE Deliver \/ RenderEnds \/ SaveEnds
  BY <1>3, DeliverKeeps, RenderEndsKeeps, SaveEndsKeeps
<1>4. CASE UNCHANGED vars
  BY <1>4 DEF vars, session, pendings, render, NavInv, TypeOK, Identity, Pending, Kinds, Kinded, Room,
       Named, Awaited, EndOf, Wanted, Goal, Latest, Kept, KeepsEdits
<1> QED
  BY <1>1, <1>2, <1>3, <1>4 DEF Next

\* At every step of a load, a save, a failure and its recovery, the session is in
\* one of the states NavInv allows: it has one action at most, room for the loads
\* and saves its handlers go on to, and its actions have captured their edits.
THEOREM NavInvariant == Spec => []NavInv
  BY Initially, NavStep, PTL DEF Spec

\* Whatever fails, and whichever selection waits behind it, the image shown in the
\* end is the one selected last: the goal of the session is never left out of what
\* waits, is acquired or is shown.
THEOREM SelectionIsShown == Spec => []LastSelectionWins
<1>1. NavInv => LastSelectionWins
  BY NoneTyped, FreeTyped DEF NavInv, Wanted, Goal, LastSelectionWins
<1> QED
  BY <1>1, NavInvariant, PTL

\* Every path on which the image goes gives back the history first: Close, Switch,
\* and the acquisition that fails.
THEOREM HistoryIsGivenBack == Spec => []HeldHistoryIsShown
<1>1. NavInv => HeldHistoryIsShown
  BY DEF NavInv, Identity, HeldHistoryIsShown
<1> QED
  BY <1>1, NavInvariant, PTL

\* The ticket an action waits for is that of the save under way or of a completion
\* in the queue, after any number of retries.
THEOREM ActionWaitsForSave == Spec => []ActionIsAwaited
<1>1. NavInv => ActionIsAwaited
  BY DEF NavInv, Awaited, EndOf, ActionIsAwaited
<1> QED
  BY <1>1, NavInvariant, PTL

\* The history is given back in the step that completes the action, and what that
\* action has waited for is a save that captured every edit it found.
THEOREM EditsAreKept == Spec => LeavingKeepsTheEdits
<1> DEFINE Leave == guard /\ ~guard' /\ action.persist => work = "saved"
<1>1. ASSUME NavInv, Next PROVE Leave
  <2> SUFFICES ASSUME guard, ~guard', action.persist PROVE work = "saved"
    OBVIOUS
  <2>1. action # None
    BY NoneTyped
  <2>2. ~Acquire
    BY <1>1, <2>1 DEF NavInv, Pending, Acquire
  <2>3. CASE Deliver
    <3> DEFINE m == Head(posted)
    <3>1. CASE m.kind = "idle" /\ RenderSessionIdle(m)
      <4>1. PICK b : b = [action EXCEPT !.idle = TRUE] /\ Proceed(b)
        BY <3>1 DEF RenderSessionIdle
      <4>2. b.saved = action.saved
        BY <4>1 DEF NavInv, TypeOK, Actions
      <4>3. b.saved
        BY <4>1 DEF Proceed
      <4> QED
        BY <1>1, <4>2, <4>3 DEF NavInv, Kept, KeepsEdits
    <3>2. CASE m.kind = "action" /\ CheckpointFinished(m)
      <4>1. m.ok /\ action.ticket \in {NoId, m.id}
        BY <3>2 DEF CheckpointFinished
      <4>2. m \in ToSet(posted)
        BY <1>1, <2>3, Delivered DEF Deliver, NavInv, Named
      <4> QED
        BY <1>1, <2>1, <3>2, <4>1, <4>2 DEF NavInv, Awaited, Kept, KeepsEdits, EndOf
    <3> QED
      BY <2>3, <3>1, <3>2 DEF Deliver, session
  <2> QED
    BY <1>1, <2>2, <2>3
       DEF Next, Command, Handler, Select, SelectNext, Version, Edit, PersistCurrentImage,
           PasteAdjustments, Close, Shutdown, RetrySave, DiscardAndContinue,
           CancelPendingNavigation, PromoteQueuedSwitchTarget, CloseAfterPersist, RenderEnds, SaveEnds,
           session
<1>2. ASSUME NavInv, UNCHANGED vars PROVE Leave
  BY <1>2 DEF vars, session
<1>3. NavInv /\ [Next]_vars => [Leave]_vars
  BY <1>1, <1>2
<1> QED
  BY <1>3, NavInvariant, PTL DEF Spec, LeavingKeepsTheEdits

=============================================================================
