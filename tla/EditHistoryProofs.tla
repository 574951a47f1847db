------------------------- MODULE EditHistoryProofs -------------------------
(***************************************************************************)
(* Theorems about EditHistory, for every number of commits, sequence        *)
(* numbers, Versions and kinds of damage.  The first half is about the       *)
(* working graph; the second about what journal and database of an image     *)
(* hold between any two steps: the sequence numbers grow, the graphs lose no  *)
(* ancestor, redo continues the head, and a restart shows what the screen     *)
(* shows.                                                                   *)
(***************************************************************************)
EXTENDS EditHistory, WellFoundedInduction, SequenceTheorems, FiniteSetTheorems, TLAPS

----------------------------------------------------------------------------
\* Least and greatest naturals of a set, and induction stated with a set: the
\* provers cannot instantiate the library's, which takes an operator.

Less == {pair \in Nat \X Nat : pair[1] < pair[2]}

\* The order of the naturals, as a relation, is well-founded.
LEMMA LessIsWellFounded == IsWellFoundedOn(Less, Nat)
<1>1. OpToRel(<, Nat) = Less
  BY Zenon DEF OpToRel, Less
<1> QED
  BY <1>1, NatLessThanWellFounded, Zenon

\* A non-empty set of naturals has a least element.
LEMMA LeastElement ==
    ASSUME NEW T \in SUBSET Nat, T # {}
    PROVE  \E x \in T : \A y \in T : x <= y
<1>1. PICK x \in T : \A y \in T : ~ (<<y, x>> \in Less)
  BY WFMin, LessIsWellFounded, Zenon
<1>2. ASSUME NEW y \in T PROVE x <= y
  <2>1. <<y, x>> \notin Less
    BY <1>1
  <2>2. x \in Nat /\ y \in Nat
    OBVIOUS
  <2> QED
    BY <2>1, <2>2 DEF Less
<1> QED
  BY <1>2

\* A non-empty set of naturals below a bound has a greatest element.
LEMMA GreatestElement ==
    ASSUME NEW n \in Nat, NEW T \in SUBSET (0..n), T # {}
    PROVE  \E x \in T : \A y \in T : y <= x
<1> DEFINE Mirror == {k \in Nat : n - k \in T}
<1>1. Mirror # {}
  <2>1. PICK x \in T : TRUE
    OBVIOUS
  <2>2. n - (n - x) = x /\ n - x \in Nat
    OBVIOUS
  <2> QED
    BY <2>2
<1>2. PICK k \in Mirror : \A j \in Mirror : k <= j
  BY <1>1, LeastElement
<1>3. ASSUME NEW y \in T PROVE y <= n - k
  <2>1. n - (n - y) = y /\ n - y \in Nat
    OBVIOUS
  <2>2. n - y \in Mirror
    BY <2>1
  <2> QED
    BY <1>2, <2>2
<1> QED
  BY <1>2, <1>3

\* A set that holds 0 and, with each natural, its successor, holds them all.
LEMMA SetInduction ==
    ASSUME NEW S, 0 \in S, \A n \in Nat : n \in S => n + 1 \in S
    PROVE  Nat \subseteq S
<1> SUFFICES ASSUME Nat \ S # {} PROVE FALSE
  OBVIOUS
<1>1. PICK x \in Nat \ S : \A y \in Nat \ S : x <= y
  BY LeastElement
<1>2. x # 0
  OBVIOUS
<1>3. x - 1 \in Nat /\ x - 1 \in S
  BY <1>1, <1>2
<1> QED
  BY <1>3

----------------------------------------------------------------------------
\* Types of the graph operations and of the journal operators.


\* Every operation on a graph yields a graph (commit_graph.cpp:217-300).
LEMMA GraphOperations ==
    ASSUME NEW g \in Graphs
    PROVE  /\ ActiveHead(g) \in Heads
           /\ MaterializeActiveHead(g) \in Graphs
           /\ \A c \in Commits : InsertCommit(g, c) \in Graphs
           /\ \A h \in Heads : MoveWorkingHead(g, h) \in Graphs
           /\ \A v \in Versions :
                 /\ RemoveVersionRef(g, v) \in Graphs
                 /\ SetActiveVersionId(g, v) \in Graphs
                 /\ \A h \in Heads : CreateVersionRefAtHead(g, v, h) \in Graphs
<1> USE GraphAssumption DEF Graphs, Heads, Commits, NoCommit
<1>1. ActiveHead(g) \in Heads
  BY DEF ActiveHead
<1>2. ASSUME NEW c \in Commits PROVE InsertCommit(g, c) \in Graphs
  BY DEF InsertCommit
<1>3. ASSUME NEW h \in Heads PROVE MoveWorkingHead(g, h) \in Graphs
  BY DEF MoveWorkingHead
<1>4. ASSUME NEW v \in Versions, NEW h \in Heads
      PROVE  CreateVersionRefAtHead(g, v, h) \in Graphs
  BY DEF CreateVersionRefAtHead
<1>5. ASSUME NEW v \in Versions PROVE RemoveVersionRef(g, v) \in Graphs
  <2>1. g.refs \ {v} \in SUBSET Versions
    OBVIOUS
  <2>2. [g.head EXCEPT ![v] = NoCommit] \in [Versions -> Heads]
    OBVIOUS
  <2> QED
    BY <2>1, <2>2 DEF RemoveVersionRef
<1>6. ASSUME NEW v \in Versions PROVE SetActiveVersionId(g, v) \in Graphs
  BY DEF SetActiveVersionId
<1>7. MaterializeActiveHead(g) \in Graphs
  BY <1>1 DEF MaterializeActiveHead
<1> HIDE DEF Graphs, Heads, Commits, NoCommit
<1> QED
  BY <1>1, <1>2, <1>3, <1>4, <1>5, <1>6, <1>7

\* Rows written over rows are a graph, and so is what a collection leaves.
LEMMA StoreOperations ==
    ASSUME NEW d \in Graphs, NEW m \in Graphs, NEW par
    PROVE  /\ StoreMaterialization(d, m) \in Graphs
           /\ DeleteUnreachableCommits(par, d) \in Graphs
           /\ \A S : EraseUnreachable(par, d, S) \in Graphs
  BY DEF StoreMaterialization, DeleteUnreachableCommits, EraseUnreachable, Graphs

\* The last element of a sequence, and the sequence without it.
LEMMA FrontAndLast ==
    ASSUME NEW S, NEW s \in Seq(S)
    PROVE  /\ Front(s) \in Seq(S)
           /\ s # << >> => Last(s) \in S
<1>1. Front(s) \in Seq(S)
  <2>1. \A i \in 1..(Len(s) - 1) : s[i] \in S
    OBVIOUS
  <2> QED
    BY <2>1, SubSeqProperties DEF Front
<1>2. s # << >> => Last(s) \in S
  BY EmptySeq DEF Last
<1> QED
  BY <1>1, <1>2

\* Any part of a sequence of S is a sequence of S.
LEMMA PartOfSequence ==
    ASSUME NEW S, NEW s \in Seq(S), NEW m \in Nat \ {0}, NEW n \in Int, n <= Len(s)
    PROVE  SubSeq(s, m, n) \in Seq(S)
<1>1. \A i \in m..n : s[i] \in S
  OBVIOUS
<1> QED
  BY <1>1, SubSeqProperties

\* The aligned prefix is the longest one the store covers
\* (mini_git_working_history.cpp:853-934).
LEMMA DurablePrefixRange ==
    ASSUME NEW g, NEW recs \in Seq(Records)
    PROVE  /\ DurablePrefix(g, recs) \in 0..Len(recs)
           /\ DurablePrefix(g, recs) = 0 \/ CoversPrefix(g, recs, DurablePrefix(g, recs))
           /\ \A j \in (DurablePrefix(g, recs) + 1)..Len(recs) : ~CoversPrefix(g, recs, j)
<1> DEFINE covered == {i \in 0..Len(recs) : i = 0 \/ CoversPrefix(g, recs, i)}
           longest(i) == /\ i = 0 \/ CoversPrefix(g, recs, i)
                         /\ \A j \in (i + 1)..Len(recs) : ~CoversPrefix(g, recs, j)
<1>1. Len(recs) \in Nat /\ covered \in SUBSET (0..Len(recs)) /\ covered # {}
  BY LenProperties
<1>2. PICK i \in covered : \A j \in covered : j <= i
  BY <1>1, GreatestElement
<1>3. i \in 0..Len(recs) /\ longest(i)
  BY <1>1, <1>2
<1>4. DurablePrefix(g, recs) = CHOOSE k \in 0..Len(recs) : longest(k)
  BY DEF DurablePrefix
<1> HIDE DEF longest
<1>5. DurablePrefix(g, recs) \in 0..Len(recs) /\ longest(DurablePrefix(g, recs))
  BY <1>3, <1>4
<1> QED
  BY <1>5 DEF longest

LEMMA MissingSuffixType ==
    ASSUME NEW g, NEW recs \in Seq(Records)
    PROVE  MissingSuffix(g, recs) \in Seq(Records)
  BY DurablePrefixRange, PartOfSequence, LenProperties DEF MissingSuffix

\* Replaying an accepted journal yields a graph
\* (mini_git_working_history.cpp:118-188, 842-851).
LEMMA ReplayType ==
    ASSUME NEW par, NEW g \in Graphs, NEW recs \in Seq(Records),
           Replayable(par, g, recs)
    PROVE  Replay(g, recs) \in Graphs
<1>1. CASE recs = << >>
  BY <1>1 DEF Replay
<1>2. CASE recs # << >>
  <2>1. EditTargets(recs) \in SUBSET Commits
    BY DEF Replayable, EditTargets
  <2>2. Len(recs) \in 1..Len(recs)
    BY <1>2, EmptySeq
  <2>3. recs[Len(recs)].target \in Heads
    <3>1. recs[Len(recs)] \in Records
      BY <2>2, ElementOfSeq, Zenon
    <3> QED
      BY <3>1 DEF Records
  <2> DEFINE more == [g EXCEPT !.commits = @ \cup EditTargets(recs)]
  <2>4. more \in Graphs
    BY <2>1 DEF Graphs
  <2>5. Replay(g, recs) = MoveWorkingHead(more, recs[Len(recs)].target)
    BY <1>2 DEF Replay, MoveWorkingHead, Graphs
  <2>6. MoveWorkingHead(more, recs[Len(recs)].target) \in Graphs
    BY <2>3, <2>4 DEF MoveWorkingHead, Graphs
  <2> QED
    BY <2>5, <2>6
<1> QED
  BY <1>1, <1>2

\* What is kept of a journal is a journal (mini_git_working_history.cpp:360-376).
LEMMA KeepAfterType ==
    ASSUME journal \in Seq(Records), NEW last
    PROVE  KeepAfter(last) \in Seq(Records)
<1> DEFINE dropped == {i \in 1..Len(journal) : journal[i].seq <= last}
<1>1. IsFiniteSet(1..Len(journal))
  BY LenProperties, FS_Interval
<1>2. IsFiniteSet(dropped)
  BY <1>1, FS_Subset, dropped \subseteq 1..Len(journal), Zenon
<1>3. Cardinality(dropped) + 1 \in Nat \ {0}
  BY <1>2, FS_CardinalityType
<1>4. Len(journal) \in Int /\ Len(journal) <= Len(journal)
  BY LenProperties
<1> HIDE DEF dropped
<1>5. SubSeq(journal, Cardinality(dropped) + 1, Len(journal)) \in Seq(Records)
  BY <1>3, <1>4, PartOfSequence
<1> QED
  BY <1>5 DEF KeepAfter, dropped

\* The redo suffixes the commands build are sequences of commits.
LEMMA RedoTypes ==
    ASSUME redo \in Seq(Commits), graph \in Graphs
    PROVE  /\ \A i \in 1..Len(redo) : SubSeq(redo, 1, i - 1) \in Seq(Commits)
           /\ \A c : \A path \in PathsBackTo(c) : redo \o path \in Seq(Commits)
<1>1. ASSUME NEW i \in 1..Len(redo) PROVE SubSeq(redo, 1, i - 1) \in Seq(Commits)
  BY PartOfSequence, LenProperties
<1>2. ASSUME NEW c, NEW path \in PathsBackTo(c) PROVE redo \o path \in Seq(Commits)
  <2>1. PICK n \in 1..MaxCommits : path \in [1..n -> graph.commits]
    BY DEF PathsBackTo
  <2>2. path \in [1..n -> Commits] /\ n \in Nat
    BY <2>1, GraphAssumption DEF Graphs
  <2>3. path \in Seq(Commits)
    BY <2>2, SeqDef
  <2> QED
    BY <2>3, ConcatProperties
<1> QED
  BY <1>1, <1>2

----------------------------------------------------------------------------
\* Type correctness.


\* The constants the actions assign have their types.
LEMMA ConstantTypes ==
    /\ EmptyGraph \in Graphs
    /\ << >> \in Seq(Commits) /\ << >> \in Seq(Records)
    /\ NoTarget \in Targets /\ Stay \in Targets /\ Close \in Targets
    /\ NoOp \in Ops /\ Discarding \in Ops
    /\ NoSave \in Saves /\ EmptyWal \in Wals
<1>1. EmptyGraph \in Graphs
  BY GraphAssumption DEF EmptyGraph, Graphs, Heads, NoCommit
<1>2. << >> \in Seq(Commits) /\ << >> \in Seq(Records)
  BY EmptySeq
<1>3. NoTarget \in Targets /\ Stay \in Targets /\ Close \in Targets
  BY GraphAssumption DEF NoTarget, Stay, Close, Target, Targets, Heads, NoCommit
<1>4. NoOp \in Ops
  BY <1>2, GraphAssumption DEF NoOp, Ops, Heads, NoCommit
<1>5. Discarding \in Ops
  BY <1>4 DEF Discarding, Ops
<1>6. NoSave \in Saves
  BY <1>1, <1>3 DEF NoSave, Saves, SaveStages
<1>7. EmptyWal \in Wals
  BY <1>2 DEF EmptyWal, Wals
<1> QED
  BY <1>1, <1>2, <1>3, <1>4, <1>5, <1>6, <1>7

LEMMA InitialTypes == Init => TypeOK
  BY ConstantTypes, GraphAssumption
  DEF Init, TypeOK, SessionStates, Heads, Commits, NoCommit

\* Appending a record keeps the types of file, memory and numbering
\* (mini_git_working_history.cpp:192-226).
LEMMA AppendTypes ==
    ASSUME TypeOK, NEW kind \in RecordKinds, NEW target \in Heads,
           AppendRecord(kind, target)
    PROVE  wal' \in Wals /\ journal' \in Seq(Records) /\ nextSeq' \in Nat \ {0}
<1> DEFINE record == [seq |-> nextSeq, kind |-> kind,
                      source |-> WorkingHead, target |-> target]
<1>1. WorkingHead \in Heads
  BY GraphOperations DEF TypeOK, WorkingHead
<1>2. record \in Records
  BY <1>1 DEF TypeOK, Records
<1>3. Append(wal.recs, record) \in Seq(Records) /\ Append(journal, record) \in Seq(Records)
  BY <1>2, AppendProperties DEF TypeOK, Wals
<1>4. wal' = [wal EXCEPT !.recs = Append(wal.recs, record)]
  BY DEF AppendRecord, TypeOK, Wals
<1>5. journal' = Append(journal, record) /\ nextSeq' = nextSeq + 1
  BY DEF AppendRecord
<1>6. wal' \in Wals
  BY <1>3, <1>4 DEF TypeOK, Wals
<1>7. nextSeq' \in Nat \ {0}
  BY <1>5 DEF TypeOK
<1> QED
  BY <1>3, <1>5, <1>6, <1>7

\* A head move keeps every type, given those of its target and redo suffix
\* (mini_git_working_history.cpp:740-780).
LEMMA HeadMoveTypes ==
    ASSUME TypeOK, NEW target \in Heads, NEW selection \in Seq(Commits),
           NEW discard \in BOOLEAN,
           PublishPreparedHeadMove(target, selection, discard)
    PROVE  TypeOK'
<1>1. wal' \in Wals /\ journal' \in Seq(Records) /\ nextSeq' \in Nat \ {0}
  BY AppendTypes DEF PublishPreparedHeadMove, RecordKinds
<1>2. graph' \in Graphs /\ WorkingHead \in Heads
  BY GraphOperations DEF TypeOK, PublishPreparedHeadMove, WorkingHead
<1>3. op' \in Ops
  BY <1>2 DEF TypeOK, PublishPreparedHeadMove, Ops
<1> QED
  BY <1>1, <1>2, <1>3 DEF TypeOK, PublishPreparedHeadMove

\* A move to a target takes the redo suffix with it
\* (mini_git_working_history.cpp:623-738).
LEMMA MoveTypes ==
    ASSUME TypeOK, NEW target \in Heads, NEW discard \in BOOLEAN,
           MoveTo(target, discard)
    PROVE  TypeOK'
<1>1. redo \in Seq(Commits) /\ graph \in Graphs
  BY DEF TypeOK
<1>2. CASE MoveBackwardTo(target, discard)
  <2>1. PICK path \in PathsBackTo(target) :
           PublishPreparedHeadMove(target, redo \o path, discard)
    BY <1>2 DEF MoveBackwardTo
  <2>2. redo \o path \in Seq(Commits)
    BY <1>1, RedoTypes
  <2> QED
    BY <2>1, <2>2, HeadMoveTypes
<1>3. CASE MoveForwardTo(target, discard)
  <2>1. PICK i \in 1..Len(redo) :
           PublishPreparedHeadMove(target, SubSeq(redo, 1, i - 1), discard)
    BY <1>3 DEF MoveForwardTo
  <2>2. SubSeq(redo, 1, i - 1) \in Seq(Commits)
    BY <1>1, RedoTypes
  <2> QED
    BY <2>1, <2>2, HeadMoveTypes
<1> QED
  BY <1>2, <1>3 DEF MoveTo

LEMMA UndoTypes ==
    ASSUME TypeOK, NEW discard \in BOOLEAN, UndoTo(discard)
    PROVE  TypeOK'
<1>1. WorkingHead \in Commits
  <2>1. WorkingHead \in Heads /\ WorkingHead # NoCommit
    BY GraphOperations DEF TypeOK, WorkingHead, UndoTo
  <2> QED
    BY <2>1, GraphAssumption DEF Heads, Commits, NoCommit
<1>2. parent[WorkingHead] \in Heads /\ Append(redo, WorkingHead) \in Seq(Commits)
  BY <1>1, AppendProperties DEF TypeOK
<1> QED
  BY <1>2, HeadMoveTypes DEF UndoTo

\* The commands of an interactive image (mini_git_working_history.cpp:475-827).
LEMMA CommandTypes ==
    ASSUME TypeOK, \/ PublishPreparedEdit \/ Undo \/ Redo \/ MoveHeadToCommit
                   \/ DiscardMove
    PROVE  TypeOK'
<1>1. CASE PublishPreparedEdit
  <2> DEFINE commit == created + 1
  <2>1. commit \in Commits /\ commit \in Heads /\ created' \in 0..MaxCommits
    BY <1>1, GraphAssumption DEF PublishPreparedEdit, TypeOK, Commits, Heads
  <2>2. WorkingHead \in Heads
    BY GraphOperations DEF TypeOK, WorkingHead
  <2>3. wal' \in Wals /\ journal' \in Seq(Records) /\ nextSeq' \in Nat \ {0}
    BY <1>1, <2>1, AppendTypes DEF PublishPreparedEdit, RecordKinds
  <2>4. graph' = MoveWorkingHead(InsertCommit(graph, commit), commit)
    BY <1>1 DEF PublishPreparedEdit
  <2>5. parent' = [parent EXCEPT ![commit] = WorkingHead]
    BY <1>1 DEF PublishPreparedEdit
  <2> HIDE DEF commit
  <2>6. graph' \in Graphs
    <3>1. InsertCommit(graph, commit) \in Graphs
      BY <2>1, GraphOperations DEF TypeOK
    <3> QED
      BY <2>1, <2>4, <3>1, GraphOperations
  <2>7. parent' \in [Commits -> Heads]
    BY <2>1, <2>2, <2>5 DEF TypeOK
  <2>8. op' \in Ops
    BY <1>1, <2>2 DEF PublishPreparedEdit, TypeOK, Ops
  <2> QED
    BY <1>1, <2>1, <2>3, <2>6, <2>7, <2>8, ConstantTypes DEF PublishPreparedEdit, TypeOK
<1>2. CASE Undo
  BY <1>2, UndoTypes DEF Undo
<1>3. CASE Redo
  <2>1. redo \in Seq(Commits) /\ redo # << >>
    BY <1>3 DEF Redo, TypeOK
  <2>2. Last(redo) \in Commits /\ Front(redo) \in Seq(Commits)
    BY <2>1, FrontAndLast
  <2>3. Last(redo) \in Heads
    BY <2>2, GraphAssumption DEF Commits, Heads
  <2> QED
    BY <1>3, <2>2, <2>3, HeadMoveTypes DEF Redo
<1>4. CASE MoveHeadToCommit
  <2>1. PICK c \in graph.commits : MoveTo(c, FALSE)
    BY <1>4 DEF MoveHeadToCommit
  <2>2. c \in Heads
    BY GraphAssumption DEF TypeOK, Graphs, Commits, Heads
  <2> QED
    BY <2>1, <2>2, MoveTypes
<1>5. CASE DiscardMove
  <2>1. graph.mat \in Heads
    BY DEF TypeOK, Graphs
  <2> QED
    BY <1>5, <2>1, MoveTypes, UndoTypes DEF DiscardMove
<1> QED
  BY <1>1, <1>2, <1>3, <1>4, <1>5

\* The steps that end a command (mini_git_working_history.cpp:548-621, 782-827,
\* editor_history_mutation.cpp:833-863).
LEMMA CommandStepTypes ==
    ASSUME TypeOK, \/ Acknowledge \/ Abandon \/ AppendFails \/ Discard
                   \/ DiscardStops \/ DiscardFinish
    PROVE  TypeOK'
<1>1. CASE Acknowledge
  BY <1>1, ConstantTypes DEF Acknowledge, TypeOK
<1>2. CASE Abandon
  <2>1. op.source \in Heads /\ op.redo \in Seq(Commits)
    BY DEF TypeOK, Ops
  <2>2. graph' \in Graphs
    <3>1. MoveWorkingHead(graph, op.source) \in Graphs
      BY <2>1, GraphOperations DEF TypeOK
    <3> QED
      BY <1>2, <3>1, StoreOperations DEF Abandon
  <2>3. journal' \in Seq(Records)
    BY <1>2, FrontAndLast DEF Abandon, RevokeLastRecord, TypeOK
  <2>4. wal' \in Wals /\ damage' \in SUBSET Damages
    <3>1. CASE wal' = [recs |-> journal', torn |-> FALSE] /\ UNCHANGED damage
      BY <3>1, <2>3 DEF TypeOK, Wals
    <3>2. CASE wal' = wal /\ Harm({"RevokeFailed"})
      BY <3>2 DEF TypeOK, Harm, Damages
    <3>3. CASE \E n \in 0..(Len(journal') - 1), torn \in BOOLEAN :
                  /\ wal' = [recs |-> SubSeq(journal', 1, n), torn |-> torn]
                  /\ Harm({"RevokeFailed"})
      <4>1. PICK n \in 0..(Len(journal') - 1), torn \in BOOLEAN :
                  wal' = [recs |-> SubSeq(journal', 1, n), torn |-> torn]
        BY <3>3
      <4>2. SubSeq(journal', 1, n) \in Seq(Records)
        BY <2>3, PartOfSequence, LenProperties
      <4> QED
        BY <3>3, <4>1, <4>2 DEF TypeOK, Harm, Damages, Wals
    <3> QED
      BY <1>2, <3>1, <3>2, <3>3 DEF Abandon, RevokeLastRecord
  <2> QED
    BY <1>2, <2>1, <2>2, <2>3, <2>4, ConstantTypes DEF Abandon, TypeOK
<1>3. CASE AppendFails
  <2>1. wal' \in Wals /\ damage' \in SUBSET Damages
    BY <1>3 DEF AppendFails, TearAppend, TypeOK, Wals, Harm, Damages
  <2> QED
    BY <1>3, <2>1, ConstantTypes DEF AppendFails, TypeOK
<1>4. CASE Discard
  BY <1>4, ConstantTypes DEF Discard, TypeOK
<1>5. CASE DiscardStops
  BY <1>5, ConstantTypes DEF DiscardStops, TypeOK
<1>6. CASE DiscardFinish
  <2>1. journal' \in Seq(Records) /\ wal' \in Wals
    BY <1>6, ConstantTypes DEF DiscardFinish, TruncateMaterialized, TypeOK
  <2>2. damage' \in SUBSET Damages /\ redo' \in Seq(Commits)
    BY <1>6, ConstantTypes DEF DiscardFinish, TypeOK, Harm, StaleDiscard, Damages
  <2> QED
    BY <1>6, <2>1, <2>2, ConstantTypes DEF DiscardFinish, TypeOK
<1> QED
  BY <1>1, <1>2, <1>3, <1>4, <1>5, <1>6

\* What a checkpoint captures (mini_git_working_history.cpp:378-405).
LEMMA CaptureTypes ==
    ASSUME TypeOK, NEW next \in Targets
    PROVE  /\ Capture(next) \in Saves
           /\ \A v \in Versions :
                 [Capture(next) EXCEPT
                    !.capture = MaterializeActiveHead(RemoveVersionRef(graph, v))] \in Saves
<1>1. journal # << >> => Last(journal).seq \in Nat
  <2>1. journal # << >> => Last(journal) \in Records
    BY FrontAndLast DEF TypeOK
  <2> QED
    BY <2>1 DEF Records
<1>2. MaterializeActiveHead(graph) \in Graphs
  BY GraphOperations DEF TypeOK
<1>3. Capture(next) \in Saves
  BY <1>1, <1>2 DEF Capture, Saves, SaveStages
<1>4. ASSUME NEW v \in Versions
      PROVE  MaterializeActiveHead(RemoveVersionRef(graph, v)) \in Graphs
  BY GraphOperations DEF TypeOK
<1> QED
  BY <1>3, <1>4 DEF Saves

LEMMA NextTargetsTypes == TypeOK => NextTargets \subseteq Targets
<1> SUFFICES ASSUME TypeOK, NEW next \in NextTargets PROVE next \in Targets
  OBVIOUS
<1>1. graph.refs \subseteq Versions /\ graph.commits \subseteq Heads /\ NoCommit \in Heads
  BY GraphAssumption DEF TypeOK, Graphs, Commits, Heads, NoCommit
<1> QED
  BY <1>1, ConstantTypes DEF NextTargets, Targets

\* The save checkpoint until its completion is reduced
\* (editor_history_checkpoint.cpp, editor_mini_git_materializer.cpp:14-126).
LEMMA SaveTypes ==
    ASSUME TypeOK, \/ SaveAndContinue \/ RetrySaveAfterFailure \/ RemoveVersion
                   \/ SaveCannotStart \/ Worker \/ OnCheckpointFailed
    PROVE  TypeOK'
<1>1. CASE SaveAndContinue \/ RetrySaveAfterFailure
  <2>1. PICK next \in Targets : StartSave(next) /\ UNCHANGED graph
    BY <1>1, NextTargetsTypes DEF SaveAndContinue, RetrySaveAfterFailure, TypeOK
  <2>2. Capture(next) \in Saves
    BY CaptureTypes
  <2> QED
    BY <2>1, <2>2, ConstantTypes DEF StartSave, TypeOK, SessionStates
<1>2. CASE RemoveVersion
  <2>1. PICK v \in Versions : graph' = RemoveVersionRef(graph, v)
    BY <1>2 DEF RemoveVersion, TypeOK, Graphs
  <2>2. graph' \in Graphs
    BY <2>1, GraphOperations DEF TypeOK
  <2>3. save' \in Saves
    BY <1>2, <2>1, CaptureTypes, ConstantTypes DEF RemoveVersion
  <2> QED
    BY <1>2, <2>2, <2>3, ConstantTypes DEF RemoveVersion, TypeOK, SessionStates
<1>3. CASE SaveCannotStart
  BY <1>3, NextTargetsTypes DEF SaveCannotStart, TypeOK, SessionStates
<1>4. CASE Worker
  <2>1. db' \in Graphs
    BY <1>4, StoreOperations
    DEF Worker, WriteDatabase, ClearEntireJournal, SaveFails, TypeOK, Saves
  <2>2. save' \in Saves
    BY <1>4
    DEF Worker, WriteDatabase, ClearEntireJournal, SaveFails, TypeOK, Saves, SaveStages
  <2>3. wal' \in Wals
    BY <1>4, ConstantTypes
    DEF Worker, WriteDatabase, ClearEntireJournal, SaveFails, TypeOK
  <2>4. WorkerUnchanged
    BY <1>4 DEF Worker, WriteDatabase, ClearEntireJournal, SaveFails
  <2> QED
    BY <2>1, <2>2, <2>3, <2>4 DEF WorkerUnchanged, TypeOK
<1>5. CASE OnCheckpointFailed
  <2>1. recovery' \in Targets
    BY <1>5, ConstantTypes DEF OnCheckpointFailed, TypeOK, Saves
  <2> QED
    BY <1>5, <2>1, ConstantTypes DEF OnCheckpointFailed, TypeOK, SessionStates
<1> QED
  BY <1>1, <1>2, <1>3, <1>4, <1>5

LEMMA ForgetTypes ==
    ASSUME ForgetMemory
    PROVE  /\ graph' \in Graphs /\ redo' \in Seq(Commits) /\ journal' \in Seq(Records)
           /\ nextSeq' \in Nat \ {0} /\ op' \in Ops /\ recovery' \in Targets
           /\ save' \in Saves
  BY ConstantTypes DEF ForgetMemory

\* Showing another Version, or staying with the one that is shown
\* (editor_history_version_refs.cpp, editor_session_navigation_controller.cpp:580-682).
LEMMA ContinueTypes ==
    ASSUME TypeOK, NEW g \in Graphs, NEW next \in Targets, ContinueToVersion(g, next)
    PROVE  /\ graph' \in Graphs /\ redo' \in Seq(Commits) /\ db' \in Graphs
           /\ session' \in SessionStates /\ recovery' \in Targets
<1>1. next.version \in Versions /\ next.at \in Heads
  BY DEF Targets
<1>2. MaterializeActiveHead(SwitchedGraph(g, next)) \in Graphs
  <2>1. CreateVersionRefAtHead(g, next.version, next.at) \in Graphs
    BY <1>1, GraphOperations
  <2>2. SwitchedGraph(g, next) \in Graphs
    BY <1>1, <2>1, GraphOperations DEF SwitchedGraph
  <2> QED
    BY <2>2, GraphOperations
<1>3. StoreMaterialization(db, MaterializeActiveHead(SwitchedGraph(g, next))) \in Graphs
  BY <1>2, StoreOperations DEF TypeOK
<1> QED
  BY <1>2, <1>3, ConstantTypes DEF ContinueToVersion, TypeOK, SessionStates

\* A finished save is reduced (editor_session_service.cpp:913-1031).
LEMMA DoneTypes ==
    ASSUME TypeOK, OnCheckpointDone
    PROVE  TypeOK'
<1>1. KeepAfter(save.last) \in Seq(Records)
  BY KeepAfterType DEF TypeOK
<1>2. save.next \in Targets /\ MaterializeActiveHead(graph) \in Graphs
  BY GraphOperations DEF TypeOK, Saves
<1>3. wal' \in Wals
  <2>1. wal' = [recs |-> KeepAfter(save.last), torn |-> FALSE]
    BY DEF OnCheckpointDone
  <2> QED
    BY <1>1, <2>1 DEF Wals
<1>4. CASE save.next.kind = "Close"
  <2>1. ForgetMemory /\ session' = "NoImage" /\ UNCHANGED <<created, parent, damage, db>>
    BY <1>4 DEF OnCheckpointDone
  <2> QED
    BY <1>3, <2>1, ForgetTypes DEF TypeOK, SessionStates
<1>5. CASE save.next.kind # "Close"
  <2>1. journal' \in Seq(Records) /\ save' \in Saves
        /\ UNCHANGED <<created, parent, damage, nextSeq, op>>
    BY <1>1, <1>5, ConstantTypes DEF OnCheckpointDone
  <2>2. /\ graph' \in Graphs /\ redo' \in Seq(Commits) /\ db' \in Graphs
        /\ session' \in SessionStates /\ recovery' \in Targets
    <3>1. CASE save.next.kind = "Stay"
      BY <1>2, <1>5, <3>1, ConstantTypes DEF OnCheckpointDone, TypeOK, SessionStates
    <3>2. CASE save.next.kind # "Stay"
      <4>1. ContinueToVersion(MaterializeActiveHead(graph), save.next)
        BY <1>5, <3>2 DEF OnCheckpointDone
      <4> QED
        BY <1>2, <4>1, ContinueTypes
    <3> QED
      BY <3>1, <3>2
  <2> QED
    BY <1>3, <2>1, <2>2 DEF TypeOK
<1> QED
  BY <1>4, <1>5

\* The choices after a failed save, and closing with discard
\* (editor_session_navigation_controller.cpp:715-862).
LEMMA AfterFailureTypes ==
    ASSUME TypeOK, \/ CancelPendingNavigation \/ CloseDiscarding
                   \/ DiscardAndContinueAfterFailure
    PROVE  TypeOK'
<1>1. ASSUME ReleaseDiscarding PROVE TypeOK'
  <2>1. wal' \in Wals /\ damage' \in SUBSET Damages
    BY <1>1, ConstantTypes DEF ReleaseDiscarding, Harm, StaleDiscard, Damages, TypeOK
  <2>2. ForgetMemory /\ session' = "NoImage" /\ UNCHANGED <<created, parent, db>>
    BY <1>1 DEF ReleaseDiscarding
  <2> QED
    BY <2>1, <2>2, ForgetTypes DEF TypeOK, SessionStates
<1>2. CASE CancelPendingNavigation
  BY <1>2, ConstantTypes DEF CancelPendingNavigation, TypeOK, SessionStates
<1>3. CASE CloseDiscarding
  BY <1>1, <1>3 DEF CloseDiscarding
<1>4. CASE DiscardAndContinueAfterFailure
  <2>1. CASE recovery = Close
    BY <1>1, <1>4, <2>1 DEF DiscardAndContinueAfterFailure
  <2>2. CASE recovery # Close
    <3>1. ContinueToVersion(graph, recovery)
      BY <1>4, <2>2 DEF DiscardAndContinueAfterFailure
    <3>2. /\ graph' \in Graphs /\ redo' \in Seq(Commits) /\ db' \in Graphs
          /\ session' \in SessionStates /\ recovery' \in Targets
      BY <3>1, ContinueTypes DEF TypeOK
    <3>3. damage' \in SUBSET Damages
      BY <1>4, <2>2 DEF DiscardAndContinueAfterFailure, Harm, Damages, TypeOK
    <3>4. UNCHANGED <<created, parent, journal, nextSeq, op, save, wal>>
      BY <1>4, <2>2 DEF DiscardAndContinueAfterFailure
    <3> QED
      BY <3>2, <3>3, <3>4 DEF TypeOK
  <2> QED
    BY <2>1, <2>2
<1> QED
  BY <1>2, <1>3, <1>4

\* Opening the image (editor_mini_git_journal_recovery.cpp:35-114,
\* editor_mini_git_materializer.cpp:128-248).
LEMMA OpenTypes ==
    ASSUME TypeOK, Open
    PROVE  TypeOK'
<1>1. ASSUME IsolateJournal PROVE TypeOK'
  <2>1. /\ wal' = EmptyWal /\ ForgetMemory /\ session' = "Failed"
        /\ UNCHANGED <<created, parent, db, damage>>
    BY <1>1 DEF IsolateJournal
  <2> QED
    BY <2>1, ForgetTypes, ConstantTypes DEF TypeOK, SessionStates
<1>2. CASE RecoverRejects \/ AcquireRejects
  BY <1>1, <1>2 DEF RecoverRejects, AcquireRejects
<1>3. CASE RecoverAccepts \/ RecoverCannotClear
  <2>1. wal' \in Wals /\ session' \in SessionStates
    BY <1>3, ConstantTypes DEF RecoverAccepts, RecoverCannotClear, TypeOK, SessionStates
  <2>2. UNCHANGED <<created, parent, memory, db, damage>>
    BY <1>3 DEF RecoverAccepts, RecoverCannotClear
  <2> QED
    BY <2>1, <2>2 DEF TypeOK, memory
<1>4. CASE AcquireWorkingState
  <2> DEFINE missing == MissingSuffix(db, wal.recs)
  <2>1. wal.recs \in Seq(Records) /\ missing \in Seq(Records)
    BY MissingSuffixType DEF TypeOK, Wals
  <2>2. Replay(db, missing) \in Graphs
    BY <1>4, <2>1, ReplayType DEF AcquireWorkingState, TypeOK
  <2>3. MaterializeActiveHead(Replay(db, missing)) \in Graphs
    BY <2>2, GraphOperations
  <2>4. StoreMaterialization(db, MaterializeActiveHead(Replay(db, missing))) \in Graphs
    BY <2>3, StoreOperations DEF TypeOK
  <2>5. journal' \in Seq(Records) /\ nextSeq' \in Nat \ {0}
    <3>1. wal.recs # << >> => Last(wal.recs) \in Records
      BY <2>1, FrontAndLast
    <3> QED
      BY <1>4, <2>1, <3>1 DEF AcquireWorkingState, LoadJournal, Records
  <2>6. graph' \in Graphs /\ db' \in Graphs /\ session' \in SessionStates
    BY <1>4, <2>2, <2>3, <2>4 DEF AcquireWorkingState, TypeOK, SessionStates
  <2>7. UNCHANGED <<created, parent, redo, op, recovery, save, wal, damage>>
    BY <1>4 DEF AcquireWorkingState
  <2> QED
    BY <2>5, <2>6, <2>7 DEF TypeOK
<1>5. CASE FinishAcquire
  <2>1. CASE ForgetMemory /\ session' = "Failed" /\ UNCHANGED wal
    BY <1>5, <2>1, ForgetTypes DEF FinishAcquire, TypeOK, SessionStates
  <2>2. CASE /\ TruncateMaterialized(TRUE) /\ session' = "Interactive"
             /\ UNCHANGED <<graph, redo, nextSeq, op, recovery, save>>
    BY <1>5, <2>2, ConstantTypes
    DEF FinishAcquire, TruncateMaterialized, TypeOK, SessionStates
  <2> QED
    BY <1>5, <2>1, <2>2 DEF FinishAcquire
<1> QED
  BY <1>2, <1>3, <1>4, <1>5 DEF Open

LEMMA StepTypes == TypeOK /\ [Next]_vars => TypeOK'
<1> SUFFICES ASSUME TypeOK, [Next]_vars PROVE TypeOK'
  OBVIOUS
<1>1. CASE \/ PublishPreparedEdit \/ Undo \/ Redo \/ MoveHeadToCommit \/ DiscardMove
  BY <1>1, CommandTypes
<1>2. CASE \/ Acknowledge \/ Abandon \/ AppendFails \/ Discard \/ DiscardStops
           \/ DiscardFinish
  BY <1>2, CommandStepTypes
<1>3. CASE \/ SaveAndContinue \/ RetrySaveAfterFailure \/ RemoveVersion
           \/ SaveCannotStart \/ Worker \/ OnCheckpointFailed
  BY <1>3, SaveTypes
<1>4. CASE OnCheckpointDone
  BY <1>4, DoneTypes
<1>5. CASE CancelPendingNavigation \/ CloseDiscarding \/ DiscardAndContinueAfterFailure
  BY <1>5, AfterFailureTypes
<1>6. CASE Open
  BY <1>6, OpenTypes
<1>7. CASE Crash
  BY <1>7, ForgetTypes DEF Crash, TypeOK, SessionStates
<1>8. CASE CollectUnreachableEditCommits
  <2>1. db' \in Graphs
    BY <1>8, StoreOperations DEF CollectUnreachableEditCommits, TypeOK
  <2>2. damage' \in SUBSET Damages
    BY <1>8 DEF CollectUnreachableEditCommits, Harm, Damages, TypeOK
  <2>3. UNCHANGED <<created, parent, memory, session, wal>>
    BY <1>8 DEF CollectUnreachableEditCommits
  <2> QED
    BY <2>1, <2>2, <2>3 DEF TypeOK, memory
<1>9. CASE UNCHANGED vars
  BY <1>9 DEF vars, memory, TypeOK
<1> QED
  BY <1>1, <1>2, <1>3, <1>4, <1>5, <1>6, <1>7, <1>8, <1>9
  DEF Next, Command, CommandStep, Completion, AfterFailure

\* In every reachable state every variable holds a value of its kind, whatever
\* fails on the way: journals read back from disk, replayed graphs and the
\* graphs the worker writes included.
THEOREM TypeCorrect == Spec => []TypeOK
<1>1. Init => TypeOK
  BY InitialTypes
<1>2. TypeOK /\ [Next]_vars => TypeOK'
  BY StepTypes
<1> QED
  BY <1>1, <1>2, PTL DEF Spec

----------------------------------------------------------------------------
\* Inactive Versions are durable.

\* A command under way has the image interactive, and a save under way has it
\* frozen: what was captured is the graph in memory.
SaveFreezesGraph ==
    /\ op # NoOp => session = "Interactive"
    /\ save.stage # "None" => /\ session = "Saving"
                              /\ save.capture = MaterializeActiveHead(graph)

DurableInv == TypeOK /\ SaveFreezesGraph /\ InactiveVersionsAreDurable

\* What a working-state operation leaves alone: the Versions other than the
\* active one.
SameInactive(g, h) ==
    /\ h.active = g.active /\ h.refs = g.refs
    /\ \A v \in Versions \ {g.active} : h.head[v] = g.head[v]

\* Inserting a commit, moving the working head, advancing the materialized head
\* and replaying a journal change the active Version only.
LEMMA InactiveUntouched ==
    ASSUME NEW g \in Graphs, NEW c, NEW h, NEW recs, NEW S, NEW par
    PROVE  /\ SameInactive(g, InsertCommit(g, c))
           /\ SameInactive(g, MoveWorkingHead(g, h))
           /\ SameInactive(g, MaterializeActiveHead(g))
           /\ SameInactive(g, EraseUnreachable(par, g, S))
           /\ SameInactive(g, Replay(g, recs))
<1> USE DEF SameInactive, Graphs
<1>1. SameInactive(g, InsertCommit(g, c))
  BY DEF InsertCommit
<1>2. SameInactive(g, MoveWorkingHead(g, h))
  BY DEF MoveWorkingHead
<1>3. SameInactive(g, MaterializeActiveHead(g))
  BY DEF MaterializeActiveHead
<1>4. SameInactive(g, EraseUnreachable(par, g, S))
  BY DEF EraseUnreachable
<1>5. SameInactive(g, Replay(g, recs))
  BY DEF Replay
<1> HIDE DEF SameInactive, Graphs
<1> QED
  BY <1>1, <1>2, <1>3, <1>4, <1>5

\* After a materialization the rows are the captured graph's.
LEMMA StoreKeepsRefs ==
    ASSUME NEW d \in Graphs, NEW m \in Graphs
    PROVE  /\ StoreMaterialization(d, m).refs = m.refs
           /\ StoreMaterialization(d, m).head = m.head
           /\ StoreMaterialization(d, m).active = m.active
           /\ StoreMaterialization(d, m).mat = m.mat
  BY DEF StoreMaterialization, Graphs

\* A step of a command keeps the invariant: it moves the active head only.
LEMMA CommandKeepsDurable ==
    ASSUME DurableInv, session = "Interactive", UNCHANGED <<session, db, save>>,
           SameInactive(graph, graph')
    PROVE  SaveFreezesGraph' /\ InactiveVersionsAreDurable'
<1>1. save.stage = "None"
  BY DEF DurableInv, SaveFreezesGraph
<1>2. SaveFreezesGraph'
  BY <1>1 DEF SaveFreezesGraph
<1>3. InactiveVersionsAreDurable'
  BY DEF DurableInv, InactiveVersionsAreDurable, Loaded, SameInactive, TypeOK, Graphs
<1> QED
  BY <1>2, <1>3

LEMMA HeadMoveSteps ==
    ASSUME TypeOK, \/ Undo \/ Redo \/ MoveHeadToCommit \/ DiscardMove
    PROVE  /\ \E h : graph' = MoveWorkingHead(graph, h)
           /\ UNCHANGED <<session, db, save>>
           /\ op = NoOp \/ op.kind = "Discarding"
<1>1. \E t, r, d : PublishPreparedHeadMove(t, r, d)
  BY DEF Undo, UndoTo, Redo, MoveHeadToCommit, DiscardMove, MoveTo, MoveBackwardTo,
         MoveForwardTo
<1> QED
  BY <1>1
  DEF PublishPreparedHeadMove, Undo, Redo, MoveHeadToCommit, DiscardMove, Ready

\* Commands, their ends and discards.
LEMMA CommandsKeepDurable ==
    ASSUME DurableInv,
           \/ PublishPreparedEdit \/ Undo \/ Redo \/ MoveHeadToCommit \/ DiscardMove
           \/ Acknowledge \/ Abandon \/ AppendFails \/ Discard \/ DiscardStops
           \/ DiscardFinish
    PROVE  SaveFreezesGraph' /\ InactiveVersionsAreDurable'
<1> USE DEF DurableInv
<1>1. graph \in Graphs
  BY DEF TypeOK
<1>2. session = "Interactive"
  <2>1. Ready \/ op.kind \in {"Edit", "HeadMove", "Discarding"}
    BY DEF PublishPreparedEdit, Undo, Redo, MoveHeadToCommit, DiscardMove, Acknowledge,
           Abandon, AppendFails, Discard, DiscardStops, DiscardFinish
  <2>2. op.kind \in {"Edit", "HeadMove", "Discarding"} => op # NoOp
    BY DEF NoOp
  <2> QED
    BY <2>1, <2>2 DEF Ready, SaveFreezesGraph
<1>3. CASE PublishPreparedEdit
  <2>1. SameInactive(graph, graph')
    <3>1. created + 1 \in Commits
      BY <1>3, GraphAssumption DEF PublishPreparedEdit, TypeOK, Commits
    <3>2. InsertCommit(graph, created + 1) \in Graphs
      BY <1>1, <3>1, GraphOperations
    <3> QED
      BY <1>1, <1>3, <3>2, InactiveUntouched DEF PublishPreparedEdit, SameInactive
  <2> QED
    BY <1>2, <1>3, <2>1, CommandKeepsDurable DEF PublishPreparedEdit
<1>4. CASE Undo \/ Redo \/ MoveHeadToCommit \/ DiscardMove
  BY <1>1, <1>2, <1>4, HeadMoveSteps, InactiveUntouched, CommandKeepsDurable
<1>5. CASE Abandon
  <2>1. MoveWorkingHead(graph, op.source) \in Graphs
    BY <1>1, GraphOperations DEF TypeOK, Ops
  <2>2. SameInactive(graph, graph')
    BY <1>1, <1>5, <2>1, InactiveUntouched DEF Abandon, SameInactive
  <2> QED
    BY <1>2, <1>5, <2>2, CommandKeepsDurable DEF Abandon
<1>6. CASE Acknowledge \/ AppendFails \/ Discard \/ DiscardStops \/ DiscardFinish
  <2>1. UNCHANGED <<graph, session, db, save>>
    BY <1>6 DEF Acknowledge, AppendFails, Discard, DiscardStops, DiscardFinish
  <2>2. SameInactive(graph, graph')
    BY <2>1 DEF SameInactive
  <2> QED
    BY <1>2, <2>1, <2>2, CommandKeepsDurable
<1> QED
  BY <1>3, <1>4, <1>5, <1>6

\* Starting a save, the worker's steps and the reduced completions.
LEMMA SaveKeepsDurable ==
    ASSUME DurableInv,
           \/ SaveAndContinue \/ RetrySaveAfterFailure \/ RemoveVersion
           \/ SaveCannotStart \/ Worker \/ OnCheckpointFailed
    PROVE  SaveFreezesGraph' /\ InactiveVersionsAreDurable'
<1> USE DEF DurableInv
<1>1. graph \in Graphs /\ db \in Graphs
  BY DEF TypeOK
<1>2. CASE SaveAndContinue \/ RetrySaveAfterFailure
  <2>1. /\ op = NoOp /\ Loaded
        /\ \E next : StartSave(next)
        /\ UNCHANGED graph
    BY <1>2 DEF SaveAndContinue, RetrySaveAfterFailure, SaveFreezesGraph, Ready, Loaded
  <2>2. SaveFreezesGraph'
    BY <2>1 DEF StartSave, Capture, SaveFreezesGraph
  <2>3. InactiveVersionsAreDurable'
    BY <2>1 DEF StartSave, InactiveVersionsAreDurable, Loaded
  <2> QED
    BY <2>2, <2>3
<1>3. CASE RemoveVersion
  <2>1. PICK v \in graph.refs \ {graph.active} : graph' = RemoveVersionRef(graph, v)
    BY <1>3 DEF RemoveVersion
  <2>2. /\ session' = "Saving" /\ UNCHANGED <<db, op>> /\ op = NoOp /\ Loaded
        /\ save' = [Capture(Stay) EXCEPT !.capture = MaterializeActiveHead(graph')]
    BY <1>3 DEF RemoveVersion, Ready, Loaded
  <2>3. SaveFreezesGraph'
    BY <2>2 DEF Capture, SaveFreezesGraph
  <2>4. InactiveVersionsAreDurable'
    BY <1>1, <2>1, <2>2
    DEF RemoveVersionRef, InactiveVersionsAreDurable, Loaded, Graphs
  <2> QED
    BY <2>3, <2>4
<1>4. CASE SaveCannotStart
  BY <1>4
  DEF SaveCannotStart, Ready, SaveFreezesGraph, InactiveVersionsAreDurable, Loaded
<1>5. CASE Worker
  <2>1. WorkerUnchanged /\ session = "Saving" /\ save.capture = MaterializeActiveHead(graph)
    BY <1>5 DEF Worker, WriteDatabase, ClearEntireJournal, SaveFails, SaveFreezesGraph
  <2>2. save'.capture = save.capture
    BY <1>5 DEF Worker, WriteDatabase, ClearEntireJournal, SaveFails, TypeOK, Saves
  <2>3. SaveFreezesGraph'
    BY <2>1, <2>2 DEF WorkerUnchanged, SaveFreezesGraph
  <2>4. CASE UNCHANGED db
    BY <2>1, <2>3, <2>4 DEF WorkerUnchanged, InactiveVersionsAreDurable, Loaded
  <2>5. CASE db' = StoreMaterialization(db, MaterializeActiveHead(graph))
    <3>1. /\ SameInactive(graph, MaterializeActiveHead(graph))
          /\ MaterializeActiveHead(graph) \in Graphs
      BY <1>1, InactiveUntouched, GraphOperations
    <3>2. db'.refs = graph.refs
          /\ \A v \in Versions \ {graph.active} : db'.head[v] = graph.head[v]
      BY <1>1, <2>5, <3>1, StoreKeepsRefs DEF SameInactive
    <3>3. graph.refs \subseteq Versions
      BY <1>1 DEF Graphs
    <3> QED
      BY <2>1, <2>3, <3>2, <3>3 DEF WorkerUnchanged, InactiveVersionsAreDurable
  <2>6. UNCHANGED db \/ db' = StoreMaterialization(db, MaterializeActiveHead(graph))
    BY <1>5, <2>1 DEF Worker, WriteDatabase, ClearEntireJournal, SaveFails
  <2> QED
    BY <2>3, <2>4, <2>5, <2>6
<1>6. CASE OnCheckpointFailed
  <2>1. session = "Saving" /\ op = NoOp
    BY <1>6 DEF OnCheckpointFailed, SaveFreezesGraph
  <2>2. SaveFreezesGraph'
    BY <1>6, <2>1 DEF OnCheckpointFailed, SaveFreezesGraph, NoSave
  <2>3. InactiveVersionsAreDurable'
    BY <1>6, <2>1 DEF OnCheckpointFailed, InactiveVersionsAreDurable, Loaded
  <2> QED
    BY <2>2, <2>3
<1> QED
  BY <1>2, <1>3, <1>4, <1>5, <1>6

\* Making another Version active is written before it is shown.
LEMMA ContinueKeepsDurable ==
    ASSUME TypeOK, InactiveVersionsAreDurable, Loaded, NEW g \in Graphs,
           SameInactive(graph, g), NEW next \in Targets, ContinueToVersion(g, next)
    PROVE  InactiveVersionsAreDurable'
<1>1. CASE graph' = g /\ UNCHANGED db
  BY <1>1 DEF InactiveVersionsAreDurable, SameInactive, Graphs
<1>2. CASE db' = StoreMaterialization(db, graph') /\ graph' \in Graphs
  BY <1>2, StoreKeepsRefs DEF InactiveVersionsAreDurable, TypeOK
<1>3. graph' \in Graphs
  BY ContinueTypes
<1> QED
  BY <1>1, <1>2, <1>3 DEF ContinueToVersion

LEMMA ContinueSession ==
    ASSUME NEW g, NEW next, ContinueToVersion(g, next)
    PROVE  session' \in {"Interactive", "RetainedImageFailure"}
  BY DEF ContinueToVersion

\* A finished save, and the choices after a failed one.
LEMMA NavigationKeepsDurable ==
    ASSUME DurableInv,
           \/ OnCheckpointDone \/ CancelPendingNavigation \/ CloseDiscarding
           \/ DiscardAndContinueAfterFailure
    PROVE  SaveFreezesGraph' /\ InactiveVersionsAreDurable'
<1> USE DEF DurableInv
<1>1. graph \in Graphs /\ SameInactive(graph, graph)
  BY DEF TypeOK, SameInactive
<1>2. ASSUME ForgetMemory, session' = "NoImage"
      PROVE  SaveFreezesGraph' /\ InactiveVersionsAreDurable'
  BY <1>2 DEF ForgetMemory, SaveFreezesGraph, InactiveVersionsAreDurable, Loaded, NoSave
<1>3. CASE OnCheckpointDone
  <2>1. session = "Saving" /\ op = NoOp /\ Loaded
    BY <1>3 DEF OnCheckpointDone, SaveFreezesGraph, Loaded
  <2>2. CASE save.next.kind = "Close"
    BY <1>2, <1>3, <2>2 DEF OnCheckpointDone
  <2>3. CASE save.next.kind # "Close"
    <3>1. SaveFreezesGraph'
      BY <1>3, <2>1, <2>3 DEF OnCheckpointDone, SaveFreezesGraph, NoSave
    <3>2. /\ MaterializeActiveHead(graph) \in Graphs
          /\ SameInactive(graph, MaterializeActiveHead(graph))
      BY <1>1, GraphOperations, InactiveUntouched
    <3>3. CASE save.next.kind = "Stay"
      <4>1. graph' = MaterializeActiveHead(graph) /\ UNCHANGED db
        BY <1>3, <2>3, <3>3 DEF OnCheckpointDone
      <4> QED
        BY <1>1, <2>1, <3>1, <3>2, <4>1
        DEF InactiveVersionsAreDurable, SameInactive, Graphs
    <3>4. CASE save.next.kind # "Stay"
      <4>1. ContinueToVersion(MaterializeActiveHead(graph), save.next)
        BY <1>3, <2>3, <3>4 DEF OnCheckpointDone
      <4>2. save.next \in Targets
        BY DEF TypeOK, Saves
      <4> QED
        BY <2>1, <3>1, <3>2, <4>1, <4>2, ContinueKeepsDurable
    <3> QED
      BY <3>3, <3>4
  <2> QED
    BY <2>2, <2>3
<1>4. CASE CancelPendingNavigation
  <2>1. op' = NoOp /\ save'.stage = "None"
    BY <1>4 DEF CancelPendingNavigation, SaveFreezesGraph
  <2> QED
    BY <1>4, <2>1
    DEF CancelPendingNavigation, SaveFreezesGraph, InactiveVersionsAreDurable, Loaded
<1>5. CASE CloseDiscarding
  BY <1>2, <1>5 DEF CloseDiscarding, ReleaseDiscarding
<1>6. CASE DiscardAndContinueAfterFailure
  <2>1. CASE recovery = Close
    BY <1>2, <1>6, <2>1 DEF DiscardAndContinueAfterFailure, ReleaseDiscarding
  <2>2. CASE recovery # Close
    <3>1. ContinueToVersion(graph, recovery) /\ Loaded /\ UNCHANGED <<op, save>>
      BY <1>6, <2>2 DEF DiscardAndContinueAfterFailure, Loaded
    <3>2. op = NoOp /\ save.stage = "None"
      BY <1>6 DEF DiscardAndContinueAfterFailure, SaveFreezesGraph
    <3>3. SaveFreezesGraph'
      BY <3>1, <3>2 DEF SaveFreezesGraph
    <3> QED
      BY <1>1, <3>1, <3>3, ContinueKeepsDurable DEF TypeOK
  <2> QED
    BY <2>1, <2>2
<1> QED
  BY <1>3, <1>4, <1>5, <1>6

\* Opening: what is loaded is what the rows hold, the active head apart.
LEMMA OpenKeepsDurable ==
    ASSUME DurableInv, Open
    PROVE  SaveFreezesGraph' /\ InactiveVersionsAreDurable'
<1> USE DEF DurableInv
<1>1. session \notin {"Interactive", "Saving"}
  BY DEF Open, RecoverRejects, RecoverAccepts, RecoverCannotClear, AcquireRejects,
         AcquireWorkingState, FinishAcquire
<1>2. op = NoOp /\ save.stage = "None"
  BY <1>1 DEF SaveFreezesGraph
<1>3. ASSUME ForgetMemory, session' = "Failed"
      PROVE  SaveFreezesGraph' /\ InactiveVersionsAreDurable'
  BY <1>3 DEF ForgetMemory, SaveFreezesGraph, InactiveVersionsAreDurable, Loaded, NoSave
<1>4. CASE RecoverRejects \/ AcquireRejects
  BY <1>3, <1>4 DEF RecoverRejects, AcquireRejects, IsolateJournal
<1>5. CASE RecoverAccepts \/ RecoverCannotClear
  BY <1>2, <1>5
  DEF RecoverAccepts, RecoverCannotClear, memory, SaveFreezesGraph,
      InactiveVersionsAreDurable, Loaded
<1>6. CASE AcquireWorkingState
  <2> DEFINE replayed == Replay(db, MissingSuffix(db, wal.recs))
  <2>1. SaveFreezesGraph'
    BY <1>2, <1>6 DEF AcquireWorkingState, SaveFreezesGraph
  <2>2. /\ wal.recs \in Seq(Records) /\ db \in Graphs
        /\ MissingSuffix(db, wal.recs) \in Seq(Records)
    BY MissingSuffixType DEF TypeOK, Wals
  <2>3. replayed \in Graphs /\ SameInactive(db, replayed)
    BY <1>6, <2>2, ReplayType, InactiveUntouched DEF AcquireWorkingState
  <2>4. MaterializeActiveHead(replayed) \in Graphs
    BY <2>3, GraphOperations
  <2>5. CASE graph' = db /\ UNCHANGED db
    BY <2>1, <2>2, <2>5 DEF InactiveVersionsAreDurable
  <2>6. CASE /\ graph' = MaterializeActiveHead(replayed)
             /\ db' = StoreMaterialization(db, graph')
    BY <2>1, <2>2, <2>4, <2>6, StoreKeepsRefs DEF InactiveVersionsAreDurable
  <2>7. CASE graph' = replayed /\ UNCHANGED db
    <3>1. SameInactive(db, graph') /\ graph' \in Graphs
      BY <2>3, <2>7
    <3> QED
      BY <2>1, <2>7, <3>1 DEF InactiveVersionsAreDurable, SameInactive, Graphs
  <2> QED
    BY <1>6, <2>5, <2>6, <2>7 DEF AcquireWorkingState
<1>7. CASE FinishAcquire
  <2>1. CASE ForgetMemory /\ session' = "Failed"
    BY <1>3, <2>1
  <2>2. CASE UNCHANGED <<graph, op, save, db>> /\ session' = "Interactive"
    BY <1>2, <1>7, <2>2
    DEF FinishAcquire, SaveFreezesGraph, InactiveVersionsAreDurable, Loaded
  <2> QED
    BY <1>7, <2>1, <2>2 DEF FinishAcquire
<1> QED
  BY <1>4, <1>5, <1>6, <1>7 DEF Open

LEMMA DurableInit == Init => DurableInv
<1>1. Init => SaveFreezesGraph /\ InactiveVersionsAreDurable
  BY DEF Init, SaveFreezesGraph, InactiveVersionsAreDurable, Loaded, NoSave
<1> QED
  BY <1>1, InitialTypes DEF DurableInv

LEMMA DurableStep == DurableInv /\ [Next]_vars => DurableInv'
<1> SUFFICES ASSUME DurableInv, [Next]_vars PROVE DurableInv'
  OBVIOUS
<1> USE DEF DurableInv
<1>1. TypeOK'
  BY StepTypes
<1>2. CASE Command \/ CommandStep \/ Worker \/ Completion \/ AfterFailure
  BY <1>1, <1>2, CommandsKeepDurable, SaveKeepsDurable, NavigationKeepsDurable
  DEF Command, CommandStep, Completion, AfterFailure
<1>3. CASE Open
  BY <1>1, <1>3, OpenKeepsDurable
<1>4. CASE Crash
  BY <1>1, <1>4 DEF Crash, ForgetMemory, SaveFreezesGraph,
                    InactiveVersionsAreDurable, Loaded, NoSave
<1>5. CASE CollectUnreachableEditCommits
  BY <1>1, <1>5
  DEF CollectUnreachableEditCommits, memory, SaveFreezesGraph,
      InactiveVersionsAreDurable, Loaded
<1>6. CASE UNCHANGED vars
  BY <1>1, <1>6
  DEF vars, memory, SaveFreezesGraph, InactiveVersionsAreDurable, Loaded
<1> QED
  BY <1>2, <1>3, <1>4, <1>5, <1>6 DEF Next

\* Only the active Version of an open image has work that is not in the
\* database, for every number of Versions and commits and every failure on the
\* way.  The strengthening says that a save under way has the graph frozen.
THEOREM InactiveDurable == Spec => []InactiveVersionsAreDurable
<1>1. DurableInv => InactiveVersionsAreDurable
  BY DEF DurableInv
<1> QED
  BY <1>1, DurableInit, DurableStep, PTL DEF Spec

----------------------------------------------------------------------------
\* Sequences of records.

\* A record of a journal has its fields.
LEMMA RecordAt ==
    ASSUME NEW recs \in Seq(Records), NEW i \in 1..Len(recs)
    PROVE  /\ recs[i] \in Records
           /\ recs[i].seq \in Nat \ {0} /\ recs[i].kind \in RecordKinds
           /\ recs[i].source \in Heads /\ recs[i].target \in Heads
<1>1. recs[i] \in Records
  BY ElementOfSeq
<1> QED
  BY <1>1 DEF Records

\* The first records of a journal.
LEMMA PrefixAt ==
    ASSUME NEW recs \in Seq(Records), NEW n \in 0..Len(recs)
    PROVE  /\ SubSeq(recs, 1, n) \in Seq(Records) /\ Len(SubSeq(recs, 1, n)) = n
           /\ \A i \in 1..n : SubSeq(recs, 1, n)[i] = recs[i]
<1>1. Len(recs) \in Nat
  BY LenProperties
<1>2. \A i \in 1..n : recs[i] \in Records
  BY <1>1, RecordAt
<1> QED
  BY <1>1, <1>2, SubSeqProperties

\* The last records of a journal.
LEMMA SuffixAt ==
    ASSUME NEW recs \in Seq(Records), NEW d \in 0..Len(recs)
    PROVE  /\ SubSeq(recs, d + 1, Len(recs)) \in Seq(Records)
           /\ Len(SubSeq(recs, d + 1, Len(recs))) = Len(recs) - d
           /\ \A k \in 1..(Len(recs) - d) : SubSeq(recs, d + 1, Len(recs))[k] = recs[d + k]
<1>1. Len(recs) \in Nat
  BY LenProperties
<1>2. \A i \in (d + 1)..Len(recs) : recs[i] \in Records
  BY <1>1, RecordAt
<1> QED
  BY <1>1, <1>2, SubSeqProperties

\* The commits some of a journal's records carry are among its commits.
LEMMA EditTargetsOfPart ==
    ASSUME NEW recs, NEW part,
           \A k \in 1..Len(part) : \E j \in 1..Len(recs) : part[k] = recs[j]
    PROVE  EditTargets(part) \subseteq EditTargets(recs)
<1> SUFFICES ASSUME NEW t \in EditTargets(part) PROVE t \in EditTargets(recs)
  OBVIOUS
<1>1. PICK k \in 1..Len(part) : part[k].kind = "EditCommit" /\ t = part[k].target
  BY DEF EditTargets
<1>2. PICK j \in 1..Len(recs) : part[k] = recs[j]
  OBVIOUS
<1> QED
  BY <1>1, <1>2 DEF EditTargets

LEMMA EditTargetsOfPrefix ==
    ASSUME NEW recs \in Seq(Records), NEW n \in 0..Len(recs)
    PROVE  EditTargets(SubSeq(recs, 1, n)) \subseteq EditTargets(recs)
<1> DEFINE part == SubSeq(recs, 1, n)
<1>1. \A k \in 1..Len(part) : k \in 1..Len(recs) /\ part[k] = recs[k]
  BY PrefixAt, LenProperties
<1> HIDE DEF part
<1>2. EditTargets(part) \subseteq EditTargets(recs)
  BY <1>1, EditTargetsOfPart
<1> QED
  BY <1>2 DEF part

----------------------------------------------------------------------------
\* Sequence numbers.

\* A save under way took the whole journal, which does not grow meanwhile.
SaveTakesJournal ==
    save.stage # "None" =>
        save.last = IF journal = << >> THEN 0 ELSE Last(journal).seq

SequenceInv == DurableInv /\ SequencesIncrease /\ SaveTakesJournal

\* Records n on have numbers below bound.
Below(recs, bound) == recs # << >> => Last(recs).seq < bound

\* A record with a higher number may be appended
\* (mini_git_working_history.cpp:192-226).
LEMMA AppendIncreases ==
    ASSUME NEW recs \in Seq(Records), NEW record \in Records,
           Increasing(recs), Below(recs, record.seq)
    PROVE  /\ Increasing(Append(recs, record))
           /\ Below(Append(recs, record), record.seq + 1)
<1> DEFINE more == Append(recs, record)
<1>1. /\ more \in Seq(Records) /\ Len(more) = Len(recs) + 1 /\ Len(recs) \in Nat
      /\ \A i \in 1..Len(recs) : more[i] = recs[i]
      /\ more[Len(recs) + 1] = record
  BY AppendProperties, LenProperties
<1> HIDE DEF more
<1>2. record.seq \in Nat
  BY DEF Records
<1>3. ASSUME NEW i \in 2..Len(more) PROVE more[i - 1].seq < more[i].seq
  <2>1. CASE i \in 2..Len(recs)
    BY <1>1, <2>1, SMTT(60) DEF Increasing
  <2>2. CASE i = Len(recs) + 1
    BY <1>1, <2>2, EmptySeq DEF Below, Last
  <2> QED
    BY <1>1, <2>1, <2>2
<1> QED
  BY <1>1, <1>2, <1>3 DEF more, Increasing, Below, Last

\* The first records of a journal (mini_git_working_history.cpp:243-284).
LEMMA PrefixIncreases ==
    ASSUME NEW recs \in Seq(Records), Increasing(recs), NEW n \in 0..Len(recs),
           NEW bound \in Nat, Below(recs, bound)
    PROVE  /\ Increasing(SubSeq(recs, 1, n))
           /\ Below(SubSeq(recs, 1, n), bound)
<1> DEFINE part == SubSeq(recs, 1, n)
<1>1. /\ part \in Seq(Records) /\ Len(part) = n /\ Len(recs) \in Nat
      /\ \A i \in 1..n : part[i] = recs[i]
  BY PrefixAt, LenProperties
<1> HIDE DEF part
<1>2. Increasing(part)
  BY <1>1, SMTT(60) DEF Increasing
<1>3. ASSUME part # << >> PROVE Last(part).seq < bound
  <2> DEFINE Back == {k \in Nat : k < Len(recs) => recs[Len(recs) - k].seq < bound}
  <2>1. n # 0 /\ Last(part) = recs[n]
    BY <1>1, <1>3, EmptySeq DEF Last
  <2>2. \A i \in 1..Len(recs) : recs[i].seq \in Nat
    BY RecordAt
  <2>3. 0 \in Back
    BY <1>1, <2>1, EmptySeq DEF Below, Last
  <2>4. ASSUME NEW k \in Nat, k \in Back PROVE k + 1 \in Back
    <3>1. CASE k + 1 < Len(recs)
      <4>1. recs[Len(recs) - k].seq < bound
        BY <2>4, <3>1, <1>1
      <4>2. /\ Len(recs) - k \in 2..Len(recs) /\ (Len(recs) - k) - 1 = Len(recs) - (k + 1)
            /\ Len(recs) - (k + 1) \in 1..Len(recs)
        BY <3>1, <1>1
      <4>3. recs[Len(recs) - (k + 1)].seq < recs[Len(recs) - k].seq
        BY <4>2 DEF Increasing
      <4> QED
        BY <2>2, <4>1, <4>2, <4>3, SMTT(60)
    <3> QED
      BY <3>1
  <2>5. Nat \subseteq Back
    <3> HIDE DEF Back
    <3> QED
      BY <2>3, <2>4, SetInduction
  <2>6. Len(recs) - n \in Back /\ Len(recs) - n < Len(recs)
    BY <1>1, <2>1, <2>5, SMTT(60)
  <2> QED
    BY <1>1, <2>1, <2>6
<1> QED
  BY <1>2, <1>3 DEF part, Below

\* A save takes every record there is, so none is kept after it
\* (mini_git_working_history.cpp:360-376).
LEMMA NothingKept ==
    ASSUME journal \in Seq(Records), Increasing(journal),
           NEW last, last = IF journal = << >> THEN 0 ELSE Last(journal).seq
    PROVE  KeepAfter(last) = << >>
<1> DEFINE dropped == {i \in 1..Len(journal) : journal[i].seq <= last}
<1>1. Len(journal) \in Nat
  BY LenProperties
<1>2. dropped = 1..Len(journal)
  <2>1. CASE journal = << >>
    BY <2>1, EmptySeq, <1>1
  <2>2. CASE journal # << >>
    <3>1. last \in Nat /\ last = Last(journal).seq
      <4>1. Len(journal) \in 1..Len(journal) /\ Last(journal) = journal[Len(journal)]
        BY <1>1, <2>2, EmptySeq DEF Last
      <4> QED
        BY <2>2, <4>1, RecordAt
    <3>2. ASSUME NEW i \in 1..Len(journal) PROVE journal[i].seq <= last
      <4>1. Below(journal, last + 1)
        BY <3>1 DEF Below
      <4>2. Below(SubSeq(journal, 1, i), last + 1)
        BY <1>1, <3>1, <4>1, PrefixIncreases
      <4>3. /\ SubSeq(journal, 1, i) # << >> /\ Last(SubSeq(journal, 1, i)) = journal[i]
        BY <1>1, PrefixAt, EmptySeq DEF Last
      <4>4. journal[i].seq \in Nat
        BY RecordAt
      <4> QED
        BY <3>1, <4>2, <4>3, <4>4 DEF Below
    <3> QED
      BY <3>2
  <2> QED
    BY <2>1, <2>2
<1>3. Cardinality(dropped) = Len(journal)
  <2> HIDE DEF dropped
  <2>1. ASSUME NEW n \in Nat PROVE Cardinality(1..n) = n
    <3>1. 1 \in Int /\ n \in Int
      OBVIOUS
    <3>2. Cardinality(1..n) = IF 1 > n THEN 0 ELSE n - 1 + 1
      BY <3>1, FS_Interval, Zenon
    <3> QED
      BY <3>2
  <2> QED
    BY <1>1, <1>2, <2>1
<1>4. SubSeq(journal, Len(journal) + 1, Len(journal)) = << >>
  BY <1>1, SubSeqEmpty
<1> QED
  BY <1>3, <1>4 DEF KeepAfter

\* Steps that neither append nor load: file and memory stay or are emptied.
LEMMA EmptyingKeepsOrder ==
    ASSUME SequencesIncrease,
           wal'.recs \in {wal.recs, << >>}, journal' \in {journal, << >>},
           Loaded' => Loaded /\ nextSeq' = nextSeq
    PROVE  SequencesIncrease'
<1>1. Increasing(<< >>)
  BY EmptySeq DEF Increasing
<1> QED
  BY <1>1 DEF SequencesIncrease

\* Every command that writes a record (mini_git_working_history.cpp:192-226).
LEMMA AppendKeepsOrder ==
    ASSUME SequenceInv, NEW kind \in RecordKinds, NEW target \in Heads, Loaded,
           AppendRecord(kind, target)
    PROVE  SequencesIncrease'
<1> DEFINE record == [seq |-> nextSeq, kind |-> kind,
                      source |-> WorkingHead, target |-> target]
<1> USE DEF SequenceInv, DurableInv, TypeOK, Wals
<1>1. record \in Records /\ record.seq = nextSeq
  BY GraphOperations DEF Records, WorkingHead
<1>2. /\ wal'.recs = Append(wal.recs, record) /\ journal' = Append(journal, record)
      /\ nextSeq' = nextSeq + 1
  BY DEF AppendRecord
<1> HIDE DEF record
<1>3. ASSUME NEW recs \in {wal.recs, journal}
      PROVE  Increasing(Append(recs, record)) /\ Below(Append(recs, record), nextSeq')
  <2>1. recs \in Seq(Records) /\ Increasing(recs) /\ Below(recs, record.seq)
    BY <1>1 DEF SequencesIncrease, Below
  <2> QED
    BY <1>1, <1>2, <2>1, AppendIncreases
<1> QED
  BY <1>2, <1>3 DEF SequencesIncrease, Below

\* A revoked record leaves a shorter journal, or the file as it was
\* (mini_git_working_history.cpp:243-284).
LEMMA RevokeLeavesPrefix ==
    ASSUME journal \in Seq(Records), RevokeLastRecord
    PROVE  /\ \E n \in 0..Len(journal) : journal' = SubSeq(journal, 1, n)
           /\ \/ wal'.recs = wal.recs
              \/ \E n \in 0..Len(journal) : wal'.recs = SubSeq(journal, 1, n)
<1>1. Len(journal) \in Nat /\ journal \in Seq(Records)
  BY LenProperties
<1>2. CASE journal = << >>
  <2>1. journal' = << >> /\ 0 \in 0..Len(journal) /\ SubSeq(journal, 1, 0) = << >>
    BY <1>2, SubSeqEmpty, EmptySeq DEF RevokeLastRecord, Front
  <2>2. ~\E n \in 0..(Len(journal') - 1) : TRUE
    BY <2>1, EmptySeq
  <2>3. wal'.recs \in {wal.recs, << >>}
    BY <2>1, <2>2 DEF RevokeLastRecord
  <2> QED
    BY <2>1, <2>3
<1>3. CASE journal # << >>
  <2> DEFINE n == Len(journal) - 1
  <2>1. n \in 0..Len(journal) /\ journal' = SubSeq(journal, 1, n)
    BY <1>1, <1>3, EmptySeq DEF RevokeLastRecord, Front
  <2>2. Len(journal') = n
    BY <1>1, <2>1, PrefixAt
  <2>3. ASSUME NEW k \in 0..(n - 1)
        PROVE  SubSeq(journal', 1, k) = SubSeq(journal, 1, k)
    <3>1. k \in 0..Len(journal') /\ k \in 0..Len(journal) /\ journal' \in Seq(Records)
      BY <1>1, <2>1, <2>2, PrefixAt
    <3>2. /\ SubSeq(journal', 1, k) \in Seq(Records) /\ SubSeq(journal, 1, k) \in Seq(Records)
          /\ Len(SubSeq(journal', 1, k)) = k /\ Len(SubSeq(journal, 1, k)) = k
          /\ \A i \in 1..k : SubSeq(journal', 1, k)[i] = SubSeq(journal, 1, k)[i]
      BY <1>1, <2>1, <3>1, PrefixAt
    <3> QED
      BY <3>2, SeqEqual
  <2> HIDE DEF n
  <2>4. \/ wal'.recs = journal' \/ wal'.recs = wal.recs
        \/ \E k \in 0..(n - 1) : wal'.recs = SubSeq(journal, 1, k)
    BY <2>2, <2>3 DEF RevokeLastRecord
  <2>5. \A k \in 0..(n - 1) : k \in 0..Len(journal)
    BY <1>1, <2>1
  <2> QED
    BY <2>1, <2>4, <2>5
<1> QED
  BY <1>2, <1>3

LEMMA RevokeKeepsOrder ==
    ASSUME SequenceInv, Loaded, RevokeLastRecord, UNCHANGED <<nextSeq, session>>
    PROVE  SequencesIncrease'
<1> USE DEF SequenceInv, DurableInv, TypeOK, Wals
<1>1. Len(journal) \in Nat /\ journal \in Seq(Records)
  BY LenProperties
<1>2. ASSUME NEW n \in 0..Len(journal)
      PROVE  Increasing(SubSeq(journal, 1, n)) /\ Below(SubSeq(journal, 1, n), nextSeq)
  BY <1>1, PrefixIncreases DEF SequencesIncrease, Below
<1> QED
  BY <1>1, <1>2, RevokeLeavesPrefix DEF SequencesIncrease, Below, Loaded

\* What is read from the file goes on with the number after its last
\* (mini_git_working_history.cpp:118-188).
LEMMA LoadKeepsOrder ==
    ASSUME SequenceInv, AcquireWorkingState
    PROVE  SequencesIncrease'
<1> USE DEF SequenceInv, DurableInv, TypeOK, Wals
<1>1. UNCHANGED wal /\ LoadJournal
  BY DEF AcquireWorkingState
<1>2. wal.recs # << >> => Last(wal.recs).seq \in Nat
  <2>1. wal.recs # << >> => /\ Len(wal.recs) \in 1..Len(wal.recs)
                            /\ Last(wal.recs) = wal.recs[Len(wal.recs)]
    BY LenProperties, EmptySeq DEF Last
  <2> QED
    BY <2>1, RecordAt
<1> QED
  BY <1>1, <1>2 DEF LoadJournal, SequencesIncrease

\* The target of every head move is a head.
LEMMA HeadMoveAppends ==
    ASSUME TypeOK, \/ Undo \/ Redo \/ MoveHeadToCommit \/ DiscardMove
    PROVE  \E target \in Heads : AppendRecord("HeadMove", target)
<1> USE DEF PublishPreparedHeadMove, MoveTo, MoveBackwardTo, MoveForwardTo
<1>1. ASSUME NEW d, UndoTo(d) PROVE \E target \in Heads : AppendRecord("HeadMove", target)
  <2>1. WorkingHead \in Heads /\ WorkingHead # NoCommit
    BY <1>1, GraphOperations DEF TypeOK, WorkingHead, UndoTo
  <2>2. parent[WorkingHead] \in Heads
    BY <2>1, GraphAssumption DEF TypeOK, Heads, Commits, NoCommit
  <2> QED
    BY <1>1, <2>2 DEF UndoTo
<1>2. CASE Redo
  <2>1. Last(redo) \in Commits
    BY <1>2, FrontAndLast DEF Redo, TypeOK
  <2> QED
    BY <1>2, <2>1, GraphAssumption DEF Redo, Commits, Heads
<1>3. CASE MoveHeadToCommit
  BY <1>3, GraphAssumption DEF MoveHeadToCommit, TypeOK, Graphs, Commits, Heads
<1>4. CASE DiscardMove
  BY <1>1, <1>4 DEF DiscardMove, TypeOK, Graphs
<1> QED
  BY <1>1, <1>2, <1>3, <1>4 DEF Undo

\* A completed save clears the journal in memory and on disk.
LEMMA DoneClears ==
    ASSUME SequenceInv, OnCheckpointDone
    PROVE  wal' = EmptyWal /\ journal' = << >> /\ save' = NoSave
<1>1. KeepAfter(save.last) = << >>
  BY NothingKept
  DEF SequenceInv, SequencesIncrease, SaveTakesJournal, DurableInv, TypeOK,
      OnCheckpointDone
<1> QED
  BY <1>1 DEF OnCheckpointDone, EmptyWal, ForgetMemory

\* The steps that keep file and memory as they are, or empty them.
LEMMA EmptyingSteps ==
    ASSUME SequenceInv,
           \/ Acknowledge \/ AppendFails \/ Discard \/ DiscardStops \/ DiscardFinish
           \/ RemoveVersion \/ SaveAndContinue \/ SaveCannotStart \/ CloseDiscarding
           \/ Worker \/ Completion \/ AfterFailure \/ FinishAcquire
           \/ RecoverRejects \/ RecoverAccepts \/ RecoverCannotClear \/ AcquireRejects
           \/ Crash \/ CollectUnreachableEditCommits \/ UNCHANGED vars
    PROVE  /\ wal'.recs \in {wal.recs, << >>} /\ journal' \in {journal, << >>}
           /\ Loaded' => Loaded /\ nextSeq' = nextSeq
<1> USE DEF SequenceInv, DurableInv, SaveFreezesGraph, EmptyWal, ForgetMemory, Loaded
<1>1. CASE Acknowledge \/ AppendFails \/ Discard \/ DiscardStops \/ DiscardFinish
  BY <1>1
  DEF Acknowledge, AppendFails, TearAppend, Discard, DiscardStops, DiscardFinish,
      TruncateMaterialized, TypeOK, Wals
<1>2. CASE RemoveVersion \/ SaveAndContinue \/ SaveCannotStart \/ CloseDiscarding
  BY <1>2
  DEF RemoveVersion, SaveAndContinue, StartSave, SaveCannotStart, CloseDiscarding,
      ReleaseDiscarding, Ready
<1>3. CASE Worker
  BY <1>3 DEF Worker, WriteDatabase, ClearEntireJournal, SaveFails, WorkerUnchanged
<1>4. CASE OnCheckpointFailed
  BY <1>4 DEF OnCheckpointFailed
<1>5. CASE OnCheckpointDone
  <2>1. Loaded
    BY <1>5 DEF OnCheckpointDone
  <2>2. session' = "NoImage" \/ nextSeq' = nextSeq
    BY <1>5 DEF OnCheckpointDone
  <2> QED
    BY <1>5, <2>1, <2>2, DoneClears
<1>6. CASE AfterFailure
  BY <1>6
  DEF AfterFailure, RetrySaveAfterFailure, StartSave, CancelPendingNavigation,
      DiscardAndContinueAfterFailure, ReleaseDiscarding
<1>7. CASE FinishAcquire \/ RecoverRejects \/ RecoverAccepts \/ RecoverCannotClear
           \/ AcquireRejects
  BY <1>7
  DEF FinishAcquire, TruncateMaterialized, RecoverRejects, RecoverAccepts,
      RecoverCannotClear, AcquireRejects, IsolateJournal, memory
<1>8. CASE Crash \/ CollectUnreachableEditCommits \/ UNCHANGED vars
  BY <1>8 DEF Crash, CollectUnreachableEditCommits, vars, memory
<1> QED
  BY <1>1, <1>2, <1>3, <1>4, <1>5, <1>6, <1>7, <1>8 DEF Completion

\* The captured range stays the whole journal until the save is over.
LEMMA SaveTakesJournalStep ==
    ASSUME SequenceInv, [Next]_vars
    PROVE  SaveTakesJournal'
<1> USE DEF SequenceInv, DurableInv, SaveFreezesGraph, SaveTakesJournal, NoSave
<1>1. CASE Worker
  BY <1>1
  DEF Worker, WriteDatabase, ClearEntireJournal, SaveFails, WorkerUnchanged, TypeOK, Saves
<1>2. CASE OnCheckpointDone
  BY <1>2, DoneClears
<1>3. CASE OnCheckpointFailed
  BY <1>3 DEF OnCheckpointFailed
<1>4. CASE SaveAndContinue \/ RetrySaveAfterFailure \/ RemoveVersion
  BY <1>4
  DEF SaveAndContinue, RetrySaveAfterFailure, RemoveVersion, StartSave, Capture
<1>5. CASE \/ PublishPreparedEdit \/ CommandStep \/ Undo \/ Redo \/ MoveHeadToCommit
           \/ Discard \/ SaveCannotStart
  <2>1. save.stage = "None"
    <3>1. Ready \/ op.kind \in {"Edit", "HeadMove", "Discarding"}
      BY <1>5
      DEF PublishPreparedEdit, CommandStep, Acknowledge, Abandon, AppendFails, DiscardMove,
          DiscardStops, DiscardFinish, Undo, Redo, MoveHeadToCommit, Discard,
          SaveCannotStart
    <3>2. op.kind \in {"Edit", "HeadMove", "Discarding"} => op # NoOp
      BY DEF NoOp
    <3> QED
      BY <3>1, <3>2 DEF Ready
  <2>2. UNCHANGED save
    BY <1>5, HeadMoveSteps
    DEF PublishPreparedEdit, CommandStep, Acknowledge, Abandon, AppendFails,
        DiscardStops, DiscardFinish, Discard, SaveCannotStart
  <2> QED
    BY <2>1, <2>2
<1>6. CASE CloseDiscarding \/ CancelPendingNavigation \/ DiscardAndContinueAfterFailure
  BY <1>6
  DEF CloseDiscarding, CancelPendingNavigation, DiscardAndContinueAfterFailure,
      ReleaseDiscarding, ForgetMemory
<1>7. CASE Open
  <2>1. session # "Saving"
    BY <1>7
    DEF Open, FinishAcquire, RecoverRejects, RecoverAccepts, RecoverCannotClear,
        AcquireRejects, AcquireWorkingState
  <2>2. save' \in {save, NoSave}
    BY <1>7
    DEF Open, FinishAcquire, RecoverRejects, RecoverAccepts, RecoverCannotClear,
        AcquireRejects, AcquireWorkingState, IsolateJournal, memory, ForgetMemory
  <2> QED
    BY <2>1, <2>2
<1>8. CASE Crash \/ CollectUnreachableEditCommits \/ UNCHANGED vars
  BY <1>8 DEF Crash, CollectUnreachableEditCommits, vars, memory, ForgetMemory
<1> QED
  BY <1>1, <1>2, <1>3, <1>4, <1>5, <1>6, <1>7, <1>8
  DEF Next, Command, CommandStep, Completion, AfterFailure

LEMMA SequenceStep == SequenceInv /\ [Next]_vars => SequenceInv'
<1> SUFFICES ASSUME SequenceInv, [Next]_vars PROVE SequenceInv'
  OBVIOUS
<1> USE DEF SequenceInv
<1>1. DurableInv' /\ SaveTakesJournal'
  BY DurableStep, SaveTakesJournalStep
<1>2. TypeOK
  BY DEF DurableInv
<1>3. CASE Undo \/ Redo \/ MoveHeadToCommit \/ DiscardMove
  <2>1. Loaded
    <3>1. op = NoOp \/ op.kind = "Discarding"
      BY <1>2, <1>3, HeadMoveSteps
    <3>2. op.kind = "Discarding" => op # NoOp
      BY DEF NoOp
    <3> QED
      BY <1>3, <3>1, <3>2
      DEF Undo, Redo, MoveHeadToCommit, DiscardMove, Ready, Loaded, DurableInv,
          SaveFreezesGraph
  <2> QED
    BY <1>1, <1>2, <1>3, <2>1, HeadMoveAppends, AppendKeepsOrder DEF RecordKinds
<1>4. CASE PublishPreparedEdit
  <2>1. created + 1 \in Heads /\ Loaded /\ AppendRecord("EditCommit", created + 1)
    BY <1>2, <1>4, GraphAssumption
    DEF PublishPreparedEdit, TypeOK, Heads, Ready, Loaded
  <2> QED
    BY <1>1, <2>1, AppendKeepsOrder DEF RecordKinds
<1>5. CASE Abandon
  <2>1. Loaded /\ RevokeLastRecord /\ UNCHANGED <<nextSeq, session>>
    <3>1. op # NoOp
      BY <1>5 DEF Abandon, NoOp
    <3> QED
      BY <1>5, <3>1 DEF Abandon, Loaded, DurableInv, SaveFreezesGraph
  <2> QED
    BY <1>1, <2>1, RevokeKeepsOrder
<1>6. CASE AcquireWorkingState
  BY <1>1, <1>6, LoadKeepsOrder
<1>7. CASE \/ Acknowledge \/ AppendFails \/ Discard \/ DiscardStops \/ DiscardFinish
           \/ RemoveVersion \/ SaveAndContinue \/ SaveCannotStart \/ CloseDiscarding
           \/ Worker \/ Completion \/ AfterFailure \/ FinishAcquire
           \/ RecoverRejects \/ RecoverAccepts \/ RecoverCannotClear \/ AcquireRejects
           \/ Crash \/ CollectUnreachableEditCommits \/ UNCHANGED vars
  BY <1>1, <1>7, EmptyingSteps, EmptyingKeepsOrder
<1> QED
  BY <1>3, <1>4, <1>5, <1>6, <1>7 DEF Next, Command, CommandStep, Open

LEMMA SequenceInit == Init => SequenceInv
<1> SUFFICES ASSUME Init PROVE SequenceInv
  OBVIOUS
<1>1. SaveTakesJournal
  BY DEF Init, SaveTakesJournal, NoSave
<1>2. SequencesIncrease
  BY EmptySeq DEF Init, SequencesIncrease, Increasing, EmptyWal, Loaded
<1> QED
  BY <1>1, <1>2, DurableInit DEF SequenceInv

\* Sequence numbers of file and memory only grow and are never handed out
\* twice, for every number of records, saves, discards, abandoned commands,
\* crashes and kinds of damage.  The strengthening says that a save takes the
\* whole journal.
THEOREM SequencesGrow == Spec => []SequencesIncrease
<1>1. SequenceInv => SequencesIncrease
  BY DEF SequenceInv
<1> QED
  BY <1>1, SequenceInit, SequenceStep, PTL DEF Spec

----------------------------------------------------------------------------
\* Graphs that lose no ancestor of a commit.

\* A graph holds its Versions' heads and every ancestor of a commit it holds.
Closed(par, g) == ClosedUnderParents(par, g, g.commits)

Active(g) == g.active \in g.refs

\* The reachable commits are the least closed set, and are closed themselves
\* (commit_graph.cpp:119-159).
LEMMA ReachableIsLeast ==
    ASSUME NEW par, NEW g \in Graphs, Closed(par, g)
    PROVE  /\ Reachable(par, g) \subseteq g.commits
           /\ ClosedUnderParents(par, g, Reachable(par, g))
<1> DEFINE R == Reachable(par, g)
<1>1. g.commits \in SUBSET Commits /\ ClosedUnderParents(par, g, g.commits)
  BY DEF Graphs, Closed
<1>2. R \subseteq g.commits
  BY <1>1 DEF Reachable
<1>3. ASSUME NEW x \in g.commits \cup {NoCommit},
             \A S \in SUBSET Commits : ClosedUnderParents(par, g, S) => x \in S \cup {NoCommit}
      PROVE  x \in R \cup {NoCommit}
  BY <1>1, <1>3 DEF Reachable
<1>4. ASSUME NEW v \in g.refs PROVE g.head[v] \in R \cup {NoCommit}
  <2>1. g.head[v] \in g.commits \cup {NoCommit}
    BY <1>1 DEF ClosedUnderParents
  <2>2. \A S \in SUBSET Commits :
           ClosedUnderParents(par, g, S) => g.head[v] \in S \cup {NoCommit}
    BY DEF ClosedUnderParents
  <2> QED
    BY <1>3, <2>1, <2>2
<1>5. ASSUME NEW c \in R PROVE par[c] \in R \cup {NoCommit}
  <2>1. par[c] \in g.commits \cup {NoCommit}
    BY <1>1, <1>2 DEF ClosedUnderParents
  <2>2. ASSUME NEW S \in SUBSET Commits, ClosedUnderParents(par, g, S)
        PROVE  par[c] \in S \cup {NoCommit}
    <3>1. c \in S
      BY <2>2 DEF Reachable
    <3> QED
      BY <2>2, <3>1 DEF ClosedUnderParents
  <2> QED
    BY <1>3, <2>1, <2>2
<1> QED
  BY <1>2, <1>4, <1>5 DEF ClosedUnderParents

\* Moving and copying heads within a closed graph (commit_graph.cpp:217-300).
LEMMA HeadsStayClosed ==
    ASSUME NEW par, NEW g \in Graphs, Closed(par, g)
    PROVE  /\ Active(g) => ActiveHead(g) \in g.commits \cup {NoCommit}
           /\ Closed(par, MaterializeActiveHead(g))
           /\ \A h \in g.commits \cup {NoCommit} : Closed(par, MoveWorkingHead(g, h))
           /\ \A v \in Versions :
                 /\ Closed(par, RemoveVersionRef(g, v))
                 /\ Closed(par, SetActiveVersionId(g, v))
                 /\ \A h \in g.commits \cup {NoCommit} :
                       Closed(par, CreateVersionRefAtHead(g, v, h))
<1> USE DEF Closed, ClosedUnderParents, Graphs
<1>1. Active(g) => ActiveHead(g) \in g.commits \cup {NoCommit}
  BY DEF Active, ActiveHead
<1>2. Closed(par, MaterializeActiveHead(g))
  BY DEF MaterializeActiveHead
<1>3. ASSUME NEW h \in g.commits \cup {NoCommit} PROVE Closed(par, MoveWorkingHead(g, h))
  BY DEF MoveWorkingHead
<1>4. ASSUME NEW v \in Versions PROVE Closed(par, RemoveVersionRef(g, v))
  BY DEF RemoveVersionRef
<1>5. ASSUME NEW v \in Versions PROVE Closed(par, SetActiveVersionId(g, v))
  BY DEF SetActiveVersionId
<1>6. ASSUME NEW v \in Versions, NEW h \in g.commits \cup {NoCommit}
      PROVE  Closed(par, CreateVersionRefAtHead(g, v, h))
  BY DEF CreateVersionRefAtHead
<1> HIDE DEF Closed, Graphs
<1> QED
  BY <1>1, <1>2, <1>3, <1>4, <1>5, <1>6

\* Writing one graph over another, and collecting, keep stored rows closed.
LEMMA StoreStaysClosed ==
    ASSUME NEW par, NEW d \in Graphs, Closed(par, d)
    PROVE  /\ Closed(par, DeleteUnreachableCommits(par, d))
           /\ \A m \in Graphs :
                 Closed(par, m) => Closed(par, StoreMaterialization(d, m))
<1>1. Closed(par, DeleteUnreachableCommits(par, d))
  <2>1. d.commits \cap Reachable(par, d) = Reachable(par, d)
    BY ReachableIsLeast
  <2>2. DeleteUnreachableCommits(par, d) = [d EXCEPT !.commits = Reachable(par, d)]
    BY <2>1 DEF DeleteUnreachableCommits, Graphs
  <2>3. ClosedUnderParents(par, d, Reachable(par, d))
    BY ReachableIsLeast
  <2> DEFINE R == Reachable(par, d)
  <2> HIDE DEF R
  <2>4. ClosedUnderParents(par, [d EXCEPT !.commits = R], R)
    BY <2>3 DEF R, ClosedUnderParents, Graphs
  <2> QED
    BY <2>2, <2>4 DEF R, Closed, Graphs
<1>2. ASSUME NEW m \in Graphs, Closed(par, m)
      PROVE  Closed(par, StoreMaterialization(d, m))
  BY <1>2 DEF Closed, ClosedUnderParents, StoreMaterialization, Graphs
<1> QED
  BY <1>1, <1>2

\* A commit inserted on the working head (mini_git_working_history.cpp:475-546).
LEMMA InsertStaysClosed ==
    ASSUME NEW par \in [Commits -> Heads], NEW g \in Graphs, Closed(par, g), Active(g),
           NEW c \in Commits \ g.commits
    PROVE  Closed([par EXCEPT ![c] = ActiveHead(g)], MoveWorkingHead(InsertCommit(g, c), c))
<1> DEFINE more == MoveWorkingHead(InsertCommit(g, c), c)
<1>1. ActiveHead(g) \in g.commits \cup {NoCommit}
  BY HeadsStayClosed
<1>2. /\ more.commits = g.commits \cup {c} /\ more.refs = g.refs
      /\ \A v \in Versions : more.head[v] \in {g.head[v], c}
  BY DEF MoveWorkingHead, InsertCommit, Graphs
<1>3. g.commits \subseteq Commits /\ g.refs \subseteq Versions
  BY DEF Graphs
<1> HIDE DEF more
<1>4. ClosedUnderParents([par EXCEPT ![c] = ActiveHead(g)], more, more.commits)
  BY <1>1, <1>2, <1>3 DEF Closed, ClosedUnderParents
<1> QED
  BY <1>4 DEF more, Closed

\* A newest commit that was abandoned leaves no gap
\* (mini_git_working_history.cpp:548-621).
LEMMA EraseStaysClosed ==
    ASSUME NEW par, NEW g \in Graphs, Closed(par, g), NEW c,
           \A x \in g.commits : par[x] # c
    PROVE  Closed(par, EraseUnreachable(par, g, {c}))
<1> DEFINE less == EraseUnreachable(par, g, {c})
<1>1. less.refs = g.refs /\ less.head = g.head
      /\ less.commits = g.commits \ ({c} \ Reachable(par, g))
  BY DEF EraseUnreachable, Graphs
<1>2. \A v \in g.refs : g.head[v] \in Reachable(par, g) \cup {NoCommit}
  BY ReachableIsLeast DEF ClosedUnderParents
<1> HIDE DEF less
<1>3. ClosedUnderParents(par, less, less.commits)
  BY <1>1, <1>2 DEF Closed, ClosedUnderParents
<1> QED
  BY <1>3 DEF less, Closed

\* Replaying an accepted journal loses no ancestor
\* (mini_git_working_history.cpp:118-188).
LEMMA ReplayStaysClosed ==
    ASSUME NEW par, NEW g \in Graphs, Closed(par, g), Active(g),
           NEW recs \in Seq(Records), Replayable(par, g, recs)
    PROVE  /\ Closed(par, Replay(g, recs)) /\ Active(Replay(g, recs))
           /\ Replay(g, recs).active = g.active
           /\ Replay(g, recs).commits = g.commits \cup EditTargets(recs)
           /\ \A i \in 1..Len(recs) :
                 recs[i].target \in Replay(g, recs).commits \cup {NoCommit}
           /\ ActiveHead(Replay(g, recs)) = IF recs = << >> THEN ActiveHead(g)
                                            ELSE recs[Len(recs)].target
<1>1. CASE recs = << >>
  <2>1. EditTargets(recs) = {} /\ Len(recs) = 0
    BY <1>1, EmptySeq DEF EditTargets
  <2> QED
    BY <1>1, <2>1 DEF Replay
<1>2. CASE recs # << >>
  <2> DEFINE r == Replay(g, recs)
             known == g.commits \cup EditTargets(recs)
  <2>1. Len(recs) \in Nat /\ Len(recs) \in 1..Len(recs)
    BY <1>2, LenProperties, EmptySeq
  <2>2. r = [g EXCEPT !.commits = known, !.head[g.active] = recs[Len(recs)].target]
    BY <1>2 DEF Replay, Graphs
  <2>3. /\ r.commits = known /\ r.refs = g.refs /\ r.active = g.active
        /\ ActiveHead(r) = recs[Len(recs)].target
        /\ \A v \in Versions : r.head[v] \in {g.head[v], recs[Len(recs)].target}
    BY <2>2 DEF Graphs, ActiveHead
  <2> HIDE DEF r
  <2>4. ASSUME NEW i \in 1..Len(recs) PROVE recs[i].target \in known \cup {NoCommit}
    <3>1. CASE recs[i].kind = "EditCommit"
      BY <3>1 DEF EditTargets
    <3>2. CASE recs[i].kind # "EditCommit"
      <4>1. recs[i].target \in {NoCommit} \cup g.commits
                                 \cup EditTargets(SubSeq(recs, 1, i - 1))
        BY <3>2 DEF Replayable
      <4>2. EditTargets(SubSeq(recs, 1, i - 1)) \subseteq EditTargets(recs)
        BY <2>1, i - 1 \in 0..Len(recs), EditTargetsOfPrefix
      <4> QED
        BY <4>1, <4>2
    <3> QED
      BY <3>1, <3>2
  <2>5. ASSUME NEW c \in EditTargets(recs) PROVE par[c] \in known \cup {NoCommit}
    <3>1. PICK i \in 1..Len(recs) : recs[i].kind = "EditCommit" /\ c = recs[i].target
      BY DEF EditTargets
    <3>2. par[c] = recs[i].source
      BY <3>1 DEF Replayable
    <3>3. CASE i = 1
      <4>1. recs[1].source = ActiveHead(g) /\ ActiveHead(g) \in g.commits \cup {NoCommit}
        BY <1>2, HeadsStayClosed DEF Replayable
      <4> QED
        BY <3>2, <3>3, <4>1
    <3>4. CASE i # 1
      <4>1. i \in 2..Len(recs) /\ i - 1 \in 1..Len(recs)
        BY <2>1, <3>4
      <4>2. recs[i].source = recs[i - 1].target
        BY <4>1 DEF Replayable, Linked
      <4> QED
        BY <2>4, <3>2, <4>1, <4>2
    <3> QED
      BY <3>3, <3>4
  <2>6. ClosedUnderParents(par, r, known)
    <3>1. g.refs \subseteq Versions
      BY DEF Graphs
    <3> QED
      BY <2>1, <2>3, <2>4, <2>5, <3>1 DEF Closed, ClosedUnderParents
  <2> QED
    BY <1>2, <2>3, <2>4, <2>6 DEF r, Closed, Active
<1> QED
  BY <1>1, <1>2

----------------------------------------------------------------------------
\* The redo suffix and the head.

\* The suffixes the commands build are paths again
\* (mini_git_working_history.cpp:623-738).
LEMMA PathOperations ==
    ASSUME NEW suffix \in Seq(Commits), NEW head \in Heads, IsPathFrom(head, suffix)
    PROVE  /\ head \in Commits => IsPathFrom(parent[head], Append(suffix, head))
           /\ suffix # << >> => IsPathFrom(Last(suffix), Front(suffix))
           /\ \A i \in 1..Len(suffix) : IsPathFrom(suffix[i], SubSeq(suffix, 1, i - 1))
           /\ \A target : \A path \in Seq(Commits) :
                 path # << >> /\ path[1] = head /\ IsPathFrom(target, path)
                    => IsPathFrom(target, suffix \o path)
<1>1. Len(suffix) \in Nat /\ \A i \in 1..Len(suffix) : suffix[i] \in Commits
  BY LenProperties, ElementOfSeq
<1>2. ASSUME head \in Commits PROVE IsPathFrom(parent[head], Append(suffix, head))
  <2> DEFINE more == Append(suffix, head)
  <2>1. /\ Len(more) = Len(suffix) + 1 /\ more[Len(suffix) + 1] = head
        /\ \A i \in 1..Len(suffix) : more[i] = suffix[i]
    BY <1>2, AppendProperties
  <2> HIDE DEF more
  <2>2. IsPathFrom(parent[head], more)
    BY <1>1, <2>1 DEF IsPathFrom
  <2> QED
    BY <2>2 DEF more
<1>3. ASSUME NEW i \in 1..Len(suffix) PROVE IsPathFrom(suffix[i], SubSeq(suffix, 1, i - 1))
  <2> DEFINE part == SubSeq(suffix, 1, i - 1)
  <2>1. Len(part) = i - 1 /\ \A j \in 1..(i - 1) : part[j] = suffix[j]
    BY <1>1, SubSeqProperties
  <2> HIDE DEF part
  <2>2. IsPathFrom(suffix[i], part)
    BY <1>1, <2>1 DEF IsPathFrom
  <2> QED
    BY <2>2 DEF part
<1>4. ASSUME suffix # << >> PROVE IsPathFrom(Last(suffix), Front(suffix))
  BY <1>1, <1>3, <1>4, EmptySeq, Len(suffix) \in 1..Len(suffix) DEF Last, Front
<1>5. ASSUME NEW target, NEW path \in Seq(Commits), path # << >>, path[1] = head,
             IsPathFrom(target, path)
      PROVE  IsPathFrom(target, suffix \o path)
  <2> DEFINE more == suffix \o path
  <2>1. Len(path) \in Nat /\ Len(path) # 0
    BY <1>5, LenProperties, EmptySeq
  <2>2. /\ Len(more) = Len(suffix) + Len(path)
        /\ \A i \in 1..Len(more) : more[i] = IF i <= Len(suffix) THEN suffix[i]
                                             ELSE path[i - Len(suffix)]
    BY ConcatProperties
  <2> HIDE DEF more
  <2>3. ASSUME NEW j \in 1..Len(more)
        PROVE  parent[more[j]] = IF j = Len(more) THEN target ELSE more[j + 1]
    <3>1. CASE j < Len(suffix)
      BY <1>1, <2>1, <2>2, <3>1 DEF IsPathFrom
    <3>2. CASE j = Len(suffix)
      BY <1>1, <1>5, <2>1, <2>2, <3>2 DEF IsPathFrom
    <3>3. CASE j > Len(suffix)
      <4> DEFINE k == j - Len(suffix)
      <4>1. /\ k \in 1..Len(path) /\ more[j] = path[k]
            /\ k = Len(path) <=> j = Len(more)
            /\ j # Len(more) => more[j + 1] = path[k + 1]
        BY <1>1, <2>1, <2>2, <3>3
      <4> HIDE DEF k
      <4>2. parent[path[k]] = IF k = Len(path) THEN target ELSE path[k + 1]
        BY <1>5, <4>1 DEF IsPathFrom
      <4> QED
        BY <4>1, <4>2
    <3> QED
      BY <1>1, <3>1, <3>2, <3>3
  <2>4. IsPathFrom(target, more)
    BY <2>3 DEF IsPathFrom
  <2> QED
    BY <2>4 DEF more
<1> QED
  BY <1>2, <1>3, <1>4, <1>5

\* K holds the head, the redo suffix and every ancestor.
Carries(K) ==
    /\ K \subseteq Commits
    /\ \A c \in K : parent[c] \in K \cup {NoCommit}
    /\ WorkingHead \in K \cup {NoCommit}
    /\ \A i \in 1..Len(redo) : redo[i] \in K

\* What a head move leads to: a path again, in every set that carried the
\* head and the suffix before.
LeadsTo(target, selection) ==
    /\ target \in Heads /\ selection \in Seq(Commits)
    /\ IsPathFrom(target, selection)
    /\ \A K : Carries(K) => /\ target \in K \cup {NoCommit}
                            /\ \A i \in 1..Len(selection) : selection[i] \in K

LEMMA UndoLeads ==
    ASSUME TypeOK, IsPathFrom(WorkingHead, redo), WorkingHead # NoCommit
    PROVE  LeadsTo(parent[WorkingHead], Append(redo, WorkingHead))
<1>1. WorkingHead \in Heads /\ redo \in Seq(Commits)
  BY GraphOperations DEF TypeOK, WorkingHead
<1>2. WorkingHead \in Commits
  BY <1>1, GraphAssumption DEF Heads, Commits, NoCommit
<1>3. parent[WorkingHead] \in Heads
  BY <1>2 DEF TypeOK
<1> DEFINE more == Append(redo, WorkingHead)
<1>4. /\ more \in Seq(Commits) /\ Len(more) = Len(redo) + 1 /\ more[Len(redo) + 1] = WorkingHead
      /\ \A i \in 1..Len(redo) : more[i] = redo[i]
  BY <1>1, <1>2, AppendProperties
<1>5. IsPathFrom(parent[WorkingHead], more)
  BY <1>1, <1>2, PathOperations
<1> HIDE DEF more
<1>6. ASSUME NEW K, Carries(K)
      PROVE  /\ parent[WorkingHead] \in K \cup {NoCommit}
             /\ \A i \in 1..Len(more) : more[i] \in K
  BY <1>1, <1>4, <1>6, LenProperties DEF Carries
<1> QED
  BY <1>3, <1>4, <1>5, <1>6 DEF more, LeadsTo

LEMMA ForwardLeads ==
    ASSUME TypeOK, IsPathFrom(WorkingHead, redo), NEW i \in 1..Len(redo)
    PROVE  LeadsTo(redo[i], SubSeq(redo, 1, i - 1))
<1>1. WorkingHead \in Heads /\ redo \in Seq(Commits) /\ Len(redo) \in Nat
  BY GraphOperations, LenProperties DEF TypeOK, WorkingHead
<1>2. redo[i] \in Commits /\ redo[i] \in Heads
  BY <1>1, ElementOfSeq, GraphAssumption DEF Commits, Heads
<1> DEFINE part == SubSeq(redo, 1, i - 1)
<1>3. /\ part \in Seq(Commits) /\ Len(part) = i - 1
      /\ \A j \in 1..(i - 1) : part[j] = redo[j]
  <2>1. \A j \in 1..(i - 1) : redo[j] \in Commits
    BY <1>1, ElementOfSeq
  <2> QED
    BY <1>1, <2>1, SubSeqProperties
<1>4. IsPathFrom(redo[i], part)
  BY <1>1, PathOperations
<1> HIDE DEF part
<1>5. ASSUME NEW K, Carries(K)
      PROVE  redo[i] \in K \cup {NoCommit} /\ \A j \in 1..Len(part) : part[j] \in K
  BY <1>1, <1>3, <1>5 DEF Carries
<1> QED
  BY <1>2, <1>3, <1>4, <1>5 DEF part, LeadsTo

LEMMA BackLeads ==
    ASSUME TypeOK, IsPathFrom(WorkingHead, redo), NEW target \in Heads,
           NEW path \in PathsBackTo(target)
    PROVE  LeadsTo(target, redo \o path)
<1>1. WorkingHead \in Heads /\ redo \in Seq(Commits) /\ Len(redo) \in Nat
  BY GraphOperations, LenProperties DEF TypeOK, WorkingHead
<1>2. PICK n \in 1..MaxCommits : path \in [1..n -> graph.commits]
  BY DEF PathsBackTo
<1>3. path[1] = WorkingHead /\ IsPathFrom(target, path)
  BY DEF PathsBackTo
<1>4. n \in Nat /\ graph.commits \subseteq Commits
  BY GraphAssumption DEF TypeOK, Graphs
<1>5. path \in Seq(Commits) /\ Len(path) = n /\ path # << >>
  <2>1. path \in [1..n -> Commits]
    BY <1>2, <1>4
  <2>2. path \in Seq(Commits)
    BY <1>4, <2>1, SeqDef
  <2>3. Len(path) = n
    BY <1>4, <2>1, <2>2, LenProperties
  <2> QED
    BY <1>4, <2>2, <2>3, EmptySeq
<1> DEFINE more == redo \o path
<1>6. /\ more \in Seq(Commits) /\ Len(more) = Len(redo) + n
      /\ \A i \in 1..Len(more) : more[i] = IF i <= Len(redo) THEN redo[i]
                                           ELSE path[i - Len(redo)]
  BY <1>1, <1>5, ConcatProperties
<1>7. IsPathFrom(target, more)
  BY <1>1, <1>3, <1>5, PathOperations
<1> HIDE DEF more
<1>8. ASSUME NEW K, Carries(K)
      PROVE  target \in K \cup {NoCommit} /\ \A i \in 1..Len(more) : more[i] \in K
  <2> DEFINE In == {j \in Nat : j + 1 \in 1..n => path[j + 1] \in K}
  <2>1. \A j \in 1..n : path[j] \in Commits /\ path[j] # NoCommit
    BY <1>2, <1>4, GraphAssumption DEF Commits, NoCommit
  <2>2. 0 \in In
    BY <1>3, <1>4, <1>8, <2>1 DEF Carries
  <2>3. ASSUME NEW j \in Nat, j \in In PROVE j + 1 \in In
    <3>1. CASE j + 2 \in 1..n
      <4>1. j + 1 \in 1..n /\ path[j + 1] \in K /\ parent[path[j + 1]] = path[j + 2]
        BY <1>3, <1>4, <1>5, <2>3, <3>1 DEF IsPathFrom
      <4>2. path[j + 2] \in K
        BY <1>8, <2>1, <3>1, <4>1 DEF Carries
      <4> QED
        BY <4>2
    <3> QED
      BY <3>1
  <2>4. Nat \subseteq In
    <3> HIDE DEF In
    <3> QED
      BY <2>2, <2>3, SetInduction
  <2>5. ASSUME NEW j \in 1..n PROVE path[j] \in K
    <3>1. j - 1 \in In /\ (j - 1) + 1 = j
      BY <1>4, <2>4
    <3> QED
      BY <3>1
  <2>6. target \in K \cup {NoCommit}
    <3>1. parent[path[n]] = target
      BY <1>3, <1>4, <1>5 DEF IsPathFrom
    <3> QED
      BY <1>4, <1>8, <2>5, <3>1 DEF Carries
  <2>7. ASSUME NEW i \in 1..Len(more) PROVE more[i] \in K
    <3>1. CASE i <= Len(redo)
      BY <1>1, <1>6, <1>8, <3>1 DEF Carries
    <3>2. CASE ~(i <= Len(redo))
      BY <1>1, <1>4, <1>6, <2>5, <3>2, i - Len(redo) \in 1..n
    <3> QED
      BY <3>1, <3>2
  <2> QED
    BY <2>6, <2>7
<1> QED
  BY <1>6, <1>7, <1>8 DEF more, LeadsTo

\* The four ways to move the head (mini_git_working_history.cpp:623-780).
LEMMA HeadMoveLeads ==
    ASSUME TypeOK, IsPathFrom(WorkingHead, redo),
           \/ Undo \/ Redo \/ MoveHeadToCommit \/ DiscardMove
    PROVE  \E target, selection, discard :
              /\ PublishPreparedHeadMove(target, selection, discard)
              /\ LeadsTo(target, selection)
<1>1. ASSUME NEW d, UndoTo(d)
      PROVE  \E t, s, e : PublishPreparedHeadMove(t, s, e) /\ LeadsTo(t, s)
  BY <1>1, UndoLeads DEF UndoTo
<1>2. ASSUME NEW c \in Heads, NEW d, MoveTo(c, d)
      PROVE  \E t, s, e : PublishPreparedHeadMove(t, s, e) /\ LeadsTo(t, s)
  <2>1. CASE MoveBackwardTo(c, d)
    BY <2>1, BackLeads DEF MoveBackwardTo
  <2>2. CASE MoveForwardTo(c, d)
    BY <2>2, ForwardLeads DEF MoveForwardTo
  <2> QED
    BY <1>2, <2>1, <2>2 DEF MoveTo
<1>3. CASE Undo
  BY <1>1, <1>3 DEF Undo
<1>4. CASE Redo
  <2>1. redo \in Seq(Commits) /\ redo # << >> /\ Len(redo) \in 1..Len(redo)
    BY <1>4, LenProperties, EmptySeq DEF Redo, TypeOK
  <2>2. LeadsTo(redo[Len(redo)], SubSeq(redo, 1, Len(redo) - 1))
    BY <2>1, ForwardLeads
  <2> QED
    BY <1>4, <2>2 DEF Redo, Last, Front
<1>5. CASE MoveHeadToCommit
  <2>1. graph.commits \subseteq Heads
    BY GraphAssumption DEF TypeOK, Graphs, Commits, Heads
  <2> QED
    BY <1>2, <1>5, <2>1 DEF MoveHeadToCommit
<1>6. CASE DiscardMove
  <2>1. graph.mat \in Heads
    BY DEF TypeOK, Graphs
  <2> QED
    BY <1>1, <1>2, <1>6, <2>1 DEF DiscardMove
<1> QED
  BY <1>3, <1>4, <1>5, <1>6

----------------------------------------------------------------------------
\* Stored and working graph are closed, and redo continues the head.

StoredClosed ==
    Active(db) /\ db.mat = ActiveHead(db) /\ Closed(parent, db)

MemoryClosed ==
    /\ Active(graph) /\ Closed(parent, graph)
    /\ Loaded => db.active = graph.active
    /\ ~Loaded => graph = EmptyGraph /\ redo = << >>

\* What a save or a recovery will continue to is there.
Exists(next) == IF next.kind = "Checkout" THEN next.version \in graph.refs
                ELSE next.at \in graph.commits \cup {NoCommit}

TargetsExist ==
    /\ save.stage # "None" => Exists(save.next)
    /\ recovery # NoTarget => Exists(recovery) /\ session = "RetainedImageFailure"

TargetsUpTo(recs, n) == \A i \in 1..Len(recs) : recs[i].target <= n

\* Commits are made in order, each after its parent.
Numbered ==
    /\ \A c \in 1..created : parent[c] < c
    /\ graph.commits \subseteq 1..created /\ db.commits \subseteq 1..created
    /\ TargetsUpTo(wal.recs, created) /\ TargetsUpTo(journal, created)
    /\ op.kind = "Edit" => /\ WorkingHead = created /\ op.source < created
                           /\ \A i \in 1..Len(op.redo) : op.redo[i] < created

\* What a command may still go back to is there.
PendingFits ==
    op.kind \in {"Edit", "HeadMove"} =>
        /\ op.source \in graph.commits \cup {NoCommit}
        /\ IsPathFrom(op.source, op.redo)
        /\ \A i \in 1..Len(op.redo) : op.redo[i] \in graph.commits

GraphsFit == /\ StoredClosed /\ MemoryClosed /\ TargetsExist /\ Numbered
             /\ RedoContinuesHead /\ PendingFits

GraphInv == SequenceInv /\ GraphsFit

LEMMA EmptyClosed ==
    /\ Active(EmptyGraph) /\ ActiveHead(EmptyGraph) = NoCommit
    /\ \A par : Closed(par, EmptyGraph)
<1>1. /\ EmptyGraph.active = FirstVersion /\ EmptyGraph.refs = {FirstVersion}
      /\ EmptyGraph.commits = {} /\ EmptyGraph.head[FirstVersion] = NoCommit
  BY GraphAssumption DEF EmptyGraph
<1> QED
  BY <1>1 DEF Active, ActiveHead, Closed, ClosedUnderParents

\* The working state is released or lost.
LEMMA ForgettingKeepsGraphs ==
    ASSUME GraphInv, ForgetMemory, ~Loaded', UNCHANGED <<created, parent, db>>,
           wal'.recs \in {wal.recs, << >>}
    PROVE  GraphsFit'
<1>1. /\ graph' = EmptyGraph /\ redo' = << >> /\ journal' = << >>
      /\ op'.kind = "None" /\ recovery' = NoTarget /\ save'.stage = "None"
  BY DEF ForgetMemory, NoOp, NoSave
<1>2. TargetsUpTo(<< >>, created) /\ IsPathFrom(NoCommit, << >>)
  BY EmptySeq DEF TargetsUpTo, IsPathFrom
<1>3. StoredClosed' /\ MemoryClosed' /\ TargetsExist' /\ PendingFits'
  BY <1>1, EmptyClosed
  DEF GraphInv, GraphsFit, StoredClosed, MemoryClosed, TargetsExist, PendingFits
<1>4. Numbered'
  <2>1. EmptyGraph.commits = {}
    BY DEF EmptyGraph
  <2> QED
    BY <1>1, <1>2, <2>1 DEF GraphInv, GraphsFit, Numbered, TargetsUpTo
<1>5. RedoContinuesHead'
  BY <1>1, EmptySeq DEF RedoContinuesHead, IsPathFrom
<1> QED
  BY <1>3, <1>4, <1>5 DEF GraphsFit

\* Steps that leave the rows and the commits alone, the materialized head of
\* the working graph apart.
LEMMA QuietKeepsGraphs ==
    ASSUME GraphInv, UNCHANGED <<created, parent, redo, db>>,
           graph' \in {graph, MaterializeActiveHead(graph)},
           op' = op \/ op'.kind \in {"None", "Discarding"},
           Loaded' <=> Loaded,
           wal'.recs \in {wal.recs, << >>}, journal' \in {journal, << >>}
    PROVE  StoredClosed' /\ MemoryClosed' /\ Numbered' /\ RedoContinuesHead' /\ PendingFits'
<1> USE DEF GraphInv, GraphsFit
<1>1. graph \in Graphs
  BY DEF SequenceInv, DurableInv, TypeOK
<1>2. /\ graph'.commits = graph.commits /\ graph'.active = graph.active
      /\ ActiveHead(graph') = ActiveHead(graph)
      /\ Active(graph') /\ Closed(parent, graph')
  <2>1. /\ Closed(parent, MaterializeActiveHead(graph))
        /\ MaterializeActiveHead(graph).commits = graph.commits
        /\ MaterializeActiveHead(graph).active = graph.active
        /\ MaterializeActiveHead(graph).refs = graph.refs
        /\ MaterializeActiveHead(graph).head = graph.head
    BY <1>1, HeadsStayClosed DEF MemoryClosed, MaterializeActiveHead, Graphs
  <2> QED
    BY <2>1 DEF MemoryClosed, Active, ActiveHead
<1>3. TargetsUpTo(<< >>, created)
  BY EmptySeq DEF TargetsUpTo
<1>4. StoredClosed'
  BY DEF StoredClosed
<1>5. MemoryClosed'
  <2>1. ~Loaded => graph' = EmptyGraph
    <3>1. MaterializeActiveHead(EmptyGraph) = EmptyGraph
      <4>1. EmptyGraph \in Graphs /\ EmptyGraph.mat = NoCommit
        BY ConstantTypes DEF EmptyGraph
      <4> QED
        BY <4>1, EmptyClosed DEF MaterializeActiveHead, Graphs
    <3> QED
      BY <3>1 DEF MemoryClosed
  <2> QED
    BY <1>2, <2>1 DEF MemoryClosed
<1>6. Numbered'
  BY <1>2, <1>3 DEF Numbered, TargetsUpTo, WorkingHead
<1>7. RedoContinuesHead'
  BY <1>2 DEF RedoContinuesHead, IsPathFrom, WorkingHead
<1>8. PendingFits'
  BY <1>2 DEF PendingFits, IsPathFrom
<1> QED
  BY <1>4, <1>5, <1>6, <1>7, <1>8

\* An edit puts its commit on the working head
\* (mini_git_working_history.cpp:475-546).
LEMMA EditKeepsGraphs ==
    ASSUME GraphInv, PublishPreparedEdit
    PROVE  GraphsFit'
<1> DEFINE c == created + 1
<1> USE DEF GraphInv, GraphsFit, SequenceInv, DurableInv
<1>1. /\ c \in Commits /\ created \in Nat /\ c \notin graph.commits /\ c \notin db.commits
      /\ graph \in Graphs /\ db \in Graphs /\ parent \in [Commits -> Heads]
      /\ redo \in Seq(Commits) /\ Loaded /\ save.stage = "None"
      /\ UNCHANGED <<recovery, save, session, db>>
  BY GraphAssumption
  DEF PublishPreparedEdit, TypeOK, Commits, Numbered, Ready, Loaded, SaveFreezesGraph
<1>2. /\ created' = c /\ parent' = [parent EXCEPT ![c] = WorkingHead] /\ redo' = << >>
      /\ graph' = MoveWorkingHead(InsertCommit(graph, c), c)
      /\ op'.kind = "Edit" /\ op'.source = WorkingHead /\ op'.redo = redo
  BY DEF PublishPreparedEdit
<1> HIDE DEF c
<1>3. WorkingHead \in graph.commits \cup {NoCommit}
  BY <1>1, HeadsStayClosed DEF MemoryClosed, WorkingHead
<1>4. WorkingHead <= created /\ WorkingHead \in Nat
  BY <1>1, <1>3, GraphAssumption DEF Numbered, NoCommit
<1>5. /\ graph'.commits = graph.commits \cup {c} /\ ActiveHead(graph') = c
      /\ graph'.active = graph.active /\ graph'.refs = graph.refs
  BY <1>1, <1>2 DEF MoveWorkingHead, InsertCommit, Graphs, ActiveHead
<1>6. \A x : x \in Commits /\ x # c => parent'[x] = parent[x]
  BY <1>1, <1>2
<1>7. StoredClosed'
  <2>1. db.commits \subseteq Commits
    BY <1>1 DEF Graphs
  <2>2. Closed(parent', db)
    BY <1>1, <1>6, <2>1 DEF StoredClosed, Closed, ClosedUnderParents
  <2> QED
    BY <1>1, <2>2 DEF StoredClosed
<1>8. MemoryClosed'
  <2>1. Closed(parent', graph')
    BY <1>1, <1>2, InsertStaysClosed DEF MemoryClosed, WorkingHead
  <2>2. Loaded'
    BY <1>1 DEF Loaded
  <2> QED
    BY <1>1, <1>5, <2>1, <2>2 DEF MemoryClosed, Active
<1>9. TargetsExist'
  BY <1>1, <1>5 DEF TargetsExist, Exists
<1>10. Numbered'
  <2> DEFINE record == [seq |-> nextSeq, kind |-> "EditCommit",
                        source |-> WorkingHead, target |-> c]
  <2>1. /\ wal'.recs = Append(wal.recs, record) /\ journal' = Append(journal, record)
    BY DEF PublishPreparedEdit, AppendRecord, TypeOK, Wals, c
  <2>2. wal.recs \in Seq(Records) /\ journal \in Seq(Records) /\ record \in Records
    BY <1>1, <1>3, GraphAssumption, GraphOperations
    DEF TypeOK, Wals, Records, RecordKinds, Heads, Commits, WorkingHead
  <2> HIDE DEF record
  <2>3. ASSUME NEW recs \in Seq(Records), TargetsUpTo(recs, created)
        PROVE  TargetsUpTo(Append(recs, record), c)
    <3>1. record.target = c /\ \A i \in 1..Len(recs) : recs[i].target \in Nat
      BY <1>1, RecordAt, GraphAssumption DEF record, Heads
    <3>2. /\ Len(Append(recs, record)) = Len(recs) + 1
          /\ \A i \in 1..Len(recs) : Append(recs, record)[i] = recs[i]
          /\ Append(recs, record)[Len(recs) + 1] = record
      BY <2>2, AppendProperties
    <3> QED
      BY <1>1, <2>3, <3>1, <3>2, LenProperties DEF TargetsUpTo, c
  <2>4. TargetsUpTo(wal'.recs, c) /\ TargetsUpTo(journal', c)
    BY <2>1, <2>2, <2>3 DEF Numbered
  <2>5. \A x \in 1..c : parent'[x] < x
    <3>1. \A x \in 1..c : x \in Commits
      BY <1>1, GraphAssumption DEF Commits
    <3> QED
      BY <1>1, <1>2, <1>4, <1>6, <3>1 DEF Numbered, c
  <2>6. graph'.commits \subseteq 1..c /\ db'.commits \subseteq 1..c
    BY <1>1, <1>5 DEF Numbered, c
  <2>7. \A i \in 1..Len(redo) : redo[i] < c
    BY <1>1 DEF Numbered, RedoContinuesHead, c
  <2> QED
    BY <1>1, <1>2, <1>4, <1>5, <2>4, <2>5, <2>6, <2>7 DEF Numbered, WorkingHead, c
<1>11. RedoContinuesHead'
  BY <1>2, EmptySeq DEF RedoContinuesHead, IsPathFrom
<1>12. PendingFits'
  <2>1. Len(redo) \in Nat /\ \A i \in 1..Len(redo) : redo[i] \in Commits /\ redo[i] # c
    BY <1>1, LenProperties, ElementOfSeq DEF RedoContinuesHead
  <2>2. IsPathFrom(op.source, op.redo)'
    BY <1>2, <1>6, <2>1 DEF IsPathFrom, RedoContinuesHead
  <2> QED
    BY <1>2, <1>3, <1>5, <2>2 DEF PendingFits, RedoContinuesHead
<1> QED
  BY <1>7, <1>8, <1>9, <1>10, <1>11, <1>12

\* A command of an open image that is not being saved.
LEMMA CommandOpen ==
    ASSUME DurableInv, Ready \/ op # NoOp
    PROVE  session = "Interactive" /\ Loaded /\ save.stage = "None"
  BY DEF DurableInv, SaveFreezesGraph, Ready, Loaded

\* The working graph carries the head and the redo suffix.
LEMMA GraphCarries == GraphInv => Carries(graph.commits)
<1> SUFFICES ASSUME GraphInv PROVE Carries(graph.commits)
  OBVIOUS
<1> USE DEF GraphInv, GraphsFit, SequenceInv, DurableInv
<1>1. graph \in Graphs
  BY DEF TypeOK
<1>2. WorkingHead \in graph.commits \cup {NoCommit}
  BY <1>1, HeadsStayClosed DEF MemoryClosed, WorkingHead
<1> QED
  BY <1>1, <1>2
  DEF Carries, MemoryClosed, Closed, ClosedUnderParents, RedoContinuesHead, Graphs

\* A head move, whichever command makes it (mini_git_working_history.cpp:740-780).
LEMMA HeadMoveKeepsGraphs ==
    ASSUME GraphInv, \/ Undo \/ Redo \/ MoveHeadToCommit \/ DiscardMove
    PROVE  GraphsFit'
<1> USE DEF GraphInv, GraphsFit, SequenceInv, DurableInv
<1>1. PICK target, selection, discard :
         PublishPreparedHeadMove(target, selection, discard) /\ LeadsTo(target, selection)
  BY HeadMoveLeads DEF RedoContinuesHead
<1>2. session = "Interactive" /\ Loaded /\ save.stage = "None" /\ Loaded'
  <2>1. op = NoOp \/ op.kind = "Discarding"
    BY HeadMoveSteps
  <2>2. op.kind = "Discarding" => op # NoOp
    BY DEF NoOp
  <2>3. Ready \/ op # NoOp
    BY <2>1, <2>2 DEF Undo, Redo, MoveHeadToCommit, DiscardMove
  <2>4. UNCHANGED session
    BY <1>1 DEF PublishPreparedHeadMove
  <2> QED
    BY <2>3, <2>4, CommandOpen DEF Loaded
<1>3. /\ UNCHANGED <<created, parent, recovery, save, session, db>>
      /\ graph' = MoveWorkingHead(graph, target) /\ redo' = selection
      /\ op'.kind = "HeadMove" /\ op'.source = WorkingHead /\ op'.redo = redo
  BY <1>1 DEF PublishPreparedHeadMove
<1>4. /\ target \in Heads /\ selection \in Seq(Commits) /\ IsPathFrom(target, selection)
      /\ target \in graph.commits \cup {NoCommit}
      /\ \A i \in 1..Len(selection) : selection[i] \in graph.commits
  BY <1>1, GraphCarries DEF LeadsTo
<1>5. /\ graph \in Graphs /\ created \in Nat
      /\ graph'.commits = graph.commits /\ ActiveHead(graph') = target
      /\ graph'.active = graph.active /\ graph'.refs = graph.refs
  BY <1>3, <1>4 DEF TypeOK, MoveWorkingHead, Graphs, ActiveHead
<1>6. StoredClosed' /\ TargetsExist'
  BY <1>2, <1>3, <1>5 DEF StoredClosed, TargetsExist, Exists
<1>7. MemoryClosed'
  <2>1. Closed(parent, graph')
    BY <1>3, <1>4, <1>5, HeadsStayClosed DEF MemoryClosed
  <2> QED
    BY <1>2, <1>3, <1>5, <2>1 DEF MemoryClosed, Active
<1>8. Numbered'
  <2> DEFINE record == [seq |-> nextSeq, kind |-> "HeadMove",
                        source |-> WorkingHead, target |-> target]
  <2>1. wal'.recs = Append(wal.recs, record) /\ journal' = Append(journal, record)
    BY <1>1 DEF PublishPreparedHeadMove, AppendRecord, TypeOK, Wals
  <2>2. wal.recs \in Seq(Records) /\ journal \in Seq(Records) /\ record \in Records
    BY <1>4, GraphOperations DEF TypeOK, Wals, Records, RecordKinds, WorkingHead
  <2>3. record.target <= created
    BY <1>4, <1>5, GraphAssumption DEF Numbered, NoCommit
  <2> HIDE DEF record
  <2>4. ASSUME NEW recs \in Seq(Records), TargetsUpTo(recs, created)
        PROVE  TargetsUpTo(Append(recs, record), created)
    <3>1. /\ Len(Append(recs, record)) = Len(recs) + 1
          /\ \A i \in 1..Len(recs) : Append(recs, record)[i] = recs[i]
          /\ Append(recs, record)[Len(recs) + 1] = record
      BY <2>2, AppendProperties
    <3> QED
      BY <2>3, <2>4, <3>1, LenProperties DEF TargetsUpTo
  <2>5. TargetsUpTo(wal'.recs, created) /\ TargetsUpTo(journal', created)
    BY <2>1, <2>2, <2>4 DEF Numbered
  <2> QED
    BY <1>3, <1>5, <2>5 DEF Numbered
<1>9. RedoContinuesHead'
  BY <1>3, <1>4, <1>5 DEF RedoContinuesHead, IsPathFrom, WorkingHead
<1>10. PendingFits'
  BY <1>3, <1>5, GraphCarries DEF PendingFits, RedoContinuesHead, IsPathFrom, Carries
<1> QED
  BY <1>6, <1>7, <1>8, <1>9, <1>10

LEMMA RevokeKeepsTargets ==
    ASSUME journal \in Seq(Records), RevokeLastRecord, NEW n,
           TargetsUpTo(wal.recs, n), TargetsUpTo(journal, n)
    PROVE  TargetsUpTo(wal'.recs, n) /\ TargetsUpTo(journal', n)
<1>1. ASSUME NEW k \in 0..Len(journal) PROVE TargetsUpTo(SubSeq(journal, 1, k), n)
  BY PrefixAt, LenProperties DEF TargetsUpTo
<1> QED
  BY <1>1, RevokeLeavesPrefix

\* An abandoned command goes back to the head and the redo suffix before it
\* (mini_git_working_history.cpp:548-621, 782-827).
LEMMA AbandonKeepsGraphs ==
    ASSUME GraphInv, Abandon
    PROVE  GraphsFit'
<1> USE DEF GraphInv, GraphsFit, SequenceInv, DurableInv
<1> DEFINE back == MoveWorkingHead(graph, op.source)
           erased == EraseUnreachable(parent, back, {WorkingHead})
<1>1. /\ op.kind \in {"Edit", "HeadMove"}
      /\ graph' = IF op.kind = "Edit" THEN erased ELSE back
      /\ redo' = op.redo /\ op' = NoOp /\ RevokeLastRecord
      /\ UNCHANGED <<created, parent, recovery, save, session, db>>
  BY DEF Abandon
<1>2. session = "Interactive" /\ Loaded /\ save.stage = "None" /\ Loaded'
  <2>1. op # NoOp
    BY <1>1 DEF NoOp
  <2> QED
    BY <1>1, <2>1, CommandOpen DEF Loaded
<1>3. /\ graph \in Graphs /\ created \in Nat /\ parent \in [Commits -> Heads]
      /\ op.source \in graph.commits \cup {NoCommit} /\ op.source \in Heads
      /\ IsPathFrom(op.source, op.redo)
      /\ \A i \in 1..Len(op.redo) : op.redo[i] \in graph.commits
  BY <1>1 DEF TypeOK, Ops, PendingFits
<1>4. /\ back \in Graphs /\ back.commits = graph.commits /\ back.refs = graph.refs
      /\ back.active = graph.active /\ ActiveHead(back) = op.source
      /\ Closed(parent, back)
  <2>1. Closed(parent, back) /\ back \in Graphs
    BY <1>3, HeadsStayClosed, GraphOperations DEF MemoryClosed
  <2> QED
    BY <1>3, <2>1 DEF MoveWorkingHead, Graphs, ActiveHead
<1> HIDE DEF back
<1>5. /\ erased.refs = back.refs /\ erased.active = back.active
      /\ erased.head = back.head /\ erased.commits \subseteq back.commits
      /\ \A x \in back.commits : x # WorkingHead => x \in erased.commits
  BY <1>4 DEF EraseUnreachable, Graphs
<1>6. ASSUME op.kind = "Edit" PROVE Closed(parent, erased)
  <2>1. \A x \in back.commits : parent[x] # WorkingHead
    BY <1>3, <1>4, <1>6, GraphAssumption
    DEF Numbered, TypeOK, Graphs, Commits, Heads
  <2> QED
    BY <1>4, <2>1, EraseStaysClosed
<1>7. ASSUME op.kind = "Edit"
      PROVE  /\ op.source \in erased.commits \cup {NoCommit}
             /\ \A i \in 1..Len(op.redo) : op.redo[i] \in erased.commits
  <2>1. WorkingHead = created /\ op.source # created
        /\ \A i \in 1..Len(op.redo) : op.redo[i] # created
    <3>1. op.source \in Nat /\ \A i \in 1..Len(op.redo) : op.redo[i] \in Nat
      BY <1>3, GraphAssumption DEF Heads, Graphs, Commits
    <3> QED
      BY <1>3, <1>7, <3>1 DEF Numbered
  <2> QED
    BY <1>3, <1>4, <1>5, <2>1
<1> HIDE DEF erased
<1>8. /\ graph'.commits \subseteq graph.commits /\ graph'.refs = graph.refs
      /\ graph'.active = graph.active /\ ActiveHead(graph') = op.source
      /\ Closed(parent, graph')
      /\ \A i \in 1..Len(op.redo) : op.redo[i] \in graph'.commits
  BY <1>1, <1>3, <1>4, <1>5, <1>6, <1>7 DEF ActiveHead
<1>9. StoredClosed' /\ TargetsExist'
  BY <1>1, <1>2 DEF StoredClosed, TargetsExist
<1>10. MemoryClosed'
  BY <1>1, <1>2, <1>8 DEF MemoryClosed, Active
<1>11. Numbered'
  <2>1. TargetsUpTo(wal'.recs, created) /\ TargetsUpTo(journal', created)
    BY <1>1, RevokeKeepsTargets DEF Numbered, TypeOK
  <2>2. op'.kind = "None"
    BY <1>1 DEF NoOp
  <2> QED
    BY <1>1, <1>8, <2>1, <2>2 DEF Numbered
<1>12. RedoContinuesHead'
  BY <1>1, <1>3, <1>8 DEF RedoContinuesHead, IsPathFrom, WorkingHead
<1>13. PendingFits'
  BY <1>1 DEF PendingFits, NoOp
<1> QED
  BY <1>9, <1>10, <1>11, <1>12, <1>13

\* Ends of commands, and discards.
LEMMA CommandEndsKeepGraphs ==
    ASSUME GraphInv,
           Acknowledge \/ AppendFails \/ Discard \/ DiscardStops \/ DiscardFinish
    PROVE  GraphsFit'
<1> USE DEF GraphInv, GraphsFit, SequenceInv, DurableInv
<1>1. /\ UNCHANGED <<created, parent, db, graph, recovery, save, session>>
      /\ op' = op \/ op'.kind \in {"None", "Discarding"}
      /\ wal'.recs \in {wal.recs, << >>} /\ journal' \in {journal, << >>}
      /\ redo' \in {redo, << >>}
  <2>1. NoOp.kind = "None" /\ Discarding.kind = "Discarding" /\ EmptyWal.recs = << >>
    BY DEF NoOp, Discarding, EmptyWal
  <2>2. CASE Acknowledge
    BY <2>1, <2>2 DEF Acknowledge
  <2>3. CASE AppendFails
    BY <2>1, <2>3 DEF AppendFails, TearAppend, TypeOK, Wals
  <2>4. CASE Discard \/ DiscardStops
    BY <2>1, <2>4 DEF Discard, DiscardStops
  <2>5. CASE DiscardFinish
    BY <2>1, <2>5 DEF DiscardFinish, TruncateMaterialized
  <2> QED
    BY <2>2, <2>3, <2>4, <2>5
<1>2. Loaded' <=> Loaded
  BY <1>1 DEF Loaded
<1>3. TargetsExist'
  BY <1>1 DEF TargetsExist, Exists
<1>4. CASE redo' = redo
  BY <1>1, <1>2, <1>3, <1>4, QuietKeepsGraphs
<1>5. CASE redo' = << >>
  <2>1. TargetsUpTo(<< >>, created)
    BY EmptySeq DEF TargetsUpTo
  <2>2. StoredClosed' /\ MemoryClosed'
    BY <1>1, <1>2, <1>5 DEF StoredClosed, MemoryClosed
  <2>3. Numbered'
    BY <1>1, <2>1 DEF Numbered, WorkingHead
  <2>4. RedoContinuesHead'
    BY <1>5, EmptySeq DEF RedoContinuesHead, IsPathFrom
  <2>5. PendingFits'
    BY <1>1 DEF PendingFits, IsPathFrom
  <2> QED
    BY <1>3, <2>2, <2>3, <2>4, <2>5
<1> QED
  BY <1>1, <1>4, <1>5

\* The commands that save name what is there.
LEMMA NextTargetsExist ==
    ASSUME graph \in Graphs, NEW next \in NextTargets
    PROVE  Exists(next)
<1>1. CASE next \in {Stay, Close}
  BY <1>1 DEF Exists, Stay, Close, Target
<1>2. CASE \E v \in graph.refs : next = [kind |-> "Checkout", version |-> v, at |-> NoCommit]
  BY <1>2 DEF Exists
<1>3. CASE \E v \in Versions \ graph.refs, h \in graph.commits \cup {NoCommit} :
              next = [kind |-> "NewVersion", version |-> v, at |-> h]
  BY <1>3 DEF Exists
<1> QED
  BY <1>1, <1>2, <1>3 DEF NextTargets

\* Starting a save, and what cannot start.
LEMMA SaveStartKeepsGraphs ==
    ASSUME GraphInv, SaveAndContinue \/ RetrySaveAfterFailure \/ SaveCannotStart
    PROVE  GraphsFit'
<1> USE DEF GraphInv, GraphsFit, SequenceInv, DurableInv
<1>1. UNCHANGED <<created, parent, db, graph, redo, op, wal, journal>> /\ Loaded' /\ Loaded
  BY DEF SaveAndContinue, RetrySaveAfterFailure, SaveCannotStart, StartSave, Ready, Loaded
<1>2. graph \in Graphs
  BY DEF TypeOK
<1>3. TargetsExist'
  <2>1. CASE SaveAndContinue \/ RetrySaveAfterFailure
    <3>1. PICK next : StartSave(next) /\ Exists(next)
      BY <1>2, <2>1, NextTargetsExist
      DEF SaveAndContinue, RetrySaveAfterFailure, TargetsExist
    <3>2. Exists(next)'
      BY <1>1, <3>1 DEF Exists
    <3>3. save'.next = next /\ recovery' = NoTarget
      BY <3>1 DEF StartSave, Capture
    <3> QED
      BY <3>2, <3>3 DEF TargetsExist, Exists
  <2>2. CASE SaveCannotStart
    <3>1. save.stage = "None"
      BY <2>2, CommandOpen DEF SaveCannotStart
    <3>2. Exists(recovery')
      BY <1>2, <2>2, NextTargetsExist DEF SaveCannotStart
    <3> QED
      BY <1>1, <2>2, <3>1, <3>2 DEF SaveCannotStart, TargetsExist, Exists
  <2> QED
    BY <2>1, <2>2
<1> QED
  BY <1>1, <1>3, QuietKeepsGraphs

\* A removed Version takes no commit with it.
LEMMA RemoveKeepsGraphs ==
    ASSUME GraphInv, RemoveVersion
    PROVE  GraphsFit'
<1> USE DEF GraphInv, GraphsFit, SequenceInv, DurableInv
<1>1. PICK v \in graph.refs \ {graph.active} : graph' = RemoveVersionRef(graph, v)
  BY DEF RemoveVersion
<1>2. /\ UNCHANGED <<created, parent, db, redo, op, wal, journal>>
      /\ Loaded' /\ Loaded /\ op = NoOp /\ recovery' = NoTarget
  BY DEF RemoveVersion, Ready, Loaded
<1>3. graph \in Graphs /\ v \in Versions
  BY DEF TypeOK, Graphs
<1>4. /\ graph'.commits = graph.commits /\ graph'.active = graph.active
      /\ ActiveHead(graph') = ActiveHead(graph)
      /\ Active(graph') /\ Closed(parent, graph')
  BY <1>1, <1>3, HeadsStayClosed
  DEF MemoryClosed, RemoveVersionRef, Graphs, Active, ActiveHead
<1>5. StoredClosed' /\ MemoryClosed'
  BY <1>2, <1>4 DEF StoredClosed, MemoryClosed
<1>6. TargetsExist'
  <2>1. save'.next = Stay
    BY DEF RemoveVersion, Capture
  <2> QED
    BY <1>2, <2>1 DEF TargetsExist, Exists, Stay, Target
<1>7. Numbered'
  BY <1>2, <1>4 DEF Numbered, NoOp
<1>8. RedoContinuesHead'
  BY <1>2, <1>4 DEF RedoContinuesHead, IsPathFrom, WorkingHead
<1>9. PendingFits'
  BY <1>2 DEF PendingFits, NoOp
<1> QED
  BY <1>5, <1>6, <1>7, <1>8, <1>9

\* The worker's steps, and a failed save.
LEMMA WorkerKeepsGraphs ==
    ASSUME GraphInv, Worker \/ OnCheckpointFailed
    PROVE  GraphsFit'
<1> USE DEF GraphInv, GraphsFit, SequenceInv, DurableInv
<1>1. /\ UNCHANGED <<created, parent, graph, redo, op, journal>>
      /\ wal'.recs \in {wal.recs, << >>}
      /\ session = "Saving" /\ Loaded /\ Loaded'
      /\ save.capture = MaterializeActiveHead(graph)
  BY DEF Worker, WriteDatabase, ClearEntireJournal, SaveFails, WorkerUnchanged,
         OnCheckpointFailed, SaveFreezesGraph, Loaded, EmptyWal
<1>2. graph \in Graphs /\ db \in Graphs
  BY DEF TypeOK
<1>3. TargetsExist'
  <2>1. CASE Worker
    <3>1. /\ save.stage # "None" /\ save'.next = save.next
          /\ UNCHANGED <<recovery, session>>
      BY <2>1
      DEF Worker, WriteDatabase, ClearEntireJournal, SaveFails, WorkerUnchanged,
          TypeOK, Saves
    <3> QED
      BY <1>1, <3>1 DEF TargetsExist, Exists
  <2>2. CASE OnCheckpointFailed
    <3>1. /\ recovery' \in {NoTarget, save.next} /\ save'.stage = "None"
          /\ session' = "RetainedImageFailure" /\ save.stage # "None"
      BY <2>2 DEF OnCheckpointFailed, NoSave
    <3> QED
      BY <1>1, <3>1 DEF TargetsExist, Exists
  <2> QED
    BY <2>1, <2>2
<1>4. CASE UNCHANGED db
  BY <1>1, <1>3, <1>4, QuietKeepsGraphs
<1>5. CASE WriteDatabase
  <2> DEFINE m == MaterializeActiveHead(graph)
  <2>1. m \in Graphs /\ Closed(parent, m) /\ Closed(parent, db)
    BY <1>2, GraphOperations, HeadsStayClosed DEF MemoryClosed, StoredClosed
  <2>2. /\ m.commits = graph.commits /\ m.refs = graph.refs /\ m.active = graph.active
        /\ m.head = graph.head /\ m.mat = ActiveHead(graph)
    BY <1>2 DEF MaterializeActiveHead, Graphs
  <2>3. db' = StoreMaterialization(db, m)
    BY <1>1, <1>5 DEF WriteDatabase
  <2> HIDE DEF m
  <2>4. /\ db'.commits = db.commits \cup graph.commits /\ db'.refs = graph.refs
        /\ db'.active = graph.active /\ db'.head = graph.head /\ db'.mat = ActiveHead(graph)
        /\ Closed(parent, db')
    <3>1. Closed(parent, StoreMaterialization(db, m))
      BY <1>2, <2>1, StoreStaysClosed
    <3> QED
      BY <2>1, <2>2, <2>3, <3>1 DEF StoreMaterialization, Graphs
  <2>5. StoredClosed'
    BY <1>1, <2>4 DEF StoredClosed, MemoryClosed, Active, ActiveHead
  <2>6. MemoryClosed'
    BY <1>1, <2>4 DEF MemoryClosed
  <2>7. Numbered'
    <3>1. TargetsUpTo(<< >>, created)
      BY EmptySeq DEF TargetsUpTo
    <3> QED
      BY <1>1, <2>4, <3>1 DEF Numbered, WorkingHead
  <2>8. RedoContinuesHead' /\ PendingFits'
    BY <1>1 DEF RedoContinuesHead, PendingFits, IsPathFrom, WorkingHead
  <2> QED
    BY <1>3, <2>5, <2>6, <2>7, <2>8
<1>6. UNCHANGED db \/ WriteDatabase
  BY DEF Worker, ClearEntireJournal, SaveFails, OnCheckpointFailed
<1> QED
  BY <1>4, <1>5, <1>6

\* Continuing to a Version that is there: it is active and stored, or the
\* working graph stays (editor_history_version_refs.cpp).
LEMMA ContinueKeepsGraphs ==
    ASSUME GraphInv, Loaded, op = NoOp, NEW next \in Targets, Exists(next),
           NEW g \in {graph, MaterializeActiveHead(graph)}, ContinueToVersion(g, next),
           UNCHANGED <<created, parent, op>>, save'.stage = "None",
           wal'.recs \in {wal.recs, << >>}, journal' \in {journal, << >>}
    PROVE  GraphsFit'
<1> USE DEF GraphInv, GraphsFit, SequenceInv, DurableInv
<1>1. Loaded' /\ op'.kind = "None"
  BY DEF ContinueToVersion, Loaded, NoOp
<1>2. graph \in Graphs /\ db \in Graphs /\ next.version \in Versions /\ next.at \in Heads
  BY DEF TypeOK, Targets
<1>3. CASE UNCHANGED <<redo, db>> /\ graph' = g
  <2>1. TargetsExist'
    <3>1. \/ recovery' = NoTarget
          \/ recovery' = next /\ session' = "RetainedImageFailure"
      BY DEF ContinueToVersion
    <3>2. graph'.commits = graph.commits /\ graph'.refs = graph.refs
      BY <1>2, <1>3 DEF MaterializeActiveHead, Graphs
    <3> QED
      BY <3>1, <3>2 DEF TargetsExist, Exists
  <2> QED
    BY <1>1, <1>3, <2>1, QuietKeepsGraphs
<1>4. CASE /\ graph' = MaterializeActiveHead(SwitchedGraph(g, next))
           /\ db' = StoreMaterialization(db, graph')
           /\ redo' = << >> /\ recovery' = NoTarget
  <2> DEFINE made == IF next.kind = "Checkout" THEN g
                     ELSE CreateVersionRefAtHead(g, next.version, next.at)
             moved == SetActiveVersionId(made, next.version)
  <2>1. g \in Graphs /\ Closed(parent, g) /\ g.commits = graph.commits /\ g.refs = graph.refs
    <3>1. MaterializeActiveHead(graph) \in Graphs /\ Closed(parent, MaterializeActiveHead(graph))
      BY <1>2, GraphOperations, HeadsStayClosed DEF MemoryClosed
    <3> QED
      BY <1>2, <3>1 DEF MemoryClosed, MaterializeActiveHead, Graphs
  <2>2. /\ made \in Graphs /\ Closed(parent, made) /\ made.commits = graph.commits
        /\ next.version \in made.refs
    <3>1. CASE next.kind = "Checkout"
      BY <2>1, <3>1 DEF Exists
    <3>2. CASE next.kind # "Checkout"
      <4>1. next.at \in g.commits \cup {NoCommit}
        BY <2>1, <3>2 DEF Exists
      <4> DEFINE new == CreateVersionRefAtHead(g, next.version, next.at)
      <4>2. new \in Graphs
        BY <1>2, <2>1, GraphOperations
      <4>3. Closed(parent, new)
        BY <1>2, <2>1, <4>1, HeadsStayClosed
      <4>4. new.commits = g.commits /\ next.version \in new.refs
        BY <2>1 DEF CreateVersionRefAtHead, Graphs
      <4> QED
        BY <2>1, <3>2, <4>2, <4>3, <4>4
    <3> QED
      BY <3>1, <3>2
  <2> HIDE DEF made
  <2>3. /\ moved \in Graphs /\ Closed(parent, moved) /\ moved.commits = graph.commits
        /\ Active(moved)
    BY <1>2, <2>2, GraphOperations, HeadsStayClosed DEF SetActiveVersionId, Active, Graphs
  <2>4. graph' = MaterializeActiveHead(moved)
    BY <1>4 DEF SwitchedGraph, made
  <2> HIDE DEF moved
  <2>5. /\ graph' \in Graphs /\ Closed(parent, graph') /\ graph'.commits = graph.commits
        /\ Active(graph') /\ graph'.mat = ActiveHead(graph')
    <3>1. MaterializeActiveHead(moved) \in Graphs /\ Closed(parent, MaterializeActiveHead(moved))
      BY <2>3, GraphOperations, HeadsStayClosed
    <3> QED
      BY <2>3, <2>4, <3>1 DEF MaterializeActiveHead, Active, ActiveHead, Graphs
  <2>6. /\ db'.commits = db.commits \cup graph.commits /\ db'.refs = graph'.refs
        /\ db'.active = graph'.active /\ db'.head = graph'.head /\ db'.mat = graph'.mat
        /\ Closed(parent, db')
    <3>1. Closed(parent, StoreMaterialization(db, graph'))
      BY <1>2, <2>5, StoreStaysClosed DEF StoredClosed
    <3> QED
      BY <1>2, <1>4, <2>5, <3>1 DEF StoreMaterialization, Graphs
  <2>7. StoredClosed' /\ MemoryClosed' /\ TargetsExist'
    BY <1>1, <1>4, <2>5, <2>6
    DEF StoredClosed, MemoryClosed, TargetsExist, Active, ActiveHead
  <2>8. Numbered'
    <3>1. TargetsUpTo(<< >>, created)
      BY EmptySeq DEF TargetsUpTo
    <3> QED
      BY <1>1, <2>5, <2>6, <3>1 DEF Numbered
  <2>9. RedoContinuesHead' /\ PendingFits'
    BY <1>1, <1>4, EmptySeq DEF RedoContinuesHead, PendingFits, IsPathFrom
  <2> QED
    BY <2>7, <2>8, <2>9
<1> QED
  BY <1>3, <1>4 DEF ContinueToVersion

\* A finished save is reduced (editor_session_service.cpp:913-1031).
LEMMA DoneKeepsGraphs ==
    ASSUME GraphInv, OnCheckpointDone
    PROVE  GraphsFit'
<1> USE DEF GraphInv, GraphsFit, SequenceInv, DurableInv
<1>1. /\ wal' = EmptyWal /\ journal' = << >> /\ wal'.recs = << >>
      /\ save'.stage = "None" /\ save.stage # "None"
      /\ session = "Saving" /\ Loaded /\ op = NoOp
      /\ UNCHANGED <<created, parent>>
  BY DoneClears DEF OnCheckpointDone, EmptyWal, NoSave, SaveFreezesGraph, Loaded
<1>2. CASE save.next.kind = "Close"
  <2>1. ForgetMemory /\ ~Loaded' /\ UNCHANGED db
    BY <1>2 DEF OnCheckpointDone, Loaded
  <2> QED
    BY <1>1, <2>1, ForgettingKeepsGraphs
<1>3. CASE save.next.kind = "Stay"
  <2>1. /\ graph' = MaterializeActiveHead(graph) /\ Loaded' /\ UNCHANGED <<redo, db, op>>
        /\ recovery' = NoTarget
    BY <1>3 DEF OnCheckpointDone, Loaded
  <2>2. TargetsExist'
    BY <1>1, <2>1 DEF TargetsExist
  <2> QED
    BY <1>1, <2>1, <2>2, QuietKeepsGraphs
<1>4. CASE save.next.kind \notin {"Close", "Stay"}
  <2>1. ContinueToVersion(MaterializeActiveHead(graph), save.next) /\ UNCHANGED op
    BY <1>4 DEF OnCheckpointDone
  <2>2. save.next \in Targets /\ Exists(save.next)
    BY <1>1 DEF TypeOK, Saves, TargetsExist
  <2> QED
    BY <1>1, <2>1, <2>2, ContinueKeepsGraphs
<1> QED
  BY <1>2, <1>3, <1>4

\* The choices after a failed save, and closing with discard.
LEMMA AfterFailureKeepsGraphs ==
    ASSUME GraphInv, \/ CancelPendingNavigation \/ CloseDiscarding
                     \/ DiscardAndContinueAfterFailure
    PROVE  GraphsFit'
<1> USE DEF GraphInv, GraphsFit, SequenceInv, DurableInv
<1>1. ASSUME ReleaseDiscarding PROVE GraphsFit'
  BY <1>1, ForgettingKeepsGraphs DEF ReleaseDiscarding, Loaded, EmptyWal
<1>2. CASE CancelPendingNavigation
  <2>1. /\ UNCHANGED <<created, parent, redo, db, graph, op, wal, journal, save>>
        /\ Loaded /\ Loaded' /\ recovery' = NoTarget /\ session # "Saving"
    BY <1>2 DEF CancelPendingNavigation, Loaded
  <2>2. TargetsExist'
    BY <2>1 DEF TargetsExist, SaveFreezesGraph
  <2> QED
    BY <2>1, <2>2, QuietKeepsGraphs
<1>3. CASE CloseDiscarding
  BY <1>1, <1>3 DEF CloseDiscarding
<1>4. CASE DiscardAndContinueAfterFailure
  <2>1. CASE recovery = Close
    BY <1>1, <1>4, <2>1 DEF DiscardAndContinueAfterFailure
  <2>2. CASE recovery # Close
    <3>1. /\ ContinueToVersion(graph, recovery) /\ Loaded
          /\ UNCHANGED <<created, parent, journal, op, save, wal>>
      BY <1>4, <2>2 DEF DiscardAndContinueAfterFailure, Loaded
    <3>2. op = NoOp /\ save'.stage = "None"
      BY <1>4, <3>1 DEF DiscardAndContinueAfterFailure, SaveFreezesGraph
    <3>3. recovery \in Targets /\ Exists(recovery)
      BY <1>4 DEF DiscardAndContinueAfterFailure, TypeOK, TargetsExist
    <3> QED
      BY <3>1, <3>2, <3>3, ContinueKeepsGraphs
  <2> QED
    BY <2>1, <2>2
<1> QED
  BY <1>2, <1>3, <1>4

\* Opening: recovery, the replay of the missing records, and its end
\* (editor_mini_git_materializer.cpp:128-248).
LEMMA OpenKeepsGraphs ==
    ASSUME GraphInv, Open
    PROVE  GraphsFit'
<1> USE DEF GraphInv, GraphsFit, SequenceInv, DurableInv
<1>1. ASSUME IsolateJournal PROVE GraphsFit'
  BY <1>1, ForgettingKeepsGraphs DEF IsolateJournal, Loaded, EmptyWal
<1>2. CASE RecoverRejects \/ AcquireRejects
  BY <1>1, <1>2 DEF RecoverRejects, AcquireRejects
<1>3. CASE RecoverAccepts \/ RecoverCannotClear
  <2>1. /\ UNCHANGED <<created, parent, redo, db, graph, op, journal, save, recovery>>
        /\ ~Loaded /\ ~Loaded' /\ wal'.recs \in {wal.recs, << >>}
        /\ session \notin {"Saving", "RetainedImageFailure"}
    BY <1>3 DEF RecoverAccepts, RecoverCannotClear, memory, Loaded, EmptyWal
  <2>2. TargetsExist'
    BY <2>1 DEF TargetsExist, SaveFreezesGraph
  <2> QED
    BY <2>1, <2>2, QuietKeepsGraphs
<1>4. CASE FinishAcquire
  <2>1. CASE ForgetMemory /\ session' = "Failed" /\ UNCHANGED wal
    BY <1>4, <2>1, ForgettingKeepsGraphs DEF FinishAcquire, Loaded
  <2>2. CASE /\ TruncateMaterialized(TRUE) /\ session' = "Interactive"
             /\ UNCHANGED <<graph, redo, nextSeq, op, recovery, save>>
    <3>1. /\ UNCHANGED <<created, parent, redo, db, graph, op, recovery, save>>
          /\ Loaded /\ Loaded' /\ wal'.recs = << >> /\ journal' = << >>
          /\ session \notin {"Saving", "RetainedImageFailure"}
      BY <1>4, <2>2 DEF FinishAcquire, TruncateMaterialized, EmptyWal, Loaded
    <3>2. TargetsExist'
      BY <3>1 DEF TargetsExist, SaveFreezesGraph
    <3> QED
      BY <3>1, <3>2, QuietKeepsGraphs
  <2> QED
    BY <1>4, <2>1, <2>2 DEF FinishAcquire
<1>5. CASE AcquireWorkingState
  <2> DEFINE missing == MissingSuffix(db, wal.recs)
             replayed == Replay(db, missing)
  <2>1. /\ UNCHANGED <<created, parent, redo, op, recovery, save, wal>>
        /\ Replayable(parent, db, missing) /\ journal' = wal.recs
        /\ session = "Acquiring" /\ ~Loaded /\ Loaded'
    BY <1>5 DEF AcquireWorkingState, LoadJournal, Loaded
  <2>2. wal.recs \in Seq(Records) /\ missing \in Seq(Records) /\ db \in Graphs
    BY MissingSuffixType DEF TypeOK, Wals
  <2>3. /\ replayed \in Graphs /\ Closed(parent, replayed) /\ Active(replayed)
        /\ replayed.active = db.active
        /\ replayed.commits = db.commits \cup EditTargets(missing)
    BY <2>1, <2>2, ReplayType, ReplayStaysClosed DEF StoredClosed
  <2>4. replayed.commits \subseteq 1..created
    <3>1. EditTargets(missing) \subseteq EditTargets(wal.recs)
      <4>1. \A k \in 1..Len(missing) : \E j \in 1..Len(wal.recs) : missing[k] = wal.recs[j]
        <5>1. PICK d \in 0..Len(wal.recs) : d = DurablePrefix(db, wal.recs)
          BY <2>2, DurablePrefixRange
        <5>2. /\ Len(missing) = Len(wal.recs) - d
              /\ \A k \in 1..Len(missing) : missing[k] = wal.recs[d + k]
          BY <2>2, <5>1, SuffixAt DEF MissingSuffix
        <5> HIDE DEF missing
        <5>3. \A k \in 1..Len(missing) : d + k \in 1..Len(wal.recs)
          BY <2>2, <5>1, <5>2, LenProperties
        <5> QED
          BY <5>2, <5>3
      <4> HIDE DEF missing
      <4> QED
        BY <4>1, EditTargetsOfPart
    <3>2. ASSUME NEW t \in EditTargets(wal.recs) PROVE t <= created
      BY DEF EditTargets, Numbered, TargetsUpTo
    <3>3. replayed.commits \subseteq Commits /\ created \in Nat
      BY <2>3 DEF Graphs, TypeOK
    <3> QED
      BY <2>3, <3>1, <3>2, <3>3, GraphAssumption DEF Numbered, Commits
  <2> HIDE DEF replayed
  <2>5. /\ MaterializeActiveHead(replayed) \in Graphs
        /\ Closed(parent, MaterializeActiveHead(replayed))
    BY <2>3, GraphOperations, HeadsStayClosed
  <2> DEFINE m == MaterializeActiveHead(replayed)
  <2>6. /\ m.commits = replayed.commits /\ m.active = replayed.active
        /\ Active(m) /\ m.mat = ActiveHead(m)
    BY <2>3 DEF MaterializeActiveHead, Active, ActiveHead, Graphs
  <2>7. /\ graph' \in Graphs /\ Closed(parent, graph') /\ Active(graph')
        /\ graph'.commits \subseteq 1..created /\ db'.active = graph'.active
        /\ Active(db') /\ db'.mat = ActiveHead(db') /\ Closed(parent, db')
        /\ db'.commits \subseteq 1..created
    <3> HIDE DEF m
    <3>1. CASE graph' = db /\ UNCHANGED db
      BY <2>2, <3>1 DEF StoredClosed, Numbered
    <3>2. CASE graph' = m /\ db' = StoreMaterialization(db, graph')
      <4>1. Closed(parent, StoreMaterialization(db, m))
        BY <2>2, <2>5, StoreStaysClosed DEF StoredClosed, m
      <4>2. /\ db'.commits = db.commits \cup m.commits /\ db'.refs = m.refs
            /\ db'.active = m.active /\ db'.head = m.head /\ db'.mat = m.mat
        BY <2>2, <2>5, <3>2 DEF StoreMaterialization, Graphs, m
      <4> QED
        BY <2>4, <2>5, <2>6, <3>2, <4>1, <4>2 DEF Numbered, Active, ActiveHead, m
    <3>3. CASE graph' = replayed /\ UNCHANGED db
      BY <2>3, <2>4, <3>3 DEF StoredClosed, Numbered
    <3> QED
      BY <1>5, <3>1, <3>2, <3>3 DEF AcquireWorkingState, m, replayed
  <2>8. StoredClosed' /\ MemoryClosed'
    BY <2>1, <2>7 DEF StoredClosed, MemoryClosed
  <2>9. TargetsExist'
    BY <2>1 DEF TargetsExist, SaveFreezesGraph
  <2>10. Numbered' /\ PendingFits'
    <3>1. op.kind = "None"
      BY <2>1 DEF SaveFreezesGraph, NoOp
    <3> QED
      BY <2>1, <2>7, <3>1 DEF Numbered, PendingFits
  <2>11. RedoContinuesHead'
    BY <2>1, EmptySeq DEF MemoryClosed, RedoContinuesHead, IsPathFrom
  <2> QED
    BY <2>8, <2>9, <2>10, <2>11
<1> QED
  BY <1>2, <1>3, <1>4, <1>5 DEF Open

\* A clean close deletes no commit a stored Version reaches.
LEMMA CollectKeepsGraphs ==
    ASSUME GraphInv, CollectUnreachableEditCommits
    PROVE  GraphsFit'
<1> USE DEF GraphInv, GraphsFit, SequenceInv, DurableInv
<1>1. /\ UNCHANGED <<created, parent, memory, session, wal>> /\ session = "NoImage"
      /\ db' = DeleteUnreachableCommits(parent, db) /\ ~Loaded /\ ~Loaded'
  BY DEF CollectUnreachableEditCommits, Loaded
<1>2. db \in Graphs /\ Closed(parent, db')
  BY <1>1, StoreStaysClosed DEF TypeOK, StoredClosed
<1>3. /\ db'.commits \subseteq db.commits /\ db'.refs = db.refs /\ db'.active = db.active
      /\ db'.head = db.head /\ db'.mat = db.mat
  BY <1>1, <1>2 DEF DeleteUnreachableCommits, Graphs
<1>4. StoredClosed' /\ MemoryClosed'
  BY <1>1, <1>2, <1>3 DEF StoredClosed, MemoryClosed, Active, ActiveHead, memory
<1>5. TargetsExist' /\ Numbered' /\ RedoContinuesHead' /\ PendingFits'
  BY <1>1, <1>3
  DEF TargetsExist, Numbered, RedoContinuesHead, PendingFits, memory, Exists, IsPathFrom,
      WorkingHead
<1> QED
  BY <1>4, <1>5

LEMMA GraphStep == GraphInv /\ [Next]_vars => GraphInv'
<1> SUFFICES ASSUME GraphInv, [Next]_vars PROVE GraphsFit'
  BY SequenceStep DEF GraphInv
<1>1. CASE PublishPreparedEdit
  BY <1>1, EditKeepsGraphs
<1>2. CASE Undo \/ Redo \/ MoveHeadToCommit \/ DiscardMove
  BY <1>2, HeadMoveKeepsGraphs
<1>3. CASE Abandon
  BY <1>3, AbandonKeepsGraphs
<1>4. CASE Acknowledge \/ AppendFails \/ Discard \/ DiscardStops \/ DiscardFinish
  BY <1>4, CommandEndsKeepGraphs
<1>5. CASE \/ SaveAndContinue \/ RetrySaveAfterFailure \/ SaveCannotStart \/ RemoveVersion
           \/ Worker \/ Completion
  BY <1>5, SaveStartKeepsGraphs, RemoveKeepsGraphs, WorkerKeepsGraphs, DoneKeepsGraphs
  DEF Completion
<1>6. CASE CancelPendingNavigation \/ CloseDiscarding \/ DiscardAndContinueAfterFailure
  BY <1>6, AfterFailureKeepsGraphs
<1>7. CASE Open
  BY <1>7, OpenKeepsGraphs
<1>8. CASE Crash
  BY <1>8, ForgettingKeepsGraphs DEF Crash, Loaded
<1>9. CASE CollectUnreachableEditCommits
  BY <1>9, CollectKeepsGraphs
<1>10. CASE UNCHANGED vars
  <2>1. UNCHANGED <<created, parent, graph, redo, journal, op, recovery, save,
                    session, wal, db>>
    BY <1>10 DEF vars, memory
  <2>2. TargetsExist' /\ (Loaded' <=> Loaded)
    BY <2>1 DEF GraphInv, GraphsFit, TargetsExist, Exists, Loaded
  <2> QED
    BY <2>1, <2>2, QuietKeepsGraphs DEF GraphsFit
<1> QED
  BY <1>1, <1>2, <1>3, <1>4, <1>5, <1>6, <1>7, <1>8, <1>9, <1>10
  DEF Next, Command, CommandStep, AfterFailure

LEMMA GraphInit == Init => GraphInv
<1> SUFFICES ASSUME Init PROVE GraphsFit
  BY SequenceInit DEF GraphInv
<1>1. EmptyGraph.commits = {} /\ EmptyGraph.mat = NoCommit
  BY DEF EmptyGraph
<1> QED
  BY <1>1, EmptyClosed, EmptySeq
  DEF Init, GraphsFit, StoredClosed, MemoryClosed, TargetsExist, Numbered, TargetsUpTo,
      RedoContinuesHead, PendingFits, IsPathFrom, NoOp, NoSave, EmptyWal, Loaded

\* The stored rows always form a graph that LoadGraph accepts, whatever fails
\* and whichever files were damaged.
THEOREM StoredGraphComplete == Spec => []StoredGraphLoads
<1>1. GraphInv => StoredGraphLoads
  BY ReachableIsLeast
  DEF GraphInv, GraphsFit, SequenceInv, DurableInv, TypeOK, StoredClosed, Active,
      StoredGraphLoads
<1> QED
  BY <1>1, GraphInit, GraphStep, PTL DEF Spec

\* The redo suffix is a path from the working head in every reachable state,
\* for graphs and suffixes of any length.
THEOREM RedoIsPath == Spec => []RedoContinuesHead
<1>1. GraphInv => RedoContinuesHead
  BY DEF GraphInv, GraphsFit
<1> QED
  BY <1>1, GraphInit, GraphStep, PTL DEF Spec

----------------------------------------------------------------------------
\* Journals a store can be brought up to date with.

\* Record k of recs can be replayed once the records before it were.
Valid(par, g, recs, k) ==
    IF recs[k].kind = "EditCommit"
    THEN recs[k].target \in Commits /\ par[recs[k].target] = recs[k].source
    ELSE recs[k].target \in {NoCommit} \cup g.commits
                               \cup EditTargets(SubSeq(recs, 1, k - 1))

Sound(par, g, recs) ==
    Linked(recs) /\ \A k \in 1..Len(recs) : Valid(par, g, recs, k)

\* The store's active head is where recs start, or where one of the records
\* 1..n ended, with all records up to it stored.
Anchored(g, recs, n) ==
    recs # << >> => \/ recs[1].source = ActiveHead(g)
                    \/ \E i \in 1..n : CoversPrefix(g, recs, i)

\* Every such journal is accepted, its missing records can be replayed, and
\* replaying them ends where the journal ends (AlignJournalWithStoredHead and
\* Replay, mini_git_working_history.cpp:118-188, 853-934).
LEMMA SoundJournalReplays ==
    ASSUME NEW par, NEW g \in Graphs, Closed(par, g), Active(g),
           NEW recs \in Seq(Records), Sound(par, g, recs), Anchored(g, recs, Len(recs))
    PROVE  LET missing == MissingSuffix(g, recs)
           IN  /\ Aligned(g, recs) /\ Replayable(par, g, missing)
               /\ missing \in Seq(Records)
               /\ ActiveHead(Replay(g, missing)) =
                     IF recs = << >> THEN ActiveHead(g) ELSE recs[Len(recs)].target
               /\ \A i \in 1..Len(recs) :
                     recs[i].target \in Replay(g, missing).commits \cup {NoCommit}
<1> DEFINE missing == MissingSuffix(g, recs)
<1>1. PICK d \in 0..Len(recs) : /\ d = DurablePrefix(g, recs)
                                /\ d = 0 \/ CoversPrefix(g, recs, d)
                                /\ \A j \in (d + 1)..Len(recs) : ~CoversPrefix(g, recs, j)
  BY DurablePrefixRange
<1>2. Len(recs) \in Nat /\ d \in Nat
  BY LenProperties
<1>3. /\ missing \in Seq(Records) /\ Len(missing) = Len(recs) - d
      /\ \A k \in 1..Len(missing) : missing[k] = recs[d + k]
  BY <1>1, SuffixAt DEF MissingSuffix
<1>4. recs # << >> /\ d = 0 => recs[1].source = ActiveHead(g)
  BY <1>1, <1>2 DEF Anchored
<1>5. Aligned(g, recs)
  BY <1>1, <1>4 DEF Aligned, Sound
<1> HIDE DEF missing
<1>6. \A k \in 1..Len(missing) : d + k \in 1..Len(recs)
  BY <1>2, <1>3
<1>7. Replayable(par, g, missing)
  <2>1. missing # << >> => missing[1].source = ActiveHead(g)
    <3>1. CASE d = 0 /\ missing # << >>
      BY <1>2, <1>3, <1>4, <3>1, EmptySeq
    <3>2. CASE d # 0 /\ missing # << >>
      <4>1. Len(missing) # 0 /\ Len(missing) \in Nat
        BY <1>3, <3>2, EmptySeq, LenProperties
      <4>2. d + 1 \in 2..Len(recs) /\ missing[1] = recs[d + 1] /\ (d + 1) - 1 = d
        BY <1>2, <1>3, <3>2, <4>1
      <4>3. recs[d + 1].source = recs[d].target
        BY <4>2 DEF Sound, Linked
      <4> QED
        BY <1>1, <3>2, <4>2, <4>3 DEF CoversPrefix
    <3> QED
      BY <3>1, <3>2
  <2>2. Linked(missing)
    <3>1. ASSUME NEW i \in 2..Len(missing) PROVE missing[i].source = missing[i - 1].target
      <4>1. /\ d + i \in 2..Len(recs) /\ i \in 1..Len(missing) /\ i - 1 \in 1..Len(missing)
            /\ d + (i - 1) = (d + i) - 1
        BY <1>2, <1>3
      <4>2. missing[i] = recs[d + i] /\ missing[i - 1] = recs[(d + i) - 1]
        BY <1>3, <4>1
      <4> QED
        BY <4>1, <4>2 DEF Sound, Linked
    <3> QED
      BY <3>1 DEF Linked
  <2>3. ASSUME NEW k \in 1..Len(missing)
        PROVE  IF missing[k].kind = "EditCommit"
               THEN /\ missing[k].target \in Commits
                    /\ par[missing[k].target] = missing[k].source
               ELSE missing[k].target \in {NoCommit} \cup g.commits
                                            \cup EditTargets(SubSeq(missing, 1, k - 1))
    <3>1. d + k \in 1..Len(recs) /\ missing[k] = recs[d + k] /\ Valid(par, g, recs, d + k)
      BY <1>3, <1>6 DEF Sound
    <3>2. CASE missing[k].kind = "EditCommit"
      BY <3>1, <3>2 DEF Valid
    <3>3. CASE missing[k].kind # "EditCommit"
      <4>1. missing[k].target \in {NoCommit} \cup g.commits
                                    \cup EditTargets(SubSeq(recs, 1, (d + k) - 1))
        BY <3>1, <3>3 DEF Valid
      <4>2. ASSUME NEW t \in EditTargets(SubSeq(recs, 1, (d + k) - 1))
            PROVE  t \in {NoCommit} \cup g.commits \cup EditTargets(SubSeq(missing, 1, k - 1))
        <5> DEFINE before == SubSeq(recs, 1, (d + k) - 1)
                   suffix == SubSeq(missing, 1, k - 1)
        <5>1. /\ Len(before) = (d + k) - 1
              /\ \A j \in 1..((d + k) - 1) : before[j] = recs[j]
          BY <1>2, <3>1, PrefixAt
        <5>2. Len(suffix) = k - 1 /\ \A j \in 1..(k - 1) : suffix[j] = missing[j]
          BY <1>3, <1>2, PrefixAt
        <5>3. PICK j \in 1..Len(before) : before[j].kind = "EditCommit" /\ t = before[j].target
          BY DEF EditTargets
        <5> HIDE DEF before, suffix
        <5>4. j \in 1..((d + k) - 1) /\ recs[j].kind = "EditCommit" /\ t = recs[j].target
          BY <5>1, <5>3
        <5>5. CASE j <= d
          <6>1. j \in 1..d /\ d # 0
            BY <1>2, <5>4, <5>5
          <6> QED
            BY <1>1, <5>4, <6>1 DEF CoversPrefix
        <5>6. CASE ~(j <= d)
          <6>1. j - d \in 1..(k - 1) /\ d + (j - d) = j /\ j - d \in 1..Len(missing)
            BY <1>2, <5>4, <5>6
          <6>2. suffix[j - d] = recs[j]
            BY <1>3, <5>2, <6>1
          <6>3. t \in EditTargets(suffix)
            BY <5>2, <5>4, <6>1, <6>2 DEF EditTargets
          <6> QED
            BY <6>3 DEF suffix
        <5> QED
          BY <5>5, <5>6
      <4> QED
        BY <3>3, <4>1, <4>2
    <3> QED
      BY <3>2, <3>3
  <2> QED
    BY <2>1, <2>2, <2>3 DEF Replayable
<1>8. ActiveHead(Replay(g, missing)) =
         IF missing = << >> THEN ActiveHead(g) ELSE missing[Len(missing)].target
  BY <1>3, <1>7, ReplayStaysClosed
<1>9. ActiveHead(Replay(g, missing)) =
         IF recs = << >> THEN ActiveHead(g) ELSE recs[Len(recs)].target
  <2>1. CASE missing = << >>
    <3>1. d = Len(recs)
      BY <1>2, <1>3, <2>1, EmptySeq
    <3>2. recs # << >> => recs[Len(recs)].target = ActiveHead(g)
      BY <1>1, <1>2, <3>1, EmptySeq DEF CoversPrefix
    <3> QED
      BY <1>8, <2>1, <3>2
  <2>2. CASE missing # << >>
    <3>1. Len(missing) \in 1..Len(missing) /\ recs # << >>
      BY <1>2, <1>3, <2>2, EmptySeq, LenProperties
    <3>2. missing[Len(missing)] = recs[Len(recs)]
      BY <1>2, <1>3, <3>1
    <3> QED
      BY <1>8, <2>2, <3>1, <3>2
  <2> QED
    BY <2>1, <2>2
<1>10. ASSUME NEW i \in 1..Len(recs)
       PROVE  recs[i].target \in Replay(g, missing).commits \cup {NoCommit}
  <2>1. /\ Replay(g, missing).commits = g.commits \cup EditTargets(missing)
        /\ \A k \in 1..Len(missing) :
              missing[k].target \in Replay(g, missing).commits \cup {NoCommit}
    BY <1>3, <1>7, ReplayStaysClosed
  <2>2. CASE i <= d
    BY <1>1, <1>2, <2>1, <2>2 DEF CoversPrefix
  <2>3. CASE ~(i <= d)
    <3>1. i - d \in 1..Len(missing) /\ d + (i - d) = i
      BY <1>2, <1>3, <2>3
    <3> QED
      BY <1>3, <2>1, <3>1
  <2> QED
    BY <2>2, <2>3
<1> QED
  BY <1>3, <1>5, <1>7, <1>9, <1>10 DEF missing

\* Where a store and a journal behind it end.
EndsAt(g, recs) == IF recs = << >> THEN ActiveHead(g) ELSE recs[Len(recs)].target

\* The commits a store and a journal behind it hold.
KnownIn(g, recs) == g.commits \cup EditTargets(recs)

LEMMA EmptyJournalFits ==
    ASSUME NEW par, NEW g, NEW n
    PROVE  /\ Sound(par, g, << >>) /\ Anchored(g, << >>, n)
           /\ EndsAt(g, << >>) = ActiveHead(g) /\ KnownIn(g, << >>) = g.commits
  BY EmptySeq DEF Sound, Linked, Anchored, EndsAt, KnownIn, EditTargets

\* A sound journal stays sound in a store that holds more, and when the
\* parents of the commits it carries stay.
LEMMA SoundInLarger ==
    ASSUME NEW par, NEW par2, NEW g, NEW h, NEW recs \in Seq(Records), Sound(par, g, recs),
           g.commits \subseteq h.commits,
           \A t \in EditTargets(recs) : par2[t] = par[t]
    PROVE  Sound(par2, h, recs)
<1>1. ASSUME NEW k \in 1..Len(recs) PROVE Valid(par2, h, recs, k)
  <2>1. recs[k].kind = "EditCommit" => recs[k].target \in EditTargets(recs)
    BY DEF EditTargets
  <2> QED
    BY <2>1 DEF Sound, Valid
<1> QED
  BY <1>1 DEF Sound

\* A store that holds every target and ends where the journal ends.
LEMMA StoredIsAnchored ==
    ASSUME NEW g, NEW recs \in Seq(Records),
           \A i \in 1..Len(recs) : recs[i].target \in g.commits \cup {NoCommit},
           recs # << >> => recs[Len(recs)].target = ActiveHead(g)
    PROVE  Anchored(g, recs, Len(recs))
  BY LenProperties, EmptySeq DEF Anchored, CoversPrefix

LEMMA AnchoredFurther ==
    ASSUME NEW g, NEW recs, NEW n \in Int, NEW m \in Int, n <= m, Anchored(g, recs, n)
    PROVE  Anchored(g, recs, m)
  BY DEF Anchored

\* One record more, at the end of a sound journal
\* (mini_git_working_history.cpp:192-226).
LEMMA AppendStaysSound ==
    ASSUME NEW par, NEW g, NEW recs \in Seq(Records), NEW record \in Records,
           Sound(par, g, recs), Anchored(g, recs, Len(recs)),
           record.source = EndsAt(g, recs),
           IF record.kind = "EditCommit"
           THEN record.target \in Commits /\ par[record.target] = record.source
           ELSE record.target \in KnownIn(g, recs) \cup {NoCommit}
    PROVE  LET more == Append(recs, record)
           IN  /\ more \in Seq(Records) /\ more # << >>
               /\ Len(more) = Len(recs) + 1 /\ Len(recs) \in Nat
               /\ \A i \in 1..Len(recs) : more[i] = recs[i]
               /\ more[Len(more)] = record
               /\ Sound(par, g, more) /\ Anchored(g, more, Len(more) - 1)
               /\ EndsAt(g, more) = record.target
               /\ KnownIn(g, recs) \subseteq KnownIn(g, more)
               /\ record.kind = "EditCommit" => record.target \in KnownIn(g, more)
<1> DEFINE more == Append(recs, record)
<1>1. /\ more \in Seq(Records) /\ Len(more) = Len(recs) + 1 /\ Len(recs) \in Nat
      /\ \A i \in 1..Len(recs) : more[i] = recs[i]
      /\ more[Len(recs) + 1] = record
  BY AppendProperties, LenProperties
<1>2. more # << >>
  BY <1>1, EmptySeq
<1> HIDE DEF more
<1>3. \A i \in 1..Len(more) : i \in 1..Len(recs) \/ i = Len(recs) + 1
  BY <1>1
<1>4. Linked(more)
  <2>1. ASSUME NEW i \in 2..Len(more) PROVE more[i].source = more[i - 1].target
    <3>1. CASE i \in 2..Len(recs)
      <4>1. more[i] = recs[i] /\ more[i - 1] = recs[i - 1]
        BY <1>1, <3>1
      <4> QED
        BY <3>1, <4>1 DEF Sound, Linked
    <3>2. CASE i = Len(recs) + 1
      <4>1. Len(recs) \in 1..Len(recs) /\ recs # << >> /\ i - 1 = Len(recs)
        BY <1>1, <3>2, EmptySeq
      <4> QED
        BY <1>1, <3>2, <4>1 DEF EndsAt
    <3> QED
      BY <1>1, <3>1, <3>2
  <2> QED
    BY <2>1 DEF Linked
<1>5. ASSUME NEW k \in 1..Len(more)
      PROVE  EditTargets(SubSeq(more, 1, k - 1)) = EditTargets(SubSeq(recs, 1, k - 1))
  <2>1. k - 1 \in 0..Len(recs) /\ k - 1 \in 0..Len(more)
    BY <1>1
  <2>2. /\ Len(SubSeq(more, 1, k - 1)) = k - 1 /\ Len(SubSeq(recs, 1, k - 1)) = k - 1
        /\ \A i \in 1..(k - 1) : SubSeq(more, 1, k - 1)[i] = SubSeq(recs, 1, k - 1)[i]
    BY <1>1, <2>1, PrefixAt
  <2> QED
    BY <2>2 DEF EditTargets
<1>6. ASSUME NEW k \in 1..Len(more) PROVE Valid(par, g, more, k)
  <2>1. CASE k \in 1..Len(recs)
    BY <1>1, <1>5, <2>1 DEF Valid, Sound
  <2>2. CASE k = Len(recs) + 1
    <3>1. SubSeq(recs, 1, k - 1) = recs
      <4>1. /\ SubSeq(recs, 1, Len(recs)) \in Seq(Records)
            /\ Len(SubSeq(recs, 1, Len(recs))) = Len(recs)
            /\ \A i \in 1..Len(recs) : SubSeq(recs, 1, Len(recs))[i] = recs[i]
        BY <1>1, PrefixAt
      <4>2. SubSeq(recs, 1, Len(recs)) = recs
        BY <4>1, SeqEqual
      <4> QED
        BY <1>1, <2>2, <4>2
    <3> QED
      BY <1>1, <1>5, <2>2, <3>1 DEF Valid, KnownIn
  <2> QED
    BY <1>3, <2>1, <2>2
<1>7. Anchored(g, more, Len(recs))
  <2>1. CASE recs = << >>
    <3>1. more[1].source = ActiveHead(g)
      BY <1>1, <2>1, EmptySeq DEF EndsAt
    <3> QED
      BY <3>1 DEF Anchored
  <2>2. CASE recs # << >>
    <3>1. 1 \in 1..Len(recs)
      BY <1>1, <2>2, EmptySeq
    <3>2. \A i \in 1..Len(recs) : CoversPrefix(g, recs, i) => CoversPrefix(g, more, i)
      BY <1>1 DEF CoversPrefix
    <3> QED
      BY <1>1, <2>2, <3>1, <3>2 DEF Anchored
  <2> QED
    BY <2>1, <2>2
<1>8. EditTargets(recs) \subseteq EditTargets(more)
  BY <1>1 DEF EditTargets
<1>9. record.kind = "EditCommit" => record.target \in EditTargets(more)
  BY <1>1 DEF EditTargets
<1>10. Len(more) - 1 = Len(recs) /\ EndsAt(g, more) = record.target
  BY <1>1, <1>2 DEF EndsAt
<1> QED
  BY <1>1, <1>2, <1>4, <1>6, <1>7, <1>8, <1>9, <1>10 DEF more, Sound, KnownIn

\* The last record taken back again (mini_git_working_history.cpp:243-284).
LEMMA FrontStaysSound ==
    ASSUME NEW par, NEW g, NEW recs \in Seq(Records), recs # << >>,
           Sound(par, g, recs), Anchored(g, recs, Len(recs) - 1)
    PROVE  /\ Front(recs) \in Seq(Records) /\ Len(Front(recs)) = Len(recs) - 1
           /\ \A i \in 1..(Len(recs) - 1) : Front(recs)[i] = recs[i]
           /\ Sound(par, g, Front(recs)) /\ Anchored(g, Front(recs), Len(Front(recs)))
           /\ EndsAt(g, Front(recs)) = recs[Len(recs)].source
<1> DEFINE n == Len(recs) - 1
           front == SubSeq(recs, 1, n)
<1>1. Len(recs) \in Nat /\ Len(recs) >= 1 /\ n \in 0..Len(recs) /\ n \in Nat
  BY LenProperties, EmptySeq
<1>2. /\ front \in Seq(Records) /\ Len(front) = n
      /\ \A i \in 1..n : front[i] = recs[i]
  BY <1>1, PrefixAt
<1>3. Front(recs) = front
  BY DEF Front
<1>4. ASSUME NEW k \in 1..n
      PROVE  EditTargets(SubSeq(front, 1, k - 1)) = EditTargets(SubSeq(recs, 1, k - 1))
  <2>1. k - 1 \in 0..Len(recs) /\ k - 1 \in 0..Len(front)
    BY <1>1, <1>2
  <2> HIDE DEF front
  <2>2. /\ Len(SubSeq(front, 1, k - 1)) = k - 1 /\ Len(SubSeq(recs, 1, k - 1)) = k - 1
        /\ \A i \in 1..(k - 1) : SubSeq(front, 1, k - 1)[i] = SubSeq(recs, 1, k - 1)[i]
    BY <1>1, <1>2, <2>1, PrefixAt
  <2> QED
    BY <2>2 DEF EditTargets
<1> HIDE DEF front
<1>5. Sound(par, g, front)
  <2>1. Linked(front)
    BY <1>1, <1>2 DEF Sound, Linked
  <2>2. ASSUME NEW k \in 1..n PROVE Valid(par, g, front, k)
    BY <1>1, <1>2, <1>4 DEF Sound, Valid
  <2> QED
    BY <1>2, <2>1, <2>2 DEF Sound
<1>6. Anchored(g, front, n)
  <2>1. front # << >> => 1 \in 1..n
    BY <1>1, <1>2, EmptySeq
  <2>2. ASSUME NEW i \in 1..n, CoversPrefix(g, recs, i) PROVE CoversPrefix(g, front, i)
    <3>1. front[i] = recs[i] /\ \A j \in 1..i : j \in 1..n /\ front[j] = recs[j]
      BY <1>1, <1>2
    <3> QED
      BY <2>2, <3>1 DEF CoversPrefix
  <2> QED
    BY <1>2, <2>1, <2>2 DEF Anchored
<1>7. EndsAt(g, front) = recs[Len(recs)].source
  <2>1. CASE front = << >>
    <3>1. n = 0 /\ Len(recs) = 1
      BY <1>1, <1>2, <2>1, EmptySeq
    <3> QED
      BY <2>1, <3>1 DEF Anchored, EndsAt
  <2>2. CASE front # << >>
    <3>1. n \in 1..n /\ Len(recs) \in 2..Len(recs)
      BY <1>1, <1>2, <2>2, EmptySeq
    <3> QED
      BY <1>2, <2>2, <3>1 DEF Sound, Linked, EndsAt
  <2> QED
    BY <2>1, <2>2
<1> QED
  BY <1>2, <1>3, <1>5, <1>6, <1>7

\* What store and journal hold misses no ancestor.
LEMMA KnownIsClosed ==
    ASSUME NEW par, NEW g \in Graphs, Closed(par, g), Active(g),
           NEW recs \in Seq(Records), Sound(par, g, recs), NEW n, Anchored(g, recs, n)
    PROVE  /\ KnownIn(g, recs) \subseteq Commits
           /\ \A c \in KnownIn(g, recs) : par[c] \in KnownIn(g, recs) \cup {NoCommit}
           /\ EndsAt(g, recs) \in KnownIn(g, recs) \cup {NoCommit}
           /\ \A i \in 1..Len(recs) : recs[i].target \in KnownIn(g, recs) \cup {NoCommit}
<1>1. Len(recs) \in Nat /\ g.commits \subseteq Commits
  BY LenProperties DEF Graphs
<1>2. ActiveHead(g) \in g.commits \cup {NoCommit}
  BY HeadsStayClosed
<1>3. ASSUME NEW i \in 1..Len(recs)
      PROVE  recs[i].target \in KnownIn(g, recs) \cup {NoCommit}
  <2>1. CASE recs[i].kind = "EditCommit"
    BY <2>1 DEF EditTargets, KnownIn
  <2>2. CASE recs[i].kind # "EditCommit"
    <3>1. recs[i].target \in {NoCommit} \cup g.commits \cup EditTargets(SubSeq(recs, 1, i - 1))
      BY <2>2 DEF Sound, Valid
    <3>2. EditTargets(SubSeq(recs, 1, i - 1)) \subseteq EditTargets(recs)
      BY <1>1, i - 1 \in 0..Len(recs), EditTargetsOfPrefix
    <3> QED
      BY <3>1, <3>2 DEF KnownIn
  <2> QED
    BY <2>1, <2>2
<1>4. ASSUME NEW c \in EditTargets(recs)
      PROVE  c \in Commits /\ par[c] \in KnownIn(g, recs) \cup {NoCommit}
  <2>1. PICK i \in 1..Len(recs) : recs[i].kind = "EditCommit" /\ c = recs[i].target
    BY DEF EditTargets
  <2>2. c \in Commits /\ par[c] = recs[i].source
    BY <2>1 DEF Sound, Valid
  <2>3. CASE i = 1
    <3>1. recs # << >>
      BY <1>1, EmptySeq
    <3>2. CASE recs[1].source = ActiveHead(g)
      BY <1>2, <2>2, <2>3, <3>2 DEF KnownIn
    <3>3. CASE \E k \in 1..n : CoversPrefix(g, recs, k)
      <4>1. c \in {NoCommit} \cup g.commits
        BY <2>1, <2>3, <3>3 DEF CoversPrefix
      <4>2. c \in g.commits
        BY <2>2, <4>1 DEF Commits, NoCommit
      <4> QED
        BY <2>2, <4>2 DEF Closed, ClosedUnderParents, KnownIn
    <3> QED
      BY <3>1, <3>2, <3>3 DEF Anchored
  <2>4. CASE i # 1
    <3>1. i \in 2..Len(recs) /\ i - 1 \in 1..Len(recs)
      BY <1>1, <2>4
    <3>2. recs[i].source = recs[i - 1].target
      BY <3>1 DEF Sound, Linked
    <3> QED
      BY <1>3, <2>2, <3>1, <3>2
  <2> QED
    BY <2>3, <2>4
<1>5. EndsAt(g, recs) \in KnownIn(g, recs) \cup {NoCommit}
  <2>1. recs # << >> => Len(recs) \in 1..Len(recs)
    BY <1>1, EmptySeq
  <2> QED
    BY <1>2, <1>3, <2>1 DEF EndsAt, KnownIn
<1> QED
  BY <1>1, <1>3, <1>4, <1>5 DEF Closed, ClosedUnderParents, KnownIn

----------------------------------------------------------------------------
\* File, rows and memory of undamaged files.

\* A command whose record is in the journal and may still be revoked.
Pending == op.kind \in {"Edit", "HeadMove"}

\* The records that stay whatever becomes of the command under way.
Settled == IF Pending THEN Len(wal.recs) - 1 ELSE Len(wal.recs)

\* The journal can be replayed, with its last record or without it.
FileFits ==
    /\ ~wal.torn
    /\ Sound(parent, db, wal.recs)
    /\ Anchored(db, wal.recs, Settled)

\* The record of the command under way is the last one, and what the command
\* goes back to is known without it.
PendingFitsFile ==
    Pending =>
        /\ wal.recs # << >> /\ op.source = wal.recs[Len(wal.recs)].source
        /\ \A i \in 1..Len(op.redo) : op.redo[i] \in KnownIn(db, Front(wal.recs))
        /\ op.kind = "Edit" => \A i \in 1..(Len(wal.recs) - 1) : wal.recs[i].target # created

\* Memory holds the journal until the save has cleared the file, and its head
\* is where rows and journal end.
MemoryFits ==
    Loaded =>
        /\ wal.recs = journal \/ (wal.recs = << >> /\ save.stage = "Done")
        /\ EndsAt(db, wal.recs) = WorkingHead
        /\ \A i \in 1..Len(wal.recs) : wal.recs[i].target \in graph.commits \cup {NoCommit}
        /\ \A i \in 1..Len(redo) : redo[i] \in KnownIn(db, wal.recs)
        /\ save.stage \in {"Written", "Done"} \/ session = "Recovered" =>
              graph.commits \subseteq db.commits /\ ActiveHead(db) = WorkingHead
        /\ session = "Recovered" => redo = << >>

RecoveryFits == damage = {} => FileFits /\ MemoryFits /\ PendingFitsFile

RecoveryInv == GraphInv /\ RecoveryFits

\* Damage is never taken back.
LEMMA DamageGrows == [Next]_vars => damage \subseteq damage'
<1> SUFFICES ASSUME [Next]_vars PROVE damage \subseteq damage'
  OBVIOUS
<1> USE DEF Harm
<1>1. CASE Command \/ CommandStep
  BY <1>1
  DEF Command, CommandStep, PublishPreparedEdit, Undo, UndoTo, Redo, MoveHeadToCommit,
      MoveTo, MoveBackwardTo, MoveForwardTo, PublishPreparedHeadMove, Discard,
      RemoveVersion, SaveAndContinue, StartSave, SaveCannotStart, CloseDiscarding,
      ReleaseDiscarding, Acknowledge, Abandon, RevokeLastRecord, AppendFails, TearAppend,
      DiscardMove, DiscardStops, DiscardFinish
<1>2. CASE Worker \/ Completion \/ AfterFailure
  BY <1>2
  DEF Worker, WriteDatabase, ClearEntireJournal, SaveFails, WorkerUnchanged,
      Completion, OnCheckpointDone, OnCheckpointFailed,
      AfterFailure, RetrySaveAfterFailure, StartSave, CancelPendingNavigation,
      DiscardAndContinueAfterFailure, ReleaseDiscarding
<1>3. CASE Open \/ Crash \/ CollectUnreachableEditCommits
  BY <1>3
  DEF Open, RecoverRejects, IsolateJournal, RecoverAccepts, RecoverCannotClear,
      AcquireRejects, AcquireWorkingState, FinishAcquire, Crash,
      CollectUnreachableEditCommits
<1> QED
  BY <1>1, <1>2, <1>3 DEF Next, vars

\* Only a loaded image has a command or a save under way.
LEMMA ClosedIsIdle ==
    ASSUME GraphInv
    PROVE  /\ ~Loaded => /\ op = NoOp /\ ~Pending /\ save.stage = "None" /\ redo = << >>
                         /\ graph = EmptyGraph
           /\ save.stage # "None" => session = "Saving" /\ Loaded /\ op = NoOp /\ ~Pending
           /\ Pending => session = "Interactive" /\ Loaded /\ save.stage = "None"
           /\ session = "Recovered" => op = NoOp /\ ~Pending /\ save.stage = "None"
<1>1. NoOp.kind = "None"
  BY DEF NoOp
<1> QED
  BY <1>1
  DEF GraphInv, GraphsFit, MemoryClosed, SequenceInv, DurableInv, SaveFreezesGraph,
      Loaded, Pending

\* Steps that leave file, rows, head and commits as they are, and steps that
\* close the image and leave file and rows as they are.
LEMMA QuietKeepsRecovery ==
    ASSUME RecoveryInv, damage \subseteq damage',
           UNCHANGED <<created, parent, wal, db>>,
           op' = op \/ ~Pending',
           Pending' => Loaded,
           Loaded' => /\ Loaded /\ UNCHANGED <<journal, redo>>
                      /\ WorkingHead' = WorkingHead /\ graph'.commits = graph.commits
                      /\ \/ save'.stage = save.stage
                         \/ /\ save.stage # "Done"
                            /\ save'.stage \notin {"Written", "Done"}
                      /\ session' = "Recovered" => session = "Recovered"
    PROVE  RecoveryFits'
<1> SUFFICES ASSUME damage' = {} PROVE FileFits' /\ MemoryFits' /\ PendingFitsFile'
  BY DEF RecoveryFits
<1> USE DEF RecoveryInv, RecoveryFits
<1>1. damage = {}
  OBVIOUS
<1>2. FileFits'
  <2>1. Settled \in Int /\ Settled' \in Int /\ (Settled <= Settled')
    BY LenProperties
    DEF Settled, Pending, GraphInv, SequenceInv, DurableInv, TypeOK, Wals
  <2>2. Anchored(db, wal.recs, Settled')
    BY <1>1, <2>1, AnchoredFurther DEF FileFits
  <2> QED
    BY <1>1, <2>2 DEF FileFits, Sound, Anchored, Valid
<1>3. MemoryFits'
  BY <1>1 DEF MemoryFits
<1>4. PendingFitsFile'
  BY <1>1 DEF PendingFitsFile, Pending
<1> QED
  BY <1>2, <1>3, <1>4

\* Steps that empty the journal.
LEMMA EmptyFileFits ==
    ASSUME wal' = EmptyWal, ~Pending',
           Loaded' => /\ journal' = << >> \/ save'.stage = "Done"
                      /\ ActiveHead(db') = WorkingHead'
                      /\ \A i \in 1..Len(redo') : redo'[i] \in db'.commits
                      /\ save'.stage \in {"Written", "Done"} => graph'.commits \subseteq db'.commits
                      /\ session' # "Recovered"
    PROVE  RecoveryFits'
<1>1. wal'.recs = << >> /\ ~wal'.torn
  BY DEF EmptyWal
<1>2. FileFits'
  BY <1>1, EmptyJournalFits DEF FileFits
<1>3. MemoryFits'
  <2>1. /\ EndsAt(db', wal'.recs) = ActiveHead(db') /\ KnownIn(db', wal'.recs) = db'.commits
        /\ Len(wal'.recs) = 0
    BY <1>1, EmptyJournalFits, EmptySeq
  <2> QED
    BY <1>1, <2>1 DEF MemoryFits
<1> QED
  BY <1>2, <1>3 DEF RecoveryFits, PendingFitsFile

\* Steps that write the whole working graph into the rows.
LEMMA StoringFits ==
    ASSUME UNCHANGED parent, wal'.recs \in Seq(Records), ~wal'.torn,
           Sound(parent, db, wal'.recs), ~Pending',
           db.commits \cup graph'.commits \subseteq db'.commits,
           ActiveHead(db') = WorkingHead',
           EndsAt(db, wal'.recs) = WorkingHead',
           \A i \in 1..Len(wal'.recs) : wal'.recs[i].target \in graph'.commits \cup {NoCommit},
           journal' = wal'.recs,
           \A i \in 1..Len(redo') : redo'[i] \in KnownIn(db, wal'.recs),
           session' = "Recovered" => redo' = << >>
    PROVE  RecoveryFits'
<1>1. Sound(parent, db', wal'.recs)
  BY SoundInLarger
<1>2. Anchored(db', wal'.recs, Len(wal'.recs))
  BY StoredIsAnchored DEF EndsAt
<1>3. FileFits'
  BY <1>1, <1>2 DEF FileFits, Settled
<1>4. EndsAt(db', wal'.recs) = WorkingHead' /\ KnownIn(db, wal'.recs) \subseteq KnownIn(db', wal'.recs)
  BY DEF EndsAt, KnownIn
<1>5. MemoryFits'
  BY <1>4 DEF MemoryFits
<1> QED
  BY <1>3, <1>5 DEF RecoveryFits, PendingFitsFile

\* What rows and journal of an undamaged open image hold carries its head and
\* its redo suffix.
LEMMA KnownCarries ==
    ASSUME RecoveryInv, damage = {}, Loaded
    PROVE  Carries(KnownIn(db, wal.recs))
<1> USE DEF RecoveryInv, RecoveryFits, FileFits, MemoryFits, GraphInv, GraphsFit, SequenceInv,
            DurableInv
<1>1. db \in Graphs /\ wal.recs \in Seq(Records) /\ Closed(parent, db) /\ Active(db)
  BY DEF StoredClosed, TypeOK, Wals
<1> QED
  BY <1>1, KnownIsClosed DEF Carries

\* A command's record reaches file and memory alike
\* (mini_git_working_history.cpp:192-226).
LEMMA AppendKeepsRecovery ==
    ASSUME RecoveryInv, damage \subseteq damage', session = "Interactive", ~Pending,
           NEW kind \in RecordKinds, NEW target \in Heads, AppendRecord(kind, target),
           UNCHANGED <<db, save, session>>, Pending',
           damage = {} => Sound(parent', db, wal.recs),
           damage = {} => IF kind = "EditCommit"
                          THEN target \in Commits /\ parent'[target] = WorkingHead
                          ELSE target \in KnownIn(db, wal.recs) \cup {NoCommit},
           graph.commits \subseteq graph'.commits, target \in graph'.commits \cup {NoCommit},
           WorkingHead' = target, op'.source = WorkingHead, op'.redo = redo,
           op'.kind = "Edit" => \A i \in 1..Len(wal.recs) : wal.recs[i].target # created',
           damage = {} => \A i \in 1..Len(redo') : redo'[i] \in KnownIn(db, wal.recs)
    PROVE  RecoveryFits'
<1> SUFFICES ASSUME damage' = {} PROVE FileFits' /\ MemoryFits' /\ PendingFitsFile'
  BY DEF RecoveryFits
<1>1. damage = {} /\ Loaded /\ Loaded' /\ save.stage = "None" /\ save'.stage = "None"
      /\ session' # "Recovered"
  BY ClosedIsIdle DEF Loaded, RecoveryInv
<1> DEFINE record == [seq |-> nextSeq, kind |-> kind, source |-> WorkingHead, target |-> target]
           more == Append(wal.recs, record)
<1>2. /\ wal.recs \in Seq(Records) /\ ~wal.torn /\ Anchored(db, wal.recs, Len(wal.recs))
      /\ EndsAt(db, wal.recs) = WorkingHead /\ wal.recs = journal
      /\ \A i \in 1..Len(wal.recs) : wal.recs[i].target \in graph.commits \cup {NoCommit}
      /\ \A i \in 1..Len(redo) : redo[i] \in KnownIn(db, wal.recs)
  BY <1>1
  DEF RecoveryInv, RecoveryFits, GraphInv, SequenceInv, DurableInv, FileFits, MemoryFits,
      Settled, TypeOK, Wals
<1>3. record \in Records
  BY GraphOperations
  DEF RecoveryInv, GraphInv, SequenceInv, DurableInv, TypeOK, Records, WorkingHead
<1>4. wal'.recs = more /\ journal' = more /\ ~wal'.torn
  BY <1>2
  DEF AppendRecord, RecoveryInv, GraphInv, SequenceInv, DurableInv, TypeOK, Wals
<1>5. record.kind = kind /\ record.source = WorkingHead /\ record.target = target
  OBVIOUS
<1> HIDE DEF record
<1>6. /\ more \in Seq(Records) /\ more # << >>
      /\ Len(more) = Len(wal.recs) + 1 /\ Len(wal.recs) \in Nat
      /\ \A i \in 1..Len(wal.recs) : more[i] = wal.recs[i]
      /\ more[Len(more)] = record
      /\ Sound(parent', db, more) /\ Anchored(db, more, Len(more) - 1)
      /\ EndsAt(db, more) = target
      /\ KnownIn(db, wal.recs) \subseteq KnownIn(db, more)
  BY <1>1, <1>2, <1>3, <1>5, AppendStaysSound
<1>7. Front(more) = wal.recs
  <2>1. /\ SubSeq(more, 1, Len(wal.recs)) \in Seq(Records)
        /\ Len(SubSeq(more, 1, Len(wal.recs))) = Len(wal.recs)
        /\ \A i \in 1..Len(wal.recs) : SubSeq(more, 1, Len(wal.recs))[i] = wal.recs[i]
    BY <1>6, PrefixAt, Len(wal.recs) \in 0..Len(more)
  <2>2. SubSeq(more, 1, Len(wal.recs)) = wal.recs
    BY <1>2, <2>1, SeqEqual
  <2>3. Len(more) - 1 = Len(wal.recs)
    BY <1>6
  <2> QED
    BY <2>2, <2>3 DEF Front
<1> HIDE DEF more
<1>8. FileFits'
  BY <1>4, <1>6 DEF FileFits, Settled
<1>9. MemoryFits'
  <2>1. \A i \in 1..Len(more) : more[i].target \in graph'.commits \cup {NoCommit}
    <3>1. \A i \in 1..Len(more) : i \in 1..Len(wal.recs) \/ i = Len(more)
      BY <1>6
    <3> QED
      BY <1>2, <1>5, <1>6, <3>1
  <2> QED
    BY <1>1, <1>4, <1>6, <2>1 DEF MemoryFits
<1>10. PendingFitsFile'
  <2>1. Len(more) - 1 = Len(wal.recs)
    BY <1>6
  <2> QED
    BY <1>2, <1>4, <1>5, <1>6, <1>7, <2>1 DEF PendingFitsFile
<1> QED
  BY <1>8, <1>9, <1>10

\* An edit (mini_git_working_history.cpp:475-546).
LEMMA EditKeepsRecovery ==
    ASSUME RecoveryInv, PublishPreparedEdit
    PROVE  RecoveryFits'
<1> DEFINE c == created + 1
<1>1. /\ session = "Interactive" /\ ~Pending /\ created \in Nat /\ c \in Commits /\ c \in Heads
      /\ graph \in Graphs /\ parent \in [Commits -> Heads] /\ wal.recs \in Seq(Records)
  BY GraphAssumption
  DEF PublishPreparedEdit, Ready, Pending, NoOp, RecoveryInv, GraphInv, SequenceInv,
      DurableInv, TypeOK, Wals, Commits, Heads
<1>2. /\ created' = c /\ parent' = [parent EXCEPT ![c] = WorkingHead] /\ redo' = << >>
      /\ AppendRecord("EditCommit", c)
      /\ graph' = MoveWorkingHead(InsertCommit(graph, c), c)
      /\ op'.kind = "Edit" /\ op'.source = WorkingHead /\ op'.redo = redo
      /\ UNCHANGED <<db, save, session, damage>>
  BY DEF PublishPreparedEdit
<1>3. graph'.commits = graph.commits \cup {c} /\ WorkingHead' = c
  BY <1>1, <1>2 DEF MoveWorkingHead, InsertCommit, Graphs, ActiveHead, WorkingHead
<1>4. \A i \in 1..Len(wal.recs) : wal.recs[i].target # c
  <2>1. \A i \in 1..Len(wal.recs) : wal.recs[i].target \in Nat
    BY <1>1, RecordAt, GraphAssumption DEF Heads
  <2> QED
    BY <1>1, <2>1 DEF RecoveryInv, GraphInv, GraphsFit, Numbered, TargetsUpTo
<1> HIDE DEF c
<1>5. damage = {} => Sound(parent', db, wal.recs)
  <2>1. ASSUME damage = {}, NEW t \in EditTargets(wal.recs) PROVE parent'[t] = parent[t]
    <3>1. PICK i \in 1..Len(wal.recs) : wal.recs[i].kind = "EditCommit" /\ t = wal.recs[i].target
      BY DEF EditTargets
    <3>2. t \in Commits /\ t # c
      BY <1>4, <2>1, <3>1 DEF RecoveryInv, RecoveryFits, FileFits, Sound, Valid
    <3> QED
      BY <1>1, <1>2, <3>2
  <2>2. damage = {} => Sound(parent, db, wal.recs)
    BY DEF RecoveryInv, RecoveryFits, FileFits
  <2> QED
    BY <1>1, <2>1, <2>2, SoundInLarger
<1>6. parent'[c] = WorkingHead
  BY <1>1, <1>2
<1>7. Pending' /\ "EditCommit" \in RecordKinds
  BY <1>2 DEF Pending, RecordKinds
<1>8. \A i \in 1..Len(redo') : FALSE
  BY <1>2, EmptySeq
<1> QED
  BY <1>1, <1>2, <1>3, <1>4, <1>5, <1>6, <1>7, <1>8, AppendKeepsRecovery

\* A head move, whichever command makes it (mini_git_working_history.cpp:740-780).
LEMMA HeadMoveKeepsRecovery ==
    ASSUME RecoveryInv, \/ Undo \/ Redo \/ MoveHeadToCommit \/ DiscardMove
    PROVE  RecoveryFits'
<1>1. PICK target, selection, discard :
         PublishPreparedHeadMove(target, selection, discard) /\ LeadsTo(target, selection)
  BY HeadMoveLeads
  DEF RecoveryInv, GraphInv, GraphsFit, SequenceInv, DurableInv, RedoContinuesHead
<1>2. session = "Interactive" /\ ~Pending /\ Loaded
  <2>1. op = NoOp \/ op.kind = "Discarding"
    BY HeadMoveSteps DEF RecoveryInv, GraphInv, SequenceInv, DurableInv
  <2>2. (op.kind = "Discarding" => op # NoOp) /\ NoOp.kind = "None"
    BY DEF NoOp
  <2>3. Ready \/ op # NoOp
    BY <2>1, <2>2 DEF Undo, Redo, MoveHeadToCommit, DiscardMove
  <2> QED
    BY <2>1, <2>2, <2>3, CommandOpen DEF Pending, RecoveryInv, GraphInv, SequenceInv
<1>3. /\ AppendRecord("HeadMove", target)
      /\ graph' = MoveWorkingHead(graph, target) /\ redo' = selection
      /\ op'.kind = "HeadMove" /\ op'.source = WorkingHead /\ op'.redo = redo
      /\ UNCHANGED <<parent, db, save, session, damage>>
  BY <1>1 DEF PublishPreparedHeadMove
<1>4. target \in Heads /\ target \in graph.commits \cup {NoCommit}
  BY <1>1, GraphCarries DEF LeadsTo, RecoveryInv
<1>5. graph'.commits = graph.commits /\ WorkingHead' = target
  BY <1>3, <1>4
  DEF RecoveryInv, GraphInv, SequenceInv, DurableInv, TypeOK, MoveWorkingHead, Graphs,
      ActiveHead, WorkingHead
<1>6. damage = {} => /\ target \in KnownIn(db, wal.recs) \cup {NoCommit}
                     /\ \A i \in 1..Len(redo') : redo'[i] \in KnownIn(db, wal.recs)
  BY <1>1, <1>2, <1>3, KnownCarries DEF LeadsTo
<1>7. damage = {} => Sound(parent', db, wal.recs)
  BY <1>3 DEF RecoveryInv, RecoveryFits, FileFits, Sound, Valid
<1>8. Pending' /\ "HeadMove" \in RecordKinds
  BY <1>3 DEF Pending, RecordKinds
<1> QED
  BY <1>2, <1>3, <1>4, <1>5, <1>6, <1>7, <1>8, AppendKeepsRecovery

\* An abandoned command takes its record back (mini_git_working_history.cpp:
\* 243-284, 548-621, 782-827).
LEMMA AbandonKeepsRecovery ==
    ASSUME RecoveryInv, Abandon
    PROVE  RecoveryFits'
<1> SUFFICES ASSUME damage' = {} PROVE FileFits' /\ MemoryFits' /\ PendingFitsFile'
  BY DEF RecoveryFits
<1> DEFINE recs == wal.recs
           front == Front(recs)
           back == MoveWorkingHead(graph, op.source)
<1>1. /\ op.kind \in {"Edit", "HeadMove"}
      /\ graph' = IF op.kind = "Edit"
                  THEN EraseUnreachable(parent, back, {WorkingHead}) ELSE back
      /\ redo' = op.redo /\ op' = NoOp /\ RevokeLastRecord
      /\ UNCHANGED <<created, parent, recovery, save, session, db>>
  BY DEF Abandon
<1>2. /\ Pending /\ Loaded /\ Loaded' /\ save.stage = "None" /\ session' = "Interactive"
      /\ ~Pending'
  BY <1>1, ClosedIsIdle DEF Pending, NoOp, Loaded, RecoveryInv
<1>3. damage = {} /\ wal'.recs = Front(journal) /\ ~wal'.torn /\ journal' = Front(journal)
  BY <1>1, ClosedIsIdle DEF RevokeLastRecord, Harm
<1>4. /\ graph \in Graphs /\ db \in Graphs /\ recs \in Seq(Records) /\ op.source \in Heads
      /\ created \in Nat
  BY DEF RecoveryInv, GraphInv, SequenceInv, DurableInv, TypeOK, Wals, Ops
<1>5. /\ recs = journal /\ recs # << >> /\ Sound(parent, db, recs)
      /\ Anchored(db, recs, Len(recs) - 1)
      /\ op.source = recs[Len(recs)].source
      /\ \A i \in 1..Len(recs) : recs[i].target \in graph.commits \cup {NoCommit}
      /\ \A i \in 1..Len(op.redo) : op.redo[i] \in KnownIn(db, front)
      /\ op.kind = "Edit" => /\ \A i \in 1..(Len(recs) - 1) : recs[i].target # created
                             /\ WorkingHead = created
  BY <1>2, <1>3
  DEF RecoveryInv, RecoveryFits, FileFits, MemoryFits, PendingFitsFile, Settled,
      GraphInv, GraphsFit, Numbered
<1> HIDE DEF recs
<1>6. /\ front \in Seq(Records) /\ Len(front) = Len(recs) - 1
      /\ \A i \in 1..(Len(recs) - 1) : front[i] = recs[i]
      /\ Sound(parent, db, front) /\ Anchored(db, front, Len(front))
      /\ EndsAt(db, front) = op.source
  <2>1. /\ db \in Graphs /\ recs \in Seq(Records) /\ recs # << >> /\ Sound(parent, db, recs)
        /\ Anchored(db, recs, Len(recs) - 1) /\ op.source = recs[Len(recs)].source
    BY <1>4, <1>5
  <2>2. /\ Front(recs) \in Seq(Records) /\ Len(Front(recs)) = Len(recs) - 1
        /\ \A i \in 1..(Len(recs) - 1) : Front(recs)[i] = recs[i]
        /\ Sound(parent, db, Front(recs)) /\ Anchored(db, Front(recs), Len(Front(recs)))
        /\ EndsAt(db, Front(recs)) = recs[Len(recs)].source
    BY <2>1, FrontStaysSound, ZenonT(60)
  <2> QED
    BY <2>1, <2>2
<1>7. /\ WorkingHead' = op.source
      /\ \A c \in graph.commits : op.kind = "Edit" => c \in graph'.commits \cup {WorkingHead}
      /\ op.kind # "Edit" => graph.commits \subseteq graph'.commits
  <2>1. back.commits = graph.commits /\ ActiveHead(back) = op.source /\ back \in Graphs
    BY <1>4, GraphOperations, ZenonT(60) DEF MoveWorkingHead, Graphs, ActiveHead
  <2> HIDE DEF back
  <2> QED
    BY <1>1, <2>1, ZenonT(60) DEF EraseUnreachable, Graphs, ActiveHead, WorkingHead
<1> HIDE DEF front
<1>8. wal'.recs = front /\ journal' = front
  BY <1>3, <1>5 DEF front, recs
<1> HIDE DEF back
<1>9. Len(recs) \in Nat /\ \A i \in 1..(Len(recs) - 1) : i \in 1..Len(recs)
  BY <1>4, LenProperties
<1>10. FileFits'
  BY <1>1, <1>2, <1>3, <1>6, <1>8 DEF FileFits, Settled
<1>11. MemoryFits'
  <2>1. \A i \in 1..Len(front) : front[i].target \in graph'.commits \cup {NoCommit}
    BY <1>5, <1>6, <1>7, <1>9
  <2> QED
    BY <1>1, <1>2, <1>5, <1>6, <1>7, <1>8, <2>1 DEF MemoryFits
<1> QED
  BY <1>2, <1>10, <1>11 DEF PendingFitsFile

\* Ends of commands, and discards.
LEMMA CommandEndsKeepRecovery ==
    ASSUME RecoveryInv, damage \subseteq damage',
           Acknowledge \/ AppendFails \/ Discard \/ DiscardStops \/ DiscardFinish
    PROVE  RecoveryFits'
<1>1. /\ NoOp.kind = "None" /\ Discarding.kind = "Discarding"
  BY DEF NoOp, Discarding
<1>2. CASE Acknowledge \/ Discard \/ DiscardStops
  <2>1. /\ UNCHANGED <<created, parent, graph, redo, journal, save, session, wal, db>>
        /\ ~Pending'
    BY <1>1, <1>2 DEF Acknowledge, Discard, DiscardStops, Pending
  <2> QED
    BY <2>1, QuietKeepsRecovery DEF Loaded, WorkingHead
<1>3. CASE AppendFails
  <2>1. "TornWal" \in damage'
    BY <1>3 DEF AppendFails, TearAppend, Harm
  <2> QED
    BY <2>1 DEF RecoveryFits
<1>4. CASE DiscardFinish
  <2> SUFFICES ASSUME damage' = {} PROVE RecoveryFits'
    BY DEF RecoveryFits
  <2>1. /\ op.kind = "Discarding" /\ WorkingHead = graph.mat /\ op' = NoOp /\ journal' = << >>
        /\ UNCHANGED <<created, parent, graph, save, session, db>>
    BY <1>4 DEF DiscardFinish, TruncateMaterialized, HasUnmaterializedChanges
  <2>2. session = "Interactive" /\ Loaded /\ save.stage = "None" /\ ~Pending'
    BY <1>1, <2>1, CommandOpen DEF RecoveryInv, GraphInv, SequenceInv, Pending
  <2>3. /\ wal' = EmptyWal /\ ActiveHead(db) = WorkingHead
        /\ \A i \in 1..Len(redo') : redo'[i] \in db.commits
    <3>1. CASE redo' = << >> /\ wal' = EmptyWal /\ Harm(StaleDiscard)
      <4>1. db.mat = graph.mat
        BY <3>1 DEF Harm, StaleDiscard
      <4> QED
        BY <2>1, <3>1, <4>1, EmptySeq
        DEF RecoveryInv, GraphInv, GraphsFit, StoredClosed
    <3>2. CASE UNCHANGED <<wal, redo>> /\ Harm(IF wal = EmptyWal THEN {} ELSE {"DiscardKept"})
      <4>1. wal = EmptyWal /\ wal.recs = << >> /\ damage = {}
        BY <3>2 DEF Harm, EmptyWal
      <4>2. EndsAt(db, << >>) = ActiveHead(db) /\ KnownIn(db, << >>) = db.commits
        BY EmptyJournalFits
      <4> QED
        BY <2>2, <3>2, <4>1, <4>2 DEF RecoveryInv, RecoveryFits, MemoryFits
    <3> QED
      BY <1>4, <3>1, <3>2 DEF DiscardFinish, TruncateMaterialized
  <2> QED
    BY <2>1, <2>2, <2>3, EmptyFileFits DEF Loaded, WorkingHead
<1> QED
  BY <1>2, <1>3, <1>4

\* The steps of a save before its completion is reduced.
LEMMA SaveKeepsRecovery ==
    ASSUME RecoveryInv, damage \subseteq damage',
           \/ SaveAndContinue \/ RetrySaveAfterFailure \/ SaveCannotStart \/ RemoveVersion
           \/ Worker \/ OnCheckpointFailed \/ CancelPendingNavigation
    PROVE  RecoveryFits'
<1> USE DEF RecoveryInv
<1>1. graph \in Graphs /\ db \in Graphs /\ wal \in Wals /\ wal.recs \in Seq(Records)
  BY DEF GraphInv, SequenceInv, DurableInv, TypeOK, Wals
<1>2. Ready => op = NoOp /\ ~Pending
  BY DEF Ready, Pending, NoOp
<1>3. CASE SaveAndContinue \/ RetrySaveAfterFailure \/ SaveCannotStart
  <2>1. /\ UNCHANGED <<created, parent, graph, redo, journal, op, wal, db>>
        /\ save' = save \/ save'.stage = "Captured"
        /\ session' # "Recovered" /\ Loaded /\ save.stage = "None"
    BY <1>3, ClosedIsIdle
    DEF SaveAndContinue, RetrySaveAfterFailure, SaveCannotStart, StartSave, Capture, Ready,
        Loaded
  <2> QED
    BY <2>1, QuietKeepsRecovery DEF WorkingHead, Pending
<1>4. CASE RemoveVersion
  <2>1. PICK v \in graph.refs \ {graph.active} : graph' = RemoveVersionRef(graph, v)
    BY <1>4 DEF RemoveVersion
  <2>2. /\ UNCHANGED <<created, parent, redo, journal, op, wal, db>>
        /\ save'.stage = "Captured"
        /\ session' # "Recovered" /\ Loaded /\ save.stage = "None"
    <3>1. Capture(Stay).stage = "Captured" /\ DOMAIN Capture(Stay) = {"stage", "capture", "last", "next"}
      BY DEF Capture
    <3> QED
      BY <1>4, <3>1, ClosedIsIdle DEF RemoveVersion, Ready, Loaded
  <2>3. graph'.commits = graph.commits /\ WorkingHead' = WorkingHead
    BY <1>1, <2>1 DEF RemoveVersionRef, Graphs, ActiveHead, WorkingHead
  <2> QED
    BY <2>2, <2>3, QuietKeepsRecovery DEF Pending
<1>5. CASE WriteDatabase
  <2> SUFFICES ASSUME damage' = {} PROVE RecoveryFits'
    BY DEF RecoveryFits
  <2>1. /\ save.stage = "Captured" /\ db' = StoreMaterialization(db, save.capture)
        /\ save'.stage = "Written" /\ save.capture = MaterializeActiveHead(graph)
        /\ UNCHANGED <<created, parent, graph, redo, journal, op, session, wal, damage>>
    BY <1>5
    DEF WriteDatabase, WorkerUnchanged, GraphInv, SequenceInv, DurableInv, TypeOK, Saves,
        SaveFreezesGraph
  <2>2. session = "Saving" /\ Loaded /\ op = NoOp /\ ~Pending
    BY <2>1, ClosedIsIdle
  <2>3. db'.commits = db.commits \cup graph.commits /\ ActiveHead(db') = WorkingHead
    BY <1>1, <2>1
    DEF StoreMaterialization, MaterializeActiveHead, Graphs, ActiveHead, WorkingHead
  <2>4. /\ FileFits /\ wal.recs = journal /\ EndsAt(db, wal.recs) = WorkingHead
        /\ \A i \in 1..Len(wal.recs) : wal.recs[i].target \in graph.commits \cup {NoCommit}
        /\ \A i \in 1..Len(redo) : redo[i] \in KnownIn(db, wal.recs)
    BY <2>1, <2>2 DEF RecoveryFits, MemoryFits
  <2> QED
    BY <1>1, <2>1, <2>2, <2>3, <2>4, StoringFits DEF FileFits, WorkingHead, Pending
<1>6. CASE ClearEntireJournal
  <2> SUFFICES ASSUME damage' = {} PROVE RecoveryFits'
    BY DEF RecoveryFits
  <2>1. /\ save.stage = "Written" /\ save'.stage = "Done" /\ wal' = EmptyWal
        /\ UNCHANGED <<created, parent, graph, redo, journal, op, session, db, damage>>
    BY <1>6
    DEF ClearEntireJournal, WorkerUnchanged, GraphInv, SequenceInv, DurableInv, TypeOK, Saves
  <2>2. session = "Saving" /\ Loaded /\ op = NoOp /\ ~Pending
    BY <2>1, ClosedIsIdle
  <2>3. graph.commits \subseteq db.commits /\ ActiveHead(db) = WorkingHead
    BY <2>1, <2>2 DEF RecoveryFits, MemoryFits
  <2>4. \A i \in 1..Len(redo) : redo[i] \in graph.commits
    BY DEF GraphInv, GraphsFit, RedoContinuesHead
  <2> QED
    BY <2>1, <2>2, <2>3, <2>4, EmptyFileFits DEF Pending, WorkingHead
<1>7. CASE SaveFails \/ OnCheckpointFailed
  <2>1. /\ UNCHANGED <<created, parent, graph, redo, journal, op, wal, db>>
        /\ save'.stage \in {"Failed", "None"} /\ save.stage \notin {"Done"}
        /\ session' # "Recovered" /\ Loaded
    <3>1. save.stage # "None" /\ save.stage # "Done"
      BY <1>7 DEF SaveFails, OnCheckpointFailed
    <3> QED
      BY <1>7, <3>1, ClosedIsIdle
      DEF SaveFails, OnCheckpointFailed, WorkerUnchanged, NoSave, GraphInv, SequenceInv,
          DurableInv, TypeOK, Saves
  <2> QED
    BY <2>1, QuietKeepsRecovery DEF WorkingHead, Pending
<1>8. CASE CancelPendingNavigation
  <2>1. /\ UNCHANGED <<created, parent, graph, redo, journal, op, save, wal, db>>
        /\ session' = "Interactive" /\ Loaded
    BY <1>8 DEF CancelPendingNavigation, Loaded
  <2> QED
    BY <2>1, QuietKeepsRecovery DEF WorkingHead, Pending
<1> QED
  BY <1>3, <1>4, <1>5, <1>6, <1>7, <1>8 DEF Worker

\* Rows, memory and an empty journal that agree stay so when the session
\* continues to a Version (mini_git_working_history.cpp:341-377).
LEMMA ContinueKeepsRecovery ==
    ASSUME RecoveryInv, TypeOK', Loaded, op = NoOp, UNCHANGED <<created, parent, op>>,
           NEW next, NEW g \in {graph, MaterializeActiveHead(graph)},
           ContinueToVersion(g, next), save'.stage = "None",
           wal' = EmptyWal, journal' = << >>,
           ActiveHead(db) = WorkingHead, \A i \in 1..Len(redo) : redo[i] \in db.commits
    PROVE  RecoveryFits'
<1>1. ~Pending' /\ session' \in {"Interactive", "RetainedImageFailure"} /\ Loaded'
  BY DEF Pending, NoOp, ContinueToVersion, Loaded
<1>2. graph \in Graphs /\ graph' \in Graphs
  BY DEF RecoveryInv, GraphInv, SequenceInv, DurableInv, TypeOK
<1>3. ActiveHead(db') = WorkingHead' /\ \A i \in 1..Len(redo') : redo'[i] \in db'.commits
  <2>1. CASE UNCHANGED <<redo, db>> /\ graph' = g
    <3>1. ActiveHead(g) = ActiveHead(graph)
      BY <1>2 DEF MaterializeActiveHead, Graphs, ActiveHead
    <3> QED
      BY <2>1, <3>1 DEF WorkingHead
  <2>2. CASE db' = StoreMaterialization(db, graph') /\ redo' = << >>
    <3>1. ActiveHead(db') = ActiveHead(graph')
      BY <1>2, <2>2 DEF StoreMaterialization, Graphs, ActiveHead
    <3> QED
      BY <2>2, <3>1, EmptySeq DEF WorkingHead
  <2> QED
    BY <2>1, <2>2 DEF ContinueToVersion
<1> QED
  BY <1>1, <1>3, EmptyFileFits

\* A completed save (editor_session_navigation_controller.cpp:297-389).
LEMMA DoneKeepsRecovery ==
    ASSUME RecoveryInv, TypeOK', damage \subseteq damage', OnCheckpointDone
    PROVE  RecoveryFits'
<1> SUFFICES ASSUME damage' = {} PROVE RecoveryFits'
  BY DEF RecoveryFits
<1>1. /\ wal' = EmptyWal /\ journal' = << >> /\ save' = NoSave
      /\ save.stage = "Done" /\ damage = {}
  BY DoneClears DEF OnCheckpointDone, RecoveryInv, GraphInv
<1>2. Loaded /\ op = NoOp /\ save'.stage = "None"
  BY <1>1, ClosedIsIdle DEF RecoveryInv, NoSave
<1>3. graph.commits \subseteq db.commits /\ ActiveHead(db) = WorkingHead
  BY <1>1, <1>2 DEF RecoveryInv, RecoveryFits, MemoryFits
<1>4. \A i \in 1..Len(redo) : redo[i] \in db.commits
  BY <1>3 DEF RecoveryInv, GraphInv, GraphsFit, RedoContinuesHead
<1>5. CASE save.next.kind = "Close"
  <2>1. session' = "NoImage" /\ op' = NoOp
    BY <1>5, <1>1 DEF OnCheckpointDone, ForgetMemory
  <2> QED
    BY <1>1, <2>1, EmptyFileFits DEF Pending, NoOp, Loaded
<1>6. CASE save.next.kind = "Stay"
  <2>1. /\ graph' = MaterializeActiveHead(graph) /\ session' = "Interactive"
        /\ UNCHANGED <<redo, db, op>>
    BY <1>1, <1>6 DEF OnCheckpointDone
  <2>2. WorkingHead' = WorkingHead
    BY <2>1
    DEF RecoveryInv, GraphInv, SequenceInv, DurableInv, TypeOK, MaterializeActiveHead,
        Graphs, ActiveHead, WorkingHead
  <2> QED
    BY <1>1, <1>2, <1>3, <1>4, <2>1, <2>2, EmptyFileFits DEF Pending, NoOp
<1>7. CASE save.next.kind \notin {"Close", "Stay"}
  <2>1. /\ ContinueToVersion(MaterializeActiveHead(graph), save.next)
        /\ UNCHANGED <<created, parent, op>>
    BY <1>1, <1>7 DEF OnCheckpointDone
  <2> QED
    BY <1>1, <1>2, <1>3, <1>4, <2>1, ContinueKeepsRecovery
<1> QED
  BY <1>5, <1>6, <1>7

\* The image is closed, and its journal cleared or left as it is.
LEMMA ClosingKeepsRecovery ==
    ASSUME RecoveryInv, damage \subseteq damage', ForgetMemory, ~Loaded',
           UNCHANGED <<created, parent, db>>, wal' \in {wal, EmptyWal}
    PROVE  RecoveryFits'
<1>1. ~Pending'
  BY DEF ForgetMemory, NoOp, Pending
<1> QED
  BY <1>1, QuietKeepsRecovery, EmptyFileFits

LEMMA AfterFailureKeepsRecovery ==
    ASSUME RecoveryInv, TypeOK', damage \subseteq damage',
           CloseDiscarding \/ DiscardAndContinueAfterFailure
    PROVE  RecoveryFits'
<1> SUFFICES ASSUME damage' = {} PROVE RecoveryFits'
  BY DEF RecoveryFits
<1>1. CASE ReleaseDiscarding
  <2>1. ~Loaded' /\ wal' \in {wal, EmptyWal}
    BY <1>1 DEF ReleaseDiscarding, Loaded
  <2> QED
    BY <1>1, <2>1, ClosingKeepsRecovery DEF ReleaseDiscarding
<1>2. CASE /\ DiscardAndContinueAfterFailure
           /\ ContinueToVersion(graph, recovery)
           /\ Harm(IF db' # db /\ wal # EmptyWal THEN {"VersionDiscard"} ELSE {})
           /\ UNCHANGED <<created, parent, journal, nextSeq, op, save, wal>>
  <2>1. /\ session = "RetainedImageFailure" /\ Loaded /\ damage = {}
        /\ session' \in {"Interactive", "RetainedImageFailure"}
    BY <1>2 DEF DiscardAndContinueAfterFailure, Loaded, ContinueToVersion
  <2>2. save.stage = "None" /\ op = NoOp /\ ~Pending
    BY <2>1, ClosedIsIdle
    DEF RecoveryInv, GraphInv, SequenceInv, DurableInv, SaveFreezesGraph, Pending, NoOp
  <2>3. CASE wal = EmptyWal
    <3>1. wal.recs = << >>
      BY <2>3 DEF EmptyWal
    <3>2. EndsAt(db, wal.recs) = ActiveHead(db) /\ KnownIn(db, wal.recs) = db.commits
      BY <3>1, EmptyJournalFits
    <3>3. /\ journal = << >> /\ ActiveHead(db) = WorkingHead
          /\ \A i \in 1..Len(redo) : redo[i] \in db.commits
      BY <2>1, <2>2, <3>1, <3>2 DEF RecoveryInv, RecoveryFits, MemoryFits
    <3> QED
      BY <1>2, <2>1, <2>2, <2>3, <3>3, ContinueKeepsRecovery
  <2>4. CASE wal # EmptyWal
    <3>1. db' = db
      BY <1>2, <2>4 DEF Harm
    <3>2. ~(graph' = MaterializeActiveHead(SwitchedGraph(graph, recovery))
             /\ db' = StoreMaterialization(db, graph') /\ recovery.version # graph.active)
      <4> SUFFICES ASSUME graph' = MaterializeActiveHead(SwitchedGraph(graph, recovery)),
                          db' = StoreMaterialization(db, graph'),
                          recovery.version # graph.active
                   PROVE  FALSE
        OBVIOUS
      <4>1. graph \in Graphs /\ graph' \in Graphs /\ recovery \in Targets
        BY DEF RecoveryInv, GraphInv, SequenceInv, DurableInv, TypeOK
      <4>2. db'.active = graph'.active
        BY <4>1 DEF StoreMaterialization, Graphs
      <4>3. graph'.active = recovery.version
        <5>1. \A h \in Graphs : MaterializeActiveHead(h).active = h.active
          BY DEF MaterializeActiveHead, Graphs
        <5>2. /\ SwitchedGraph(graph, recovery) \in Graphs
              /\ SwitchedGraph(graph, recovery).active = recovery.version
          <6> DEFINE made == IF recovery.kind = "Checkout" THEN graph
                             ELSE CreateVersionRefAtHead(graph, recovery.version, recovery.at)
          <6>1. made \in Graphs /\ recovery.version \in Versions
            BY <4>1, GraphOperations DEF Targets
          <6> HIDE DEF made
          <6>2. /\ SetActiveVersionId(made, recovery.version) \in Graphs
                /\ SetActiveVersionId(made, recovery.version).active = recovery.version
            BY <6>1 DEF SetActiveVersionId, Graphs
          <6> QED
            BY <6>2 DEF made, SwitchedGraph
        <5> QED
          BY <5>1, <5>2
      <4>4. db.active = graph.active
        BY <2>1 DEF RecoveryInv, GraphInv, GraphsFit, MemoryClosed
      <4> QED
        BY <3>1, <4>2, <4>3, <4>4
    <3>3. graph' = graph /\ UNCHANGED redo
      BY <1>2, <3>2 DEF ContinueToVersion
    <3> QED
      BY <1>2, <2>1, <2>2, <3>1, <3>3, QuietKeepsRecovery DEF WorkingHead, Pending
  <2> QED
    BY <2>3, <2>4
<1> QED
  BY <1>1, <1>2 DEF CloseDiscarding, DiscardAndContinueAfterFailure

\* Opening replays what the rows miss (mini_git_working_history.cpp:118-188,
\* editor_mini_git_materializer.cpp:128-248).
LEMMA AcquireKeepsRecovery ==
    ASSUME RecoveryInv, damage \subseteq damage', AcquireWorkingState
    PROVE  RecoveryFits'
<1> SUFFICES ASSUME damage' = {} PROVE RecoveryFits'
  BY DEF RecoveryFits
<1> DEFINE missing == MissingSuffix(db, wal.recs)
           replayed == Replay(db, missing)
<1>1. /\ UNCHANGED <<created, parent, redo, op, recovery, save, wal>>
      /\ Replayable(parent, db, missing) /\ journal' = wal.recs
      /\ session = "Acquiring" /\ ~Loaded /\ Loaded' /\ damage = {}
  BY DEF AcquireWorkingState, LoadJournal, Loaded
<1>2. redo = << >> /\ ~Pending /\ ~Pending' /\ save.stage = "None"
  BY <1>1, ClosedIsIdle DEF RecoveryInv, Pending
<1>3. /\ wal.recs \in Seq(Records) /\ missing \in Seq(Records) /\ db \in Graphs
      /\ Closed(parent, db) /\ Active(db)
  BY MissingSuffixType
  DEF RecoveryInv, GraphInv, GraphsFit, StoredClosed, SequenceInv, DurableInv, TypeOK, Wals
<1>4. ~wal.torn /\ Sound(parent, db, wal.recs) /\ Anchored(db, wal.recs, Len(wal.recs))
  BY <1>1, <1>2 DEF RecoveryInv, RecoveryFits, FileFits, Settled
<1>5. /\ ActiveHead(replayed) = EndsAt(db, wal.recs)
      /\ \A i \in 1..Len(wal.recs) : wal.recs[i].target \in replayed.commits \cup {NoCommit}
  BY <1>3, <1>4, SoundJournalReplays DEF EndsAt
<1>6. replayed \in Graphs
  BY <1>1, <1>3, ReplayType
<1>7. db.commits \subseteq replayed.commits
  BY <1>1, <1>3, ReplayStaysClosed
<1>8. \A i \in 1..Len(redo') : FALSE
  BY <1>1, <1>2, EmptySeq
<1> HIDE DEF replayed, missing
<1>9. CASE wal = EmptyWal /\ graph' = db /\ session' = "Interactive" /\ UNCHANGED db
  <2>1. wal.recs = << >>
    BY <1>9 DEF EmptyWal
  <2> QED
    BY <1>1, <1>2, <1>8, <1>9, <2>1, EmptyFileFits DEF WorkingHead
<1>10. CASE /\ graph' = MaterializeActiveHead(replayed)
            /\ db' = StoreMaterialization(db, graph')
  <2>1. /\ graph' \in Graphs /\ graph'.commits = replayed.commits
        /\ ActiveHead(graph') = ActiveHead(replayed)
    BY <1>6, <1>10, GraphOperations DEF MaterializeActiveHead, Graphs, ActiveHead
  <2>2. /\ db'.commits = db.commits \cup graph'.commits
        /\ ActiveHead(db') = ActiveHead(graph')
    BY <1>3, <1>10, <2>1 DEF StoreMaterialization, Graphs, ActiveHead
  <2> QED
    BY <1>1, <1>2, <1>3, <1>4, <1>5, <1>8, <2>1, <2>2, StoringFits DEF WorkingHead
<1>11. CASE graph' = replayed /\ session' = "Interactive" /\ UNCHANGED db
  <2>1. FileFits' /\ PendingFitsFile'
    BY <1>1, <1>2, <1>4, <1>11 DEF FileFits, PendingFitsFile, Settled
  <2>2. MemoryFits'
    BY <1>1, <1>2, <1>5, <1>8, <1>11 DEF MemoryFits, WorkingHead
  <2> QED
    BY <2>1, <2>2 DEF RecoveryFits
<1> QED
  BY <1>9, <1>10, <1>11 DEF AcquireWorkingState, replayed, missing

LEMMA OpenKeepsRecovery ==
    ASSUME RecoveryInv, damage \subseteq damage', Open
    PROVE  RecoveryFits'
<1>1. CASE RecoverRejects \/ AcquireRejects
  <2>1. ForgetMemory /\ ~Loaded' /\ UNCHANGED <<created, parent, db>> /\ wal' = EmptyWal
    BY <1>1 DEF RecoverRejects, AcquireRejects, IsolateJournal, Loaded
  <2> QED
    BY <2>1, ClosingKeepsRecovery
<1>2. CASE RecoverAccepts \/ RecoverCannotClear
  <2>1. /\ UNCHANGED <<created, parent, op, db>> /\ ~Loaded /\ ~Loaded'
        /\ wal' \in {wal, EmptyWal}
    BY <1>2 DEF RecoverAccepts, RecoverCannotClear, memory, Loaded
  <2>2. ~Pending /\ ~Pending'
    BY <2>1, ClosedIsIdle DEF RecoveryInv, Pending
  <2> QED
    BY <2>1, <2>2, QuietKeepsRecovery, EmptyFileFits
<1>3. CASE AcquireWorkingState
  BY <1>3, AcquireKeepsRecovery
<1>4. CASE FinishAcquire
  <2>1. CASE ForgetMemory /\ session' = "Failed" /\ UNCHANGED wal
    BY <1>4, <2>1, ClosingKeepsRecovery DEF FinishAcquire, Loaded
  <2>2. CASE /\ TruncateMaterialized(TRUE) /\ session' = "Interactive"
             /\ UNCHANGED <<graph, redo, nextSeq, op, recovery, save>>
    <3> SUFFICES ASSUME damage' = {} PROVE RecoveryFits'
      BY DEF RecoveryFits
    <3>1. /\ session = "Recovered" /\ Loaded /\ damage = {} /\ UNCHANGED db
          /\ wal' = EmptyWal /\ journal' = << >>
      BY <1>4, <2>2 DEF FinishAcquire, TruncateMaterialized, Loaded
    <3>2. ~Pending' /\ save'.stage = "None"
      BY <2>2, <3>1, ClosedIsIdle DEF RecoveryInv, Pending
    <3>3. redo' = << >> /\ ActiveHead(db') = WorkingHead'
      BY <2>2, <3>1 DEF RecoveryInv, RecoveryFits, MemoryFits, WorkingHead
    <3> QED
      BY <2>2, <3>1, <3>2, <3>3, EmptySeq, EmptyFileFits
  <2> QED
    BY <1>4, <2>1, <2>2 DEF FinishAcquire
<1> QED
  BY <1>1, <1>2, <1>3, <1>4 DEF Open

\* A clean close that harms nothing deletes no commit of the journal.
LEMMA CollectKeepsRecovery ==
    ASSUME RecoveryInv, damage \subseteq damage', CollectUnreachableEditCommits
    PROVE  RecoveryFits'
<1> SUFFICES ASSUME damage' = {} PROVE FileFits' /\ MemoryFits' /\ PendingFitsFile'
  BY DEF RecoveryFits
<1> DEFINE lost == db.commits \ Reachable(parent, db)
<1>1. /\ UNCHANGED <<created, parent, memory, session, wal>> /\ session = "NoImage"
      /\ db' = DeleteUnreachableCommits(parent, db) /\ ~Loaded /\ ~Loaded' /\ damage = {}
  BY DEF CollectUnreachableEditCommits, Loaded
<1>2. \A i \in 1..Len(wal.recs) : wal.recs[i].target \notin lost
  BY DEF CollectUnreachableEditCommits, Harm
<1>3. ~Pending /\ ~Pending'
  BY <1>1, ClosedIsIdle DEF RecoveryInv, Pending, memory
<1>4. db \in Graphs /\ wal.recs \in Seq(Records)
  BY DEF RecoveryInv, GraphInv, SequenceInv, DurableInv, TypeOK, Wals
<1>5. db'.commits = db.commits \ lost /\ ActiveHead(db') = ActiveHead(db)
  BY <1>1, <1>4 DEF DeleteUnreachableCommits, Graphs, ActiveHead
<1> HIDE DEF lost
<1>6. ~wal.torn /\ Sound(parent, db, wal.recs) /\ Anchored(db, wal.recs, Len(wal.recs))
  BY <1>1, <1>3 DEF RecoveryInv, RecoveryFits, FileFits, Settled
<1>7. \A k \in 1..Len(wal.recs) : Valid(parent, db, wal.recs, k) => Valid(parent, db', wal.recs, k)
  BY <1>2, <1>5 DEF Valid
<1>8. Sound(parent, db', wal.recs)
  BY <1>6, <1>7 DEF Sound
<1>9. \A i \in 1..Len(wal.recs) : CoversPrefix(db, wal.recs, i) => CoversPrefix(db', wal.recs, i)
  BY <1>2, <1>4, <1>5, LenProperties DEF CoversPrefix
<1>10. Anchored(db', wal.recs, Len(wal.recs))
  BY <1>5, <1>6, <1>9 DEF Anchored
<1>11. FileFits'
  BY <1>1, <1>3, <1>6, <1>8, <1>10 DEF FileFits, Settled
<1> QED
  BY <1>1, <1>3, <1>11 DEF MemoryFits, PendingFitsFile

LEMMA RecoveryStep == RecoveryInv /\ [Next]_vars => RecoveryInv'
<1> SUFFICES ASSUME RecoveryInv, [Next]_vars PROVE RecoveryFits'
  BY GraphStep DEF RecoveryInv
<1>1. damage \subseteq damage'
  BY DamageGrows
<1>2. TypeOK'
  BY StepTypes DEF RecoveryInv, GraphInv, SequenceInv, DurableInv
<1>3. CASE PublishPreparedEdit
  BY <1>3, EditKeepsRecovery
<1>4. CASE Undo \/ Redo \/ MoveHeadToCommit \/ DiscardMove
  BY <1>4, HeadMoveKeepsRecovery
<1>5. CASE Abandon
  BY <1>5, AbandonKeepsRecovery
<1>6. CASE Acknowledge \/ AppendFails \/ Discard \/ DiscardStops \/ DiscardFinish
  BY <1>1, <1>6, CommandEndsKeepRecovery
<1>7. CASE \/ SaveAndContinue \/ RetrySaveAfterFailure \/ SaveCannotStart \/ RemoveVersion
           \/ Worker \/ OnCheckpointFailed \/ CancelPendingNavigation
  BY <1>1, <1>7, SaveKeepsRecovery
<1>8. CASE OnCheckpointDone
  BY <1>1, <1>2, <1>8, DoneKeepsRecovery
<1>9. CASE CloseDiscarding \/ DiscardAndContinueAfterFailure
  BY <1>1, <1>2, <1>9, AfterFailureKeepsRecovery
<1>10. CASE Open
  BY <1>1, <1>10, OpenKeepsRecovery
<1>11. CASE Crash
  BY <1>1, <1>11, ClosingKeepsRecovery DEF Crash, Loaded
<1>12. CASE CollectUnreachableEditCommits
  BY <1>1, <1>12, CollectKeepsRecovery
<1>13. CASE UNCHANGED vars
  <2>1. UNCHANGED <<created, parent, graph, redo, journal, op, save, session, wal, db>>
    BY <1>13 DEF vars, memory
  <2>2. Pending => Loaded
    BY ClosedIsIdle DEF RecoveryInv
  <2> QED
    BY <1>1, <2>1, <2>2, QuietKeepsRecovery DEF Loaded, WorkingHead, Pending
<1> QED
  BY <1>3, <1>4, <1>5, <1>6, <1>7, <1>8, <1>9, <1>10, <1>11, <1>12, <1>13
  DEF Next, Command, CommandStep, Completion, AfterFailure

LEMMA RecoveryInit == Init => RecoveryInv
<1> SUFFICES ASSUME Init PROVE RecoveryFits
  BY GraphInit DEF RecoveryInv
<1>1. /\ wal.recs = << >> /\ ~wal.torn /\ ~Pending /\ ~Loaded
  BY DEF Init, EmptyWal, NoOp, Pending, Loaded
<1> QED
  BY <1>1, EmptyJournalFits DEF RecoveryFits, FileFits, MemoryFits, PendingFitsFile

\* What undamaged files of an image hold can be loaded, aligned and replayed.
LEMMA FilesReopen ==
    ASSUME RecoveryInv, damage = {}
    PROVE  /\ WalAccepted(db, wal)
           /\ Replayable(parent, db, MissingSuffix(db, wal.recs))
           /\ ActiveHead(Replay(db, MissingSuffix(db, wal.recs))) = EndsAt(db, wal.recs)
           /\ Replay(db, MissingSuffix(db, wal.recs)).active = db.active
           /\ Reopened = [version |-> db.active, head |-> EndsAt(db, wal.recs)]
<1> DEFINE missing == MissingSuffix(db, wal.recs)
<1>1. /\ db \in Graphs /\ wal.recs \in Seq(Records) /\ Closed(parent, db) /\ Active(db)
      /\ ~wal.torn /\ Sound(parent, db, wal.recs)
  BY DEF RecoveryInv, RecoveryFits, FileFits, GraphInv, GraphsFit, StoredClosed,
         SequenceInv, DurableInv, TypeOK, Wals
<1>2. Anchored(db, wal.recs, Len(wal.recs))
  <2>1. Len(wal.recs) \in Nat /\ Settled \in Int /\ Settled <= Len(wal.recs)
    BY <1>1, LenProperties DEF Settled
  <2> QED
    BY <2>1, AnchoredFurther DEF RecoveryInv, RecoveryFits, FileFits
<1>3. /\ Aligned(db, wal.recs) /\ Replayable(parent, db, missing) /\ missing \in Seq(Records)
      /\ ActiveHead(Replay(db, missing)) = EndsAt(db, wal.recs)
  BY <1>1, <1>2, SoundJournalReplays DEF EndsAt
<1>4. Replay(db, missing).active = db.active
  BY <1>1, <1>3, ReplayStaysClosed
<1> HIDE DEF missing
<1> QED
  BY <1>1, <1>3, <1>4 DEF missing, WalAccepted, Reopened, Shown

\* Undamaged files always open: the journal can be loaded, aligned with the
\* rows and replayed, between any two steps of commands, saves, failures,
\* closes and crashes, for histories of every length.
THEOREM JournalReplays == Spec => []JournalStaysReplayable
<1>1. RecoveryInv => JournalStaysReplayable
  BY FilesReopen DEF JournalStaysReplayable
<1> QED
  BY <1>1, RecoveryInit, RecoveryStep, PTL DEF Spec

\* A restart shows the Version and the head the screen shows, between any two
\* steps of commands, saves, failures, closes and crashes.  The strengthening
\* says that memory and journal agree until a save has stored every commit of
\* the working graph, and that the rows end where one of the journal's
\* settled records does.
THEOREM RestartShows == Spec => []RestartShowsWorkingHead
<1>1. ASSUME RecoveryInv PROVE RestartShowsWorkingHead
  <2> SUFFICES ASSUME Loaded, damage = {} PROVE Reopened = Shown(graph)
    BY DEF RestartShowsWorkingHead
  <2>1. Reopened = [version |-> db.active, head |-> EndsAt(db, wal.recs)]
    BY <1>1, FilesReopen
  <2>2. db.active = graph.active /\ EndsAt(db, wal.recs) = WorkingHead
    BY <1>1 DEF RecoveryInv, RecoveryFits, MemoryFits, GraphInv, GraphsFit, MemoryClosed
  <2> QED
    BY <2>1, <2>2 DEF Shown, WorkingHead
<1> QED
  BY <1>1, RecoveryInit, RecoveryStep, PTL DEF Spec

----------------------------------------------------------------------------
\* The promise of a durable history.

\* Commands, saves and their completions are those of an open image.
LEMMA OnlyOpenImagesWork ==
    ASSUME RecoveryInv,
           Command \/ CommandStep \/ Worker \/ Completion \/ AfterFailure
    PROVE  Loaded
<1>1. NoOp.kind = "None"
  BY DEF NoOp
<1>2. Ready \/ op # NoOp \/ save.stage # "None" \/ session = "RetainedImageFailure"
  <2>1. CASE Command
    BY <2>1
    DEF Command, PublishPreparedEdit, Undo, Redo, MoveHeadToCommit, Discard, RemoveVersion,
        SaveAndContinue, SaveCannotStart, CloseDiscarding
  <2>2. CASE CommandStep
    BY <1>1, <2>2
    DEF CommandStep, Acknowledge, Abandon, AppendFails, DiscardMove, DiscardStops,
        DiscardFinish
  <2>3. CASE Worker \/ Completion
    BY <2>3
    DEF Worker, WriteDatabase, ClearEntireJournal, SaveFails, Completion, OnCheckpointDone,
        OnCheckpointFailed
  <2>4. CASE AfterFailure
    BY <2>4
    DEF AfterFailure, RetrySaveAfterFailure, CancelPendingNavigation,
        DiscardAndContinueAfterFailure
  <2> QED
    BY <2>1, <2>2, <2>3, <2>4
<1> QED
  BY <1>2, CommandOpen, ClosedIsIdle DEF RecoveryInv, GraphInv, SequenceInv, Loaded

\* Between open images, rows take the view the working graph then has.
LEMMA OpenImageSaves ==
    ASSUME RecoveryInv, TypeOK', Loaded, Loaded', [Next]_vars
    PROVE  Shown(db') \in {Shown(db), Shown(graph')}
<1>1. graph \in Graphs /\ db \in Graphs /\ graph' \in Graphs
  BY DEF RecoveryInv, GraphInv, SequenceInv, DurableInv, TypeOK
<1>2. \A m \in Graphs : Shown(StoreMaterialization(db, m)) = Shown(m)
  BY DEF StoreMaterialization, Graphs, Shown, ActiveHead
<1>3. CASE UNCHANGED db
  BY <1>3
<1>4. CASE WriteDatabase
  <2>1. /\ save.capture = MaterializeActiveHead(graph) /\ UNCHANGED graph
        /\ db' = StoreMaterialization(db, save.capture)
    BY <1>4
    DEF WriteDatabase, WorkerUnchanged, RecoveryInv, GraphInv, SequenceInv, DurableInv,
        SaveFreezesGraph
  <2>2. MaterializeActiveHead(graph) \in Graphs
        /\ Shown(MaterializeActiveHead(graph)) = Shown(graph)
    BY <1>1, GraphOperations DEF MaterializeActiveHead, Graphs, Shown, ActiveHead
  <2> QED
    BY <1>2, <2>1, <2>2
<1>5. CASE \E g, next : ContinueToVersion(g, next)
  <2>1. UNCHANGED db \/ db' = StoreMaterialization(db, graph')
    BY <1>5 DEF ContinueToVersion
  <2> QED
    BY <1>1, <1>2, <2>1
<1>6. UNCHANGED db \/ WriteDatabase \/ \E g, next : ContinueToVersion(g, next)
  <2>1. CASE Command \/ CommandStep
    BY <2>1
    DEF Command, CommandStep, PublishPreparedEdit, Undo, UndoTo, Redo, MoveHeadToCommit,
        MoveTo, MoveBackwardTo, MoveForwardTo, PublishPreparedHeadMove, Discard,
        RemoveVersion, SaveAndContinue, StartSave, SaveCannotStart, CloseDiscarding,
        ReleaseDiscarding, Acknowledge, Abandon, AppendFails,
        DiscardMove, DiscardStops, DiscardFinish
  <2>2. CASE Worker \/ Completion \/ AfterFailure
    BY <2>2
    DEF Worker, ClearEntireJournal, SaveFails, Completion, OnCheckpointDone,
        OnCheckpointFailed, AfterFailure, RetrySaveAfterFailure, StartSave,
        CancelPendingNavigation, DiscardAndContinueAfterFailure, ReleaseDiscarding
  <2>3. CASE Open \/ Crash \/ CollectUnreachableEditCommits
    BY <2>3
    DEF Open, RecoverRejects, IsolateJournal, RecoverAccepts, RecoverCannotClear,
        AcquireRejects, AcquireWorkingState, FinishAcquire, Crash,
        CollectUnreachableEditCommits, Loaded
  <2> QED
    BY <2>1, <2>2, <2>3 DEF Next, vars
<1> QED
  BY <1>3, <1>4, <1>5, <1>6

\* Leaving an image keeps its rows, and its journal or none of it.
LEMMA LeavingKeepsFiles ==
    ASSUME RecoveryInv, Loaded, ~Loaded', [Next]_vars
    PROVE  UNCHANGED db /\ wal' \in {wal, EmptyWal}
<1>1. CASE Command \/ CommandStep
  <2>1. CASE CloseDiscarding
    BY <2>1 DEF CloseDiscarding, ReleaseDiscarding
  <2>2. CASE ~CloseDiscarding
    <3>1. session' \in {"Saving", "RetainedImageFailure"} \/ UNCHANGED session
      BY <1>1, <2>2
      DEF Command, CommandStep, PublishPreparedEdit, Undo, UndoTo, Redo, MoveHeadToCommit,
          MoveTo, MoveBackwardTo, MoveForwardTo, PublishPreparedHeadMove, Discard,
          RemoveVersion, SaveAndContinue, StartSave, SaveCannotStart, Acknowledge, Abandon,
          AppendFails, DiscardMove, DiscardStops, DiscardFinish
    <3> QED
      BY <3>1 DEF Loaded
  <2> QED
    BY <2>1, <2>2
<1>2. CASE Worker \/ Completion \/ AfterFailure
  <2>1. CASE OnCheckpointDone
    <3>1. wal' = EmptyWal
      BY <2>1, DoneClears DEF RecoveryInv, GraphInv
    <3>2. CASE save.next.kind = "Close"
      BY <2>1, <3>1, <3>2 DEF OnCheckpointDone
    <3>3. CASE save.next.kind # "Close"
      BY <2>1, <3>3 DEF OnCheckpointDone, ContinueToVersion, Loaded
    <3> QED
      BY <3>2, <3>3
  <2>2. CASE DiscardAndContinueAfterFailure
    BY <2>2 DEF DiscardAndContinueAfterFailure, ReleaseDiscarding, ContinueToVersion, Loaded
  <2>3. CASE Worker \/ OnCheckpointFailed \/ RetrySaveAfterFailure \/ CancelPendingNavigation
    BY <2>3
    DEF Worker, WriteDatabase, ClearEntireJournal, SaveFails, WorkerUnchanged,
        OnCheckpointFailed, RetrySaveAfterFailure, StartSave, CancelPendingNavigation, Loaded
  <2> QED
    BY <1>2, <2>1, <2>2, <2>3 DEF Completion, AfterFailure
<1>3. CASE Open \/ Crash \/ CollectUnreachableEditCommits
  BY <1>3
  DEF Open, RecoverRejects, RecoverAccepts, RecoverCannotClear, AcquireRejects,
      AcquireWorkingState, FinishAcquire, Crash, CollectUnreachableEditCommits, Loaded
<1>4. CASE UNCHANGED vars
  BY <1>4 DEF vars
<1> QED
  BY <1>1, <1>2, <1>3, <1>4 DEF Next

\* Opening shows what the undamaged files hold.
LEMMA OpeningShowsFiles ==
    ASSUME RecoveryInv, damage = {}, ~Loaded, Loaded', [Next]_vars
    PROVE  Shown(graph') = Reopened /\ Shown(db') \in {Shown(db), Shown(graph')}
<1> DEFINE missing == MissingSuffix(db, wal.recs)
           replayed == Replay(db, missing)
<1>1. AcquireWorkingState
  <2>1. ~(Command \/ CommandStep \/ Worker \/ Completion \/ AfterFailure)
    BY OnlyOpenImagesWork
  <2>2. CASE Open \/ Crash \/ CollectUnreachableEditCommits \/ UNCHANGED vars
    BY <2>2
    DEF Open, RecoverRejects, IsolateJournal, RecoverAccepts, RecoverCannotClear,
        AcquireRejects, FinishAcquire, Crash, CollectUnreachableEditCommits, Loaded, vars
  <2> QED
    BY <2>1, <2>2 DEF Next
<1>2. /\ WalAccepted(db, wal) /\ Replayable(parent, db, missing)
      /\ ActiveHead(replayed) = EndsAt(db, wal.recs) /\ replayed.active = db.active
      /\ Reopened = [version |-> db.active, head |-> EndsAt(db, wal.recs)]
  BY FilesReopen
<1>3. db \in Graphs /\ replayed \in Graphs
  BY <1>2, MissingSuffixType, ReplayType
  DEF RecoveryInv, GraphInv, SequenceInv, DurableInv, TypeOK, Wals
<1>4. Shown(replayed) = Reopened
  BY <1>2 DEF Shown
<1> HIDE DEF missing, replayed
<1>5. CASE wal = EmptyWal /\ graph' = db /\ UNCHANGED db
  <2>1. wal.recs = << >>
    BY <1>5 DEF EmptyWal
  <2> QED
    BY <1>2, <1>5, <2>1, EmptyJournalFits DEF Shown
<1>6. CASE graph' = MaterializeActiveHead(replayed) /\ db' = StoreMaterialization(db, graph')
  <2>1. graph' \in Graphs /\ Shown(graph') = Shown(replayed)
    BY <1>3, <1>6, GraphOperations DEF MaterializeActiveHead, Graphs, Shown, ActiveHead
  <2>2. Shown(db') = Shown(graph')
    BY <1>3, <1>6, <2>1 DEF StoreMaterialization, Graphs, Shown, ActiveHead
  <2> QED
    BY <1>4, <2>1, <2>2
<1>7. CASE graph' = replayed /\ UNCHANGED db
  BY <1>4, <1>7
<1> QED
  BY <1>1, <1>5, <1>6, <1>7 DEF AcquireWorkingState, replayed, missing

\* While no image is open the undamaged files keep what they show.
LEMMA ClosedFilesKeep ==
    ASSUME RecoveryInv, damage = {}, ~Loaded, ~Loaded', [Next]_vars
    PROVE  Shown(db') = Shown(db) /\ EndsAt(db', wal'.recs) = EndsAt(db, wal.recs)
<1> DEFINE missing == MissingSuffix(db, wal.recs)
<1>1. db \in Graphs /\ op = NoOp /\ save.stage = "None"
  BY ClosedIsIdle DEF RecoveryInv, GraphInv, SequenceInv, DurableInv, TypeOK
<1>2. /\ WalAccepted(db, wal) /\ Replayable(parent, db, missing)
      /\ ActiveHead(Replay(db, missing)) = EndsAt(db, wal.recs)
  BY FilesReopen
<1>3. CASE RecoverAccepts
  <2>1. UNCHANGED db /\ wal' = IF missing = << >> THEN EmptyWal ELSE wal
    BY <1>3 DEF RecoverAccepts
  <2>2. missing = << >> => ActiveHead(db) = EndsAt(db, wal.recs)
    BY <1>2 DEF Replay
  <2>3. EndsAt(db, EmptyWal.recs) = ActiveHead(db)
    BY EmptyJournalFits DEF EmptyWal
  <2> QED
    BY <2>1, <2>2, <2>3
<1>4. CASE CollectUnreachableEditCommits
  BY <1>1, <1>4
  DEF CollectUnreachableEditCommits, DeleteUnreachableCommits, Graphs, Shown, ActiveHead,
      EndsAt
<1>5. UNCHANGED <<db, wal>> \/ RecoverAccepts \/ CollectUnreachableEditCommits
  <2>1. ~(Command \/ CommandStep \/ Worker \/ Completion \/ AfterFailure)
    BY OnlyOpenImagesWork
  <2>2. CASE Open \/ Crash \/ UNCHANGED vars
    BY <1>2, <2>2
    DEF Open, RecoverRejects, RecoverCannotClear, AcquireRejects, AcquireWorkingState,
        FinishAcquire, Crash, Loaded, vars
  <2> QED
    BY <2>1, <2>2 DEF Next
<1> QED
  BY <1>3, <1>4, <1>5 DEF EndsAt

\* What the next open shows is where rows and journal end.
ReopensAtEnd == Reopened = [version |-> db.active, head |-> EndsAt(db, wal.recs)]

\* Every step is one of a durable view, or none.
LEMMA StepIsDurable ==
    RecoveryInv /\ TypeOK' /\ RestartShowsWorkingHead /\ RestartShowsWorkingHead'
    /\ ReopensAtEnd /\ ReopensAtEnd' /\ damage = {} /\ (damage = {})' /\ [Next]_vars
        => [Durable!Next]_<<Shown(db), Reopened, IF Loaded THEN {Shown(graph)} ELSE {}>>
<1> SUFFICES ASSUME RecoveryInv, TypeOK', RestartShowsWorkingHead, RestartShowsWorkingHead',
                    ReopensAtEnd, ReopensAtEnd', damage = {}, (damage = {})', [Next]_vars
             PROVE  [Durable!Next]_<<Shown(db), Reopened,
                                     IF Loaded THEN {Shown(graph)} ELSE {}>>
  OBVIOUS
<1>1. CASE Loaded /\ Loaded'
  <2>1. Shown(db') \in {Shown(db), Shown(graph')} /\ Reopened' = Shown(graph')
    BY <1>1, OpenImageSaves DEF RestartShowsWorkingHead
  <2>2. Shown(graph') \in Views
    BY GraphOperations DEF TypeOK, Shown, Views, Graphs
  <2> QED
    BY <1>1, <2>1, <2>2 DEF Durable!Next, Durable!Command
<1>2. CASE Loaded /\ ~Loaded'
  <2>1. Shown(db') = Shown(db) /\ wal' \in {wal, EmptyWal} /\ db' = db
    BY <1>2, LeavingKeepsFiles
  <2>2. CASE wal' = wal
    BY <1>2, <2>1, <2>2 DEF ReopensAtEnd, Durable!Next, Durable!Leave
  <2>3. CASE wal' = EmptyWal
    <3>1. EndsAt(db', wal'.recs) = ActiveHead(db)
      BY <2>1, <2>3, EmptyJournalFits DEF EmptyWal
    <3>2. Reopened' = Shown(db)
      BY <2>1, <3>1 DEF ReopensAtEnd, Shown
    <3> QED
      BY <1>2, <2>1, <3>2 DEF Durable!Next, Durable!LeaveDiscarding
  <2> QED
    BY <2>1, <2>2, <2>3
<1>3. CASE ~Loaded /\ Loaded'
  <2>1. /\ Shown(graph') = Reopened /\ Shown(db') \in {Shown(db), Shown(graph')}
        /\ Reopened' = Shown(graph')
    BY <1>3, OpeningShowsFiles DEF RestartShowsWorkingHead
  <2> QED
    BY <1>3, <2>1 DEF Durable!Next, Durable!Open
<1>4. CASE ~Loaded /\ ~Loaded'
  <2>1. Shown(db') = Shown(db) /\ EndsAt(db', wal'.recs) = EndsAt(db, wal.recs)
    BY <1>4, ClosedFilesKeep
  <2>2. db'.active = db.active
    BY <2>1 DEF Shown
  <2> QED
    BY <1>4, <2>1, <2>2 DEF ReopensAtEnd
<1> QED
  BY <1>1, <1>2, <1>3, <1>4

\* As long as no harm befalls the files, journal, rows and session are one
\* durable view: commands change screen and files together, saving, closing,
\* crashing and opening change neither, and a discard goes back to what was
\* saved.
THEOREM HistoryIsDurable == Spec /\ [](damage = {}) => ImplementsDurableHistory
<1>1. Init => Durable!Init
  <2> SUFFICES ASSUME Init PROVE Durable!Init
    OBVIOUS
  <2>1. /\ db = EmptyGraph /\ wal.recs = << >> /\ ~Loaded /\ damage = {} /\ RecoveryInv
    BY RecoveryInit DEF Init, EmptyWal, Loaded
  <2>2. Reopened = [version |-> db.active, head |-> EndsAt(db, wal.recs)]
    BY <2>1, FilesReopen
  <2>3. Reopened = Shown(EmptyGraph)
    BY <2>1, <2>2, EmptyJournalFits DEF Shown
  <2> QED
    BY <2>1, <2>3 DEF Durable!Init
<1>2. RecoveryInv /\ damage = {} => ReopensAtEnd
  BY FilesReopen DEF ReopensAtEnd
<1>3. Spec => []RecoveryInv
  BY RecoveryInit, RecoveryStep, PTL DEF Spec
<1>4. Spec /\ [](damage = {})
         => [][Durable!Next]_<<Shown(db), Reopened, IF Loaded THEN {Shown(graph)} ELSE {}>>
  BY <1>2, <1>3, StepIsDurable, TypeCorrect, RestartShows, PTL DEF Spec
<1>5. Spec => Durable!Init
  BY <1>1, PTL DEF Spec
<1> QED
  BY <1>4, <1>5, PTL DEF ImplementsDurableHistory, Durable!Spec, Durable!view

\* Files that may meet no damage meet none.
LEMMA NoHarmAllowed ==
    ASSUME MaxDamage = 0
    PROVE  Spec => [](damage = {})
<1>1. Init => damage = {}
  BY DEF Init
<1>2. damage = {} /\ [Next]_vars => (damage = {})'
  <2> SUFFICES ASSUME damage = {}, [Next]_vars PROVE damage' = {}
    OBVIOUS
  <2>1. ASSUME NEW kind, Harm({kind}) PROVE FALSE
    <3>1. Cardinality({kind}) = 1 /\ damage \cup {kind} = {kind}
      BY FS_Singleton
    <3> QED
      BY <2>1, <3>1 DEF Harm, MayHarm
  <2>2. ASSUME Harm({}) PROVE damage' = {}
    BY <2>2 DEF Harm
  <2>3. ASSUME NEW kind, NEW test, Harm(IF test THEN {} ELSE {kind}) PROVE damage' = {}
    BY <2>1, <2>2, <2>3
  <2>4. ASSUME NEW kind, NEW test, Harm(IF test THEN {kind} ELSE {}) PROVE damage' = {}
    BY <2>1, <2>2, <2>4
  <2>5. Harm(StaleDiscard) => damage' = {}
    BY <2>3 DEF StaleDiscard
  <2>6. CASE Command \/ CommandStep
    BY <2>1, <2>3, <2>5, <2>6
    DEF Command, CommandStep, PublishPreparedEdit, Undo, UndoTo, Redo, MoveHeadToCommit,
        MoveTo, MoveBackwardTo, MoveForwardTo, PublishPreparedHeadMove, Discard,
        RemoveVersion, SaveAndContinue, StartSave, SaveCannotStart, CloseDiscarding,
        ReleaseDiscarding, Acknowledge, Abandon, RevokeLastRecord, AppendFails, TearAppend,
        DiscardMove, DiscardStops, DiscardFinish
  <2>7. CASE Worker \/ Completion \/ AfterFailure
    BY <2>3, <2>4, <2>5, <2>7
    DEF Worker, WriteDatabase, ClearEntireJournal, SaveFails, WorkerUnchanged,
        Completion, OnCheckpointDone, OnCheckpointFailed,
        AfterFailure, RetrySaveAfterFailure, StartSave, CancelPendingNavigation,
        DiscardAndContinueAfterFailure, ReleaseDiscarding
  <2>8. CASE Open \/ Crash \/ CollectUnreachableEditCommits
    BY <2>4, <2>8
    DEF Open, RecoverRejects, IsolateJournal, RecoverAccepts, RecoverCannotClear,
        AcquireRejects, AcquireWorkingState, FinishAcquire, Crash,
        CollectUnreachableEditCommits
  <2> QED
    BY <2>6, <2>7, <2>8 DEF Next, vars
<1> QED
  BY <1>1, <1>2, PTL DEF Spec

\* An editor whose files nothing damages keeps one durable view, for any
\* number of commits, records and Versions.
THEOREM UndamagedHistoryIsDurable ==
    ASSUME MaxDamage = 0
    PROVE  Spec => ImplementsDurableHistory
  BY NoHarmAllowed, HistoryIsDurable, PTL

=============================================================================
