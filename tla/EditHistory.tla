---------------------------- MODULE EditHistory ----------------------------
(***************************************************************************)
(* The edit history of the one image an editor session holds: the working  *)
(* commit graph and redo suffix, the mini-Git journal that makes every     *)
(* acknowledged edit durable before it is saved, the save checkpoint that  *)
(* writes the graph to the project database and clears the journal, and    *)
(* the recovery that opens the image after a crash.                        *)
(*                                                                         *)
(* Owner-thread commands run one at a time; the save worker runs beside    *)
(* them, and the process may stop between any two steps.                   *)
(***************************************************************************)
EXTENDS CommitGraph, SequencesExt

CONSTANTS
    MaxSequence,    \* highest journal sequence number of one behaviour
    MaxDamage       \* how many kinds of damage one behaviour may meet

ASSUME HistoryAssumption == MaxSequence \in Nat /\ MaxDamage \in Nat

VARIABLES
    \* The commits that were ever made and what their bodies say.
    created, parent,
    \* Memory of the session: HistoryWorkingState and MiniGitWorkingHistory.
    graph, redo, journal, nextSeq,
    \* EditorSessionState, the owner command under way, the target retained
    \* for recovery after a failed save.
    session, op, recovery,
    \* The save checkpoint in flight.
    save,
    \* Files: the journal file and the database rows of the image.
    wal, db,
    \* History variable: which harm befell the files.
    damage

memory == <<graph, redo, journal, nextSeq, op, recovery, save>>
vars   == <<created, parent, memory, session, wal, db, damage>>

----------------------------------------------------------------------------
SessionStates == {"NoImage", "Acquiring", "Recovered", "Interactive",
                  "Saving", "RetainedImageFailure", "Failed"}

\* States in which the session holds a HistoryWorkingState.
Loaded == session \in {"Recovered", "Interactive", "Saving", "RetainedImageFailure"}

WorkingHead == ActiveHead(graph)

\* What the user sees of a graph: the active Version and its head.
Shown(g) == [version |-> g.active, head |-> ActiveHead(g)]

\* The step after a save: stay, close, check out a Version, or make a Version
\* at a head (NoCommit for a root Version) and check it out.
Targets == [kind : {"None", "Stay", "Close", "Checkout", "NewVersion"},
            version : Versions, at : Heads]
Target(kind) == [kind |-> kind, version |-> FirstVersion, at |-> NoCommit]
NoTarget == Target("None")
Stay     == Target("Stay")
Close    == Target("Close")

SaveStages == {"None", "Captured", "Written", "Done", "Failed"}
Saves  == [stage : SaveStages, capture : Graphs, last : Nat, next : Targets]
NoSave == [stage |-> "None", capture |-> EmptyGraph, last |-> 0, next |-> NoTarget]

\* A command whose record is in the journal and which may still be abandoned.
Ops  == [kind : {"None", "Edit", "HeadMove", "Discarding"}, source : Heads,
         redo : Seq(Commits), discard : BOOLEAN]
NoOp == [kind |-> "None", source |-> NoCommit, redo |-> << >>, discard |-> FALSE]
Discarding == [NoOp EXCEPT !.kind = "Discarding", !.discard = TRUE]

Wals     == [recs : Seq(Records), torn : BOOLEAN]
EmptyWal == [recs |-> << >>, torn |-> FALSE]

Damages == {"TornWal", "RevokeFailed", "StaleDiscard", "VersionDiscard",
            "CollectedCommit", "DiscardKept"}
MayHarm(kinds) == Cardinality(damage \cup kinds) <= MaxDamage
Harm(kinds)    == MayHarm(kinds) /\ damage' = damage \cup kinds

WalAccepted(d, w) == ~w.torn /\ Aligned(d, w.recs)

\* What the next open of the image shows, from its files alone.
Reopened ==
    LET missing == MissingSuffix(db, wal.recs)
    IN  IF WalAccepted(db, wal) /\ Replayable(parent, db, missing)
        THEN Shown(Replay(db, missing))
        ELSE Shown(db)

Init ==
    /\ created = 0 /\ parent = [c \in Commits |-> NoCommit]
    /\ graph = EmptyGraph /\ redo = << >> /\ journal = << >> /\ nextSeq = 1
    /\ session = "NoImage" /\ op = NoOp /\ recovery = NoTarget /\ save = NoSave
    /\ wal = EmptyWal /\ db = EmptyGraph
    /\ damage = {}

\* The working state is destroyed: released, or lost with the process.
ForgetMemory ==
    /\ graph' = EmptyGraph /\ redo' = << >> /\ journal' = << >> /\ nextSeq' = 1
    /\ op' = NoOp /\ recovery' = NoTarget /\ save' = NoSave

----------------------------------------------------------------------------
\* MiniGitJournal.  A record reaches the file first and memory second.
CanAppend == nextSeq <= MaxSequence

AppendRecord(kind, target) ==
    LET record == [seq |-> nextSeq, kind |-> kind,
                   source |-> WorkingHead, target |-> target]
    IN  /\ CanAppend
        /\ wal' = [wal EXCEPT !.recs = Append(@, record)]
        /\ journal' = Append(journal, record)
        /\ nextSeq' = nextSeq + 1

\* The write stops within the line: the caller is told, the bytes remain.
TearAppend ==
    /\ CanAppend
    /\ ~wal.torn
    /\ wal' = [wal EXCEPT !.torn = TRUE]
    /\ Harm({"TornWal"})

\* TruncateMaterialized: memory is cleared even when the file cannot be.
TruncateMaterialized(fileCleared) ==
    /\ journal' = << >>
    /\ wal' = IF fileCleared THEN EmptyWal ELSE wal

\* RevokeLastRecord pops memory and rewrites the whole file in place, which
\* leaves the file as it was when it cannot be opened, and only the lines
\* written so far, the last perhaps in part, when it stops on the way.
RevokeLastRecord ==
    /\ journal' = Front(journal)
    /\ \/ wal' = [recs |-> journal', torn |-> FALSE] /\ UNCHANGED damage
       \/ wal' = wal /\ Harm({"RevokeFailed"})
       \/ \E n \in 0..(Len(journal') - 1), torn \in BOOLEAN :
             /\ wal' = [recs |-> SubSeq(journal', 1, n), torn |-> torn]
             /\ Harm({"RevokeFailed"})

----------------------------------------------------------------------------
\* Commands of an interactive image.  Publishing writes the record and moves
\* the head; applying the commit to the live document may then fail.
Ready == session = "Interactive" /\ op = NoOp

PublishPreparedEdit ==
    LET commit == created + 1
    IN  /\ Ready
        /\ created < MaxCommits
        /\ created' = commit
        /\ parent' = [parent EXCEPT ![commit] = WorkingHead]
        /\ AppendRecord("EditCommit", commit)
        /\ graph' = MoveWorkingHead(InsertCommit(graph, commit), commit)
        /\ redo' = << >>
        /\ op' = [kind |-> "Edit", source |-> WorkingHead, redo |-> redo, discard |-> FALSE]
        /\ UNCHANGED <<recovery, save, session, db, damage>>

PublishPreparedHeadMove(target, selection, discard) ==
    /\ AppendRecord("HeadMove", target)
    /\ graph' = MoveWorkingHead(graph, target)
    /\ redo' = selection
    /\ op' = [kind |-> "HeadMove", source |-> WorkingHead, redo |-> redo,
              discard |-> discard]
    /\ UNCHANGED <<created, parent, recovery, save, session, db, damage>>

UndoTo(discard) ==
    /\ WorkingHead # NoCommit
    /\ PublishPreparedHeadMove(parent[WorkingHead], Append(redo, WorkingHead), discard)

Undo == Ready /\ UndoTo(FALSE)

Redo ==
    /\ Ready
    /\ redo # << >>
    /\ parent[Last(redo)] = WorkingHead
    /\ PublishPreparedHeadMove(Last(redo), Front(redo), FALSE)

\* suffix leads from the child of head, its last entry, on to suffix[1].
IsPathFrom(head, suffix) ==
    \A j \in 1..Len(suffix) :
        parent[suffix[j]] = IF j = Len(suffix) THEN head ELSE suffix[j + 1]

\* The commits after target on the first-parent path of the working head, the
\* newest first; there are none when target is not on that path.
PathsBackTo(target) ==
    {path \in UNION {[1..n -> graph.commits] : n \in 1..MaxCommits} :
        path[1] = WorkingHead /\ IsPathFrom(target, path)}

\* Mutant of MoveBackwardTo: the target itself stays in the redo suffix.
MoveBackwardKeepingTarget(target, discard) ==
    \E path \in PathsBackTo(target) :
        PublishPreparedHeadMove(target, redo \o Append(path, target), discard)

\* PrepareMoveHeadToCommit: back to an ancestor, or forward within the redo
\* suffix when the commits on the way are a first-parent path.
MoveBackwardTo(target, discard) ==
    \E path \in PathsBackTo(target) :
        PublishPreparedHeadMove(target, redo \o path, discard)

MoveForwardTo(target, discard) ==
    \E i \in 1..Len(redo) :
        /\ redo[i] = target
        /\ IsPathFrom(WorkingHead, SubSeq(redo, i, Len(redo)))
        /\ PublishPreparedHeadMove(target, SubSeq(redo, 1, i - 1), discard)

CanMoveTo(target) == PathsBackTo(target) # {} \/ Contains(redo, target)

MoveTo(target, discard) ==
    /\ target # WorkingHead
    /\ IF PathsBackTo(target) # {}
       THEN MoveBackwardTo(target, discard)
       ELSE MoveForwardTo(target, discard)

MoveHeadToCommit == Ready /\ \E c \in graph.commits : MoveTo(c, FALSE)

HasUnmaterializedChanges == WorkingHead # graph.mat

DiscardCanMove == graph.mat = NoCommit \/ CanMoveTo(graph.mat)

\* The append of any of these commands, or of a discard's, stops within its
\* line.
AppendFails ==
    /\ \/ Ready
       \/ op.kind = "Discarding" /\ HasUnmaterializedChanges /\ DiscardCanMove
    /\ TearAppend
    /\ op' = NoOp
    /\ UNCHANGED <<created, parent, graph, redo, journal, nextSeq, recovery,
                   save, session, db>>

\* The live document took the commit: the command succeeded.
Acknowledge ==
    /\ op.kind \in {"Edit", "HeadMove"}
    /\ op' = IF op.discard THEN Discarding ELSE NoOp
    /\ UNCHANGED <<created, parent, graph, redo, journal, nextSeq, recovery,
                   save, session, wal, db, damage>>

\* AbandonPublishedEdit and AbandonPublishedHeadMove: the live document did
\* not take it, so the head, the redo suffix and the record go back.
Abandon ==
    /\ op.kind \in {"Edit", "HeadMove"}
    /\ LET back == MoveWorkingHead(graph, op.source)
       IN  graph' = IF op.kind = "Edit"
                    THEN EraseUnreachable(parent, back, {WorkingHead})
                    ELSE back
    /\ redo' = op.redo
    /\ RevokeLastRecord
    /\ op' = NoOp
    /\ UNCHANGED <<created, parent, nextSeq, recovery, save, session, db>>

----------------------------------------------------------------------------
\* DiscardUnmaterializedChanges walks the head back to the materialized head
\* with ordinary head moves, then clears the journal and the redo suffix.
StaleDiscard == IF db.mat = graph.mat THEN {} ELSE {"StaleDiscard"}

Discard ==
    /\ Ready
    /\ HasUnmaterializedChanges
    /\ MayHarm(StaleDiscard)
    /\ op' = Discarding
    /\ UNCHANGED <<created, parent, graph, redo, journal, nextSeq, recovery,
                   save, session, wal, db, damage>>

DiscardMove ==
    /\ op.kind = "Discarding"
    /\ HasUnmaterializedChanges
    /\ IF graph.mat # NoCommit THEN MoveTo(graph.mat, TRUE) ELSE UndoTo(TRUE)

\* Mutant of DiscardStops: a refused head move is tried again for ever.
DiscardRetries == op.kind = "Discarding" /\ HasUnmaterializedChanges /\ UNCHANGED vars

\* The materialized head is not on the path, or a head move is refused.
DiscardStops ==
    /\ op.kind = "Discarding"
    /\ HasUnmaterializedChanges
    /\ op' = NoOp
    /\ UNCHANGED <<created, parent, graph, redo, journal, nextSeq, recovery,
                   save, session, wal, db, damage>>

\* The journal is dropped although the head it was discarded to may be an
\* older one than the database holds.
DiscardFinish ==
    /\ op.kind = "Discarding"
    /\ ~HasUnmaterializedChanges
    /\ \/ /\ TruncateMaterialized(TRUE)
          /\ redo' = << >>
          /\ Harm(StaleDiscard)
       \/ /\ TruncateMaterialized(FALSE)
          /\ Harm(IF wal = EmptyWal THEN {} ELSE {"DiscardKept"})
          /\ UNCHANGED redo
    /\ op' = NoOp
    /\ UNCHANGED <<created, parent, graph, nextSeq, recovery, save, session, db>>

----------------------------------------------------------------------------
\* The save checkpoint.  The owner captures the graph and the journal range
\* under the save lock; the worker writes the database in one transaction and
\* then clears the whole journal file; the owner reduces the completion.
Capture(next) ==
    [stage |-> "Captured", capture |-> MaterializeActiveHead(graph),
     last |-> IF journal = << >> THEN 0 ELSE Last(journal).seq, next |-> next]

StartSave(next) ==
    /\ session' = "Saving"
    /\ save' = Capture(next)
    /\ recovery' = NoTarget
    /\ UNCHANGED <<created, parent, redo, journal, nextSeq, op, wal, db, damage>>

\* Commands that save first and continue to next afterwards.
NextTargets ==
    {Stay, Close}
      \cup {[kind |-> "Checkout", version |-> v, at |-> NoCommit] : v \in graph.refs}
      \cup {[kind |-> "NewVersion", version |-> v, at |-> h] :
               v \in Versions \ graph.refs, h \in graph.commits \cup {NoCommit}}

SaveAndContinue ==
    \E next \in NextTargets :
        /\ Ready \/ (session = "RetainedImageFailure" /\ recovery = NoTarget /\ next = Close)
        /\ StartSave(next)
        /\ UNCHANGED graph

RetrySaveAfterFailure ==
    /\ session = "RetainedImageFailure"
    /\ recovery # NoTarget
    /\ StartSave(recovery)
    /\ UNCHANGED graph

\* RemoveVersion drops the ref in memory and saves at once.
RemoveVersion ==
    /\ Ready
    /\ \E v \in graph.refs \ {graph.active} : graph' = RemoveVersionRef(graph, v)
    /\ session' = "Saving"
    /\ save' = [Capture(Stay) EXCEPT !.capture = MaterializeActiveHead(graph')]
    /\ recovery' = NoTarget
    /\ UNCHANGED <<created, parent, redo, journal, nextSeq, op, wal, db, damage>>

\* The save lock is taken or the capture fails: nothing was started.
SaveCannotStart ==
    /\ Ready
    /\ \E next \in NextTargets \ {Stay} : recovery' = next
    /\ session' = "RetainedImageFailure"
    /\ UNCHANGED <<created, parent, graph, redo, journal, nextSeq, op, save,
                   wal, db, damage>>

WorkerUnchanged ==
    UNCHANGED <<created, parent, graph, redo, journal, nextSeq, op, recovery,
                session, damage>>

WriteDatabase ==
    /\ save.stage = "Captured"
    /\ db' = StoreMaterialization(db, save.capture)
    /\ save' = [save EXCEPT !.stage = "Written"]
    /\ WorkerUnchanged /\ UNCHANGED wal

\* Mutant of ClearEntireJournal: the journal is cleared before the database is
\* written.
ClearBeforeWrite ==
    /\ save.stage = "Captured"
    /\ wal' = EmptyWal
    /\ WorkerUnchanged /\ UNCHANGED <<save, db>>

ClearEntireJournal ==
    /\ save.stage = "Written"
    /\ wal' = EmptyWal
    /\ save' = [save EXCEPT !.stage = "Done"]
    /\ WorkerUnchanged /\ UNCHANGED db

\* The write is rejected, or the file cannot be cleared after it committed.
SaveFails ==
    /\ save.stage \in {"Captured", "Written"}
    /\ save' = [save EXCEPT !.stage = "Failed"]
    /\ WorkerUnchanged /\ UNCHANGED <<wal, db>>

\* Mutant of OnCheckpointFailed: the failed completion is ignored.
IgnoreFailedCheckpoint ==
    /\ save.stage = "Failed"
    /\ save' = NoSave
    /\ UNCHANGED <<created, parent, graph, redo, journal, nextSeq, op, recovery,
                   session, wal, db, damage>>

OnCheckpointFailed ==
    /\ save.stage = "Failed"
    /\ session' = "RetainedImageFailure"
    /\ recovery' = IF save.next = Stay THEN NoTarget ELSE save.next
    /\ save' = NoSave
    /\ UNCHANGED <<created, parent, graph, redo, journal, nextSeq, op,
                   wal, db, damage>>

----------------------------------------------------------------------------
\* Continuing to a Version makes it active, persists the whole graph if the
\* rows still are what memory believes, and only then shows it.
SwitchedGraph(g, next) ==
    SetActiveVersionId(
        IF next.kind = "Checkout" THEN g
        ELSE CreateVersionRefAtHead(g, next.version, next.at), next.version)

StoredStateMatches(g) == db.active = g.active /\ db.mat = g.mat

ContinueToVersion(g, next) ==
    \/ /\ next.version = g.active
       /\ graph' = g /\ session' = "Interactive" /\ recovery' = NoTarget
       /\ UNCHANGED <<redo, db>>
    \/ /\ next.version # g.active
       /\ StoredStateMatches(g)
       /\ graph' = MaterializeActiveHead(SwitchedGraph(g, next))
       /\ db' = StoreMaterialization(db, graph')
       /\ redo' = << >>
       /\ session' = "Interactive" /\ recovery' = NoTarget
    \/ /\ next.version # g.active
       /\ graph' = g
       /\ session' = "RetainedImageFailure" /\ recovery' = next
       /\ UNCHANGED <<redo, db>>

\* TruncateThroughSequence keeps the records after the captured range.
KeepAfter(last) ==
    LET dropped == {i \in 1..Len(journal) : journal[i].seq <= last}
    IN  SubSeq(journal, Cardinality(dropped) + 1, Len(journal))

OnCheckpointDone ==
    /\ save.stage = "Done"
    /\ IF save.next.kind = "Close"
       THEN /\ ForgetMemory
            /\ session' = "NoImage"
            /\ wal' = [recs |-> KeepAfter(save.last), torn |-> FALSE]
            /\ UNCHANGED <<db>>
       ELSE /\ journal' = KeepAfter(save.last)
            /\ wal' = [recs |-> journal', torn |-> FALSE]
            /\ IF save.next.kind = "Stay"
               THEN /\ graph' = MaterializeActiveHead(graph)
                    /\ session' = "Interactive" /\ recovery' = NoTarget
                    /\ UNCHANGED <<redo, db>>
               ELSE ContinueToVersion(MaterializeActiveHead(graph), save.next)
            /\ save' = NoSave
            /\ UNCHANGED <<nextSeq, op>>
    /\ UNCHANGED <<created, parent, damage>>
----------------------------------------------------------------------------
\* After a failed save the image stays open and the user decides.
CancelPendingNavigation ==
    /\ session = "RetainedImageFailure"
    /\ session' = "Interactive"
    /\ recovery' = NoTarget
    /\ UNCHANGED <<created, parent, graph, redo, journal, nextSeq, op, save,
                   wal, db, damage>>

\* Release with discard clears the journal before the lease returns.
ReleaseDiscarding ==
    /\ \/ wal' = EmptyWal
          /\ Harm(StaleDiscard)
       \/ wal' = wal /\ Harm(IF wal = EmptyWal THEN {} ELSE {"DiscardKept"})
    /\ ForgetMemory
    /\ session' = "NoImage"
    /\ UNCHANGED <<created, parent, db>>

CloseDiscarding ==
    /\ Ready \/ (session = "RetainedImageFailure" /\ recovery = NoTarget)
    /\ ReleaseDiscarding

\* A Version target continues at once, with the journal left as it is.
DiscardAndContinueAfterFailure ==
    /\ session = "RetainedImageFailure"
    /\ recovery # NoTarget
    /\ IF recovery = Close THEN ReleaseDiscarding
       ELSE /\ ContinueToVersion(graph, recovery)
            /\ Harm(IF db' # db /\ wal # EmptyWal THEN {"VersionDiscard"} ELSE {})
            /\ UNCHANGED <<created, parent, journal, nextSeq, op, save, wal>>

----------------------------------------------------------------------------
\* Opening the image: journal recovery, then the acquire that replays the
\* missing suffix, persists the result and clears the journal.
IsolateJournal ==
    /\ wal' = EmptyWal
    /\ ForgetMemory
    /\ session' = "Failed"
    /\ UNCHANGED <<created, parent, db, damage>>

RecoverRejects ==
    /\ session \in {"NoImage", "Failed"}
    /\ ~WalAccepted(db, wal)
    /\ IsolateJournal

\* Mutant of RecoverAccepts: the journal is dropped before it is replayed.
RecoverDropsJournal ==
    /\ session \in {"NoImage", "Failed"}
    /\ WalAccepted(db, wal)
    /\ wal' = EmptyWal
    /\ session' = "Acquiring"
    /\ UNCHANGED <<created, parent, memory, db, damage>>

RecoverAccepts ==
    /\ session \in {"NoImage", "Failed"}
    /\ WalAccepted(db, wal)
    /\ wal' = IF MissingSuffix(db, wal.recs) = << >> THEN EmptyWal ELSE wal
    /\ session' = "Acquiring"
    /\ UNCHANGED <<created, parent, memory, db, damage>>

\* A clear that fails refuses the open and changes nothing.
RecoverCannotClear ==
    /\ session = "NoImage"
    /\ WalAccepted(db, wal)
    /\ wal # EmptyWal /\ MissingSuffix(db, wal.recs) = << >>
    /\ session' = "Failed"
    /\ UNCHANGED <<created, parent, memory, wal, db, damage>>

LoadNumberingAfresh == journal' = wal.recs /\ nextSeq' = 1

LoadJournal ==
    /\ journal' = wal.recs
    /\ nextSeq' = IF wal.recs = << >> THEN 1 ELSE Last(wal.recs).seq + 1

AcquireRejects ==
    /\ session = "Acquiring"
    /\ ~Replayable(parent, db, MissingSuffix(db, wal.recs))
    /\ IsolateJournal

AcquireWorkingState ==
    /\ session = "Acquiring"
    /\ Replayable(parent, db, MissingSuffix(db, wal.recs))
    /\ LoadJournal
    /\ LET replayed == Replay(db, MissingSuffix(db, wal.recs))
       IN  \/ /\ wal = EmptyWal
             /\ graph' = db /\ session' = "Interactive" /\ UNCHANGED db
          \/ /\ wal # EmptyWal
             /\ graph' = MaterializeActiveHead(replayed)
             /\ db' = StoreMaterialization(db, graph')
             /\ session' = "Recovered"
          \/ /\ wal # EmptyWal
             /\ graph' = replayed /\ session' = "Interactive" /\ UNCHANGED db
    /\ UNCHANGED <<created, parent, redo, op, recovery, save, wal, damage>>

\* The recovered history is in the database; its journal is dropped.
FinishAcquire ==
    /\ session = "Recovered"
    /\ \/ /\ TruncateMaterialized(TRUE)
          /\ session' = "Interactive"
          /\ UNCHANGED <<graph, redo, nextSeq, op, recovery, save>>
       \/ /\ ForgetMemory
          /\ session' = "Failed"
          /\ UNCHANGED wal
    /\ UNCHANGED <<created, parent, db, damage>>

----------------------------------------------------------------------------
\* The process stops at any point, or shuts down without saving.
Crash ==
    /\ session # "NoImage"
    /\ ForgetMemory
    /\ session' = "NoImage"
    /\ UNCHANGED <<created, parent, wal, db, damage>>

\* A clean project close deletes the commits no stored Version reaches.
CollectUnreachableEditCommits ==
    LET lost == db.commits \ Reachable(parent, db)
    IN  /\ session = "NoImage"
        /\ lost # {}
        /\ db' = DeleteUnreachableCommits(parent, db)
        /\ Harm(IF \E i \in 1..Len(wal.recs) : wal.recs[i].target \in lost
                THEN {"CollectedCommit"} ELSE {})
        /\ UNCHANGED <<created, parent, memory, session, wal>>

Command == \/ PublishPreparedEdit \/ Undo \/ Redo \/ MoveHeadToCommit
           \/ Discard \/ RemoveVersion \/ SaveAndContinue \/ SaveCannotStart
           \/ CloseDiscarding
CommandStep == \/ Acknowledge \/ Abandon \/ AppendFails
               \/ DiscardMove \/ DiscardStops \/ DiscardFinish
Worker == WriteDatabase \/ ClearEntireJournal \/ SaveFails
Completion == OnCheckpointDone \/ OnCheckpointFailed
AfterFailure == \/ RetrySaveAfterFailure \/ CancelPendingNavigation
                \/ DiscardAndContinueAfterFailure
Open == \/ RecoverRejects \/ RecoverAccepts \/ RecoverCannotClear
        \/ AcquireRejects \/ AcquireWorkingState \/ FinishAcquire

Next == \/ Command \/ CommandStep \/ Worker \/ Completion \/ AfterFailure
        \/ Open \/ Crash \/ CollectUnreachableEditCommits

\* The worker thread and the owner's queue run; nobody has to press a key.
Fairness == /\ WF_vars(Worker) /\ WF_vars(Completion) /\ WF_vars(CommandStep)
            /\ WF_vars(AcquireRejects \/ AcquireWorkingState \/ FinishAcquire)

Spec == Init /\ [][Next]_vars /\ Fairness
----------------------------------------------------------------------------
\* Every variable holds a value of its kind.
TypeOK ==
    /\ created \in 0..MaxCommits /\ parent \in [Commits -> Heads]
    /\ graph \in Graphs /\ redo \in Seq(Commits)
    /\ journal \in Seq(Records) /\ nextSeq \in Nat \ {0}
    /\ session \in SessionStates
    /\ op \in Ops /\ recovery \in Targets /\ save \in Saves
    /\ wal \in Wals /\ db \in Graphs
    /\ damage \in SUBSET Damages

\* The redo suffix always continues the working head: its last entry is a
\* child of the head and each other entry a child of the one after it, all of
\* them known commits.  Undo, redo, moves, edits, abandoned commands, discards
\* and Version changes each rebuild it in their own way
\* (mini_git_working_history.cpp:475-827); PrepareRedo refuses otherwise.
RedoContinuesHead ==
    /\ IsPathFrom(WorkingHead, redo)
    /\ \A i \in 1..Len(redo) : redo[i] \in graph.commits

\* Whatever an open image shows is what a restart would show, in every state
\* between two steps: before, during and after a save, with failed saves,
\* failed clears and abandoned commands (AlignJournalWithStoredHead, Replay,
\* editor_mini_git_materializer.cpp:128-248).
RestartShowsWorkingHead ==
    Loaded /\ damage = {} => Reopened = Shown(graph)

\* The journal can always be loaded, aligned and replayed, so the image opens
\* (editor_mini_git_journal_recovery.cpp:35-114).
JournalStaysReplayable ==
    damage = {} => /\ WalAccepted(db, wal)
                   /\ Replayable(parent, db, MissingSuffix(db, wal.recs))

\* Only the active Version has unsaved work: every other Version of an open
\* image is in the database at the same head, whatever failed before.
InactiveVersionsAreDurable ==
    Loaded => \A v \in graph.refs \ {graph.active} :
                  v \in db.refs /\ db.head[v] = graph.head[v]

\* The stored rows form a graph LoadGraph accepts: no head's path leaves the
\* stored commits, and the materialized head is the active Version's head.
StoredGraphLoads ==
    /\ db.active \in db.refs
    /\ db.mat = ActiveHead(db)
    /\ Reachable(parent, db) \subseteq db.commits

\* Sequence numbers of file and memory only grow, as Load requires, and are
\* never handed out twice, revoked and truncated records included.
Increasing(recs) == \A i \in 2..Len(recs) : recs[i - 1].seq < recs[i].seq
SequencesIncrease ==
    /\ Increasing(wal.recs) /\ Increasing(journal)
    /\ Loaded => \A recs \in {wal.recs, journal} :
                    recs # << >> => Last(recs).seq < nextSeq

\* A save that started ends, in success or in a state the user can act on.
SaveEnds == []<>(session # "Saving")

\* A discard or any other command comes to an end.
CommandEnds == []<>(op = NoOp)
----------------------------------------------------------------------------
\* What the documents promise and the code does not keep.

\* An append that stops within its line costs that command only: the records
\* before it are still reopened (mini_git_working_history.cpp:192-226, 233-284,
\* editor_mini_git_journal_recovery.cpp:45-52).
TornAppendKeepsEarlierRecords ==
    Loaded /\ damage \subseteq {"TornWal"} => Reopened = Shown(graph)

----------------------------------------------------------------------------
\* Journal, database and session together are one durable view: the files
\* change only by a command or a discard, opening shows what they hold, and a
\* discard goes back to what the database holds.
Views == [version : Versions, head : Heads]
Durable == INSTANCE DurableHistory WITH
    InitialView <- Shown(EmptyGraph),
    saved   <- Shown(db),
    durable <- Reopened,
    screen  <- IF Loaded THEN {Shown(graph)} ELSE {}

ImplementsDurableHistory == Durable!Spec
=============================================================================
