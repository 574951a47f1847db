---------------------------- MODULE CommitGraph ----------------------------
(***************************************************************************)
(* The commit graph of one image and the records of its mini-Git journal,  *)
(* as data (edit/history/commit_graph.cpp, mini_git_working_history.cpp).   *)
(*                                                                         *)
(* A commit is a natural number: the code hashes a commit together with a   *)
(* creation stamp, so a hash is never produced twice.  NoCommit stands for  *)
(* the absent head (nullopt), the image as it was imported.  A transaction  *)
(* chain hash folds the first-parent path of a head, so two heads have one  *)
(* chain exactly when they are one head, and the model compares heads.      *)
(***************************************************************************)
EXTENDS Integers, Sequences, FiniteSets

CONSTANTS
    MaxCommits,     \* how many commits one behaviour may create
    Versions,       \* identities a VersionRef may have
    FirstVersion    \* the default Version every image starts with

ASSUME GraphAssumption ==
    /\ MaxCommits \in Nat
    /\ FirstVersion \in Versions

NoCommit == 0
Commits  == 1..MaxCommits
Heads    == 0..MaxCommits

\* CommitGraph together with its ImageEditState: refs is the set of Versions,
\* head their working heads (NoCommit where there is no Version), mat the
\* materialized head of the image edit state.
Graphs == [commits : SUBSET Commits, refs : SUBSET Versions,
           head : [Versions -> Heads], active : Versions, mat : Heads]

EmptyGraph == [commits |-> {}, refs |-> {FirstVersion},
               head |-> [v \in Versions |-> NoCommit],
               active |-> FirstVersion, mat |-> NoCommit]

ActiveHead(g) == g.head[g.active]

InsertCommit(g, c) == [g EXCEPT !.commits = @ \cup {c}]

MoveWorkingHead(g, h) == [g EXCEPT !.head[g.active] = h]

CreateVersionRefAtHead(g, v, h) ==
    [g EXCEPT !.refs = @ \cup {v}, !.head[v] = h]

RemoveVersionRef(g, v) ==
    [g EXCEPT !.refs = @ \ {v}, !.head[v] = NoCommit]

SetActiveVersionId(g, v) == [g EXCEPT !.active = v]

\* The graph with the materialized head advanced to the active Version's head.
MaterializeActiveHead(g) == [g EXCEPT !.mat = ActiveHead(g)]

----------------------------------------------------------------------------
\* parent is the first parent each commit carries in its body.

\* S holds the Versions' heads and, with each commit, its first parent.
ClosedUnderParents(parent, g, S) ==
    /\ \A v \in g.refs : g.head[v] \in S \cup {NoCommit}
    /\ \A c \in S : parent[c] \in S \cup {NoCommit}

\* The commits on the first-parent paths of the Versions' heads: the least
\* such set.
Reachable(parent, g) ==
    {c \in Commits : \A S \in SUBSET Commits :
                         ClosedUnderParents(parent, g, S) => c \in S}

EraseUnreachable(parent, g, S) ==
    [g EXCEPT !.commits = @ \ (S \ Reachable(parent, g))]

----------------------------------------------------------------------------
\* Mutants of StoreMaterialization: the commits, or the other Versions' heads,
\* are not written.
StoreWithoutCommits(stored, m) == [m EXCEPT !.commits = stored.commits]

StoreActiveRefOnly(stored, m) ==
    [m EXCEPT !.commits = stored.commits \cup m.commits,
              !.head = [stored.head EXCEPT ![m.active] = ActiveHead(m)]]

\* Durable rows of the image.  A materialization inserts the captured commits
\* that are absent, replaces the VersionRefs and upserts the ImageEditState.
StoreMaterialization(stored, m) ==
    [m EXCEPT !.commits = stored.commits \cup m.commits]

DeleteUnreachableCommits(parent, g) ==
    [g EXCEPT !.commits = @ \cap Reachable(parent, g)]

----------------------------------------------------------------------------
\* Journal records.  An EditCommit record carries its commit, target.
RecordKinds == {"EditCommit", "HeadMove"}
Records == [seq : Nat \ {0}, kind : RecordKinds, source : Heads, target : Heads]

\* Every record starts at the head the one before it ended at.
Linked(recs) ==
    \A i \in 2..Len(recs) : recs[i].source = recs[i - 1].target

EditTargets(recs) ==
    {recs[i].target : i \in {j \in 1..Len(recs) : recs[j].kind = "EditCommit"}}

\* Replay accepts recs on graph g (ValidateAndApplyRecord for each in turn).
Replayable(parent, g, recs) ==
    /\ recs # << >> => recs[1].source = ActiveHead(g)
    /\ Linked(recs)
    /\ \A i \in 1..Len(recs) :
          IF recs[i].kind = "EditCommit"
          THEN recs[i].target \in Commits /\ parent[recs[i].target] = recs[i].source
          ELSE recs[i].target \in {NoCommit} \cup g.commits
                                     \cup EditTargets(SubSeq(recs, 1, i - 1))

Replay(g, recs) ==
    IF recs = << >> THEN g
    ELSE [g EXCEPT !.commits = @ \cup EditTargets(recs),
                   !.head[g.active] = recs[Len(recs)].target]

\* The records 1..i are in the stored graph, and record i ended at its head.
CoversPrefix(g, recs, i) ==
    /\ recs[i].target = ActiveHead(g)
    /\ \A j \in 1..i : recs[j].target \in {NoCommit} \cup g.commits

\* Mutant of DurablePrefix: records the store already has are replayed again.
NothingDurable(g, recs) == 0

\* AlignJournalWithStoredHead: how many leading records the store already has.
DurablePrefix(g, recs) ==
    CHOOSE i \in 0..Len(recs) :
        /\ i = 0 \/ CoversPrefix(g, recs, i)
        /\ \A j \in (i + 1)..Len(recs) : ~CoversPrefix(g, recs, j)

Aligned(g, recs) ==
    recs # << >> => /\ Linked(recs)
                    /\ DurablePrefix(g, recs) = 0 => recs[1].source = ActiveHead(g)

MissingSuffix(g, recs) == SubSeq(recs, DurablePrefix(g, recs) + 1, Len(recs))
=============================================================================
