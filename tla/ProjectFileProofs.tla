-------------------------- MODULE ProjectFileProofs --------------------------
(***************************************************************************)
(* Files in use stay, and what was saved stays packed, for any number of   *)
(* packages, workspaces and changes and whatever fails, but for packages   *)
(* that met an accident the code lets happen.                              *)
(***************************************************************************)
EXTENDS ProjectFiles, TLAPS

\* The steps at which a thread has a project to pack.
AtWork(t) == packer[t].step \in {"work", "lock"} \cup Packing

\* Who does something, and what the others do not do meanwhile.
Turns ==
    /\ UiFree <=> task = "none"
    /\ task \in {"save", "close"} => ~Loading
    /\ packer["job"].step = "idle" <=> job = "none"
    /\ packer["loader"].step # "idle" => load.step = "pack"
    /\ load.step \notin {"none", "failed"} => project = load.old
    /\ packer["ui"].step \notin Packing \/ packer["job"].step \notin Packing

\* The open project has its workspace, and the editor's image has one.
OpenProject ==
    /\ project.entered \/ task # "none" => IsOpen
    /\ project.package # None <=> IsOpen
    /\ IsOpen => IsWhole(database[project.workspace]) /\ project.workspace \notin retired
    /\ editor.state # "empty" => editor.workspace # None
    /\ editor.state = "empty" => editor.edits = {}

\* The UI thread and the loader pack the open project; a job may still pack one
\* that was left.  Every thread has a snapshot of what it is to save.
Packs(t) ==
    /\ AtWork(t) => packer[t].from # None /\ packer[t].to # None
    /\ ~AtWork(t) => packer[t].from = None /\ packer[t].to = None
    /\ AtWork(t) /\ t # "job" =>
          packer[t].from = project.workspace /\ packer[t].to = project.package
    /\ AtWork(t) /\ IsWhole(database[packer[t].from]) =>
          packer[t].promise \subseteq database[packer[t].from].holds
    /\ packer[t].step \in Snapped => packer[t].promise \subseteq packer[t].snap

\* A load has a workspace of its own.
LoadFits ==
    /\ load.step \in {"none", "failed"} => load.package = None
    /\ load.step \notin {"none", "failed"} =>
          /\ load.package # None /\ load.fresh # None
          /\ load.fresh \notin retired \cup {project.workspace, packer["job"].from}
    /\ load.step \in {"open", "opened"} => IsWhole(database[load.fresh])

\* The saved changes of a package that met no accident.
Kept(p) == {c \in Changes : <<p, c>> \in kept}

\* No two threads have snapshots for the package, and the one that has one has
\* all that is saved in it, and has the temporary file to itself.
Snapshots(p) ==
    /\ \A t, other \in Threads :
          /\ packer[t].to = p /\ packer[t].step \in Snapped
          /\ packer[other].to = p /\ packer[other].step \in Snapped
          => t = other
    /\ \A t \in Threads : packer[t].to = p =>
          /\ packer[t].step \in Snapped => Kept(p) \subseteq packer[t].snap
          /\ packer[t].step \in Writing => ~packer[t].shared
          /\ packer[t].step \in {"remove", "rename"} => temp[p] = Whole(packer[t].snap)

\* The package is gone only while a thread is at the rename, or when nobody
\* works on it any more.
Worked(p) ==
    p \in {project.package, load.package} \/ \E t \in Threads : packer[t].to = p

OnDisk(p) ==
    /\ Kept(p) \subseteq IF package[p] = Missing THEN temp[p].holds ELSE package[p].holds
    /\ package[p] = Missing /\ Kept(p) # {} /\ Worked(p) =>
          \E t \in Threads : packer[t].to = p /\ packer[t].step = "rename"

\* Every database the package may be packed from has all that is saved in it.
Sources(p) ==
    /\ project.package = p => Kept(p) \subseteq database[project.workspace].holds
    /\ packer["job"].to = p =>
          /\ IsWhole(database[packer["job"].from]) =>
                Kept(p) \subseteq database[packer["job"].from].holds
          /\ project.package = p => packer["job"].from = project.workspace
    /\ load.package = p =>
          /\ load.create => Kept(p) = {} /\ project.package # p
                            /\ \A t \in Threads : packer[t].to # p
          /\ load.step \in {"open", "opened"} =>
                /\ packer["job"].to # p
                /\ UiFree => Kept(p) \subseteq database[load.fresh].holds

Saved(p) == Snapshots(p) /\ OnDisk(p) /\ Sources(p)

FilesInv ==
    /\ TypeOK /\ Turns /\ OpenProject
    /\ \A t \in Threads : Packs(t)
    /\ LoadFits
    /\ \A p \in Packages \ harmed : Saved(p)
----------------------------------------------------------------------------
\* A step that leaves the package and its temporary file alone, and takes away
\* nothing of what is or may be packed into it; a thread may begin to pack the
\* open project.
Begins(t, p) ==
    /\ packer[t].step \notin Snapped /\ packer'[t].step \notin Snapped
    /\ packer'[t].from = project.workspace
    /\ project.package = p /\ project'.package = p /\ project'.workspace = project.workspace
    /\ t = "job" => load'.package # p

Continues(t, p) ==
    /\ packer[t].to = p /\ packer'[t].from = packer[t].from
    /\ packer'[t].snap = packer[t].snap /\ packer'[t].shared = packer[t].shared
    /\ \/ packer'[t].step = packer[t].step
       \/ packer[t].step \notin Snapped /\ packer'[t].step \notin Snapped

Quiet(p) ==
    /\ \A c \in Changes : <<p, c>> \in kept' <=> <<p, c>> \in kept
    /\ package'[p] = package[p] /\ temp'[p] = temp[p]
    /\ project'.package = p =>
          /\ project.package = p /\ project'.workspace = project.workspace
          /\ database[project.workspace].holds \subseteq database'[project.workspace].holds
    /\ load'.package = p =>
          /\ load.package = p /\ load'.fresh = load.fresh /\ load'.create = load.create
          /\ load'.step \in {"open", "opened"} =>
                /\ load.step \in {"open", "opened"} /\ (UiFree' => UiFree)
                /\ database[load.fresh].holds \subseteq database'[load.fresh].holds
    /\ \A t \in Threads : packer'[t].to = p => Begins(t, p) \/ Continues(t, p)
    /\ packer'["job"].to = p /\ IsWhole(database'[packer'["job"].from]) =>
          IsWhole(database[packer'["job"].from])
          /\ database[packer'["job"].from].holds \subseteq database'[packer'["job"].from].holds
    /\ Worked(p)' => \A t \in Threads :
          packer[t].to = p /\ packer[t].step = "rename"
             => packer'[t].to = p /\ packer'[t].step = "rename"

LEMMA QuietKeepsSaved ==
  ASSUME NEW p \in Packages, Saved(p), Quiet(p)
  PROVE  Saved(p)'
<1>1. Kept(p)' = Kept(p)
  BY DEF Quiet, Kept
<1>2. Snapshots(p)'
  <2>1. ASSUME NEW t \in Threads, packer'[t].to = p,
               packer'[t].step \in Snapped \/ packer'[t].step \in {"remove", "rename"}
        PROVE  /\ packer[t].to = p /\ packer[t].step = packer'[t].step
               /\ packer'[t].snap = packer[t].snap /\ packer'[t].shared = packer[t].shared
    BY <2>1 DEF Quiet, Begins, Continues, Snapped, Writing
  <2> QED
    BY <1>1, <2>1 DEF Saved, Snapshots, Quiet, Snapped
<1>3. OnDisk(p)'
  <2>1. Worked(p)' => Worked(p)
    BY DEF Worked, Quiet, Begins, Continues
  <2> QED
    BY <1>1, <2>1 DEF Saved, OnDisk, Quiet
<1>4. Sources(p)'
  BY <1>1 DEF Saved, Sources, Quiet, Begins, Continues, Threads
<1> QED
  BY <1>2, <1>3, <1>4 DEF Saved

LEMMA FilesHold == \A f \in Files : f.holds \subseteq Changes
  BY DEF Files, Missing, Torn, Whole

LEMMA StoreTyped ==
  ASSUME database \in [Workspaces -> Files], NEW w \in Workspaces, NEW s \in SUBSET Changes
  PROVE  Store(w, s) \in [Workspaces -> Files]
<1>1. database[w].holds \cup s \in SUBSET Changes
  BY FilesHold
<1> QED
  BY <1>1 DEF Store, Files, Whole

LEMMA GotoTyped ==
  ASSUME packer \in [Threads -> Packers], NEW t \in Threads, NEW s \in PackSteps, Goto(t, s)
  PROVE  packer' \in [Threads -> Packers]
  BY DEF Goto, Packers

LEMMA PackTyped ==
  ASSUME packer \in [Threads -> Packers], NEW t \in Threads, NEW s \in PackSteps,
         NEW q \in Projects, NEW promise \in SUBSET Changes, Pack(t, s, q, promise)
  PROVE  packer' \in [Threads -> Packers]
  BY DEF Pack, Packers, Projects

LEMMA NothingTyped ==
  /\ NoProject \in Projects /\ NoPack \in Packers /\ NoEditor \in Editors
  /\ NoLoad \in Loads /\ [NoLoad EXCEPT !.step = "failed"] \in Loads
<1>1. FALSE \in BOOLEAN
  OBVIOUS
<1> QED
  BY <1>1 DEF NoProject, Projects, NoPack, Packers, PackSteps, NoEditor, Editors, NoLoad, Loads,
              LoadSteps

LEMMA StepsTyped ==
  {"idle", "work", "lock", "packed", "failed", "snapshot", "create", "write", "remove", "rename"}
      \subseteq PackSteps
  BY DEF PackSteps, Packing, Snapped, Writing

LEMMA EndPackTyped ==
  ASSUME packer \in [Threads -> Packers], NEW t \in Threads, NEW s \in PackSteps, EndPack(t, s)
  PROVE  packer' \in [Threads -> Packers]
  BY NothingTyped DEF EndPack, Packers

LEMMA EndTyped ==
  ASSUME Ended, TypeOK, UNCHANGED <<package, temp, history>>
  PROVE  TypeOK'
<1>1. database' \in [Workspaces -> Files]
  BY DEF Ended, Files
<1>2. packer' \in [Threads -> Packers]
  BY NothingTyped DEF Ended
<1>3. project' \in Projects /\ editor' \in Editors /\ load' \in Loads
  BY NothingTyped DEF Ended
<1> QED
  BY <1>1, <1>2, <1>3 DEF TypeOK, Ended, NotClosing, history

----------------------------------------------------------------------------
\* What the editor, the services and the close coordinator have is free.
Beside ==
    /\ memory' \subseteq Changes /\ close' \in [waiting : BOOLEAN, persist : BOOLEAN]
    /\ editor' \in Editors
    /\ editor'.state # "empty" => editor'.workspace # None
    /\ editor'.state = "empty" => editor'.edits = {}

LEMMA UserActs ==
  ASSUME FilesInv, Beside,
         UNCHANGED <<package, temp, database, project, job, load, packer, task, retired,
                     kept, harmed>>
  PROVE  FilesInv'
<1> USE DEF FilesInv
<1>1. TypeOK'
  BY DEF TypeOK, Beside
<1>2. Turns' /\ OpenProject'
  BY DEF Turns, OpenProject, UiFree, Loading, IsOpen, Beside
<1>3. (\A t \in Threads : Packs(t)') /\ LoadFits'
  BY DEF Packs, AtWork, LoadFits
<1>4. ASSUME NEW p \in Packages \ harmed' PROVE Saved(p)'
  <2>1. Quiet(p)
    BY DEF Quiet, Continues, UiFree
  <2> QED
    BY <2>1, QuietKeepsSaved
<1> QED
  BY <1>1, <1>2, <1>3, <1>4

LEMMA ChangeKeeps ==
  ASSUME FilesInv, NEW c \in Changes, Change(c)
  PROVE  FilesInv'
<1>1. Beside
  BY FilesAssumption DEF Beside, FilesInv, TypeOK, OpenProject, Change, disk, history
<1> QED
  BY <1>1, UserActs DEF Change, disk, history

LEMMA OpenImageKeeps ==
  ASSUME FilesInv, OpenImage
  PROVE  FilesInv'
<1>1. Beside
  BY FilesAssumption DEF Beside, FilesInv, TypeOK, OpenProject, OpenImage, Usable, IsOpen,
     Projects, Editors, disk, history
<1> QED
  BY <1>1, UserActs DEF OpenImage, disk, history

LEMMA EditKeeps ==
  ASSUME FilesInv, NEW c \in Changes, Edit(c)
  PROVE  FilesInv'
<1>1. Beside
  BY FilesAssumption DEF Beside, FilesInv, TypeOK, OpenProject, Edit, Editors, disk, history
<1> QED
  BY <1>1, UserActs DEF Edit, disk, history

LEMMA BeginProjectCloseKeeps ==
  ASSUME FilesInv, NEW persist \in BOOLEAN, BeginProjectClose(persist)
  PROVE  FilesInv'
<1>1. Beside
  BY FilesAssumption DEF Beside, FilesInv, TypeOK, OpenProject, BeginProjectClose, Finalize,
     Editors, disk, history
<1> QED
  BY <1>1, UserActs DEF BeginProjectClose, disk, history

LEMMA AbortProjectCloseKeeps ==
  ASSUME FilesInv, AbortProjectClose
  PROVE  FilesInv'
<1>1. Beside
  BY FilesAssumption DEF Beside, FilesInv, TypeOK, OpenProject, AbortProjectClose, NotClosing,
     disk, session, history
<1> QED
  BY <1>1, UserActs DEF AbortProjectClose, disk, session, history

LEMMA TakeLockKeeps ==
  ASSUME FilesInv, NEW t \in Threads, TakeLock(t)
  PROVE  FilesInv'
<1> USE DEF FilesInv, TakeLock, Goto, disk, session, history
<1>1. TypeOK'
  BY DEF TypeOK, Packers, Loads, Editors, PackSteps, LoadSteps, Projects, Threads, Packing,
     Snapped, Writing, NoPack, NoLoad, NoEditor, NoProject, NotClosing
<1>2. Turns' /\ OpenProject'
  BY FilesAssumption, SMTT(60) DEF Turns, Editors, OpenProject, Packs, LoadFits, AtWork, TypeOK,
     Packers, Projects, Loads, Threads, Packing, Snapped, Writing, UiFree, Loading, IsOpen
<1>3. \A u \in Threads : Packs(u)'
  BY FilesAssumption, SMTT(60) DEF Turns, Editors, OpenProject, Packs, LoadFits, AtWork, TypeOK,
     Packers, Projects, Loads, Threads, Packing, Snapped, Writing, UiFree, Loading, IsOpen
<1>4. LoadFits'
  BY FilesAssumption, SMTT(60) DEF Turns, Editors, OpenProject, Packs, LoadFits, AtWork, TypeOK,
     Packers, Projects, Loads, Threads, Packing, Snapped, Writing, UiFree, Loading, IsOpen
<1>5. ASSUME NEW p \in Packages \ harmed' PROVE Saved(p)'
  <2>1. Quiet(p)
    BY FilesAssumption, SMTT(60) DEF Quiet, Begins, Continues, Worked, Turns, Editors,
       OpenProject, Packs, LoadFits, AtWork, TypeOK, Packers, Projects, Loads, Threads, Packing,
       Snapped, Writing, UiFree, Loading, IsOpen
  <2> QED
    BY <2>1, QuietKeepsSaved
<1> QED
  BY <1>1, <1>2, <1>3, <1>4, <1>5

LEMMA JobGivesUpKeeps ==
  ASSUME FilesInv, JobGivesUp
  PROVE  FilesInv'
<1> USE DEF FilesInv, JobGivesUp, EndPack, NoPack, disk, session, history
<1>1. TypeOK'
  <2>1. packer' \in [Threads -> Packers]
    BY EndPackTyped, StepsTyped DEF TypeOK, Threads
  <2> QED
    BY <2>1 DEF TypeOK
<1>2. Turns' /\ OpenProject'
  BY FilesAssumption, SMTT(60) DEF Turns, Editors, OpenProject, Packs, LoadFits, AtWork, TypeOK,
     Packers, Projects, Loads, Threads, Packing, Snapped, Writing, UiFree, Loading, IsOpen
<1>3. \A t \in Threads : Packs(t)'
  BY FilesAssumption, SMTT(60) DEF Turns, Editors, OpenProject, Packs, LoadFits, AtWork, TypeOK,
     Packers, Projects, Loads, Threads, Packing, Snapped, Writing, UiFree, Loading, IsOpen
<1>4. LoadFits'
  BY FilesAssumption, SMTT(60) DEF Turns, Editors, OpenProject, Packs, LoadFits, AtWork, TypeOK,
     Packers, Projects, Loads, Threads, Packing, Snapped, Writing, UiFree, Loading, IsOpen
<1>5. ASSUME NEW p \in Packages \ harmed' PROVE Saved(p)'
  <2>1. Quiet(p)
    <3>1. packer'["job"].to = None /\ \A t \in Threads \ {"job"} : packer'[t] = packer[t]
      BY NothingTyped DEF TypeOK, Threads, NoPack
    <3>2. p # None
      BY FilesAssumption
    <3>3. packer["job"].step # "rename"
      OBVIOUS
    <3> QED
      BY <3>1, <3>2, <3>3 DEF Quiet, Continues, Worked, Threads, UiFree, TypeOK
  <2> QED
    BY <2>1, QuietKeepsSaved
<1> QED
  BY <1>1, <1>2, <1>3, <1>4, <1>5

LEMMA FinishJobKeeps ==
  ASSUME FilesInv, FinishJob
  PROVE  FilesInv'
<1> USE DEF FilesInv, FinishJob, NoPack, disk, session, history
<1>1. TypeOK'
  BY DEF TypeOK, Packers, Loads, Editors, PackSteps, LoadSteps, Projects, Threads, Packing,
     Snapped, Writing, NoLoad, NoEditor, NoProject, NotClosing
<1>2. Turns' /\ OpenProject'
  BY FilesAssumption, SMTT(60) DEF Turns, Editors, OpenProject, Packs, LoadFits, AtWork, TypeOK,
     Packers, Projects, Loads, Threads, Packing, Snapped, Writing, UiFree, Loading, IsOpen
<1>3. \A t \in Threads : Packs(t)'
  BY FilesAssumption, SMTT(60) DEF Turns, Editors, OpenProject, Packs, LoadFits, AtWork, TypeOK,
     Packers, Projects, Loads, Threads, Packing, Snapped, Writing, UiFree, Loading, IsOpen
<1>4. LoadFits'
  BY FilesAssumption, SMTT(60) DEF Turns, Editors, OpenProject, Packs, LoadFits, AtWork, TypeOK,
     Packers, Projects, Loads, Threads, Packing, Snapped, Writing, UiFree, Loading, IsOpen
<1>5. ASSUME NEW p \in Packages \ harmed' PROVE Saved(p)'
  <2>1. Quiet(p)
    <3>1. packer'["job"].to = None /\ \A t \in Threads \ {"job"} : packer'[t] = packer[t]
      BY NothingTyped DEF TypeOK, Threads, NoPack
    <3>2. p # None
      BY FilesAssumption
    <3>3. packer["job"].step # "rename"
      OBVIOUS
    <3> QED
      BY <3>1, <3>2, <3>3 DEF Quiet, Continues, Worked, Threads, UiFree, TypeOK
  <2> QED
    BY <2>1, QuietKeepsSaved
<1> QED
  BY <1>1, <1>2, <1>3, <1>4, <1>5

\* The UI thread is done with a package.
LEMMA UiDone ==
  ASSUME FilesInv, task \in {"save", "close"}, packer["ui"].step \in {"packed", "failed"},
         task' = "none", packer' = [packer EXCEPT !["ui"] = NoPack],
         UNCHANGED <<disk, session, job, load, close, history>>
  PROVE  FilesInv'
<1> USE DEF FilesInv, NoPack, disk, session, history
<1>1. TypeOK'
  BY DEF TypeOK, Packers, Loads, Editors, PackSteps, LoadSteps, Projects, Threads, Packing,
     Snapped, Writing, NoLoad, NoEditor, NoProject, NotClosing
<1>2. Turns' /\ OpenProject'
  BY FilesAssumption, SMTT(60) DEF Turns, Editors, OpenProject, Packs, LoadFits, AtWork, TypeOK,
     Packers, Projects, Loads, Threads, Packing, Snapped, Writing, UiFree, Loading, IsOpen
<1>3. \A t \in Threads : Packs(t)'
  BY FilesAssumption, SMTT(60) DEF Turns, Editors, OpenProject, Packs, LoadFits, AtWork, TypeOK,
     Packers, Projects, Loads, Threads, Packing, Snapped, Writing, UiFree, Loading, IsOpen
<1>4. LoadFits'
  BY FilesAssumption, SMTT(60) DEF Turns, Editors, OpenProject, Packs, LoadFits, AtWork, TypeOK,
     Packers, Projects, Loads, Threads, Packing, Snapped, Writing, UiFree, Loading, IsOpen
<1>5. ASSUME NEW p \in Packages \ harmed' PROVE Saved(p)'
  <2>1. Quiet(p)
    <3>1. packer'["ui"].to = None /\ \A t \in Threads \ {"ui"} : packer'[t] = packer[t]
      BY NothingTyped DEF TypeOK, Threads, NoPack
    <3>2. p # None
      BY FilesAssumption
    <3>3. packer["ui"].step # "rename"
      OBVIOUS
    <3> QED
      BY <3>1, <3>2, <3>3 DEF Quiet, Continues, Worked, Threads, UiFree, TypeOK, Turns, Loading
  <2> QED
    BY <2>1, QuietKeepsSaved
<1> QED
  BY <1>1, <1>2, <1>3, <1>4, <1>5

LEMMA FinishSaveKeeps ==
  ASSUME FilesInv, FinishSave
  PROVE  FilesInv'
  BY UiDone DEF FinishSave, disk, session, history

LEMMA StartJobKeeps ==
  ASSUME FilesInv, NEW kind \in {"delete", "import"}, StartJob(kind)
  PROVE  FilesInv'
<1> USE DEF FilesInv, StartJob, Usable, Pack, disk, session, history
<1>1. TypeOK'
  BY DEF TypeOK, Packers, Loads, Editors, PackSteps, LoadSteps, Projects, Threads, Packing,
     Snapped, Writing, NoPack, NoLoad, NoEditor, NoProject, NotClosing
<1>2. Turns' /\ OpenProject'
  BY FilesAssumption, SMTT(60) DEF Turns, Editors, OpenProject, Packs, LoadFits, AtWork, TypeOK,
     Packers, Projects, Loads, Threads, Packing, Snapped, Writing, UiFree, Loading, IsOpen
<1>3. \A t \in Threads : Packs(t)'
  BY FilesAssumption, SMTT(60) DEF Turns, Editors, OpenProject, Packs, LoadFits, AtWork, TypeOK,
     Packers, Projects, Loads, Threads, Packing, Snapped, Writing, UiFree, Loading, IsOpen
<1>4. LoadFits'
  BY FilesAssumption, SMTT(60) DEF Turns, Editors, OpenProject, Packs, LoadFits, AtWork, TypeOK,
     Packers, Projects, Loads, Threads, Packing, Snapped, Writing, UiFree, Loading, IsOpen
<1>5. ASSUME NEW p \in Packages \ harmed' PROVE Saved(p)'
  <2>1. Quiet(p)
    <3>1. \A t \in Threads \ {"job"} : packer'[t] = packer[t]
      BY DEF TypeOK, Threads
    <3>2. packer["job"].step = "idle" /\ p # None /\ load.package = None
      BY FilesAssumption DEF Turns, LoadFits, Loading
    <3>3. /\ packer'["job"].step = "work" /\ packer'["job"].to = project.package
          /\ packer'["job"].from = project.workspace
      BY DEF TypeOK, Threads
    <3>4. packer'["job"].to = p => Begins("job", p)
      BY <3>2, <3>3 DEF Begins, Snapped, Writing
    <3> QED
      BY <3>1, <3>2, <3>3, <3>4 DEF Quiet, Continues, Worked, Threads, UiFree
  <2> QED
    BY <2>1, QuietKeepsSaved
<1> QED
  BY <1>1, <1>2, <1>3, <1>4, <1>5

LEMMA PackerTyped ==
  ASSUME packer \in [Threads -> Packers], NEW t \in Threads, NEW k \in Packers,
         packer' = [packer EXCEPT ![t] = k]
  PROVE  packer' \in [Threads -> Packers]
  OBVIOUS

LEMMA PromiseTyped ==
  ASSUME NEW k \in Packers, NEW s \in PackSteps, NEW made \in SUBSET Changes
  PROVE  [k EXCEPT !.step = s, !.promise = made] \in Packers
  BY DEF Packers

LEMMA JobWritesTyped ==
  ASSUME packer \in [Threads -> Packers], NEW c \in Changes,
         packer' = [packer EXCEPT !["job"] = [@ EXCEPT !.step = "lock", !.promise = {c}]]
  PROVE  packer' \in [Threads -> Packers]
<1> DEFINE wrote == [packer["job"] EXCEPT !.step = "lock", !.promise = {c}]
<1>1. "job" \in Threads /\ packer["job"] \in Packers
  BY DEF Threads
<1>2. "lock" \in PackSteps /\ {c} \in SUBSET Changes
  BY StepsTyped
<1>3. wrote \in Packers
  BY <1>1, <1>2, PromiseTyped
<1>4. packer' = [packer EXCEPT !["job"] = wrote]
  OBVIOUS
<1> HIDE DEF wrote
<1> QED
  BY <1>1, <1>3, <1>4, PackerTyped

LEMMA JobWritesKeeps ==
  ASSUME FilesInv, NEW c \in Changes, JobWrites(c)
  PROVE  FilesInv'
<1> USE DEF FilesInv, session, history
<1>0. /\ packer["job"].from \in Workspaces
      /\ \A w \in Workspaces :
            /\ IsWhole(database'[w]) <=> IsWhole(database[w])
            /\ database[w].holds \subseteq database'[w].holds
      /\ c \in database'[packer["job"].from].holds
      /\ packer' = [packer EXCEPT !["job"] = [@ EXCEPT !.step = "lock", !.promise = {c}]]
      /\ UNCHANGED <<package, temp, session, job, load, task, close, history>>
  <2>1. packer["job"].from \in Workspaces
    BY DEF Packs, AtWork, TypeOK, Packers, Threads, JobWrites
  <2> QED
    BY <2>1 DEF TypeOK, JobWrites, Store, Whole, IsWhole
<1>1. TypeOK'
  <2>1. {c} \in SUBSET Changes
    OBVIOUS
  <2>2. database' \in [Workspaces -> Files]
    BY <1>0, <2>1, StoreTyped DEF TypeOK, JobWrites
  <2>3. packer' \in [Threads -> Packers]
    BY <1>0, JobWritesTyped DEF TypeOK
  <2> QED
    BY <1>0, <2>2, <2>3 DEF TypeOK
<1>2. Turns' /\ OpenProject'
  BY <1>0, FilesAssumption, SMTT(60) DEF Turns, Editors, OpenProject, Packs, LoadFits, AtWork,
     TypeOK, Packers, Projects, Loads, Threads, Packing, Snapped, Writing, UiFree, Loading,
     IsOpen
<1>3. \A t \in Threads : Packs(t)'
  BY <1>0, FilesAssumption, SMTT(60) DEF Turns, Editors, OpenProject, Packs, LoadFits, AtWork,
     TypeOK, Packers, Projects, Loads, Threads, Packing, Snapped, Writing, UiFree, Loading,
     IsOpen
<1>4. LoadFits'
  BY <1>0, FilesAssumption, SMTT(60) DEF Turns, Editors, OpenProject, Packs, LoadFits, AtWork,
     TypeOK, Packers, Projects, Loads, Threads, Packing, Snapped, Writing, UiFree, Loading,
     IsOpen
<1>5. ASSUME NEW p \in Packages \ harmed' PROVE Saved(p)'
  <2>1. Quiet(p)
    <3>1. \A t \in Threads \ {"job"} : packer'[t] = packer[t]
      BY <1>0 DEF TypeOK, Threads
    <3>2. /\ packer["job"].step = "work" /\ packer'["job"].step = "lock"
          /\ packer'["job"].to = packer["job"].to /\ packer'["job"].from = packer["job"].from
          /\ packer'["job"].snap = packer["job"].snap
          /\ packer'["job"].shared = packer["job"].shared
      BY <1>0 DEF TypeOK, Threads, Packers, JobWrites
    <3>3. packer'["job"].to = p => Continues("job", p)
      BY <3>2 DEF Continues, Snapped, Writing
    <3>4. /\ project.package = p => project.workspace \in Workspaces
          /\ load.package = p => load.fresh \in Workspaces
      BY FilesAssumption DEF TypeOK, Projects, Loads, OpenProject, IsOpen, LoadFits
    <3> QED
      BY <1>0, <3>1, <3>2, <3>3, <3>4 DEF Quiet, Continues, Worked, Threads, UiFree
  <2> QED
    BY <1>0, <2>1, QuietKeepsSaved
<1> QED
  BY <1>1, <1>2, <1>3, <1>4, <1>5

LEMMA SaveImageKeeps ==
  ASSUME FilesInv, SaveImage
  PROVE  FilesInv'
<1> USE DEF FilesInv
<1>0. /\ editor.workspace \in Workspaces
      /\ \A w \in Workspaces :
            /\ IsWhole(database'[w]) <=> IsWhole(database[w])
            /\ database[w].holds \subseteq database'[w].holds
      /\ UNCHANGED <<package, temp, memory, project, retired, job, load, packer, task, close,
                     kept, harmed>>
  <2>1. editor.workspace \in Workspaces
    BY DEF OpenProject, TypeOK, Editors, SaveImage
  <2> QED
    BY <2>1 DEF SaveImage, Store, Whole, IsWhole, TypeOK, history
<1>1. TypeOK'
  <2>1. editor.edits \in SUBSET Changes
    BY DEF TypeOK, Editors
  <2>2. database' \in [Workspaces -> Files]
    BY <1>0, <2>1, StoreTyped DEF TypeOK, SaveImage
  <2>3. editor' \in Editors
    BY NothingTyped DEF TypeOK, Editors, SaveImage
  <2> QED
    BY <1>0, <2>2, <2>3 DEF TypeOK
<1>2. Turns' /\ OpenProject'
  <2>1. (editor'.state # "empty" => editor'.workspace # None)
        /\ (editor'.state = "empty" => editor'.edits = {})
    BY FilesAssumption DEF OpenProject, SaveImage, TypeOK, Editors, NoEditor
  <2> QED
    BY <1>0, <2>1 DEF Turns, OpenProject, TypeOK, Projects, UiFree, Loading, IsOpen
<1>3. \A t \in Threads : Packs(t)'
  BY <1>0, FilesAssumption, SMTT(60) DEF Turns, Editors, OpenProject, Packs, LoadFits, AtWork,
     TypeOK, Packers, Projects, Loads, Threads, Packing, Snapped, Writing, UiFree, Loading,
     IsOpen
<1>4. LoadFits'
  BY <1>0, FilesAssumption, SMTT(60) DEF Turns, Editors, OpenProject, Packs, LoadFits, AtWork,
     TypeOK, Packers, Projects, Loads, Threads, Packing, Snapped, Writing, UiFree, Loading,
     IsOpen
<1>5. ASSUME NEW p \in Packages \ harmed' PROVE Saved(p)'
  <2>1. Quiet(p)
    BY <1>0, FilesAssumption, SMTT(60) DEF Quiet, Begins, Continues, Worked, Turns, Editors,
       OpenProject, Packs, LoadFits, AtWork, TypeOK, Packers, Projects, Loads, Threads, Packing,
       Snapped, Writing, UiFree, Loading, IsOpen
  <2> QED
    BY <1>0, <2>1, QuietKeepsSaved
<1> QED
  BY <1>1, <1>2, <1>3, <1>4, <1>5

LEMMA RetireKeeps ==
  ASSUME FilesInv, NEW w \in Workspaces, Retire(w)
  PROVE  FilesInv'
<1> USE DEF FilesInv, Retire, Missing, history
<1>1. TypeOK'
  <2>1. database' \in [Workspaces -> Files]
    BY DEF TypeOK, Files
  <2> QED
    BY <2>1 DEF TypeOK
<1>2. Turns' /\ OpenProject'
  BY FilesAssumption, SMTT(60) DEF Turns, Editors, OpenProject, Packs, LoadFits, AtWork, TypeOK,
     Packers, Projects, Loads, Threads, Packing, Snapped, Writing, UiFree, Loading, IsOpen,
     IsWhole
<1>3. \A t \in Threads : Packs(t)'
  BY FilesAssumption, SMTT(60) DEF Turns, Editors, OpenProject, Packs, LoadFits, AtWork, TypeOK,
     Packers, Projects, Loads, Threads, Packing, Snapped, Writing, UiFree, Loading, IsOpen,
     IsWhole
<1>4. LoadFits'
  BY FilesAssumption, SMTT(60) DEF Turns, Editors, OpenProject, Packs, LoadFits, AtWork, TypeOK,
     Packers, Projects, Loads, Threads, Packing, Snapped, Writing, UiFree, Loading, IsOpen,
     IsWhole
<1>5. ASSUME NEW p \in Packages \ harmed' PROVE Saved(p)'
  <2>1. Quiet(p)
    BY FilesAssumption, SMTT(60) DEF Quiet, Begins, Continues, Worked, Turns, Editors,
       OpenProject, Packs, LoadFits, AtWork, TypeOK, Packers, Projects, Loads, Threads, Packing,
       Snapped, Writing, UiFree, Loading, IsOpen, IsWhole
  <2> QED
    BY <2>1, QuietKeepsSaved
<1> QED
  BY <1>1, <1>2, <1>3, <1>4, <1>5

LEMMA RequestEnterLoadedProjectKeeps ==
  ASSUME FilesInv, RequestEnterLoadedProject
  PROVE  FilesInv'
<1> USE DEF FilesInv, RequestEnterLoadedProject, UiFree, Loading, IsOpen, disk, history
<1>0. /\ load'.step = load.step /\ load'.package = load.package /\ load'.fresh = load.fresh
      /\ load'.create = load.create /\ load'.old = load.old
      /\ project'.workspace = project.workspace /\ project'.package = project.package
      /\ project' # project => load.step = "none" /\ IsOpen
  BY DEF TypeOK, Loads, Projects
<1>1. TypeOK'
  <2>1. load' \in Loads
    BY DEF TypeOK, Loads
  <2>2. project' \in Projects
    BY DEF TypeOK, Projects
  <2> QED
    BY <2>1, <2>2 DEF TypeOK
<1>2. Turns' /\ OpenProject'
  BY <1>0, FilesAssumption, SMTT(60) DEF Turns, Editors, OpenProject, Packs, LoadFits, AtWork,
     TypeOK, Packers, Projects, Loads, Threads, Packing, Snapped, Writing
<1>3. \A t \in Threads : Packs(t)'
  BY <1>0, FilesAssumption, SMTT(60) DEF Turns, Editors, OpenProject, Packs, LoadFits, AtWork,
     TypeOK, Packers, Projects, Loads, Threads, Packing, Snapped, Writing
<1>4. LoadFits'
  BY <1>0, FilesAssumption, SMTT(60) DEF Turns, Editors, OpenProject, Packs, LoadFits, AtWork,
     TypeOK, Packers, Projects, Loads, Threads, Packing, Snapped, Writing
<1>5. ASSUME NEW p \in Packages \ harmed' PROVE Saved(p)'
  <2>1. Quiet(p)
    BY <1>0, FilesAssumption, SMTT(60) DEF Quiet, Begins, Continues, Worked, Turns, Editors,
       OpenProject, Packs, LoadFits, AtWork, TypeOK, Packers, Projects, Loads, Threads, Packing,
       Snapped, Writing
  <2> QED
    BY <1>0, <2>1, QuietKeepsSaved
<1> QED
  BY <1>1, <1>2, <1>3, <1>4, <1>5

LEMMA LoaderPackedKeeps ==
  ASSUME FilesInv, LoaderPacked
  PROVE  FilesInv'
<1> USE DEF FilesInv, LoaderPacked, LoadAt, NoPack, disk, session, history
<1>1. TypeOK'
  BY DEF TypeOK, Packers, Loads, Editors, PackSteps, LoadSteps, Projects, Threads, Packing,
     Snapped, Writing, NoLoad, NoEditor, NoProject, NotClosing
<1>2. Turns' /\ OpenProject'
  BY FilesAssumption, SMTT(60) DEF Turns, Editors, OpenProject, Packs, LoadFits, AtWork, TypeOK,
     Packers, Projects, Loads, Threads, Packing, Snapped, Writing, UiFree, Loading, IsOpen
<1>3. \A t \in Threads : Packs(t)'
  BY FilesAssumption, SMTT(60) DEF Turns, Editors, OpenProject, Packs, LoadFits, AtWork, TypeOK,
     Packers, Projects, Loads, Threads, Packing, Snapped, Writing, UiFree, Loading, IsOpen
<1>4. LoadFits'
  BY FilesAssumption, SMTT(60) DEF Turns, Editors, OpenProject, Packs, LoadFits, AtWork, TypeOK,
     Packers, Projects, Loads, Threads, Packing, Snapped, Writing, UiFree, Loading, IsOpen
<1>5. ASSUME NEW p \in Packages \ harmed' PROVE Saved(p)'
  <2>1. Quiet(p)
    <3>1. packer'["loader"].to = None /\ \A t \in Threads \ {"loader"} : packer'[t] = packer[t]
      BY NothingTyped DEF TypeOK, Threads, NoPack
    <3>2. p # None
      BY FilesAssumption
    <3>3. packer["loader"].step # "rename"
      OBVIOUS
    <3> QED
      BY <3>1, <3>2, <3>3 DEF Quiet, Continues, Worked, Threads, UiFree, TypeOK, Loads
  <2> QED
    BY <2>1, QuietKeepsSaved
<1> QED
  BY <1>1, <1>2, <1>3, <1>4, <1>5

LEMMA OpenServicesKeeps ==
  ASSUME FilesInv, OpenServices
  PROVE  FilesInv'
<1> USE DEF FilesInv, OpenServices, LoadAt, disk, session, history
<1>1. TypeOK'
  BY DEF TypeOK, Packers, Loads, Editors, PackSteps, LoadSteps, Projects, Threads, Packing,
     Snapped, Writing, NoPack, NoLoad, NoEditor, NoProject, NotClosing
<1>2. Turns' /\ OpenProject'
  BY FilesAssumption, SMTT(60) DEF Turns, Editors, OpenProject, Packs, LoadFits, AtWork, TypeOK,
     Packers, Projects, Loads, Threads, Packing, Snapped, Writing, UiFree, Loading, IsOpen,
     IsWhole
<1>3. \A t \in Threads : Packs(t)'
  BY FilesAssumption, SMTT(60) DEF Turns, Editors, OpenProject, Packs, LoadFits, AtWork, TypeOK,
     Packers, Projects, Loads, Threads, Packing, Snapped, Writing, UiFree, Loading, IsOpen,
     IsWhole
<1>4. LoadFits'
  BY FilesAssumption, SMTT(60) DEF Turns, Editors, OpenProject, Packs, LoadFits, AtWork, TypeOK,
     Packers, Projects, Loads, Threads, Packing, Snapped, Writing, UiFree, Loading, IsOpen,
     IsWhole
<1>5. ASSUME NEW p \in Packages \ harmed' PROVE Saved(p)'
  <2>1. Quiet(p)
    BY FilesAssumption, SMTT(60) DEF Quiet, Begins, Continues, Worked, Turns, Editors,
       OpenProject, Packs, LoadFits, AtWork, TypeOK, Packers, Projects, Loads, Threads, Packing,
       Snapped, Writing, UiFree, Loading, IsOpen, IsWhole
  <2> QED
    BY <2>1, QuietKeepsSaved
<1> QED
  BY <1>1, <1>2, <1>3, <1>4, <1>5

\* A thread begins to pack the open project when its database holds what is to
\* be saved.
LEMMA PackBegins ==
  ASSUME FilesInv, NEW t \in {"ui", "loader"}, NEW step \in {"lock", "snapshot"},
         NEW s \in SUBSET Changes, NEW promise \in SUBSET Changes,
         IsOpen, packer[t].step = "idle", project' = project,
         promise \subseteq database[project.workspace].holds \cup s,
         database' = Store(project.workspace, s), Pack(t, step, project, promise)
  PROVE  /\ packer' \in [Threads -> Packers] /\ database' \in [Workspaces -> Files]
         /\ \A u \in Threads \ {t} : packer'[u] = packer[u]
         /\ packer'[t] = [step |-> step, from |-> project.workspace, to |-> project.package,
                          snap |-> {}, promise |-> promise, shared |-> FALSE]
         /\ \A w \in Workspaces : /\ IsWhole(database'[w]) <=> IsWhole(database[w])
                                  /\ database[w].holds \subseteq database'[w].holds
         /\ \A u \in Threads : Packs(u)'
         /\ \A p \in Packages :
               /\ UNCHANGED <<package, temp, kept>>
               /\ load'.package = load.package /\ load'.fresh = load.fresh
               /\ load'.create = load.create
               /\ load'.step \in {"open", "opened"} => load.step \in {"open", "opened"}
               /\ UiFree' => UiFree
               => Quiet(p)
<1>1. project.workspace \in Workspaces /\ project.package \in Packages /\ project \in Projects
  BY FilesAssumption DEF FilesInv, TypeOK, Projects, OpenProject, IsOpen
<1>2. packer' \in [Threads -> Packers] /\ database' \in [Workspaces -> Files]
  BY <1>1, PackTyped, StoreTyped, StepsTyped DEF FilesInv, TypeOK, Threads
<1>3. /\ \A u \in Threads \ {t} : packer'[u] = packer[u]
      /\ packer'[t] = [step |-> step, from |-> project.workspace, to |-> project.package,
                       snap |-> {}, promise |-> promise, shared |-> FALSE]
  BY DEF FilesInv, TypeOK, Pack, Threads
<1>4. IsWhole(database[project.workspace])
  BY DEF FilesInv, OpenProject
<1>5. \A w \in Workspaces : /\ IsWhole(database'[w]) <=> IsWhole(database[w])
                            /\ database[w].holds \subseteq database'[w].holds
  BY <1>1, <1>4 DEF FilesInv, TypeOK, Store, Whole, IsWhole
<1>6. promise \subseteq database'[project.workspace].holds
  BY <1>1 DEF FilesInv, TypeOK, Store, Whole
<1>7. ASSUME NEW u \in Threads PROVE Packs(u)'
  <2>1. Packs(u) /\ packer[u] \in Packers
    BY DEF FilesInv, TypeOK
  <2>2. CASE u = t
    BY <1>1, <1>3, <1>6, <2>2, FilesAssumption DEF Packs, AtWork, Packing, Snapped, Writing
  <2>3. CASE u # t
    <3>1. packer'[u] = packer[u]
      BY <1>3, <2>3
    <3>2. AtWork(u) => packer[u].from \in Workspaces
      BY <2>1 DEF Packs, Packers
    <3> QED
      BY <1>5, <2>1, <3>1, <3>2 DEF Packs, AtWork
  <2> QED
    BY <2>2, <2>3
<1>8. ASSUME NEW p \in Packages, UNCHANGED <<package, temp, kept>>,
             load'.package = load.package, load'.fresh = load.fresh, load'.create = load.create,
             load'.step \in {"open", "opened"} => load.step \in {"open", "opened"},
             UiFree' => UiFree
      PROVE  Quiet(p)
  <2>1. packer'[t].to = p => Begins(t, p)
    BY <1>3 DEF Begins, Snapped, Writing
  <2>2. \A u \in Threads \ {t} : packer'[u].to = p => Continues(u, p)
    BY <1>3, <1>8 DEF Continues
  <2>3. load.package = p => load.fresh \in Workspaces
    BY FilesAssumption DEF FilesInv, TypeOK, Loads, LoadFits
  <2>4. packer["job"].to = p => packer["job"].from \in Workspaces
    BY FilesAssumption DEF FilesInv, TypeOK, Packers, Packs, Threads
  <2>5. packer'["job"] = packer["job"]
    BY <1>3 DEF Threads
  <2>6. packer[t].step # "rename"
    OBVIOUS
  <2> QED
    BY <1>1, <1>3, <1>5, <1>8, <2>1, <2>2, <2>3, <2>4, <2>5, <2>6 DEF Quiet
<1> QED
  BY <1>2, <1>3, <1>5, <1>7, <1>8

\* A project is left when the UI thread packs nothing, or is done with it.
LEMMA CloseKeeps ==
  ASSUME FilesInv, Beside, IsOpen, ~Loading,
         Close, UNCHANGED <<package, temp, database, job, load, kept, harmed>>,
         \/ UiFree /\ UNCHANGED <<packer, task>>
         \/ /\ packer["ui"].step \in {"packed", "failed"}
            /\ packer' = [packer EXCEPT !["ui"] = NoPack] /\ task' = "none"
  PROVE  FilesInv'
<1>1. /\ \A t \in Threads \ {"ui"} : packer'[t] = packer[t]
      /\ packer'["ui"].to = None /\ packer'["ui"].from = None
      /\ packer'["ui"].step = "idle" /\ task' = "none" /\ packer["ui"].step # "rename"
      /\ packer' \in [Threads -> Packers]
  <2>1. packer["ui"].to = None /\ packer["ui"].from = None /\ packer \in [Threads -> Packers]
    BY DEF UiFree, AtWork, Packing, Snapped, Writing, FilesInv, Packs, Threads, TypeOK
  <2>2. CASE UiFree /\ UNCHANGED <<packer, task>>
    BY <2>1, <2>2 DEF FilesInv, Turns, UiFree
  <2>3. CASE /\ packer["ui"].step \in {"packed", "failed"}
             /\ packer' = [packer EXCEPT !["ui"] = NoPack] /\ task' = "none"
    <3>1. /\ \A t \in Threads \ {"ui"} : packer'[t] = packer[t]
          /\ packer'["ui"] = NoPack /\ packer' \in [Threads -> Packers]
      BY <2>1, <2>3, NothingTyped DEF Threads
    <3> QED
      BY <2>3, <3>1 DEF UiFree, NoPack
  <2> QED
    BY <2>2, <2>3
<1>2. project' = NoProject /\ retired' \subseteq Workspaces
  BY DEF Close, FilesInv, TypeOK, Projects, IsOpen
<1>3. TypeOK'
  BY <1>1, <1>2, NothingTyped DEF FilesInv, TypeOK, Beside
<1>4. Turns' /\ OpenProject' /\ LoadFits'
  BY <1>1, <1>2 DEF FilesInv, Turns, OpenProject, LoadFits, Loading, IsOpen, NoProject, Beside,
     UiFree, Threads, Packing, Snapped, Writing
<1>5. \A t \in Threads : Packs(t)'
  <2>1. ~AtWork("ui")' /\ ~AtWork("loader")
    BY <1>1 DEF FilesInv, Turns, Loading, AtWork, Packing, Snapped, Writing
  <2> QED
    BY <1>1, <2>1 DEF FilesInv, Packs, AtWork, Threads, Snapped, Packing, Writing
<1>6. ASSUME NEW p \in Packages \ harmed' PROVE Saved(p)'
  <2>1. p # None /\ load.package = None
    BY FilesAssumption DEF FilesInv, LoadFits, Loading
  <2>2. Quiet(p)
    BY <1>1, <1>2, <2>1 DEF Quiet, Continues, NoProject, Threads, UiFree
  <2> QED
    BY <2>2, QuietKeepsSaved DEF FilesInv
<1> QED
  BY <1>3, <1>4, <1>5, <1>6 DEF FilesInv

\* A save, a saving close or quitting begins to pack on the UI thread.
LEMMA UiPacks ==
  ASSUME FilesInv, Beside, NEW k \in {"save", "close", "quit"}, k # "quit" => ~Loading,
         NEW s \in SUBSET Changes, NEW promise \in SUBSET Changes,
         IsOpen, UiFree, promise \subseteq database[project.workspace].holds \cup s,
         database' = Store(project.workspace, s), Pack("ui", "lock", project, promise),
         task' = k, UNCHANGED <<package, temp, project, job, load, retired, kept, harmed>>
  PROVE  FilesInv'
<1>1. packer["ui"].step = "idle"
  BY DEF UiFree
<1> DEFINE packs == [step |-> "lock", from |-> project.workspace, to |-> project.package,
                     snap |-> {}, promise |-> promise, shared |-> FALSE]
<1>2. /\ packer' \in [Threads -> Packers] /\ database' \in [Workspaces -> Files]
      /\ \A u \in Threads \ {"ui"} : packer'[u] = packer[u]
      /\ packer'["ui"] = packs
      /\ \A w \in Workspaces : IsWhole(database'[w]) <=> IsWhole(database[w])
      /\ \A u \in Threads : Packs(u)'
      /\ ~UiFree'
      /\ \A p \in Packages : Quiet(p)
  BY <1>1, PackBegins DEF UiFree
<1>3. TypeOK'
  BY <1>2 DEF FilesInv, TypeOK, Beside
<1>4. Turns'
  BY <1>2 DEF FilesInv, Turns, UiFree, Loading, Threads, Packing, Snapped, Writing
<1>5. OpenProject' /\ LoadFits'
  <2>1. project.workspace \in Workspaces
    BY DEF FilesInv, TypeOK, Projects, IsOpen
  <2>2. load.step \in {"open", "opened"} => load.fresh \in Workspaces
    BY DEF FilesInv, TypeOK, Loads, LoadFits
  <2> QED
    BY <1>2, <2>1, <2>2 DEF FilesInv, OpenProject, LoadFits, IsOpen, Beside, Threads
<1>6. ASSUME NEW p \in Packages \ harmed' PROVE Saved(p)'
  BY <1>2, QuietKeepsSaved DEF FilesInv
<1> QED
  BY <1>2, <1>3, <1>4, <1>5, <1>6 DEF FilesInv

LEMMA StoredTyped ==
  ASSUME FilesInv, IsOpen
  PROVE  /\ project.workspace \in Workspaces /\ Stored \in SUBSET Changes
         /\ memory \in SUBSET Changes
<1>1. project.workspace \in Workspaces
  BY DEF FilesInv, TypeOK, Projects, IsOpen
<1> QED
  BY <1>1, FilesHold DEF FilesInv, TypeOK, Stored

LEMMA OrganizeLibraryKeeps ==
  ASSUME FilesInv, NEW c \in Changes, OrganizeLibrary(c)
  PROVE  FilesInv'
<1>1. Beside /\ IsOpen /\ {c} \in SUBSET Changes
  BY DEF FilesInv, TypeOK, OpenProject, Beside, OrganizeLibrary, Usable, session
<1> QED
  BY <1>1, UiPacks DEF OrganizeLibrary, Usable, session, history

LEMMA SaveProjectKeeps ==
  ASSUME FilesInv, SaveProject
  PROVE  FilesInv'
<1>1. Beside
  BY DEF FilesInv, TypeOK, OpenProject, Beside, SaveProject, Finalize, Editors, Persist
<1>2. CASE UNCHANGED <<database, memory, packer, task>>
  BY <1>1, <1>2, UserActs DEF SaveProject, history
<1>3. CASE Persist /\ task' = "save" /\ Pack("ui", "lock", project, Stored)
  BY <1>1, <1>3, UiPacks, StoredTyped DEF SaveProject, Persist, Stored, history
<1> QED
  BY <1>2, <1>3 DEF SaveProject

LEMMA FinishProjectCloseKeeps ==
  ASSUME FilesInv, FinishProjectClose
  PROVE  FilesInv'
<1>1. IsOpen /\ UiFree /\ ~Loading
  BY DEF FinishProjectClose, CloseBlocked
<1>2. Beside
  BY DEF FilesInv, TypeOK, OpenProject, Beside, FinishProjectClose, Persist, Close, NotClosing
<1>3. CASE Persist /\ task' = "close" /\ Pack("ui", "lock", project, Stored)
           /\ UNCHANGED <<project, retired>>
  BY <1>1, <1>2, <1>3, UiPacks, StoredTyped DEF FinishProjectClose, Persist, Stored, history
<1>4. CASE UNCHANGED <<database, memory, project, retired, packer, task>>
  BY <1>2, <1>4, UserActs DEF FinishProjectClose, history
<1>5. CASE Close /\ UNCHANGED <<database, packer, task>>
  BY <1>1, <1>2, <1>5, CloseKeeps DEF FinishProjectClose, history
<1> QED
  BY <1>3, <1>4, <1>5 DEF FinishProjectClose

LEMMA FinishCloseKeeps ==
  ASSUME FilesInv, FinishClose
  PROVE  FilesInv'
<1>1. IsOpen /\ ~Loading /\ packer["ui"].step \in {"packed", "failed"}
  BY DEF FilesInv, OpenProject, Turns, FinishClose
<1>2. CASE Close
  <2>1. Beside
    BY <1>2 DEF FilesInv, TypeOK, OpenProject, Beside, FinishClose, Close
  <2> QED
    BY <1>1, <1>2, <2>1, CloseKeeps DEF FinishClose, disk, history
<1>3. CASE UNCHANGED <<project, memory, retired>>
  BY <1>3, UiDone DEF FinishClose, disk, session, history
<1> QED
  BY <1>2, <1>3 DEF FinishClose

\* Nothing is worked on when the process has ended.
LEMMA EndedKeeps ==
  ASSUME FilesInv, Ended, UNCHANGED <<package, temp, history>>
  PROVE  FilesInv'
<1>1. TypeOK'
  BY EndTyped DEF FilesInv
<1>2. \A t \in Threads : packer'[t] = NoPack
  BY DEF Ended
<1>3. Turns' /\ OpenProject' /\ LoadFits'
  BY <1>2 DEF Ended, Turns, OpenProject, LoadFits, UiFree, Loading, IsOpen, Threads, NoPack,
     NoLoad, NoProject, NoEditor, Packing, Snapped, Writing
<1>4. \A t \in Threads : Packs(t)'
  BY <1>2 DEF Packs, AtWork, NoPack, Packing, Snapped, Writing
<1>5. ASSUME NEW p \in Packages \ harmed' PROVE Saved(p)'
  <2>1. p # None
    BY FilesAssumption
  <2>2. Quiet(p)
    BY <1>2, <2>1 DEF Ended, Quiet, Worked, NoPack, NoLoad, NoProject, Threads, history
  <2> QED
    BY <2>2, QuietKeepsSaved DEF FilesInv, history
<1> QED
  BY <1>1, <1>3, <1>4, <1>5 DEF FilesInv

LEMMA QuitKeeps ==
  ASSUME FilesInv, Quit
  PROVE  FilesInv'
<1>1. CASE Ended
  BY <1>1, EndedKeeps DEF Quit
<1>2. CASE /\ IsOpen /\ Persist /\ task' = "quit" /\ Pack("ui", "lock", project, Stored)
           /\ UNCHANGED <<project, editor, retired, job, load, close>>
  <2>1. Beside
    BY <1>2 DEF FilesInv, TypeOK, OpenProject, Beside, Persist
  <2> QED
    BY <1>2, <2>1, UiPacks, StoredTyped DEF Quit, Persist, Stored, history
<1> QED
  BY <1>1, <1>2 DEF Quit

LEMMA LoaderPersistsKeeps ==
  ASSUME FilesInv, LoaderPersists
  PROVE  FilesInv'
<1>1. /\ load.step = "persist" /\ load \in Loads /\ load.old = project
      /\ packer["loader"].step = "idle"
  BY DEF FilesInv, TypeOK, Turns, LoaderPersists
<1>2. /\ load' \in Loads /\ load'.package = load.package /\ load'.fresh = load.fresh
      /\ load'.create = load.create /\ load'.old = load.old
      /\ load'.step = IF load.old.entered THEN "pack" ELSE "unpack"
  BY <1>1 DEF LoaderPersists, LoadAt, Loads, LoadSteps
<1>3. CASE ~load.old.entered
  <2>1. UNCHANGED <<package, temp, database, memory, project, editor, retired, job, packer, task,
                    close, kept, harmed>>
    BY <1>3 DEF LoaderPersists, history
  <2>2. TypeOK'
    BY <1>2, <2>1 DEF FilesInv, TypeOK
  <2>3. Turns' /\ OpenProject' /\ LoadFits' /\ \A t \in Threads : Packs(t)'
    BY <1>1, <1>2, <1>3, <2>1 DEF FilesInv, Turns, OpenProject, LoadFits, Packs, AtWork, UiFree,
       Loading, IsOpen
  <2>4. ASSUME NEW p \in Packages \ harmed' PROVE Saved(p)'
    <3>1. Quiet(p)
      BY <1>2, <1>3, <2>1 DEF Quiet, Continues, UiFree
    <3> QED
      BY <2>1, <3>1, QuietKeepsSaved DEF FilesInv
  <2> QED
    BY <2>2, <2>3, <2>4 DEF FilesInv
<1>4. CASE load.old.entered
  <2>1. /\ IsOpen /\ UNCHANGED <<package, temp, project, editor, retired, job, task, close, kept,
                                harmed>>
        /\ memory' = {} /\ database' = Store(project.workspace, memory)
        /\ Pack("loader", "snapshot", project, Stored)
    BY <1>1, <1>4 DEF LoaderPersists, FilesInv, OpenProject, history
  <2>2. memory \in SUBSET Changes /\ Stored \in SUBSET Changes
    BY <2>1, StoredTyped
  <2> DEFINE packs == [step |-> "snapshot", from |-> project.workspace, to |-> project.package,
                      snap |-> {}, promise |-> Stored, shared |-> FALSE]
  <2>3. /\ packer' \in [Threads -> Packers] /\ database' \in [Workspaces -> Files]
        /\ \A u \in Threads \ {"loader"} : packer'[u] = packer[u]
        /\ packer'["loader"] = packs
        /\ \A w \in Workspaces : IsWhole(database'[w]) <=> IsWhole(database[w])
        /\ \A u \in Threads : Packs(u)'
    BY <1>1, <2>1, <2>2, PackBegins, Zenon DEF Stored
  <2>4. UiFree' <=> UiFree
    BY <2>3 DEF UiFree, Threads
  <2>5. TypeOK'
    BY <1>2, <2>1, <2>3 DEF FilesInv, TypeOK
  <2>6. Turns'
    BY <1>1, <1>2, <1>4, <2>1, <2>3, <2>4 DEF FilesInv, Turns, Loading, Threads
  <2>7. OpenProject' /\ LoadFits'
    <3>1. project.workspace \in Workspaces
      BY <2>1, StoredTyped
    <3> QED
      BY <1>1, <1>2, <1>4, <2>1, <2>3, <3>1 DEF FilesInv, OpenProject, LoadFits, IsOpen, Threads
  <2>8. ASSUME NEW p \in Packages \ harmed' PROVE Saved(p)'
    <3>1. Quiet(p)
      BY <1>1, <1>2, <1>4, <2>1, <2>2, <2>4, PackBegins DEF Stored
    <3> QED
      BY <2>1, <3>1, QuietKeepsSaved DEF FilesInv
  <2> QED
    BY <2>3, <2>5, <2>6, <2>7, <2>8 DEF FilesInv
<1> QED
  BY <1>3, <1>4

LEMMA LoaderFailsKeeps ==
  ASSUME FilesInv, LoaderFails
  PROVE  FilesInv'
<1>1. /\ database' = [database EXCEPT ![load.fresh] = Missing]
      /\ packer' = [packer EXCEPT !["loader"] = NoPack]
      /\ load' = [NoLoad EXCEPT !.step = "failed"]
      /\ UNCHANGED <<package, temp, memory, project, editor, retired, job, task, close, kept,
                    harmed>>
      /\ load.step \notin {"none", "failed"} /\ packer["loader"].step # "rename"
  BY DEF LoaderFails, LoaderCleansUp, LoadBreaks, FilesInv, Turns, session, history
<1>2. /\ database' \in [Workspaces -> Files] /\ packer' \in [Threads -> Packers]
      /\ load' \in Loads
  BY <1>1, NothingTyped DEF FilesInv, TypeOK, Files
<1>3. /\ \A t \in Threads \ {"loader"} : packer'[t] = packer[t]
      /\ packer'["loader"] = NoPack
      /\ load'.step = "failed" /\ load'.package = None
  BY <1>1 DEF FilesInv, TypeOK, Threads, NoLoad
<1>4. /\ IsOpen => database'[project.workspace] = database[project.workspace]
      /\ \A t \in Threads : packer'[t].from # None =>
            packer'[t].from \in Workspaces /\ database'[packer'[t].from] = database[packer[t].from]
            /\ packer'[t] = packer[t]
  <2>1. load.fresh \notin {project.workspace, packer["job"].from}
    BY <1>1 DEF FilesInv, LoadFits
  <2>2. AtWork("ui") => packer["ui"].from = project.workspace
    BY DEF FilesInv, Packs, Threads
  <2>3. project.workspace \in Workspaces \cup {None}
    BY DEF FilesInv, TypeOK, Projects
  <2>4. ASSUME NEW t \in Threads, packer'[t].from # None
        PROVE  /\ packer'[t].from \in Workspaces
               /\ database'[packer'[t].from] = database[packer[t].from]
               /\ packer'[t] = packer[t]
    <3>1. t # "loader" /\ packer'[t] = packer[t] /\ packer[t] \in Packers
      BY <1>3, <2>4 DEF NoPack, FilesInv, TypeOK
    <3>2. packer[t].from \in Workspaces /\ packer[t].from # load.fresh
      BY <2>1, <2>2, <2>4, <3>1 DEF Packers, FilesInv, Packs, Threads
    <3> QED
      BY <1>1, <3>1, <3>2 DEF FilesInv, TypeOK
  <2> QED
    BY <1>1, <2>1, <2>3, <2>4 DEF FilesInv, TypeOK, IsOpen
<1>5. TypeOK'
  BY <1>1, <1>2 DEF FilesInv, TypeOK
<1>6. Turns' /\ OpenProject' /\ LoadFits'
  BY <1>1, <1>3, <1>4 DEF FilesInv, Turns, OpenProject, LoadFits, UiFree, Loading, IsOpen,
     Threads,
     NoPack
<1>7. \A t \in Threads : Packs(t)'
  <2>1. Packs("loader")'
    BY <1>3 DEF Packs, AtWork, NoPack, Packing, Snapped, Writing
  <2>2. ASSUME NEW t \in Threads \ {"loader"} PROVE Packs(t)'
    BY <1>1, <1>3, <1>4 DEF FilesInv, Packs, AtWork
  <2> QED
    BY <2>1, <2>2
<1>8. ASSUME NEW p \in Packages \ harmed' PROVE Saved(p)'
  <2>1. p # None
    BY FilesAssumption
  <2>2. packer'["loader"].to = None
    BY <1>3 DEF NoPack
  <2>3. packer["job"].to = p => packer["job"].from # None
    BY <2>1 DEF FilesInv, Packs, Threads
  <2>4. project.package = p => IsOpen
    BY <2>1 DEF FilesInv, OpenProject
  <2>5. Quiet(p)
    BY <1>1, <1>3, <1>4, <2>1, <2>2, <2>3, <2>4 DEF Quiet, Continues, Threads
  <2> QED
    BY <1>1, <2>5, QuietKeepsSaved DEF FilesInv
<1> QED
  BY <1>1, <1>5, <1>6, <1>7, <1>8 DEF FilesInv
\* A step of a thread that packs: it goes on with the package or is done with
\* it, and only that package and its temporary file change.
Moves(t) ==
    /\ packer[t].step \in Packing
    /\ packer' \in [Threads -> Packers]
    /\ package' \in [Packages -> Files] /\ temp' \in [Packages -> Files]
    /\ kept' \subseteq Packages \X Changes /\ harmed \subseteq harmed' /\ harmed' \subseteq Packages
    /\ \A q \in Packages \ {packer[t].to} :
          /\ package'[q] = package[q] /\ temp'[q] = temp[q]
          /\ \A c \in Changes : <<q, c>> \in kept' <=> <<q, c>> \in kept
    /\ \A u \in Threads \ {t} :
          /\ packer'[u].step = packer[u].step /\ packer'[u].from = packer[u].from
          /\ packer'[u].to = packer[u].to /\ packer'[u].snap = packer[u].snap
          /\ packer'[u].promise = packer[u].promise
          /\ packer[u].to # packer[t].to => packer'[u] = packer[u]
    /\ \/ /\ packer'[t].step \in Packing /\ packer'[t].from = packer[t].from
          /\ packer'[t].to = packer[t].to /\ packer'[t].promise = packer[t].promise
          /\ packer'[t].step \in Snapped => packer[t].promise \subseteq packer'[t].snap
       \/ /\ packer'[t].step \in {"packed", "failed"}
          /\ packer'[t].from = None /\ packer'[t].to = None
    /\ UNCHANGED <<database, memory, project, editor, retired, job, load, task, close>>

LEMMA MovesKeep ==
  ASSUME FilesInv, NEW t \in Threads, Moves(t),
         \A p \in Packages \ harmed' : p = packer[t].to => Saved(p)'
  PROVE  FilesInv'
<1>1. TypeOK'
  BY DEF FilesInv, TypeOK, Moves
<1>2. packer[t].step # "idle" /\ packer'[t].step # "idle"
  BY DEF Moves, Packing, Snapped, Writing
<1>3. Turns'
  <2>1. \A u \in Threads : /\ packer'[u].step = "idle" <=> packer[u].step = "idle"
                           /\ packer'[u].step \in Packing => packer[u].step \in Packing
    BY <1>2 DEF Moves, Packing
  <2> QED
    BY <2>1 DEF FilesInv, Turns, Moves, UiFree, Loading, Threads
<1>4. OpenProject'
  BY DEF FilesInv, OpenProject, Moves, IsOpen
<1>5. ASSUME NEW u \in Threads PROVE Packs(u)'
  <2>1. Packs(u)
    BY DEF FilesInv
  <2>2. CASE u # t
    BY <2>1, <2>2 DEF Packs, AtWork, Moves
  <2>3. CASE u = t /\ packer'[t].step \in Packing
    BY <2>1, <2>3, <1>2 DEF Packs, AtWork, Moves, Packing, Snapped, Writing
  <2>4. CASE u = t /\ packer'[t].step \in {"packed", "failed"}
    BY <2>4, FilesAssumption DEF Packs, AtWork, Moves, Packing, Snapped, Writing
  <2> QED
    BY <2>2, <2>3, <2>4 DEF Moves
<1>6. LoadFits'
  <2>1. packer'["job"].from \in {packer["job"].from, None}
    BY DEF Moves, Threads
  <2>2. load.step \notin {"none", "failed"} => load.fresh # None
    BY DEF FilesInv, LoadFits
  <2> QED
    BY <2>1, <2>2 DEF FilesInv, LoadFits, Moves
<1>7. ASSUME NEW p \in Packages \ harmed' PROVE Saved(p)'
  <2>1. CASE p = packer[t].to
    BY <2>1
  <2>2. CASE p # packer[t].to
    <3>1. p # None
      BY FilesAssumption
    <3>2. packer'[t].to # p
      BY <2>2, <3>1 DEF Moves
    <3>3. ASSUME NEW u \in Threads, packer[u].to = p \/ packer'[u].to = p
          PROVE  packer'[u] = packer[u]
      BY <2>2, <3>2, <3>3 DEF Moves
    <3>4. UiFree' => UiFree
      BY <1>2 DEF UiFree, Moves, Threads
    <3>5. Quiet(p)
      BY <2>2, <3>2, <3>3, <3>4 DEF Quiet, Continues, Worked, Moves, Threads
    <3> QED
      BY <3>5, QuietKeepsSaved DEF FilesInv, Moves
  <2> QED
    BY <2>1, <2>2
<1> QED
  BY <1>1, <1>3, <1>4, <1>5, <1>6, <1>7 DEF FilesInv

\* What is to be shown for the package itself when nothing more is saved in it.
LEMMA MovesSaved ==
  ASSUME FilesInv, NEW t \in Threads, Moves(t), NEW p \in Packages \ harmed, p = packer[t].to,
         UNCHANGED kept, Snapshots(p)', OnDisk(p)'
  PROVE  Saved(p)'
<1>1. Sources(p)
  BY DEF FilesInv, Saved
<1>2. Kept(p)' = Kept(p)
  BY DEF Kept
<1>3. \A u \in Threads : packer'[u].to = p => packer[u].to = p /\ packer'[u].from = packer[u].from
  BY FilesAssumption DEF Moves
<1>4. UiFree' => UiFree
  BY DEF UiFree, Moves, Threads, Packing, Snapped, Writing
<1>5. Sources(p)'
  BY <1>1, <1>2, <1>3, <1>4 DEF Sources, Moves, Threads
<1> QED
  BY <1>5 DEF Saved

\* A thread that packs is the only one with a snapshot for its package, if it
\* has one, and the package is there until it is removed.
LEMMA PackerAlone ==
  ASSUME FilesInv, NEW t \in Threads, packer[t].step \in Packing,
         NEW p \in Packages \ harmed, p = packer[t].to
  PROVE  /\ packer[t].step \in Snapped =>
               /\ \A u \in Threads \ {t} : packer[u].to = p => packer[u].step \notin Snapped
               /\ Kept(p) \subseteq packer[t].snap /\ packer[t].promise \subseteq packer[t].snap
               /\ packer[t].step # "rename" => package[p] # Missing \/ Kept(p) = {}
         /\ packer[t].step \in Writing => ~packer[t].shared
         /\ packer[t].step \in {"remove", "rename"} => temp[p] = Whole(packer[t].snap)
         /\ packer[t].from \in Workspaces
<1>1. Snapshots(p) /\ OnDisk(p) /\ Packs(t) /\ packer[t] \in Packers
  BY DEF FilesInv, Saved, TypeOK
<1>2. packer[t].from \in Workspaces
  BY <1>1 DEF Packs, AtWork, Packers
<1>3. Worked(p)
  BY DEF Worked
<1>4. ASSUME packer[t].step \in Snapped, NEW u \in Threads, packer[u].to = p,
             packer[u].step \in Snapped
      PROVE  u = t
  BY <1>1, <1>4 DEF Snapshots
<1>5. "rename" \in Snapped
  BY DEF Snapped, Writing
<1> QED
  BY <1>1, <1>2, <1>3, <1>4, <1>5 DEF Snapshots, OnDisk, Packs

\* A pack that fails before the package is removed.
LEMMA PackFailsKeeps ==
  ASSUME FilesInv, NEW t \in Threads, packer[t].step \in {"snapshot", "create", "write", "remove"},
         EndPack(t, "failed"),
         \/ UNCHANGED temp
         \/ /\ package[packer[t].to] # Missing /\ packer[t].step = "remove"
            /\ temp' = [temp EXCEPT ![packer[t].to] = Missing],
         UNCHANGED <<package, database, session, job, load, task, close, history>>
  PROVE  FilesInv'
<1>1. /\ packer[t].step \in Packing
      /\ packer' \in [Threads -> Packers] /\ packer'[t] = [NoPack EXCEPT !.step = "failed"]
      /\ \A u \in Threads \ {t} : packer'[u] = packer[u]
      /\ temp' \in [Packages -> Files]
      /\ \A q \in Packages \ {packer[t].to} : temp'[q] = temp[q]
  BY EndPackTyped, StepsTyped DEF FilesInv, TypeOK, EndPack, Packing, Snapped, Writing, Files
<1>2. packer'[t].step = "failed" /\ packer'[t].from = None /\ packer'[t].to = None
  BY <1>1 DEF NoPack
<1>3. Moves(t)
  BY <1>1, <1>2 DEF Moves, FilesInv, TypeOK, session, history
<1>4. ASSUME NEW p \in Packages \ harmed', p = packer[t].to PROVE Saved(p)'
  <2>1. p \in Packages \ harmed
    BY DEF history
  <2>2. Snapshots(p) /\ OnDisk(p)
    BY <2>1 DEF FilesInv, Saved
  <2>3. temp' # temp => /\ package[p] # Missing
                        /\ \A u \in Threads \ {t} : packer[u].to = p => packer[u].step \notin Snapped
    BY <1>1, <1>4, <2>1, PackerAlone DEF Snapped, Writing
  <2>4. Kept(p)' = Kept(p)
    BY DEF Kept, history
  <2>5. \A u \in Threads : packer'[u].to = p => u # t /\ packer'[u] = packer[u]
    <3>1. p # None
      BY FilesAssumption
    <3> QED
      BY <1>1, <1>2, <3>1
  <2>6. Snapshots(p)'
    BY <2>2, <2>3, <2>4, <2>5 DEF Snapshots, Snapped, Writing
  <2>7. OnDisk(p)'
    <3>1. \A u \in Threads : packer[u].to = p /\ packer[u].step = "rename" => packer'[u] = packer[u]
      BY <1>1
    <3>2. Worked(p)
      BY <1>4 DEF Worked
    <3> QED
      BY <2>2, <2>3, <2>4, <3>1, <3>2 DEF OnDisk
  <2> QED
    BY <1>3, <1>4, <2>1, <2>6, <2>7, MovesSaved DEF history
<1> QED
  BY <1>3, <1>4, MovesKeep

LEMMA CreateLiveDbSnapshotKeeps ==
  ASSUME FilesInv, NEW t \in Threads, CreateLiveDbSnapshot(t)
  PROVE  FilesInv'
<1>1. CASE EndPack(t, "failed") /\ UNCHANGED harmed
  BY <1>1, PackFailsKeeps DEF CreateLiveDbSnapshot, disk, history
<1>2. CASE /\ IsWhole(database[packer[t].from])
           /\ packer' = [packer EXCEPT ![t].snap = database[packer[t].from].holds,
                                       ![t].step = "create"]
           /\ NoteHarm(BesideLoader(t), packer[t].to)
  <2>1. /\ packer[t].step = "snapshot" /\ packer[t].step \in Packing
        /\ UNCHANGED <<package, temp, database, memory, project, editor, retired, job, load, task,
                       close, kept>>
    BY DEF CreateLiveDbSnapshot, disk, session, Packing
  <2>2. Packs(t) /\ packer[t].from \in Workspaces /\ packer[t].to \in Packages
    BY <2>1 DEF FilesInv, TypeOK, Packs, AtWork, Packers
  <2>3. database[packer[t].from].holds \subseteq Changes
    BY <2>2, FilesHold DEF FilesInv, TypeOK
  <2>4. /\ packer' \in [Threads -> Packers] /\ \A u \in Threads \ {t} : packer'[u] = packer[u]
        /\ packer'[t].step = "create" /\ packer'[t].snap = database[packer[t].from].holds
        /\ packer'[t].from = packer[t].from /\ packer'[t].to = packer[t].to
        /\ packer'[t].promise = packer[t].promise
    BY <1>2, <2>3, StepsTyped DEF FilesInv, TypeOK, Packers
  <2>5. harmed \subseteq harmed' /\ harmed' \subseteq Packages
    BY <1>2, <2>2 DEF NoteHarm, FilesInv, TypeOK
  <2>6. packer[t].promise \subseteq database[packer[t].from].holds
    BY <1>2, <2>1, <2>2 DEF Packs, AtWork
  <2>7. Moves(t)
    BY <2>1, <2>4, <2>5, <2>6 DEF Moves, FilesInv, TypeOK, Packing, Snapped
  <2>8. ASSUME NEW p \in Packages \ harmed', p = packer[t].to PROVE Saved(p)'
    <3>1. p \in Packages \ harmed /\ ~BesideLoader(t)
      BY <1>2, <2>5, <2>8 DEF NoteHarm
    <3>2. Snapshots(p) /\ OnDisk(p) /\ Sources(p) /\ Kept(p)' = Kept(p)
      BY <2>1, <3>1 DEF FilesInv, Saved, Kept
    <3>3. ASSUME NEW u \in Threads \ {t}, packer[u].to = p PROVE packer[u].step \notin Snapped
      <4>1. CASE "loader" \in {t, u}
        BY <2>8, <3>1, <3>3, <4>1 DEF BesideLoader
      <4>2. CASE "loader" \notin {t, u}
        BY <2>1, <3>3, <4>2 DEF FilesInv, Turns, Threads, Packing
      <4> QED
        BY <4>1, <4>2
    <3>4. Kept(p) \subseteq database[packer[t].from].holds
      BY <1>2, <2>1, <2>2, <2>8, <3>2 DEF Sources, Packs, AtWork, Threads
    <3>5. Snapshots(p)'
      BY <2>1, <2>4, <3>2, <3>3, <3>4 DEF Snapshots, Snapped, Writing
    <3>6. OnDisk(p)'
      <4>1. Worked(p)
        BY <2>8 DEF Worked
      <4> QED
        BY <2>1, <2>4, <3>2, <4>1 DEF OnDisk
    <3> QED
      BY <2>1, <2>7, <2>8, <3>1, <3>5, <3>6, MovesSaved
  <2> QED
    BY <2>7, <2>8, MovesKeep
<1> QED
  BY <1>1, <1>2 DEF CreateLiveDbSnapshot

\* A thread alone with the temporary file goes on.
LEMMA PackerGoesOn ==
  ASSUME FilesInv, NEW t \in Threads, Moves(t), NEW p \in Packages \ harmed, p = packer[t].to,
         UNCHANGED kept, packer[t].step \in Snapped, packer[t].step # "rename",
         packer'[t].step \in Snapped, packer'[t].snap = packer[t].snap,
         packer'[t].shared = FALSE,
         packer'[t].step \in {"remove", "rename"} => temp'[p] = Whole(packer[t].snap),
         package'[p] # package[p] => package'[p] = Missing /\ packer'[t].step = "rename"
  PROVE  Saved(p)'
<1>1. /\ \A u \in Threads \ {t} : packer[u].to = p => packer[u].step \notin Snapped
      /\ Kept(p) \subseteq packer[t].snap
      /\ package[p] # Missing \/ Kept(p) = {}
  BY PackerAlone DEF Moves
<1>2. Kept(p)' = Kept(p)
  BY DEF Kept
<1>3. \A u \in Threads \ {t} : packer'[u].to = p => packer'[u].step \notin Snapped
  BY <1>1 DEF Moves
<1>4. Snapshots(p)'
  BY <1>1, <1>2, <1>3 DEF Snapshots, Snapped, Writing
<1>5. OnDisk(p)'
  <2>1. OnDisk(p)
    BY DEF FilesInv, Saved
  <2>2. packer'[t].to = p
    BY FilesAssumption DEF Moves, Snapped, Writing
  <2>3. CASE package'[p] = package[p]
    BY <1>1, <1>2, <2>1, <2>3 DEF OnDisk
  <2>4. CASE package'[p] = Missing /\ packer'[t].step = "rename"
    BY <1>1, <1>2, <2>2, <2>4 DEF OnDisk, Whole
  <2> QED
    BY <2>3, <2>4
<1> QED
  BY <1>4, <1>5, MovesSaved

LEMMA OpenTempKeeps ==
  ASSUME FilesInv, NEW t \in Threads, OpenTemp(t)
  PROVE  FilesInv'
<1>1. CASE EndPack(t, "failed") /\ UNCHANGED temp
  BY <1>1, PackFailsKeeps DEF OpenTemp
<1> DEFINE Joined == {other \in Threads \ {t} :
                         packer[other].step \in Writing /\ packer[other].to = packer[t].to}
<1>2. CASE /\ temp' = [temp EXCEPT ![packer[t].to] = Torn]
           /\ packer' = [u \in Threads |->
                CASE u = t        -> [packer[t] EXCEPT !.step = "write", !.shared = Joined # {}]
                  [] u \in Joined -> [packer[u] EXCEPT !.shared = TRUE]
                  [] OTHER        -> packer[u]]
  <2>1. /\ packer[t].step = "create" /\ packer[t].step \in Packing /\ packer[t].step \in Snapped
        /\ UNCHANGED <<package, database, memory, project, editor, retired, job, load, task,
                       close, kept, harmed>>
    BY DEF OpenTemp, session, history, Packing, Snapped
  <2>2. Packs(t) /\ packer[t].to \in Packages
    BY <2>1 DEF FilesInv, TypeOK, Packs, AtWork, Packers
  <2>3. /\ packer'[t].step = "write" /\ packer'[t].shared = (Joined # {})
        /\ packer'[t].snap = packer[t].snap
        /\ packer'[t].from = packer[t].from /\ packer'[t].to = packer[t].to
        /\ packer'[t].promise = packer[t].promise /\ packer'[t] \in Packers
    <3>1. packer'[t] = [packer[t] EXCEPT !.step = "write", !.shared = Joined # {}]
      BY <1>2
    <3>2. (Joined # {}) \in BOOLEAN
      OBVIOUS
    <3> QED
      BY <3>1, <3>2, StepsTyped DEF FilesInv, TypeOK, Packers
  <2>4. ASSUME NEW u \in Threads \ {t}
        PROVE  /\ packer'[u].step = packer[u].step /\ packer'[u].from = packer[u].from
               /\ packer'[u].to = packer[u].to /\ packer'[u].snap = packer[u].snap
               /\ packer'[u].promise = packer[u].promise /\ packer'[u] \in Packers
               /\ u \notin Joined => packer'[u] = packer[u]
    <3>1. packer'[u] = IF u \in Joined THEN [packer[u] EXCEPT !.shared = TRUE] ELSE packer[u]
      BY <1>2
    <3> HIDE DEF Joined
    <3> QED
      BY <3>1 DEF FilesInv, TypeOK, Packers
  <2>5. packer' \in [Threads -> Packers]
    BY <1>2, <2>3, <2>4
  <2>6. temp' \in [Packages -> Files] /\ \A q \in Packages \ {packer[t].to} : temp'[q] = temp[q]
    BY <1>2 DEF FilesInv, TypeOK, Files
  <2>7. Moves(t)
    BY <2>1, <2>2, <2>3, <2>4, <2>5, <2>6 DEF Moves, FilesInv, TypeOK, Packs, Packing, Snapped,
       Writing
  <2>8. ASSUME NEW p \in Packages \ harmed', p = packer[t].to PROVE Saved(p)'
    <3>1. p \in Packages \ harmed
      BY <2>1
    <3>2. packer'[t].shared = FALSE
      <4>1. Joined = {}
        BY <2>1, <2>8, <3>1, PackerAlone DEF Snapped
      <4> QED
        BY <2>3, <4>1
    <3> QED
      BY <2>1, <2>3, <2>7, <2>8, <3>2, PackerGoesOn DEF Snapped, Writing
  <2> QED
    BY <2>7, <2>8, MovesKeep
<1> QED
  BY <1>1, <1>2 DEF OpenTemp

LEMMA WriteTempKeeps ==
  ASSUME FilesInv, NEW t \in Threads, WriteTemp(t)
  PROVE  FilesInv'
<1>1. CASE EndPack(t, "failed") /\ UNCHANGED <<package, temp>>
  BY <1>1, PackFailsKeeps DEF WriteTemp
<1> DEFINE p == packer[t].to
           files == {Whole(packer[t].snap)} \cup (IF packer[t].shared THEN {Torn} ELSE {})
<1>2. ASSUME Goto(t, "remove"), NEW file \in files,
             \/ temp' = [temp EXCEPT ![p] = file] /\ UNCHANGED package
             \/ packer[t].shared /\ package' = [package EXCEPT ![p] = file] /\ UNCHANGED temp
             \/ packer[t].shared /\ UNCHANGED <<package, temp>>
      PROVE  FilesInv'
  <2>1. /\ packer[t].step = "write" /\ packer[t].step \in Packing
        /\ packer[t].step \in Snapped /\ packer[t].step \in Writing
        /\ UNCHANGED <<database, memory, project, editor, retired, job, load, task,
                       close, kept, harmed>>
    BY DEF WriteTemp, session, history, Packing, Snapped, Writing
  <2>2. Packs(t) /\ p \in Packages /\ packer[t] \in Packers
    BY <2>1 DEF FilesInv, TypeOK, Packs, AtWork, Packers
  <2>3. /\ packer' \in [Threads -> Packers] /\ \A u \in Threads \ {t} : packer'[u] = packer[u]
        /\ packer'[t] = [packer[t] EXCEPT !.step = "remove"]
    BY <1>2, StepsTyped, GotoTyped DEF FilesInv, TypeOK, Goto
  <2>4. /\ packer'[t].step = "remove" /\ packer'[t].from = packer[t].from
        /\ packer'[t].to = packer[t].to /\ packer'[t].promise = packer[t].promise
        /\ packer'[t].snap = packer[t].snap /\ packer'[t].shared = packer[t].shared
    BY <2>2, <2>3 DEF Packers
  <2>5. file \in Files
    BY <2>2 DEF Files, Packers
  <2>6. /\ temp' \in [Packages -> Files] /\ \A q \in Packages \ {p} : temp'[q] = temp[q]
        /\ package' \in [Packages -> Files] /\ \A q \in Packages \ {p} : package'[q] = package[q]
    BY <1>2, <2>5 DEF FilesInv, TypeOK
  <2>7. Moves(t)
    BY <2>1, <2>2, <2>3, <2>4, <2>6 DEF Moves, FilesInv, TypeOK, Packs, Packing, Snapped, Writing
  <2>8. ASSUME NEW q \in Packages \ harmed', q = p PROVE Saved(q)'
    <3>1. ~packer[t].shared /\ q \in Packages \ harmed
      BY <2>1, <2>8, PackerAlone
    <3>2. temp' = [temp EXCEPT ![q] = Whole(packer[t].snap)] /\ UNCHANGED package
      BY <1>2, <2>8, <3>1
    <3>3. temp'[q] = Whole(packer[t].snap) /\ packer'[t].shared = FALSE
      BY <2>2, <2>4, <3>1, <3>2 DEF FilesInv, TypeOK, Packers
    <3> QED
      BY <2>1, <2>4, <2>7, <2>8, <3>1, <3>2, <3>3, PackerGoesOn DEF Snapped, Writing
  <2> QED
    BY <2>7, <2>8, MovesKeep
<1> QED
  BY <1>1, <1>2 DEF WriteTemp

LEMMA RemovePackageKeeps ==
  ASSUME FilesInv, NEW t \in Threads, RemovePackage(t)
  PROVE  FilesInv'
<1> DEFINE p == packer[t].to
<1>1. CASE /\ package[p] # Missing /\ RemoveTemp(t)
           /\ EndPack(t, "failed") /\ UNCHANGED package
  BY <1>1, PackFailsKeeps DEF RemovePackage, RemoveTemp
<1>2. CASE /\ package' = [package EXCEPT ![p] = Missing]
           /\ Goto(t, "rename") /\ UNCHANGED temp
  <2>1. /\ packer[t].step = "remove" /\ packer[t].step \in Packing
        /\ packer[t].step \in Snapped /\ packer[t].step \in Writing
        /\ UNCHANGED <<database, memory, project, editor, retired, job, load, task,
                       close, kept, harmed>>
    BY DEF RemovePackage, session, history, Packing, Snapped, Writing
  <2>2. Packs(t) /\ p \in Packages /\ packer[t] \in Packers
    BY <2>1 DEF FilesInv, TypeOK, Packs, AtWork, Packers
  <2>3. /\ packer' \in [Threads -> Packers] /\ \A u \in Threads \ {t} : packer'[u] = packer[u]
        /\ packer'[t] = [packer[t] EXCEPT !.step = "rename"]
    BY <1>2, StepsTyped, GotoTyped DEF FilesInv, TypeOK, Goto
  <2>4. /\ packer'[t].step = "rename" /\ packer'[t].from = packer[t].from
        /\ packer'[t].to = packer[t].to /\ packer'[t].promise = packer[t].promise
        /\ packer'[t].snap = packer[t].snap /\ packer'[t].shared = packer[t].shared
    BY <2>2, <2>3 DEF Packers
  <2>6. /\ package' \in [Packages -> Files] /\ \A q \in Packages \ {p} : package'[q] = package[q]
        /\ package'[p] = Missing
    BY <1>2, <2>2 DEF FilesInv, TypeOK, Files
  <2>7. Moves(t)
    BY <1>2, <2>1, <2>2, <2>3, <2>4, <2>6 DEF Moves, FilesInv, TypeOK, Packs, Packing, Snapped,
       Writing
  <2>8. ASSUME NEW q \in Packages \ harmed', q = p PROVE Saved(q)'
    <3>1. ~packer[t].shared /\ temp[q] = Whole(packer[t].snap) /\ q \in Packages \ harmed
      BY <2>1, <2>8, PackerAlone
    <3>2. packer'[t].shared = FALSE
      BY <2>2, <2>4, <3>1 DEF Packers
    <3> QED
      BY <1>2, <2>1, <2>4, <2>6, <2>7, <2>8, <3>1, <3>2, PackerGoesOn DEF Snapped, Writing
  <2> QED
    BY <2>7, <2>8, MovesKeep
<1> QED
  BY <1>1, <1>2 DEF RemovePackage

\* What replaced the package is saved, and every database the package may be
\* packed from has it.
LEMMA RenameTempKeeps ==
  ASSUME FilesInv, NEW t \in Threads, RenameTemp(t)
  PROVE  FilesInv'
<1> DEFINE p == packer[t].to
<1>1. /\ packer[t].step = "rename" /\ packer[t].step \in Packing /\ packer[t].step \in Snapped
      /\ packer[t].step \in Writing
      /\ UNCHANGED <<database, memory, project, editor, retired, job, load, task, close>>
  BY DEF RenameTemp, session, Packing, Snapped, Writing
<1>2. Packs(t) /\ p \in Packages /\ packer[t] \in Packers
  BY <1>1 DEF FilesInv, TypeOK, Packs, AtWork, Packers
<1>3. ASSUME NEW s \in {"packed", "failed"}, EndPack(t, s)
      PROVE  /\ packer' \in [Threads -> Packers] /\ \A u \in Threads \ {t} : packer'[u] = packer[u]
             /\ packer'[t].step = s /\ packer'[t].from = None /\ packer'[t].to = None
  BY <1>3, StepsTyped, EndPackTyped DEF FilesInv, TypeOK, EndPack, NoPack
<1>4. CASE /\ EndPack(t, "failed") /\ RemoveTemp(t) /\ NoteHarm(temp[p] # Missing, p)
           /\ UNCHANGED <<package, kept>>
  <2>1. /\ temp' \in [Packages -> Files] /\ \A q \in Packages \ {p} : temp'[q] = temp[q]
        /\ harmed \subseteq harmed' /\ harmed' \subseteq Packages
    BY <1>2, <1>4 DEF RemoveTemp, NoteHarm, FilesInv, TypeOK, Files
  <2>2. Moves(t)
    BY <1>1, <1>3, <1>4, <2>1 DEF Moves, FilesInv, TypeOK
  <2>3. ASSUME NEW q \in Packages \ harmed', q = p PROVE FALSE
    <3>1. temp[q] = Missing /\ q \notin harmed
      BY <1>4, <2>1, <2>3 DEF NoteHarm
    <3>2. temp[q] = Whole(packer[t].snap)
      BY <1>1, <2>3, <3>1, PackerAlone
    <3> QED
      BY <3>1, <3>2 DEF Missing, Whole
  <2> QED
    BY <2>2, <2>3, MovesKeep
<1>5. CASE /\ package' = [package EXCEPT ![p] = temp[p]] /\ temp' = [temp EXCEPT ![p] = Missing]
           /\ kept' = kept \cup {<<p, c>> : c \in packer[t].promise}
           /\ EndPack(t, "packed") /\ UNCHANGED harmed
  <2>1. /\ temp' \in [Packages -> Files] /\ \A q \in Packages \ {p} : temp'[q] = temp[q]
        /\ package' \in [Packages -> Files] /\ \A q \in Packages \ {p} : package'[q] = package[q]
        /\ package'[p] = temp[p]
    BY <1>2, <1>5 DEF FilesInv, TypeOK, Files
  <2>2. packer[t].promise \subseteq Changes
    BY <1>2 DEF Packers
  <2>3. kept' \subseteq Packages \X Changes
    BY <1>2, <1>5, <2>2 DEF FilesInv, TypeOK
  <2>4. \A q \in Packages \ {p}, c \in Changes : <<q, c>> \in kept' <=> <<q, c>> \in kept
    BY <1>5
  <2>5. Moves(t)
    BY <1>1, <1>3, <1>5, <2>1, <2>3, <2>4 DEF Moves, FilesInv, TypeOK
  <2>6. ASSUME NEW q \in Packages \ harmed', q = p PROVE Saved(q)'
    <3>1. q \notin harmed /\ q # None
      BY <1>5, FilesAssumption
    <3>2. Kept(q)' = Kept(q) \cup packer[t].promise
      BY <1>5, <2>2, <2>6 DEF Kept
    <3>3. /\ \A u \in Threads \ {t} : packer[u].to = q => packer[u].step \notin Snapped
          /\ Kept(q) \cup packer[t].promise \subseteq packer[t].snap
          /\ temp[q] = Whole(packer[t].snap) /\ packer[t].from \in Workspaces
      BY <1>1, <2>6, <3>1, PackerAlone
    <3>4. \A u \in Threads : packer'[u].to = q =>
              packer[u].to = q /\ packer'[u] = packer[u] /\ packer'[u].step \notin Snapped
      BY <1>3, <1>5, <3>1, <3>3
    <3>5. Snapshots(q)'
      BY <3>4 DEF Snapshots, Snapped, Writing
    <3>6. OnDisk(q)'
      BY <2>1, <2>6, <3>2, <3>3 DEF OnDisk, Whole, Missing
    <3>7. Sources(q) /\ OpenProject /\ Turns
      BY <3>1 DEF FilesInv, Saved
    <3>8. IsWhole(database[packer[t].from]) =>
              packer[t].promise \subseteq database[packer[t].from].holds
      BY <1>1, <1>2 DEF Packs, AtWork
    <3>9. project.package = q => packer[t].promise \subseteq database[project.workspace].holds
      <4>1. packer[t].from = project.workspace \/ t = "job"
        BY <1>1, <1>2 DEF Packs, AtWork
      <4> QED
        BY <2>6, <3>1, <3>7, <3>8, <4>1 DEF Sources, OpenProject
    <3>10. packer'["job"].to = q => t # "job" /\ project.package = q
      BY <1>1, <1>2, <1>3, <1>5, <2>6, <3>1 DEF Packs, AtWork
    <3>11. load.package = q => load.step \notin {"open", "opened"} \/ ~UiFree'
      <4>1. t = "ui" => ~UiFree'
        BY <1>3, <1>5 DEF UiFree
      <4>2. t = "loader" => load.step = "pack"
        BY <1>1, <3>7 DEF Turns
      <4> QED
        BY <2>6, <3>7, <4>1, <4>2 DEF Sources, Threads
    <3>12. load.package = q => ~load.create
      BY <2>6, <3>7 DEF Sources
    <3>13. Sources(q)'
      <4>1. packer'["job"].to = q =>
               packer["job"].to = q /\ packer'["job"] = packer["job"]
        BY <3>4 DEF Threads
      <4>2. UiFree' => UiFree
        BY <1>1, <1>3, <1>5 DEF UiFree, Threads
      <4> QED
        BY <1>1, <3>2, <3>7, <3>9, <3>10, <3>11, <3>12, <4>1, <4>2 DEF Sources
    <3> QED
      BY <3>5, <3>6, <3>13 DEF Saved
  <2> QED
    BY <2>5, <2>6, MovesKeep
<1> QED
  BY <1>4, <1>5 DEF RenameTemp

LEMMA StartProjectLoadKeeps ==
  ASSUME FilesInv, NEW p \in Packages, NEW w \in Workspaces, NEW create \in BOOLEAN,
         NEW mode \in {"preview", "enter"}, StartProjectLoad(p, w, create, mode)
  PROVE  FilesInv'
<1>1. /\ UiFree /\ load.step = "none" /\ Fresh(w)
      /\ load' = [step |-> "persist", package |-> p, fresh |-> w, create |-> create,
                  entry |-> mode, old |-> project]
      /\ UNCHANGED <<package, temp, database, memory, project, retired, job, packer, task, close,
                     kept>>
  BY DEF StartProjectLoad, Loading, disk
<1>2. /\ load'.step = "persist" /\ load'.package = p /\ load'.fresh = w
      /\ load'.create = create /\ load'.old = project
  BY <1>1
<1>3. harmed \subseteq harmed' /\ harmed' \subseteq Packages
  BY DEF StartProjectLoad, NoteHarm, FilesInv, TypeOK
<1>4. Beside
  BY <1>1 DEF FilesInv, TypeOK, OpenProject, Beside, StartProjectLoad, Finalize, Editors
<1>5. TypeOK'
  <2>1. load' \in Loads
    BY <1>1 DEF Loads, LoadSteps, FilesInv, TypeOK
  <2> QED
    BY <1>1, <1>3, <1>4, <2>1 DEF FilesInv, TypeOK, Beside
<1>6. Turns' /\ OpenProject' /\ LoadFits' /\ \A t \in Threads : Packs(t)'
  <2>1. w \notin retired \cup {project.workspace, packer["job"].from} /\ w # None /\ p # None
    BY <1>1, FilesAssumption DEF Fresh, Threads
  <2> QED
    BY <1>1, <1>2, <1>4, <2>1 DEF FilesInv, Turns, OpenProject, LoadFits, Packs, AtWork, UiFree,
       Loading, IsOpen, Beside
<1>7. ASSUME NEW q \in Packages \ harmed' PROVE Saved(q)'
  <2>1. Saved(q)
    BY <1>3 DEF FilesInv
  <2>2. CASE q # p
    <3>1. Quiet(q)
      BY <1>1, <1>2, <2>2 DEF Quiet, Continues
    <3> QED
      BY <2>1, <3>1, QuietKeepsSaved
  <2>3. CASE q = p
    <3>1. create => Kept(q) = {} /\ project.package # q /\ \A t \in Threads : packer[t].to # q
      BY <2>1, <2>3 DEF Saved, OnDisk, StartProjectLoad, BuildUniquePackedProjectPath, NoteHarm,
         Claimed, Missing
    <3>2. package[q] = Missing => Kept(q) = {}
      BY <2>3, <3>1 DEF StartProjectLoad
    <3>3. Kept(q)' = Kept(q)
      BY <1>1 DEF Kept
    <3>4. Snapshots(q)'
      BY <1>1, <2>1, <3>3 DEF Saved, Snapshots
    <3>5. OnDisk(q)'
      BY <1>1, <2>1, <3>2, <3>3 DEF Saved, OnDisk
    <3>6. Sources(q)'
      BY <1>1, <1>2, <2>1, <3>1, <3>3 DEF Saved, Sources
    <3> QED
      BY <3>4, <3>5, <3>6 DEF Saved
  <2> QED
    BY <2>2, <2>3
<1> QED
  BY <1>5, <1>6, <1>7 DEF FilesInv

LEMMA UnpackKeeps ==
  ASSUME FilesInv, Unpack
  PROVE  FilesInv'
<1> DEFINE p == load.package
           file == Whole(IF load.create THEN {} ELSE package[p].holds)
<1>1. /\ load.step = "unpack" /\ database' = [database EXCEPT ![load.fresh] = file]
      /\ load.create \/ IsWhole(package[p])
      /\ UNCHANGED <<package, temp, memory, project, editor, retired, job, packer, task, close, kept>>
  BY DEF Unpack, session
<1>2. /\ p \in Packages /\ load.fresh \in Workspaces
      /\ load.fresh \notin retired \cup {project.workspace, packer["job"].from}
  BY <1>1, FilesAssumption DEF FilesInv, TypeOK, Loads, LoadFits
<1>3. /\ load' \in Loads /\ load'.step = "open" /\ load'.package = p /\ load'.fresh = load.fresh
      /\ load'.create = load.create /\ load'.old = load.old
  BY DEF Unpack, LoadAt, FilesInv, TypeOK, Loads, LoadSteps
<1>4. harmed \subseteq harmed' /\ harmed' \subseteq Packages
  BY <1>2 DEF Unpack, NoteHarm, FilesInv, TypeOK
<1>5. /\ file \in Files /\ IsWhole(file)
      /\ \A w \in Workspaces \ {load.fresh} : database'[w] = database[w]
      /\ database'[load.fresh] = file
  <2>1. package[p].holds \subseteq Changes
    BY <1>2, FilesHold DEF FilesInv, TypeOK
  <2> QED
    BY <1>1, <1>2, <2>1 DEF FilesInv, TypeOK, Files, Whole, IsWhole
<1>6. TypeOK'
  BY <1>1, <1>3, <1>4, <1>5 DEF FilesInv, TypeOK
<1>7. /\ IsOpen => database'[project.workspace] = database[project.workspace]
      /\ \A t \in Threads : AtWork(t) => database'[packer[t].from] = database[packer[t].from]
  <2>1. project.workspace \in Workspaces \cup {None}
    BY DEF FilesInv, TypeOK, Projects
  <2>2. ASSUME NEW t \in Threads, AtWork(t)
        PROVE  packer[t].from \in Workspaces \ {load.fresh}
    BY <1>2, <2>2, FilesAssumption DEF FilesInv, TypeOK, Packs, Packers, Threads
  <2> QED
    BY <1>2, <1>5, <2>1, <2>2 DEF IsOpen
<1>8. Turns' /\ OpenProject' /\ LoadFits'
  <2>1. packer["loader"].step = "idle"
    BY <1>1 DEF FilesInv, Turns
  <2> QED
    BY <1>1, <1>2, <1>3, <1>5, <1>7, <2>1 DEF FilesInv, Turns, OpenProject, LoadFits, UiFree,
       Loading, IsOpen
<1>9. \A t \in Threads : Packs(t)'
  BY <1>1, <1>7 DEF FilesInv, Packs, AtWork
<1>10. ASSUME NEW q \in Packages \ harmed' PROVE Saved(q)'
  <2>1. Saved(q) /\ q # None
    BY <1>4, FilesAssumption DEF FilesInv
  <2>2. /\ project.package = q => IsOpen
        /\ packer["job"].to = q => AtWork("job")
    BY <2>1 DEF FilesInv, OpenProject, Packs, Threads
  <2>3. CASE q # p
    <3>1. Quiet(q)
      BY <1>1, <1>3, <1>7, <2>2, <2>3 DEF Quiet, Continues, Threads
    <3> QED
      BY <2>1, <3>1, QuietKeepsSaved
  <2>4. CASE q = p
    <3>1. packer["job"].to # q
      BY <2>2, <2>4 DEF Unpack, NoteHarm, JobToCome, AtWork
    <3>2. Kept(q) \subseteq file.holds
      <4>1. CASE load.create
        BY <2>1, <2>4, <4>1 DEF Saved, Sources
      <4>2. CASE ~load.create
        BY <1>1, <2>1, <2>4, <4>2 DEF Saved, OnDisk, Whole, IsWhole, Missing
      <4> QED
        BY <4>1, <4>2
    <3>3. Kept(q)' = Kept(q)
      BY <1>1 DEF Kept
    <3>4. Snapshots(q)'
      BY <1>1, <2>1, <3>3 DEF Saved, Snapshots
    <3>5. OnDisk(q)'
      BY <1>1, <1>3, <2>1, <3>3 DEF Saved, OnDisk, Worked
    <3>6. Sources(q)'
      BY <1>1, <1>3, <1>5, <1>7, <2>1, <2>2, <3>1, <3>2, <3>3 DEF Saved, Sources
    <3> QED
      BY <3>4, <3>5, <3>6 DEF Saved
  <2> QED
    BY <2>3, <2>4
<1> QED
  BY <1>6, <1>8, <1>9, <1>10 DEF FilesInv

LEMMA ProjectLoadedKeeps ==
  ASSUME FilesInv, ProjectLoaded
  PROVE  FilesInv'
<1>1. /\ UiFree /\ load' = NoLoad /\ load'.step = "none" /\ load'.package = None
      /\ UNCHANGED <<package, temp, database, editor, job, packer, task, close, kept, harmed>>
  BY DEF ProjectLoaded, NoLoad, disk, history
<1>2. packer["loader"].step = "idle" /\ task = "none"
  BY <1>1 DEF FilesInv, Turns, ProjectLoaded
<1>3. CASE load.step = "failed" /\ UNCHANGED <<project, memory, retired>>
  <2>1. TypeOK'
    BY <1>1, <1>3, NothingTyped DEF FilesInv, TypeOK
  <2>2. Turns' /\ OpenProject' /\ LoadFits' /\ \A t \in Threads : Packs(t)'
    BY <1>1, <1>2, <1>3 DEF FilesInv, Turns, OpenProject, LoadFits, Packs, AtWork, UiFree,
       Loading,
       IsOpen
  <2>3. ASSUME NEW p \in Packages \ harmed' PROVE Saved(p)'
    <3>1. Quiet(p)
      BY <1>1, <1>3, FilesAssumption DEF Quiet, Continues, UiFree
    <3> QED
      BY <1>1, <3>1, QuietKeepsSaved DEF FilesInv
  <2> QED
    BY <2>1, <2>2, <2>3 DEF FilesInv
<1>4. CASE /\ load.step = "opened"
           /\ project' = [workspace |-> load.fresh, package |-> load.package,
                          entered |-> load.entry = "enter"]
           /\ memory' = {}
           /\ retired' = retired \cup ({load.old.workspace} \ {None, load.fresh})
  <2>1. /\ load.fresh \in Workspaces /\ load.package \in Packages
        /\ load.fresh \notin retired' /\ IsWhole(database[load.fresh])
        /\ retired' \subseteq Workspaces
    BY <1>4, FilesAssumption DEF FilesInv, TypeOK, Loads, Projects, LoadFits
  <2>2. /\ project' \in Projects /\ project'.workspace = load.fresh
        /\ project'.package = load.package
    <3>1. (load.entry = "enter") \in BOOLEAN
      OBVIOUS
    <3> QED
      BY <1>4, <2>1, <3>1 DEF Projects
  <2>3. TypeOK'
    BY <1>1, <1>4, <2>1, <2>2, NothingTyped DEF FilesInv, TypeOK
  <2>4. Turns' /\ OpenProject' /\ LoadFits'
    BY <1>1, <1>2, <2>1, <2>2, FilesAssumption DEF FilesInv, Turns, OpenProject, LoadFits, UiFree,
       Loading, IsOpen
  <2>5. \A t \in Threads : Packs(t)'
    <3>1. ~AtWork("ui") /\ ~AtWork("loader")
      BY <1>1, <1>2 DEF AtWork, UiFree, Packing, Snapped, Writing
    <3> QED
      BY <1>1, <3>1 DEF FilesInv, Packs, AtWork, Threads
  <2>6. ASSUME NEW p \in Packages \ harmed' PROVE Saved(p)'
    <3>1. Saved(p) /\ p # None /\ Kept(p)' = Kept(p)
      BY <1>1, FilesAssumption DEF FilesInv, Kept
    <3>2. CASE p # load.package
      <4>1. Quiet(p)
        BY <1>1, <2>2, <3>1, <3>2 DEF Quiet, Continues, UiFree
      <4> QED
        BY <3>1, <4>1, QuietKeepsSaved
    <3>3. CASE p = load.package
      <4>1. Snapshots(p)'
        BY <1>1, <3>1 DEF Saved, Snapshots
      <4>2. OnDisk(p)'
        BY <1>1, <3>1, <3>3 DEF Saved, OnDisk, Worked
      <4>3. Sources(p)'
        BY <1>1, <1>4, <2>2, <3>1, <3>3 DEF Saved, Sources
      <4> QED
        BY <4>1, <4>2, <4>3 DEF Saved
    <3> QED
      BY <3>2, <3>3
  <2> QED
    BY <2>3, <2>4, <2>5, <2>6 DEF FilesInv
<1> QED
  BY <1>3, <1>4 DEF ProjectLoaded

----------------------------------------------------------------------------
LEMMA FilesInitially == Init => FilesInv
<1> SUFFICES ASSUME Init PROVE FilesInv
  OBVIOUS
<1>1. /\ {Missing, Whole({})} \subseteq Files /\ Missing \in Files
      /\ \A t \in Threads : packer[t] = NoPack
  BY DEF Files, Init
<1>2. TypeOK
  <2>1. package \in [Packages -> Files] /\ temp \in [Packages -> Files]
        /\ database \in [Workspaces -> Files] /\ packer \in [Threads -> Packers]
    BY <1>1, NothingTyped DEF Init
  <2> QED
    BY <2>1, NothingTyped DEF TypeOK, Init, NotClosing
<1>3. Turns /\ OpenProject /\ LoadFits /\ \A t \in Threads : Packs(t)
  BY <1>1 DEF Init, Turns, OpenProject, LoadFits, Packs, AtWork, UiFree, Loading, IsOpen, Threads,
     NoPack, NoLoad, NoProject, NoEditor, Packing, Snapped, Writing
<1>4. ASSUME NEW p \in Packages PROVE Saved(p)
  <2>1. Kept(p) = {} /\ p # None
    BY FilesAssumption DEF Init, Kept
  <2> QED
    BY <1>1, <2>1 DEF Saved, Snapshots, OnDisk, Sources, Init, NoPack, NoLoad, NoProject, Threads
<1> QED
  BY <1>2, <1>3, <1>4 DEF FilesInv

LEMMA FilesStep == FilesInv /\ [Next]_vars => FilesInv'
<1> SUFFICES ASSUME FilesInv, [Next]_vars PROVE FilesInv'
  OBVIOUS
<1>1. CASE UNCHANGED vars
  BY <1>1 DEF vars, FilesInv, TypeOK, Turns, OpenProject, Packs, LoadFits, Saved, Snapshots,
     OnDisk,
     Sources, Kept, Worked, AtWork, UiFree, Loading, IsOpen
<1>2. ASSUME NEW t \in Threads, TakeLock(t) \/ WritePackage(t) PROVE FilesInv'
  BY <1>2, TakeLockKeeps, CreateLiveDbSnapshotKeeps, OpenTempKeeps, WriteTempKeeps,
     RemovePackageKeeps, RenameTempKeeps DEF WritePackage
<1>3. ASSUME NEW c \in Changes, Change(c) \/ Edit(c) \/ JobWrites(c) \/ OrganizeLibrary(c)
      PROVE  FilesInv'
  BY <1>3, ChangeKeeps, EditKeeps, JobWritesKeeps, OrganizeLibraryKeeps
<1>4. CASE OpenImage \/ SaveImage \/ (\E kind \in {"delete", "import"} : StartJob(kind))
           \/ JobGivesUp \/ FinishJob \/ SaveProject \/ FinishSave
  BY <1>4, OpenImageKeeps, SaveImageKeeps, StartJobKeeps, JobGivesUpKeeps, FinishJobKeeps,
     SaveProjectKeeps, FinishSaveKeeps
<1>5. CASE (\E persist \in BOOLEAN : BeginProjectClose(persist)) \/ AbortProjectClose
           \/ FinishProjectClose \/ FinishClose \/ (\E w \in Workspaces : Retire(w))
  BY <1>5, BeginProjectCloseKeeps, AbortProjectCloseKeeps, FinishProjectCloseKeeps,
     FinishCloseKeeps, RetireKeeps
<1>6. ASSUME NEW p \in Packages, NEW w \in Workspaces, NEW create \in BOOLEAN,
             NEW mode \in {"preview", "enter"}, StartProjectLoad(p, w, create, mode)
      PROVE  FilesInv'
  BY <1>6, StartProjectLoadKeeps
<1>7. CASE RequestEnterLoadedProject \/ LoaderPersists \/ LoaderPacked \/ Unpack \/ OpenServices
           \/ LoaderFails \/ ProjectLoaded
  BY <1>7, RequestEnterLoadedProjectKeeps, LoaderPersistsKeeps, LoaderPackedKeeps, UnpackKeeps,
     OpenServicesKeeps, LoaderFailsKeeps, ProjectLoadedKeeps
<1>8. CASE Quit \/ FinishQuit \/ Crash
  BY <1>8, QuitKeeps, EndedKeeps DEF FinishQuit, Crash
<1> QED
  BY <1>1, <1>2, <1>3, <1>4, <1>5, <1>6, <1>7, <1>8 DEF Next

\* The inductive invariant of the project files, for any number of packages,
\* workspaces and changes, and whichever steps may fail.
THEOREM FilesInvariant == Spec => []FilesInv
  BY FilesInitially, FilesStep, PTL DEF Spec

\* What a pack has saved in a package stays whole on the disk (the atomic
\* replacement of WritePackedProject and package_mutex_), whatever fails and
\* wherever the process stops, unless the package met one of the four accidents:
\* a failing rename, a loader that packs beside another thread, a new project at
\* a claimed path, a package opened again before a job of its earlier opening
\* has packed.
THEOREM SavedWorkStaysPacked == Spec => []SavedIsPacked
<1>1. FilesInv => SavedIsPacked
  <2> SUFFICES ASSUME FilesInv, NEW p \in Packages \ harmed, NEW c \in Changes, <<p, c>> \in kept
               PROVE  c \in Packed(p)
    BY DEF SavedIsPacked
  <2>1. c \in Kept(p) /\ OnDisk(p)
    BY DEF FilesInv, Saved, Kept
  <2>2. package[p] \in Files /\ temp[p] \in Files
    BY DEF FilesInv, TypeOK
  <2>3. \A f \in Files : ~IsWhole(f) => f.holds = {}
    BY DEF Files, IsWhole, Missing, Torn, Whole
  <2> QED
    BY <2>1, <2>2, <2>3 DEF OnDisk, Packed, Missing
<1> QED
  BY <1>1, FilesInvariant, PTL

\* No workspace of the open project, of one that the UI thread or the loader is
\* to pack or of one that was unpacked is removed, by a failed load, a close, a
\* switch or the retirement thread (RetireProject), whatever jobs run meanwhile.
\* The workspace of a job whose project was left is not among them.
THEOREM OpenFilesAreThere == Spec => []OpenFilesStay
<1>1. FilesInv => OpenFilesStay
  <2> SUFFICES ASSUME FilesInv PROVE OpenFilesStay
    OBVIOUS
  <2>1. ASSUME NEW t \in {"ui", "loader"}, packer[t].step \in {"lock", "snapshot"}
        PROVE  packer[t].from = project.workspace /\ IsOpen
    BY <2>1 DEF FilesInv, Packs, AtWork, Packing, Threads, IsOpen
  <2> QED
    BY <2>1 DEF FilesInv, OpenFilesStay, OpenProject, LoadFits
<1> QED
  BY <1>1, FilesInvariant, PTL
=============================================================================
