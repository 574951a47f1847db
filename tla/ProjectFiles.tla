----------------------------- MODULE ProjectFiles -----------------------------
(***************************************************************************)
(* Opening, saving, switching, closing and quitting a project package:      *)
(* ProjectHandler and ProjectModule (ui/alcedo_main/album_backend), the      *)
(* close coordinator, and the package writer of                             *)
(* app/project_package_backend.cpp.                                         *)
(*                                                                         *)
(* A project is worked on in a workspace, a temporary directory with the     *)
(* unpacked database, made anew for every opening.  Packing copies the       *)
(* database into "<package>.tmp" and puts that in the place of the package.  *)
(* Three threads pack: the UI thread, the thread of a deletion, rating or     *)
(* import job, and the loader thread, which packs the old project before it   *)
(* opens the new one.  The first two exclude each other by package_mutex_.    *)
(*                                                                         *)
(* The contents of a file are the changes of the user it holds.  The process *)
(* may stop at any step and starts again with no project; a workspace left   *)
(* by a stop is never read again, so it is not kept in the model.            *)
(***************************************************************************)
CONSTANTS
    Packages,   \* paths of project packages
    Workspaces, \* names for workspace directories
    Changes,    \* changes of the user
    None,       \* no package, no workspace
    Faults      \* steps that may fail

Steps == {"sync", "snapshot", "write", "remove", "rename", "unpack", "open", "seal"}

ASSUME FilesAssumption ==
    /\ None \notin Packages \cup Workspaces
    /\ Faults \subseteq Steps

VARIABLES
    package,    \* what is at each package path
    temp,       \* what is at its ".tmp"
    database,   \* the databases in the workspaces
    memory,     \* changes the services of the open project have not stored
    project,    \* project_, project_workspace_dir_, project_package_path_
    editor,     \* the image in the editor and its unsaved edits
    job,        \* the kind of job that runs
    load,       \* the project load under way
    packer,     \* what each thread packs, and how far it is
    task,       \* what the UI thread packs for
    close,      \* the project close that waits for the editor
    retired,    \* workspaces the retirement thread is to remove
    kept,       \* history: <<p, c>> where a pack that was to save c in p succeeded
    harmed      \* history: packages that met an accident the code lets happen

disk    == <<package, temp, database>>
session == <<memory, project, editor, retired>>
history == <<kept, harmed>>
vars    == <<package, temp, database, memory, project, editor, job, load,
             packer, task, close, retired, kept, harmed>>

----------------------------------------------------------------------------
Missing  == [state |-> "missing", holds |-> {}]
Torn     == [state |-> "torn", holds |-> {}]
Whole(s) == [state |-> "whole", holds |-> s]
Files    == {Missing, Torn} \cup {Whole(s) : s \in SUBSET Changes}

IsWhole(f) == f.state = "whole"

Threads     == {"ui", "job", "loader"}
\* The steps of WritePackedProject while the temporary file is in use.
Writing     == {"write", "remove", "rename"}
\* The steps with a snapshot that is not in the package yet.
Snapped     == {"create"} \cup Writing
\* The steps under package_mutex_, where the thread takes it.
Packing     == {"snapshot"} \cup Snapped
PackSteps   == {"idle", "work", "lock", "packed", "failed"} \cup Packing
NoPack      == [step |-> "idle", from |-> None, to |-> None, snap |-> {}, promise |-> {},
                shared |-> FALSE]
NoProject   == [workspace |-> None, package |-> None, entered |-> FALSE]
NoEditor    == [state |-> "empty", workspace |-> None, edits |-> {}]
NoLoad      == [step |-> "none", package |-> None, fresh |-> None, create |-> FALSE,
                entry |-> "enter", old |-> NoProject]
NotClosing  == [waiting |-> FALSE, persist |-> FALSE]
Projects    == [workspace : Workspaces \cup {None}, package : Packages \cup {None},
                entered : BOOLEAN]
LoadSteps   == {"none", "persist", "pack", "unpack", "open", "failed", "opened"}

Packers     == [step : PackSteps, from : Workspaces \cup {None}, to : Packages \cup {None},
                snap : SUBSET Changes, promise : SUBSET Changes, shared : BOOLEAN]
Loads       == [step : LoadSteps, package : Packages \cup {None},
                fresh : Workspaces \cup {None}, create : BOOLEAN,
                entry : {"preview", "enter"}, old : Projects]
Editors     == [state : {"empty", "image", "closing"}, workspace : Workspaces \cup {None},
                edits : SUBSET Changes]

TypeOK ==
    /\ package \in [Packages -> Files] /\ temp \in [Packages -> Files]
    /\ database \in [Workspaces -> Files] /\ memory \subseteq Changes
    /\ project \in Projects /\ editor \in Editors /\ load \in Loads
    /\ packer \in [Threads -> Packers]
    /\ job \in {"none", "delete", "import"}
    /\ task \in {"none", "save", "close", "quit"}
    /\ close \in [waiting : BOOLEAN, persist : BOOLEAN]
    /\ retired \subseteq Workspaces
    /\ kept \subseteq Packages \X Changes /\ harmed \subseteq Packages

Init ==
    /\ package \in [Packages -> {Missing, Whole({})}]
    /\ temp = [p \in Packages |-> Missing]
    /\ database = [w \in Workspaces |-> Missing]
    /\ memory = {} /\ project = NoProject /\ editor = NoEditor
    /\ job = "none" /\ load = NoLoad /\ packer = [t \in Threads |-> NoPack]
    /\ task = "none" /\ close = NotClosing /\ retired = {}
    /\ kept = {} /\ harmed = {}

----------------------------------------------------------------------------
IsOpen   == project.workspace # None
Loading  == load.step # "none"
UiFree   == packer["ui"].step = "idle"
Fails(s) == s \in Faults

\* A change that is not made yet, or that is nowhere any more.
Unmade(c) ==
    /\ c \notin memory \cup editor.edits
    /\ \A p \in Packages : <<p, c>> \notin kept /\ c \notin package[p].holds \cup temp[p].holds
    /\ \A w \in Workspaces : c \notin database[w].holds
    /\ \A t \in Threads : c \notin packer[t].snap \cup packer[t].promise

\* A new workspace has a name of its own.
Fresh(w) ==
    /\ database[w] = Missing /\ w \notin retired
    /\ w \notin {project.workspace, load.fresh, load.old.workspace, editor.workspace}
    /\ \A t \in Threads : w # packer[t].from

Store(w, s) == [database EXCEPT ![w] = Whole(@.holds \cup s)]

\* PersistCurrentProjectState: what the services hold goes to the database.
Persist ==
    database' = Store(project.workspace, memory) /\ memory' = {}

Goto(t, s) == packer' = [packer EXCEPT ![t].step = s]
Pack(t, step, p, promise) ==
    packer' = [packer EXCEPT ![t] = [step |-> step, from |-> p.workspace,
                                     to |-> p.package, snap |-> {}, promise |-> promise,
                                     shared |-> FALSE]]

\* What a thread packed is of no use when it is done.
EndPack(t, s) == packer' = [packer EXCEPT ![t] = [NoPack EXCEPT !.step = s]]

\* What the open project has in its database when Persist is done.
Stored == database[project.workspace].holds \cup memory

\* The accidents below are noted and change nothing else.
NoteHarm(accident, p) == harmed' = IF accident THEN harmed \cup {p} ELSE harmed

----------------------------------------------------------------------------
\* Packing, step by step: the lock, the snapshot of the database, and
\* WritePackedProject.

\* Mutant of TakeLock: the job packs without the mutex.
TakeLockUnchecked(t) ==
    /\ packer[t].step = "lock" /\ Goto(t, "snapshot")
    /\ UNCHANGED <<disk, session, job, load, task, close, history>>

TakeLock(t) ==
    /\ packer[t].step = "lock"
    /\ \A other \in {"ui", "job"} : packer[other].step \notin Packing
    /\ Goto(t, "snapshot")
    /\ UNCHANGED <<disk, session, job, load, task, close, history>>

\* The loader packs without the mutex, beside another thread that has a
\* snapshot for the same package: the older snapshot may replace the newer.
BesideLoader(t) == \E other \in Threads \ {t} :
    /\ "loader" \in {t, other}
    /\ packer[other].to = packer[t].to /\ packer[other].step \in Snapped

\* The snapshot of the database is a file of the thread's own.
CreateLiveDbSnapshot(t) ==
    /\ packer[t].step = "snapshot"
    /\ LET source == database[packer[t].from] IN
       \/ /\ IsWhole(source)
          /\ packer' = [packer EXCEPT ![t].snap = source.holds, ![t].step = "create"]
          /\ NoteHarm(BesideLoader(t), packer[t].to)
       \/ /\ Fails("snapshot") \/ ~IsWhole(source)
          /\ EndPack(t, "failed") /\ UNCHANGED harmed
    /\ UNCHANGED <<disk, session, job, load, task, close, kept>>

\* Opening the temporary file empties it, also under another thread.
OpenTemp(t) ==
    /\ packer[t].step = "create"
    /\ LET Joined == {other \in Threads \ {t} :
                         packer[other].step \in Writing /\ packer[other].to = packer[t].to} IN
       \/ /\ temp' = [temp EXCEPT ![packer[t].to] = Torn]
          /\ packer' = [u \in Threads |->
                CASE u = t          -> [packer[t] EXCEPT !.step = "write", !.shared = Joined # {}]
                  [] u \in Joined   -> [packer[u] EXCEPT !.shared = TRUE]
                  [] OTHER          -> packer[u]]
       \/ Fails("write") /\ EndPack(t, "failed") /\ UNCHANGED temp
    /\ UNCHANGED <<package, database, session, job, load, task, close, history>>

\* A write that fails leaves the temporary file as it is.  What is written to a
\* shared file is mixed with what the other thread writes, and may be at the
\* package's path by now, or nowhere.
WriteTemp(t) ==
    /\ packer[t].step = "write"
    /\ LET p == packer[t].to IN
       \/ /\ Goto(t, "remove")
          /\ \E file \in {Whole(packer[t].snap)} \cup (IF packer[t].shared THEN {Torn} ELSE {}) :
                \/ /\ temp[p] # Missing
                   /\ temp' = [temp EXCEPT ![p] = file] /\ UNCHANGED package
                \/ /\ packer[t].shared /\ package[p] # Missing
                   /\ package' = [package EXCEPT ![p] = file] /\ UNCHANGED temp
                \/ /\ packer[t].shared
                   /\ UNCHANGED <<package, temp>>
       \/ /\ Fails("write")
          /\ EndPack(t, "failed") /\ UNCHANGED <<package, temp>>
    /\ UNCHANGED <<database, session, job, load, task, close, history>>

\* A pack that fails late removes the temporary file; a system may refuse to
\* remove one that another thread has open.
RemoveTemp(t) ==
    \/ temp' = [temp EXCEPT ![packer[t].to] = Missing]
    \/ packer[t].shared /\ UNCHANGED temp

RemovePackage(t) ==
    /\ packer[t].step = "remove"
    /\ \/ /\ package' = [package EXCEPT ![packer[t].to] = Missing]
          /\ Goto(t, "rename") /\ UNCHANGED temp
       \/ /\ Fails("remove") /\ package[packer[t].to] # Missing
          /\ RemoveTemp(t)
          /\ EndPack(t, "failed") /\ UNCHANGED package
    /\ UNCHANGED <<database, session, job, load, task, close, history>>

\* A rename that fails takes the temporary file with it, after the package.
RenameTemp(t) ==
    /\ packer[t].step = "rename"
    /\ LET p == packer[t].to IN
       \/ /\ temp[p] # Missing
          /\ package' = [package EXCEPT ![p] = temp[p]]
          /\ temp' = [temp EXCEPT ![p] = Missing]
          /\ kept' = kept \cup {<<p, c>> : c \in packer[t].promise}
          /\ EndPack(t, "packed") /\ UNCHANGED harmed
       \/ /\ Fails("rename") \/ temp[p] = Missing
          /\ RemoveTemp(t) /\ NoteHarm(temp[p] # Missing, p)
          /\ EndPack(t, "failed") /\ UNCHANGED <<package, kept>>
    /\ UNCHANGED <<database, session, job, load, task, close>>

WritePackage(t) ==
    CreateLiveDbSnapshot(t) \/ OpenTemp(t) \/ WriteTemp(t) \/ RemovePackage(t) \/ RenameTemp(t)

----------------------------------------------------------------------------
\* The user's changes.  Nothing changes a project that was not entered, and
\* the library and the editor refuse while a project loads.

Usable == UiFree /\ project.entered /\ ~Loading

\* A change that the services keep in memory until they are stored.
Change(c) ==
    /\ Usable /\ Unmade(c)
    /\ memory' = memory \cup {c}
    /\ UNCHANGED <<disk, project, editor, retired, job, load, packer, task, close, history>>

OpenImage ==
    /\ Usable /\ editor.state = "empty"
    /\ editor' = [state |-> "image", workspace |-> project.workspace, edits |-> {}]
    /\ UNCHANGED <<disk, memory, project, retired, job, load, packer, task, close, history>>

Edit(c) ==
    /\ Usable /\ Unmade(c)
    /\ editor.state = "image" /\ editor.workspace = project.workspace
    /\ editor' = [editor EXCEPT !.edits = @ \cup {c}]
    /\ UNCHANGED <<disk, memory, project, retired, job, load, packer, task, close, history>>

\* The save of the image, on the session's threads; a failed one keeps the
\* image and its edits.
SaveImage ==
    /\ editor.state = "closing" \/ editor.edits # {}
    /\ \/ /\ database' = IF IsWhole(database[editor.workspace])
                         THEN Store(editor.workspace, editor.edits) ELSE database
          /\ editor' = IF editor.state = "closing" THEN NoEditor
                       ELSE [editor EXCEPT !.edits = {}]
       \/ /\ Fails("seal") /\ editor.edits # {}
          /\ editor' = [editor EXCEPT !.state = "image"]
          /\ UNCHANGED database
    /\ UNCHANGED <<package, temp, memory, project, retired, job, load, packer, task, close, history>>

\* FinalizeEditorSession only asks for the end of the session.
Finalize == IF editor.state = "image" THEN [editor EXCEPT !.state = "closing"] ELSE editor

\* A deletion, rating or import writes the database on a thread of its own and
\* then runs the job of MakeSaveAndPackageJob.
StartJob(kind) ==
    /\ Usable /\ job = "none"
    /\ job' = kind
    /\ Pack("job", "work", project, {})
    /\ UNCHANGED <<disk, session, load, task, close, history>>

JobWrites(c) ==
    /\ packer["job"].step = "work"
    /\ IsWhole(database[packer["job"].from]) /\ Unmade(c)
    /\ database' = Store(packer["job"].from, {c})
    /\ packer' = [packer EXCEPT !["job"] = [@ EXCEPT !.step = "lock", !.promise = {c}]]
    /\ UNCHANGED <<package, temp, session, job, load, task, close, history>>

\* Nothing was written, or the metadata cannot be saved: the job does not pack.
JobGivesUp ==
    /\ packer["job"].step = "work"
    /\ EndPack("job", "failed")
    /\ UNCHANGED <<disk, session, job, load, task, close, history>>

FinishJob ==
    /\ packer["job"].step \in {"packed", "failed"} /\ UiFree
    /\ job' = "none" /\ packer' = [packer EXCEPT !["job"] = NoPack]
    /\ UNCHANGED <<disk, session, load, task, close, history>>

----------------------------------------------------------------------------
\* Saving on the UI thread.

\* ProjectModule::SaveProject.
SaveProject ==
    /\ UiFree /\ IsOpen /\ ~Loading
    /\ editor' = Finalize
    /\ \/ /\ Persist /\ task' = "save"
          /\ Pack("ui", "lock", project, Stored)
       \/ Fails("sync") /\ UNCHANGED <<database, memory, packer, task>>
    /\ UNCHANGED <<package, temp, project, retired, job, load, close, history>>

\* An operation of the library that stores its change and packs at once
\* (SaveProjectSnapshot); what other services hold in memory stays there.
OrganizeLibrary(c) ==
    /\ Usable /\ Unmade(c)
    /\ database' = Store(project.workspace, {c}) /\ task' = "save"
    /\ Pack("ui", "lock", project, {c})
    /\ UNCHANGED <<package, temp, session, job, load, close, history>>

FinishSave ==
    /\ task = "save" /\ packer["ui"].step \in {"packed", "failed"}
    /\ task' = "none" /\ packer' = [packer EXCEPT !["ui"] = NoPack]
    /\ UNCHANGED <<disk, session, job, load, close, history>>

----------------------------------------------------------------------------
\* Closing the project.

\* ProjectSwitchBlockReason and ProjectCloseBlockReason look at an import, and
\* at nothing else that runs.
SwitchBlocked == job = "import"
CloseBlocked  == Loading \/ ~IsOpen \/ SwitchBlocked

\* ApplicationCloseCoordinator::BeginProjectClose.
BeginProjectClose(persist) ==
    /\ UiFree /\ ~CloseBlocked /\ ~close.waiting
    /\ close' = [waiting |-> TRUE, persist |-> persist]
    /\ editor' = IF editor.state = "image" /\ ~persist THEN [Finalize EXCEPT !.edits = {}]
                                                      ELSE Finalize
    /\ UNCHANGED <<disk, memory, project, retired, job, load, packer, task, history>>

\* ProjectHandler::CloseProject: the retirement thread removes the workspace.
Close ==
    /\ project' = NoProject /\ memory' = {}
    /\ retired' = retired \cup {project.workspace}

\* Mutant of AbortProjectClose: an image that could not be saved is waited for.
AbortProjectCloseLate ==
    /\ UiFree /\ close.waiting /\ editor.state = "empty" /\ CloseBlocked
    /\ close' = NotClosing
    /\ UNCHANGED <<disk, session, job, load, packer, task, history>>

\* EvaluateEditorClose, and ProjectModule::CloseProject when the image is gone.
AbortProjectClose ==
    /\ UiFree /\ close.waiting
    /\ \/ editor.state = "image"
       \/ editor.state = "empty" /\ CloseBlocked
    /\ close' = NotClosing
    /\ UNCHANGED <<disk, session, job, load, packer, task, history>>

FinishProjectClose ==
    /\ UiFree /\ close.waiting /\ editor.state = "empty" /\ ~CloseBlocked
    /\ close' = NotClosing
    /\ \/ /\ close.persist /\ project.entered
          /\ Persist /\ task' = "close" /\ Pack("ui", "lock", project, Stored)
          /\ UNCHANGED <<project, retired>>
       \/ /\ close.persist /\ project.entered /\ Fails("sync")
          /\ UNCHANGED <<database, memory, project, retired, packer, task>>
       \/ /\ ~(close.persist /\ project.entered)
          /\ Close /\ UNCHANGED <<database, packer, task>>
    /\ UNCHANGED <<package, temp, editor, job, load, history>>

\* A project that cannot be packed stays open.
FinishClose ==
    /\ task = "close" /\ packer["ui"].step \in {"packed", "failed"}
    /\ \/ packer["ui"].step = "packed" /\ Close
       \/ packer["ui"].step = "failed" /\ UNCHANGED <<project, memory, retired>>
    /\ task' = "none" /\ packer' = [packer EXCEPT !["ui"] = NoPack]
    /\ UNCHANGED <<disk, editor, job, load, close, history>>

\* The retirement thread.
Retire(w) ==
    /\ w \in retired
    /\ database' = [database EXCEPT ![w] = Missing] /\ retired' = retired \ {w}
    /\ UNCHANGED <<package, temp, memory, project, editor, job, load, packer, task, close, history>>

----------------------------------------------------------------------------
\* Opening and creating a project.

\* A new project gets a path at which no file is; its package is written by
\* its first save.
BuildUniquePackedProjectPath(p) == package[p] = Missing

\* The path belongs to another project, whose package is only to come or is in
\* its temporary file.
Claimed(p) == temp[p] # Missing \/ project.package = p \/ \E t \in Threads : packer[t].to = p

\* StartPackedProjectLoad, CreateProjectInFolderNamed and StartProjectLoad: the
\* loader thread gets the project that is open now.
StartProjectLoad(p, w, create, mode) ==
    /\ UiFree /\ ~Loading /\ ~SwitchBlocked /\ Fresh(w)
    /\ IF create THEN mode = "enter" /\ BuildUniquePackedProjectPath(p)
                 ELSE package[p] # Missing
    /\ editor' = Finalize
    /\ load' = [step |-> "persist", package |-> p, fresh |-> w, create |-> create,
                entry |-> mode, old |-> project]
    /\ NoteHarm(create /\ Claimed(p), p)
    /\ UNCHANGED <<disk, memory, project, retired, job, packer, task, close, kept>>

\* RequestEnterLoadedProject: a preview becomes the project to work on, also
\* while it loads.
RequestEnterLoadedProject ==
    /\ UiFree
    /\ \/ /\ Loading /\ load.entry = "preview"
          /\ load' = [load EXCEPT !.entry = "enter"] /\ UNCHANGED project
       \/ /\ ~Loading /\ IsOpen /\ ~project.entered
          /\ project' = [project EXCEPT !.entered = TRUE] /\ UNCHANGED load
    /\ UNCHANGED <<disk, memory, editor, retired, job, packer, task, close, history>>

LoadAt(s) == load' = [load EXCEPT !.step = s]

\* The loader stores and packs the old project, unless it was a preview.
LoaderPersists ==
    /\ load.step = "persist"
    /\ \/ /\ ~load.old.entered
          /\ LoadAt("unpack") /\ UNCHANGED <<database, memory, packer>>
       \/ /\ load.old.entered
          /\ database' = Store(load.old.workspace, memory) /\ memory' = {}
          /\ LoadAt("pack") /\ Pack("loader", "snapshot", load.old, Stored)
    /\ UNCHANGED <<package, temp, project, editor, retired, job, task, close, history>>

LoaderPacked ==
    /\ load.step = "pack" /\ packer["loader"].step = "packed"
    /\ LoadAt("unpack") /\ packer' = [packer EXCEPT !["loader"] = NoPack]
    /\ UNCHANGED <<disk, session, job, task, close, history>>

\* A job of an earlier opening of the package has yet to pack.
JobToCome(p) == packer["job"].to = p /\ packer["job"].step \in {"work", "lock"} \cup Packing

\* UnpackProjectToWorkspace, or the database of a new project.
Unpack ==
    /\ load.step = "unpack"
    /\ load.create \/ IsWhole(package[load.package])
    /\ database' = [database EXCEPT ![load.fresh] =
                        Whole(IF load.create THEN {} ELSE package[load.package].holds)]
    /\ LoadAt("open")
    /\ NoteHarm(JobToCome(load.package), load.package)
    /\ UNCHANGED <<package, temp, session, job, packer, task, close, kept>>

OpenServices ==
    /\ load.step = "open"
    /\ LoadAt("opened")
    /\ UNCHANGED <<disk, session, job, packer, task, close, history>>

\* A step of the loader fails.
LoadBreaks ==
    \/ load.step = "persist" /\ load.old.entered /\ Fails("sync")
    \/ load.step = "pack" /\ packer["loader"].step = "failed"
    \/ load.step = "unpack" /\ Fails("unpack")
    \/ load.step = "unpack" /\ ~load.create /\ ~IsWhole(package[load.package])
    \/ load.step = "open" /\ Fails("open")

LoaderCleansUp(w) ==
    /\ LoadBreaks
    /\ database' = [database EXCEPT ![w] = Missing]
    /\ packer' = [packer EXCEPT !["loader"] = NoPack]
    /\ load' = [NoLoad EXCEPT !.step = "failed"]
    /\ UNCHANGED <<package, temp, session, job, task, close, history>>

\* Mutant of LoaderFails: it removes the workspace of the old project.
LoaderFailsBadly == IsOpen /\ LoaderCleansUp(load.old.workspace)

\* The error path of the loader: what it unpacked goes.
LoaderFails == LoaderCleansUp(load.fresh)

\* The queued completion on the UI thread: the new project takes the place of
\* the old one, or the old one stays.
ProjectLoaded ==
    /\ UiFree
    /\ \/ /\ load.step = "failed"
          /\ UNCHANGED <<project, memory, retired>>
       \/ /\ load.step = "opened"
          /\ project' = [workspace |-> load.fresh, package |-> load.package,
                         entered |-> load.entry = "enter"]
          /\ memory' = {}
          /\ retired' = retired \cup ({load.old.workspace} \ {None, load.fresh})
    /\ load' = NoLoad
    /\ UNCHANGED <<disk, editor, job, packer, task, close, history>>

----------------------------------------------------------------------------
\* The end of the process.  Nothing of it is left but the packages and their
\* temporary files.
Ended ==
    /\ database' = [w \in Workspaces |-> Missing]
    /\ memory' = {} /\ project' = NoProject /\ editor' = NoEditor
    /\ job' = "none" /\ load' = NoLoad /\ packer' = [t \in Threads |-> NoPack]
    /\ task' = "none" /\ close' = NotClosing /\ retired' = {}

\* ShutdownModules, with the editor saved before.
Quit ==
    /\ UiFree /\ editor.state # "closing" /\ editor.edits = {}
    /\ UNCHANGED <<package, temp, history>>
    /\ \/ /\ IsOpen /\ project.entered
          /\ Persist /\ task' = "quit" /\ Pack("ui", "lock", project, Stored)
          /\ UNCHANGED <<project, editor, retired, job, load, close>>
       \/ /\ ~project.entered \/ Fails("sync")
          /\ Ended

\* A package that cannot be written does not keep the process from ending.
FinishQuit ==
    /\ task = "quit" /\ packer["ui"].step \in {"packed", "failed"}
    /\ Ended
    /\ UNCHANGED <<package, temp, history>>

Crash == Ended /\ UNCHANGED <<package, temp, history>>

----------------------------------------------------------------------------
Next ==
    \/ \E t \in Threads : TakeLock(t) \/ WritePackage(t)
    \/ \E c \in Changes : Change(c) \/ Edit(c) \/ JobWrites(c) \/ OrganizeLibrary(c)
    \/ OpenImage \/ SaveImage
    \/ \E kind \in {"delete", "import"} : StartJob(kind)
    \/ JobGivesUp \/ FinishJob
    \/ SaveProject \/ FinishSave
    \/ \E persist \in BOOLEAN : BeginProjectClose(persist)
    \/ AbortProjectClose \/ FinishProjectClose \/ FinishClose
    \/ \E w \in Workspaces : Retire(w)
    \/ \E p \in Packages, w \in Workspaces, create \in BOOLEAN, mode \in {"preview", "enter"} :
          StartProjectLoad(p, w, create, mode)
    \/ RequestEnterLoadedProject
    \/ LoaderPersists \/ LoaderPacked \/ Unpack \/ OpenServices \/ LoaderFails
    \/ ProjectLoaded
    \/ Quit \/ FinishQuit \/ Crash

Spec == Init /\ [][Next]_vars

\* Each thread goes on with what it does, the session ends a save, and the
\* event loop gets to every queued call, however many others the user adds.
UiThread     == TakeLock("ui") \/ WritePackage("ui") \/ FinishSave \/ FinishClose \/ FinishQuit
JobThread    == TakeLock("job") \/ WritePackage("job") \/ JobGivesUp

Fairness ==
    /\ WF_vars(UiThread) /\ WF_vars(JobThread) /\ WF_vars(SaveImage)
    /\ SF_vars(AbortProjectClose \/ FinishProjectClose)

FairSpec == Spec /\ Fairness

----------------------------------------------------------------------------
\* What a pack has saved in a package stays whole on the disk, in the package
\* or in its temporary file, wherever the process stops and whatever fails later:
\* what a save, a saving close, a quit or the switch to another project stored,
\* and the change of a job or of the library.  Four accidents that the code lets
\* happen are excepted, for the package they meet: the rename of the temporary
\* file fails; the loader packs beside a job or a quit; a new project is created
\* at a path that is claimed; the package is opened again while a job of its
\* earlier opening has yet to pack.
Packed(p) == (IF IsWhole(package[p]) THEN package[p].holds ELSE {})
             \cup (IF IsWhole(temp[p]) THEN temp[p].holds ELSE {})

SavedIsPacked ==
    \A p \in Packages \ harmed, c \in Changes : <<p, c>> \in kept => c \in Packed(p)

\* Files in use stay, although a failed load, a close, a switch and the
\* retirement thread remove workspaces: those of the open project (and so of a
\* job that works on it), of the project the UI thread or the loader packs, and
\* of the one a load has unpacked.  The workspace of a job whose project was
\* left does not stay: the job packs it or fails.
OpenFilesStay ==
    /\ IsOpen => IsWhole(database[project.workspace]) /\ project.workspace \notin retired
    /\ \A t \in {"ui", "loader"} : packer[t].step \in {"lock", "snapshot"} =>
            IsWhole(database[packer[t].from]) /\ packer[t].from \notin retired
    /\ load.step \in {"open", "opened"} =>
            IsWhole(database[load.fresh]) /\ load.fresh \notin retired

\* A close that waits for the editor comes to an end, also when the image
\* cannot be saved or a project begins to load meanwhile; no other close is
\* accepted until then.
CloseEnds == close.waiting ~> ~close.waiting
=============================================================================
