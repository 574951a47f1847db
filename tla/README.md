# A verification project for AlcedoStudio

AlcedoStudio is a photo library and a non-destructive RAW editor in C++ and Qt.
This directory holds TLA+ models of its concurrent and persistent core: the
history of edits and its durability, the session that opens, leaves and saves
images, slider input, the coordinator of renders, thumbnails and the album grid,
the packages of AI models, and the project file. TLC model-checks them on small
instances; TLAPS checks proofs of many of their properties for all instances.
Paths below are relative to `src/alcedo_studio/src/` unless they begin with
`docs/` or `tests/` (`src/docs/`, `src/alcedo_studio/tests/`).

## 1. Inventory

### 1.1 What the program consists of

An *editor session* works on one image at a time. A command of the user (select,
edit, undo, switch, close, ...) is a task of the session's owner thread. Frames are
rendered on the pipeline's worker, saves are written by a storage worker; both
report by tasks posted back to the owner thread. An edit is acknowledged once a
record of it is in the image's journal file. A *save checkpoint* later
writes the commit graph and the pipeline to DuckDB in one transaction and clears
the journal. The database lives in a *workspace*, a temporary directory made for
each opening of a project; saving the project packs it into one file.

| Component | State | Operations | Talks to |
|---|---|---|---|
| Mini-Git working history, `edit/history/mini_git_working_history.cpp` | commit graph, redo stack, journal records, sequence | prepare and publish an edit or a head move, abandon, undo, redo, replay, align | journal file |
| Commit graph and store, `edit/history/commit_graph.cpp`, `storage/store/edit_history/` | commits, Version refs, active Version, materialized head; rows of these | insert, move a head, create and remove Versions, materialize, collect garbage | DuckDB |
| Editor history port, `ui/alcedo_main/album_backend/editor_history_*.cpp` | working state of the held image, pending pastes | acquire, release, edit, move, discard, checkout, capture, paste | working history, materializer |
| Materializer and recovery, `app/editor_mini_git_*.cpp` | none (files) | write rows then clear the journal; validate, clear or isolate a journal | store, journal file |
| Session navigation, `app/editor_session_navigation_controller.cpp`, `_lifecycle.cpp` | session state, held image and load, pending action, queued selection, recovery | open, switch, close, Version actions, retry, discard, cancel | save service, render controller, history |
| Session service and policy, `app/editor_session_service.cpp`, `editor_action_policy.cpp` | operation leases, pending Persist or Paste, published results | admit and reduce commands and completions, shutdown | all of the session |
| Pending input, `app/editor_pending_input.cpp`, `editor_serial_frame_admission.cpp` | batches of writes, seal, open sequence, wakeup; the cycle that owns the frame | admit, seal, consume, route, release, cancel | GUI thread, session, coordinator |
| Save service, `app/editor_save_checkpoint_*.cpp` | pending saves, one global save lock | start, finish, cancel and wait | materializer, command queue |
| Render controller, `app/editor_session_render_controller.cpp` | first-frame and full-quality requests | route frames, reduce results, cancel a session | coordinator |
| Render coordinator, `app/editor_render_coordinator.cpp` | a slot per quality, request in flight, terminal ids, idle callbacks | submit, cancel, change of load, completion, pump | scheduler port, pipeline worker |
| Thumbnail service, `app/thumbnail_service.cpp`, `utils/cache/lru_cache.hpp` | cache, pins, generations, waiting calls, renditions, decode slots | ask, release, cancel, invalidate, resize, the steps of a rendition, stop | three thread pools, pipeline leases |
| Album grid, `ui/.../album_backend/thumbnail_manager.cpp`, `thumbnail_image_provider.cpp` | pins, request flags, rows, image store | show, hide, answer, convert, report, refresh after a commit | thumbnail service |
| AI model packages, `app/ai_model_package_service.cpp`, `ai_model_package_install.cpp`, `download_service.cpp` | action, page, three sibling directories, a download | check, install, cancel, remove, recover | network, file system |
| Project and package, `ui/.../album_backend/project_handler.cpp`, `project_module.cpp`, `application_close_coordinator.cpp`, `app/project_package_backend.cpp` | open project, workspace, package path, load under way, close under way | create, open, preview, enter, save, switch, close, quit, retire | file system, editor session, jobs |
| Command queue, `app/editor_session_command_queue.cpp` | phase, pending tasks, draining flag, delayed tasks | submit, post, drain, shut down, stop | owner thread |
| Thread pool, `concurrency/thread_pool.cpp` | tasks, workers, stop flag | submit, shut down | most services |
| Pipeline service, `app/pipeline_service.cpp`, `committed_snapshot_cache.cpp` | editor leases, committed snapshots | lease, persist, publish, collect garbage | store |
| Import and export, `app/import_service.cpp`, `export_service.cpp` | jobs, counters, cancellation | start, finish one, cancel, complete | thread pool, sleeve |
| Other downloads, `app/lut_package_*.cpp`, `update_service.cpp` | staged files, receipts | download, verify, publish | network, file system |
| AI sidecar and analysis, `app/ai_sidecar_runtime_service.cpp`, `image_analysis_service.cpp`, `semantic_generation_service.cpp` | process state, jobs with claims | start, health check, restart, claim, run, publish | child process |
| Sleeve, `sleeve/` | tree of folders and files, path cache | create, move, copy on write, resolve | storage |
| Decoding, colour, GPU, neural code | buffers and devices | numeric | - |
| UI adapters, `ui/alcedo_main/` | Qt objects | publish to QML | session and services |

`PROJECT.json` lists every component with its status and, where it is not
modelled, the reason.

### 1.2 What is hard, and what correct means

* **Durability.** The process may stop at any step; a transaction may be written
  without the clear that follows it; a clear, an append or a rewrite may fail.
  Correct: what is on the screen is what the next open shows; the journal always
  loads, aligns and replays; a Version that is not on the screen is whole in the
  database.
* **One history under several ways of moving in it.** Undo, redo, moves
  along and across branches, new edits, abandoned commands and discards each
  rebuild the redo stack. Correct: it is always a path from the working head.
* **Leaving an image.** Save, render shutdown, selection and recovery
  interleave. Correct: the last selection wins, an image left by an action that
  saves is left with every edit saved, no action waits for a completion that
  never comes.
* **Input from another thread.** A slider write is admitted without waiting for
  the owner, which may leave the image meanwhile. Correct: the history gets the
  writes whose sequence ended, of the image they were made for; input that was
  admitted is always awaited by something that will consume it.
* **Rendering.** Requests supersede each other, cancellation meets completion
  on another thread, an image is released under a running frame. Correct: one
  job at a time, one place for each request, every request ends, no frame of an
  old load is ready, idle means idle.
* **Thumbnails.** Delivery, failure, cancellation and invalidation of one key
  meet on several threads; the cache evicts keys that are pinned. Correct: no
  call is answered with pixels from before the invalidation that preceded it,
  each call has one answer or is dropped by name, slots and pins are balanced.
* **Renames and removals.** Installing a set of models and packing a project are
  sequences of renames, removals and writes of which any may fail, and the
  process may stop between any two. Correct: what was installed or saved is whole
  in a place where the next start finds it, and nobody's files are removed under
  it.
* **Shutdown.** Pools close one after the other, closes wait for saves. Correct:
  what was asked is answered, what waits comes to an end.

The complete list, each at its line, is under `hazards` in `PROJECT.json`.

## 2. Modules

    CommitGraph             the graph of commits, journal replay and alignment, rows
      EditHistory           the history, journal, save and recovery of one image
        MCEditHistory, EditHistoryProofs
    DurableHistory          what the history promises; EditHistory implements it
    SessionNavigation       the session above save service and renders
        MCSessionNavigation, SessionNavigationProofs
    RenderRequests          what the coordinator promises
      RenderCoordinator     slots, flight, cancellation, idle callbacks; implements it
        MCRenderCoordinator, RenderCoordinatorProofs
      SessionInput          slider input above any coordinator that keeps the promise
        MCSessionInput, SessionInputProofs
    PinnedLruCache          recency list and guards with pins
      ThumbnailCalls        what a caller sees of the thumbnail service
        ThumbnailService    the way of a rendition through the pools; implements it
          MCThumbnailService, ThumbnailProofs
        AlbumThumbnails     the album grid as a caller of ThumbnailCalls
          MCAlbumThumbnails, AlbumThumbnailProofs
    ModelPackages           install, recovery and removal of AI model sets
        MCModelPackages, ModelPackageProofs
    ProjectFiles            the open project, its workspace and its package
        MCProjectFiles, ProjectFileProofs

Two pairs are composed: SessionInput runs its handlers above `RenderRequests`,
the abstraction RenderCoordinator is proved to implement, and AlbumThumbnails
above `ThumbnailCalls`, which ThumbnailService is proved to implement and which the
album is proved to call as specified (`AlbumCallsService`). The composed modules so
need none of the detail below the abstraction.

### 2.1 EditHistory

State: `graph`, `redo`, `journal`, `nextSeq` are the memory of
`MiniGitWorkingHistory`; `wal` is the journal file and `db` the rows;
`session`, `op`, `recovery` and `save` are the part of the session that orders
commands and saves. `created` and `parent` record the commits made so far: a
commit is a number, since the code hashes a stamp into each and never produces
one twice, and a chain hash is compared by comparing heads. The commits that
`CollectReachable` collects are the least set that holds every head and, with a
commit, its parent.

An edit or head move is two steps, as in the code: `PublishPrepared...` writes
the record and moves memory, then `Acknowledge` or `Abandon` ends the command
(the live pipeline may refuse). A discard is a sequence of head moves. A save is
`Capture`, `WriteDatabase`, `ClearEntireJournal` and the completion; a failure may
come before the transaction or between it and the clear, and `Crash` at any step.
`RecoverAccepts`, `RecoverRejects`, `AcquireWorkingState` and `FinishAcquire`
open the image. The database and the journal are those of one workspace: the
program itself re-opens images of the open project against them; see section 6
for the stop of the whole process.

`damage` is a history variable: the kinds of harm that befell the files in
this behaviour, at most `MaxDamage` of them. They are the places where the code
itself says a step may fail after it changed a file (a torn line,
a revoke whose rewrite fails, a discard with a journal that cannot be
cleared, a Version change beside an old journal, a collection beside a crashed
journal). Properties about restarts require `damage = {}`; the structural ones
hold with damage as well.

`DurableHistory` is the promise: what the files would reopen to (`durable`), what
the session shows (`screen`) and what was saved last (`saved`). A command changes
screen and durable view together, opening shows the durable view, saving makes it
the saved one, leaving and crashing change neither, and a discard goes back to
what was saved.

### 2.2 SessionNavigation

`state`, `image`, `guard`, `load` are the lifecycle; `action`, `recovery` and
`next` the pending action, the action kept for recovery and the queued
selection; `leases` the operation leases of the service; `owner` what the
running handler still has to do (acquiring an image waits for the global save
lock, and a save may end meanwhile); `save` the one save under way; `posted`
the completions in the order of the command queue. A command may run before
completions that were posted after it was given; that is why commands
need not wait for an empty queue. `Failures` names what may go wrong.
Checkout, new root Version and branch are one action, `Version`: they differ in
the call of the history alone, and EditHistory has all three.

`wanted` is a history variable: the last selection, until something fails or
the user closes. `work` is one too: whether an edit made while no action was
pending is not saved, captured by a save, or saved.

### 2.3 RenderCoordinator and RenderRequests

Each action of RenderCoordinator is one section under the coordinator's mutex, so
caller and worker interleave between sections. The port is a running job and a
busy refusal. The worker goes through three steps: the job returns,
`NotifySchedulerCompleted`, `Pump`. An idle callback is `waiting`, `taken` under
the lock and `called` after it. `SubmitAfterCancel` says whether a load may get
requests after it was cancelled for good; the run says FALSE, since a session
that goes on submitting is never idle and hears nothing.

RenderRequests knows the load and the stage of each request (new, waiting,
running, stopping, over) and nothing of slots. Its promise is `RequestsSpec`, and
the refinement mapping reads a request's stage off the slots, the request in
flight and the reported ends.

### 2.4 SessionInput

`inputs` lists what the GUI thread admitted (writes, settled writes, releases,
cancels), `open`, `sealed` and `wakeup` are the queue of
`editor_pending_input.cpp`, `cycle` is the admission of one frame at a time.
`caller` separates what the GUI thread does in two steps: it reads the session
and admits, then posts the wakeup. `todo` holds the calls the owner's handler
still makes, so the pipeline's worker runs between them. `replaced` and `quiet`
are history variables for two cases in which the code, as section 6 tells, does
leave input waiting; `InputIsAwaited` exempts them and nothing else.

### 2.5 ThumbnailCalls, ThumbnailService, AlbumThumbnails

ThumbnailCalls has the sections under the service's cache lock: the two of
`GetThumbnailDetailed`, release (two sections), cancel, invalidate, resize, the
answer to the waiting calls, and analysis requests. Pixels are the revision of
the history they show. ThumbnailService adds the three pools, the decode slots
and `StopWorkers`; each of its actions is an action of ThumbnailCalls or leaves
its variables alone. `PinnedLruCache` is translated as operators on a record: the
list of `lru_cache.hpp` and the table of guards that `HandleEvict` keeps in step;
the loops over a list (`Without`, `HandleEvicts`) are recursive functions.

AlbumThumbnails is the GUI thread of the grid: a handler is one action that
leaves the service calls it makes in `todo`; a conversion is a thread of its own
that puts its image in the store and reports back. `events` is the queue of the
GUI thread: answers the service posted (`Dispatch`), reports of the threads and
notices of commits, in the order in which they were queued. The retry of a failed
tile and the refresh after a commit are part of it.

### 2.6 ModelPackages

A set of models is in one of three sibling directories (installed, set aside,
being removed) or in the staging directory, and a removal of a directory tree may
stop half-way and leave it torn. `at` says where the GUI thread and the install
worker are in `RecoverAiModelPackageDirectory`, `InstallAiModelPackageArchive`
and `RemoveAiModelPackage`, one file operation per step; every one may fail and
the process may stop before any. Download, cancellation and the end of the
transfer are steps of the service.

### 2.7 ProjectFiles

`package`, `temp` and `database` are what is on the disk: the package, its
`.tmp`, and the database of each workspace. A file is missing, torn or whole, and
holds changes of the user. `memory` is what the services have not stored,
`editor` the open image with its unsaved edits. Three threads pack, each with a
record in `packer`: the UI thread (`task` says for what: a save, a close, the
quit), a deletion, rating or import job, and the loader, which packs the old
project before it opens the next. `close` is the close that waits for the editor;
`retired` the workspaces that the retirement thread is to remove. `Crash` leaves
packages and temporary files only.

A guard of the model is a guard of the code. Any thread may begin while the others
are at work: a switch checks for a load and an import only, a quit for nothing, the
loader takes no mutex. So two threads can have one temporary file open: the second
empties it, what they write is mixed (`shared`), lands in the file that was
renamed meanwhile, or nowhere. `Faults` names the steps that may fail; the run lets
all of them fail, and the theorems any.

Two history variables state the properties. `kept` has `<<p, c>>` when a pack that
was to save `c` in `p` has succeeded: what the database and the services held
when a save, a saving close, a quit or a switch stored it, the change of a job or
of the library. `harmed` has the packages that met one of four accidents, in
which the code as it is loses saved work:

1. the rename of the temporary file fails (`RenameTemp`);
2. the loader packs beside a job or a quit (`BesideLoader`);
3. a new project is created at the path of one whose package is still to come
   or is only in its `.tmp` (`Claimed`);
4. a package is opened again before a job of its earlier opening has packed
   (`JobToCome`).

The model takes these steps and goes on after them; `SavedIsPacked` speaks of the
other packages. None of the four is superfluous: without any one of them, or
without one disjunct of `Claimed`, TLC finds saved work lost within seconds.
Section 6 has them with their lines.

## 3. Runs

| Run | Question | Instance |
|---|---|---|
| `history_restart` | Do journal and database together always reopen to what is shown, and is every step one of `DurableHistory`? | 2 commits, 4 records, 2 Versions, no damage |
| `history_damage` | Does the structure survive a damaged file, and do saves and commands end? | 2 commits, 2 records, 2 Versions, 1 kind of damage |
| `navigation` | Last selection, held history, awaited actions, saved edits? | 2 images, 3 loads, 2 saves, every failure; 3.0 million states |
| `navigation_live` | Do actions end and is Saving left? | 2 images, 2 loads, 2 saves, every failure |
| `render` | One job, current frames, true idle reports; is it `RenderRequests`; does every request end and idleness get reported? | 2 requests, 2 loads, 1 callback; 50 thousand states |
| `pending_input` | Are only finished writes committed, to the right image, and is admitted input always awaited? | 2 images, 2 inputs, 3 requests; 3.3 million states |
| `thumbs_service` | Fresh pixels, one answer, waiting calls served, cache, slots and pins consistent; is every call settled? | 1 image, 2 sizes, 2 calls, 1 new generation, 1 commit, 1 worker per pool, 1 slot; 590 thousand states |
| `album_tiles` | Do flags, rows and pins of the grid fit the service, and do visible tiles settle? | 1 image, 2 sizes, 3 moves of the user; 127 thousand states |
| `models_install` | Is an installed set always whole and shown as it is, and does every action end? | 2 sets, no other bound; 21 thousand states |
| `project_files` | Is saved work always whole on the disk, do open files stay, does a close end? | 1 package, 2 workspaces, 1 change, every failure; 790 thousand states |
| `history_torn_append`, `input_seal` | one disagreement each, section 6 | |

Bounds. *History.* Two commits give a branch (a commit below the head and one
beside it), so every kind of head move occurs; four records are enough for two
edits, an undo and a move in one journal, and for a journal cleared and filled
again. Beside damage two records are enough for one that is kept and one
that is lost, with 580 thousand states already. A third commit or record repeats these shapes. *Navigation.* Three loads
let a selection be queued behind a switch and promoted; `MaxSaves` stops commands
that start saves, while a handler may go on and start one more, and `MaxPosted`
stops commands while two completions wait, so the queue holds a little more than
that. `MaxWaiting` counts further callbacks of a load as one, which is sound
because all of them are told together. *Rendering.* Two requests are one in
flight and one that waits or replaces it, on the old and the new load; what holds
for more of them is proved. *Input.* Two images let input outlive its image, two
inputs are a write and the end of its sequence or two sequences, three requests
are that of the cycle, one behind it and the next. The exemption `quiet` is
reached there; `replaced` needs a fourth request. *Thumbnails.* Two calls join
one rendition or meet in two sizes; the tokens and stages differ by one
generation and one commit; one slot and one worker per pool make both the
contended case. *Grid.* Show, hide and show again, or a commit (which counts as
two moves) beside one of these. *Models.* Two sets let one replace the other and
the feed offer the first again. *Project files.* Changes and packages do not
meet: a change is in a file or not, a thread packs one package, so one of each
stands for any. The package can be left and opened again, or created at a path
that is claimed, and the workspaces are those of the old and the new project; a
workspace name is used again once its files are gone. The safety part also holds
for one package with two changes (2.5 million states) and for two packages with one
change (9.7 million), which take too long beside the liveness property; the
theorems hold for any number.

The actions stop at their bounds, so a state without successors is the end of
the instance and the runs do not check deadlock, except `models_install`, which
has no bound; the liveness properties say what must not get stuck.

Both runs of the session let every step fail that the code lets fail
(`Failures`); what they show besides is proved for any number of images, loads
and saves.

Symmetry of images and of loads is used in safety runs only.

Fairness, where it is assumed, is weak unless it is said otherwise:
* the storage worker finishes the save it started, with a success or a failure
  (`HandleMaterialization` reports both), and `CancelAndWait` publishes one for
  every save it abandons;
* the pipeline worker returns from its job, notifies and pumps;
* the owner thread runs the completions posted to it and finishes its handlers;
* opening an image goes through recovery and acquisition to its end;
* a worker of a thread pool takes a queued rendition and goes on with it, a call
  that is under way ends, `StopWorkers` proceeds; in the grid, the event loop
  delivers what was posted, threads report and a commit is noted;
* the install worker goes on; a download ends, since a stalled one is given up
  after 120 seconds (`app/download_service.cpp:318`); queued ends are delivered;
* the UI thread and a job go on with the package they write, and the save of an
  image ends with a success or a failure. The evaluation of a close that waits is
  strongly fair: it is queued anew at each change of the session
  (`application_close_coordinator.cpp:143`), while the UI thread is busy and free
  by turns.
No command of the user is fair.

## 4. Properties

*History.* `RestartShowsWorkingHead` and `JournalStaysReplayable` are the promise
of the journal. `ImplementsDurableHistory` is the refinement: with `durable`
mapped to what the files would reopen to and `screen` to what the session shows,
every step of EditHistory is a command, an open, a leave or a stutter of
`DurableHistory`; a save, a crash and a failure never change the durable view.
`RedoContinuesHead`, `InactiveVersionsAreDurable`, `StoredGraphLoads` and
`SequencesIncrease` are what the code relies on and checks in places only.
`SaveEnds` and `CommandEnds` are liveness.

*Navigation.* `LastSelectionWins`, `HeldHistoryIsShown`, `ActionIsAwaited` and
`LeavingKeepsTheEdits` (action property) are safety; `ActionEnds` and
`SavingEnds` liveness.

*Rendering.* `ImplementsRenderRequests` is the refinement; `SingleFlight`,
`OnlyCurrentFramesAreReady` and `IdleMeansIdle` (action properties) are safety;
`EveryRequestEnds` and `IdleIsReported` liveness.

*Input.* `CommitsAreReleasedEdits`: the history of an image holds, in order, only
values whose sequence ended and that were written to that image. `InputIsAwaited`:
while the session is interactive, input that waits has a wakeup, a delayed
consume, a cycle whose end is still to come, or a task of the owner.

*Thumbnails.* `NothingStaleIsServed`, `AnsweredOnce`, `WaitersAreServed` (calls
that wait have a rendition that will answer them), `CacheIsConsistent` (list and
guards), `SlotsAreAccounted`, `PinnedStays` (action property) and `CallsAreSettled`
(liveness). In the grid: `FlagsAreAnswered`, `TilesFollowPins`, `PinsAreBalanced`
(the grid's references and the service's pins) and `TilesSettle` (liveness).

*Models.* `SetSurvives`: an installed set is whole in its directory, or set aside
with nothing in its place, and no set that was replaced or removed comes back.
`ShownIsInstalled`: while nothing runs, the page says what the directory holds.
`ActionEnds` is liveness.

*Project files.* `SavedIsPacked`: what a pack has saved is whole in the package or
its temporary file, unless the package met one of the four accidents of 2.7.
`OpenFilesStay`: the workspaces of the open project, of one the UI thread or the
loader is to pack and of one a load has unpacked are there, and nobody is to remove
them. It says nothing of a job whose project was left, since the code removes that
workspace. `CloseEnds` is liveness.

Each property of a passing run has a mutant in `PROJECT.json`: a change of one
definition, of the kind a slip in the code would be, that makes TLC find the
property violated under the same configuration.

## 5. Proofs

For every number of commits, records, Versions, requests, loads, images, sizes,
calls, workers, slots, sets, packages, workspaces and changes that the
assumptions of the modules allow:

| Theorem | Says |
|---|---|
| `EditHistoryProofs!TypeCorrect` | `Spec => []TypeOK` |
| `EditHistoryProofs!InactiveDurable` | `Spec => []InactiveVersionsAreDurable` |
| `EditHistoryProofs!SequencesGrow` | `Spec => []SequencesIncrease` |
| `EditHistoryProofs!StoredGraphComplete` | `Spec => []StoredGraphLoads` |
| `EditHistoryProofs!RedoIsPath` | `Spec => []RedoContinuesHead` |
| `EditHistoryProofs!JournalReplays` | `Spec => []JournalStaysReplayable` |
| `EditHistoryProofs!RestartShows` | `Spec => []RestartShowsWorkingHead` |
| `EditHistoryProofs!HistoryIsDurable` | `Spec /\ [](damage = {}) => ImplementsDurableHistory` |
| `EditHistoryProofs!UndamagedHistoryIsDurable` | `MaxDamage = 0` implies `Spec => ImplementsDurableHistory` |
| `SessionNavigationProofs!NavInvariant` | `Spec => []NavInv`, the inductive invariant |
| `SessionNavigationProofs!SelectionIsShown` | `Spec => []LastSelectionWins` |
| `SessionNavigationProofs!HistoryIsGivenBack` | `Spec => []HeldHistoryIsShown` |
| `SessionNavigationProofs!ActionWaitsForSave` | `Spec => []ActionIsAwaited` |
| `SessionNavigationProofs!EditsAreKept` | `Spec => LeavingKeepsTheEdits` |
| `RenderCoordinatorProofs!CoordinatorTypeCorrect` | `Spec => []TypeOK` |
| `RenderCoordinatorProofs!OneJobInFlight` | `Spec => []SingleFlight` |
| `RenderCoordinatorProofs!ReadyFramesAreCurrent` | `Spec => OnlyCurrentFramesAreReady` |
| `RenderCoordinatorProofs!IdleReportsAreTrue` | `Spec => IdleMeansIdle` |
| `RenderCoordinatorProofs!CoordinatorKeepsPromise` | `Spec => ImplementsRenderRequests` |
| `SessionInputProofs!InputKeepsTypes` | `InputSpec => []InputTypeOK` |
| `SessionInputProofs!InputIsAlwaysAwaited` | `InputSpec => []InputIsAwaited` |
| `SessionInputProofs!CommitsAreAlwaysReleasedEdits` | `InputSpec => []CommitsAreReleasedEdits` |
| `ThumbnailProofs!CallsKeepTypes` | types of ThumbnailCalls |
| `ThumbnailProofs!CallsServeNothingStale` | `NothingStaleIsServed` of the calls alone |
| `ThumbnailProofs!ServiceImplementsCalls` | ThumbnailService implements ThumbnailCalls |
| `ThumbnailProofs!ServiceServesNothingStale` | `NothingStaleIsServed` of the service |
| `ThumbnailProofs!ServiceAccountsSlots` | `SlotsAreAccounted` |
| `ThumbnailProofs!CallsKeepCacheConsistent` | `CacheIsConsistent` of the calls alone |
| `ThumbnailProofs!ServiceKeepsCacheConsistent` | `CacheIsConsistent` of the service |
| `ThumbnailProofs!CallsKeepPinned` | `PinnedStays` |
| `ThumbnailProofs!CallsAnswerOnce` | `AnsweredOnce` of the calls alone |
| `ThumbnailProofs!ServiceAnswersOnce` | `AnsweredOnce` of the service |
| `ThumbnailProofs!ServiceServesWaiters` | `WaitersAreServed` |
| `AlbumThumbnailProofs!AlbumCallsService` | `GridSpec => CallsSpec`: the grid is a caller as ThumbnailCalls has them |
| `AlbumThumbnailProofs!AlbumKeepsTypes` | `GridSpec => []AlbumTypeOK` |
| `AlbumThumbnailProofs!AlbumAnswersFlags` | `GridSpec => []FlagsAreAnswered` |
| `AlbumThumbnailProofs!AlbumTilesFollow` | `GridSpec => []TilesFollowPins` |
| `AlbumThumbnailProofs!AlbumPinsBalanced` | `GridSpec => []PinsAreBalanced` |
| `ModelPackageProofs!InstalledSetSurvives` | `Spec => []SetSurvives` |
| `ModelPackageProofs!ShownSetIsInstalled` | `Spec => []ShownIsInstalled` |
| `ProjectFileProofs!SavedWorkStaysPacked` | `Spec => []SavedIsPacked`, whatever fails; packages that met an accident of 2.7 excepted |
| `ProjectFileProofs!OpenFilesAreThere` | `Spec => []OpenFilesStay`, whatever fails and whatever runs meanwhile |

Assumptions: `GraphAssumption`, `HistoryAssumption`, `NavigationAssumption`,
`CoordinatorAssumption`, `InputAssumption`, `CallsAssumption`, `PoolAssumption`,
`GridAssumption`, `SetsAssumption` and `FilesAssumption`, which say that bounds are
naturals, capacities and pools are not empty, images, loads and sizes are finitely
many, loads are numbered from 1 and no size is 0, the first Version is a Version and
an absent thing is none of the things. TLC evaluates each of them in the runs.

Some facts are proved by induction. The library's theorems take an operator, which
the provers cannot instantiate; so `EditHistoryProofs`, `SessionInputProofs` and
`ThumbnailProofs` begin with the induction stated with a set (`SetInduction`), from
the fact that the order of the naturals is well-founded.

*Inactive Versions.* The property alone is not inductive: a save writes a graph
captured earlier, so one has to know that memory still agrees with it.
`DurableInv` adds `SaveFreezesGraph`: while a save runs the session is Saving,
an open command finds the session Interactive (so the two exclude each other),
and the captured graph is the graph in memory with its head materialized. Operations of the working history touch the active Version
only (lemma `InactiveUntouched`), and the active Version changes only after the
transaction that stores it. Type correctness needs that a journal accepted by
`Replayable` replays to a graph (`ReplayType`), whose greatest durable prefix
exists because a non-empty bounded set of naturals has a greatest element
(`GreatestElement`).

*Sequence numbers.* That they increase and are never used twice is inductive
once it is known that a save takes the whole journal (`SequenceInv`), so clearing
up to the last record it took leaves none behind.

*Graph and redo path.* `GraphInv`: the working graph, the captured graph and the
rows are closed under parents, every record's target was there when it was
written, and the redo suffix and a pending command fit the working head. The
least closed set that the garbage collection keeps is closed
(`ReachableIsLeast`), and so the rows always load.

*Restart.* What a replay over a journal of any length computes is out of the
prover's reach; where it ends is not. A journal whose records follow each other
(`Sound`) and that starts at the stored head, or the head of one of whose records
is the stored one with all commits up to it in the rows (`Anchored`), is accepted
and ends at the target of its last record. `RecoveryInv` says that the file is of
this kind with its last record and without it while a command may still revoke it
(`FileFits`, `PendingFitsFile`), and that memory holds the same journal, whose end
is the working head, until the save has cleared the file; once the transaction is
written the rows have every commit of the working graph and its head
(`MemoryFits`). From it follow `JournalStaysReplayable`,
`RestartShowsWorkingHead` and, since each action then changes the durable view as
`DurableHistory` says (`ReopensAtEnd`, `StepIsDurable`), the refinement. All of it
is said for `damage = {}`; `MaxDamage = 0` is one way to have that in every state.

*Session.* None of the four properties is inductive by itself. `NavInv` joins
`Identity` (state, image, load and history fit each other), `Pending` (at most one
of an action, a failed action kept for recovery, and an image being acquired),
`Room` (ids are left for the loads and saves that handlers go on to by
themselves), `Named` and `Awaited` (a completion of the save under way is not
there yet, and an action that waits has its save under way or its completion in
the queue), `Wanted` (the image selected last is where the session is going: the
target of the action, what is being acquired or is queued, or the image shown)
and `Kept` (an action that need not wait any more has left no edit unsaved, and
while it waits its save has captured them). Each handler is proved to keep it.

*Render coordinator.* `FlightInv` says that the port runs nothing or the
request in flight; that after a job returned, and until its completion is
reduced, the port is free and the completion is that of the request in flight;
and that a request in flight whose load is not the active one already has its
terminal result, so its completion emits nothing. That idle reports are true
needs besides that a callback is taken only in a step that found no work of its
session. The refinement rests on `PlacedInv`: what waits is in one slot, has not
ended and is not in flight, and what has not ended waits or is in flight. Each
action then maps to one action of RenderRequests or a stutter.

*Input.* `InputIsAwaited` speaks of the moments between two handlers only.
`InputInv` says what holds in the middle of one: `TodoFits`, which calls a handler
may have left; `CycleFits`, that a held cycle has its request ahead, open, replaced,
reported in the mail, or about to be finished by the handler at work; `WakeupFits`,
that the flag which lets the GUI thread skip a wakeup is on only while one is in the
mail; `StagesFit`, that what is not over is of the load the session is at, so that a
render that holds up the queue is one the owner will hear of; and `StoppingFits`,
that a job told to stop, whose return reports nothing, belongs to an image being left
or to a handler that promised nothing. `WorkIsAwaited` is the second half of the
property at every step. `LoadsFit` bounds the loads of queued input by those shown so
far: input of a later image cannot be queued before it is.

`CommitsInv` is about the order of the inputs. `QueueFits`: a sealed sequence with a
write holds the newest write of a released sequence, the open one the newest input of
all, and the queue is in order. `HistoriesFit`: each history holds such writes, each
newer than the one before, and what is queued for its image is newer than all of it.
Leaving an image settles the whole queue in one step; `SettledCommits` shows, by
induction over the batches, that each history stays in order on the way.

*Thumbnails.* `ServedInv` adds to `NothingStaleIsServed` that calls wait under
their key, that a call is not older than the last invalidation it saw, that
renditions belong to calls that were made, and, the core, `RenditionsFresh`: a
rendition of the current generation read its state after the last invalidation.
The service inherits it through the refinement. `SlotsInv` ties the counter of
decode slots to the set of renditions that hold one, at each stage.

The cache is consistent because every guard in it is pinned (`Sound`): the
release of the last pin takes the guard along. So the list has exactly the keys
of the table, an eviction always files its key again, in a list whose capacity
was just raised above the number of guards, and no resize goes below the pinned
keys. That each call is answered once rests on where a call can be (`OnceInv`):
between the two sections, waiting under one key, owed an answer by one concluded
rendition, told, or the subject of an analysis under way, and never in two of
these (`Apart`). Waiting calls are served because a key has exactly one open
rendition of its current generation if somebody waits for it and none otherwise
(`AllServed`); the part "none otherwise" is what makes it inductive, since the
next miss starts another. It needs the open service: `StopWorkers` drops queued
renditions and leaves their callers waiting.

*Album.* Since every step of the album is one of ThumbnailCalls or leaves its
variables alone, the invariants above (`ServiceInv`) hold beneath it, and
`GridInv` is kept on top of them. What makes it inductive is to say where a
request is in the window between a handler and the service calls it has left:
`FlagsFit` lets a flag be without a request on its way if `todo` asks for its key,
and `TodoFits` says that what is left to ask fits the pins and that an
invalidation comes before the requests that repeat what it drops. `HandledOnce`
says an answer is with one thread or in one event, which rests on `AnsweredOnce`
of the service; `ActiveFit`, that a call whose flag is on has it in the map or is
over; `AnswersFit`, that a canceled call is not active (the grid ignores such an
answer, so an active one would leave its flag behind) and that an image reported
as stored is in the store while its call is active; `RenditionsFit`, that the
renditions are of calls of the grid and none is canceled while calls wait for it.
`TilesFit` is `TilesFollowPins` while a handler is at work.

`PinsAreBalanced` speaks of a state at rest and is far from inductive; `PinInv`
says what holds on the way. `OneCaller`: at most one call waits for a key or has
just missed it, the one the key's flag belongs to, and none while the key is
cached, so a publication takes exactly one pin. `RequestsFit`: a key the handler
will request is `Vacant` (nobody waits, no pin held) or is invalidated earlier in
`todo`, so a request never adds a second pin. `PinsFit`: a cached key has one
pin in the service, and one that is not pinned by the grid, or has neither
flag nor image, is about to be released or invalidated. `FailuresFit`: a call that
failed left nothing cached, which is why a retry may ask again and a failed tile
keeps no pin. `RowsFit`: a pinned row is never blank, which is why `ShowTile` asks
for a key only while it is vacant. Keys a conversion failed for (`spoiled`) are
outside: the code keeps their pin (section 6).

*Models.* `PackagesInv` adds `Turns` (GUI thread and worker are never in the
files at the same time, and the worker does what the action asks) and `Prepared`:
what a thread may rely on when it comes to each file operation, such as that the
installed directory exists when what was set aside is dropped.

*Project files.* `FilesInv` has a part for each package that met no accident
(`Saved`) and parts for the whole. `Snapshots`: at most one thread has a snapshot
for the package, the snapshot has all that is saved, and the thread has the temporary
file to itself; between the UI thread and a job this is the mutex (`Turns`), and
beside the loader it would be an accident. `OnDisk`: all that is saved is in the
package, or in the temporary file while a thread is at the rename; a package
nobody works on may have been left like that by a stop. `Sources`: every database
the package may be packed from holds all that is saved in it, that of the open
project, of a job and of a load that unpacked; a job on another opening of the same
package would break it, which is the fourth accident. `Packs` says whose project
each thread packs and that what it is to save is in its database and its snapshot,
`OpenProject` and `LoadFits` that workspaces in use are there and are nobody
else's. Most actions leave all this alone for a package, or let a thread begin with
the open project: one lemma (`QuietKeepsSaved`) covers them. The steps of a pack
share another (`MovesKeep`), and only the rename adds to what is saved.

Only model-checked: all liveness, since the prover does not handle ENABLED, on
which fairness rests. Every safety invariant and every action property that a
passing run checks is a theorem.

## 6. Disagreements found

Two have a run that TLC must find violated.

1. `history_torn_append`: recovery isolates the whole journal when one line does
   not parse (`app/editor_mini_git_journal_recovery.cpp:46-52`), so a stop within the
   newest line loses the acknowledged records before it.
2. `input_seal`: sealing the queue when a drag is left removes the open sequence
   from it (`app/editor_session_service.cpp:1986`); when a preview had taken the
   writes already, nothing is left that would commit or revert them, although the
   checkpoint refuses a history with an unsettled preview.

### 6.1 Seen while modelling, without a run

History and session:

* *The journal of a stopped process.* `CreateProjectWorkspace`
  (`app/project_package_backend.cpp:355`) makes a new temporary directory for every
  opening, and both the database and `editor-journal` are in it. A process that
  stops leaves its journal in a directory that nothing opens again, so Mini-Git
  recovery is reached only within one open project.
  `docs/roadmap/alcedo_studio/ui/editor_history_durability_and_version_transfer_design.md:328-350`
  expects a replay after a stop. EditHistory models what the code of recovery
  does when it is given the same database and journal.
* Discard and Continue to a Version keeps the journal of the old Version, and its
  records name no Version (`app/editor_session_navigation_controller.cpp:789`).
* The garbage collection of a clean close marks from stored heads and reads no
  journal (`storage/store/edit_history/commit_graph_store.cpp:478`).
* `RevokeLastRecord` rewrites the journal in place
  (`edit/history/mini_git_working_history.cpp:335`), so a stop within the
  rewrite may lose records its header comment says stay intact.
* A live paste stores the new Version before its record is in the journal and takes
  it back in a second transaction, which may fail too (`editor_history_transfer.cpp:133`).
* After a failed Persist or Paste the lease of the save stays and nothing can
  resolve the failure (`app/editor_session_service.cpp:944`); a completion that is
  stale for its image keeps the lease as well (`:938`).
  `docs/roadmap/alcedo_studio/ui/editor_session_command_queue_and_lock_simplification_plan.md:871`
  asks to release the lease on "completion, cancellation, failure, or shutdown".
* A synchronisation that fails after a save keeps the queued selection
  (`app/editor_session_navigation_controller.cpp:324`), and a later recovery
  promotes it; the comment at `:233` says it is never promoted.
* `RenderFailed` names no load. Delivered during the save of a Version it makes
  the session Failed; the checkout then sets Loading without a first
  frame, and the editor waits until it is closed (`app/editor_session_service.cpp:338`).

* A frame that fails after the session has moved on is not told from one that
  matters: `HandleRenderEvent` checks no state
  (`app/editor_session_service.cpp:301-343`). Close, whose capture fails, Cancel and
  Persist leave a save under way; a late failed frame then makes the session
  Failed, a selection starts a second save, and the completion of the first makes
  the session Interactive although an action is pending. An edit admitted then
  is in the journal alone when the image is left, and the next opening recovers
  it. Hence `LeavingKeepsTheEdits` speaks of edits made while no action is pending.

Rendering and input:

* A request in flight emits two terminal results when its load changes and its
  session then ends (`app/editor_render_coordinator.cpp:153` and `:404`).
* A session that submits again after it was cancelled, and whose request ends in
  `Pump`, gets no idle callback.
* A cycle whose request waits in a slot and is replaced never releases its
  ownership (`app/editor_session_service.cpp:2106-2115`): the exemption `replaced`.
* A job cancelled in flight emits nothing when it returns, and cancelling a
  pending navigation resumes without a wakeup: the exemption `quiet`.
* Input admitted after the seal survives into the next session, whose input is
  then refused as belonging to a different image (`editor_session_service.hpp:1274`).
* A batch that needs no frame (`app/editor_session_service.cpp:2052-2066`) ends its
  cycle without waking the queue.

Thumbnails:

* A conversion that passed its flag check puts its image after the key was
  released or refreshed (`thumbnail_manager.cpp:385`), although the comment at
  `thumbnail_image_provider.cpp:121` promises the current pixels.
* A conversion that fails ends the request and leaves the key pinned with neither
  flag nor image (`thumbnail_manager.cpp:416-427`). When another size of the image
  is released, `ShowRemainingPinnedTier` requests that key again (`:246-248`), the
  service still has it and adds a pin (`app/thumbnail_service.cpp:596`), and the one
  release of the key leaves a pin behind. `PinsAreBalanced` is about the other keys.
* A failed or late preview of the search releases its key
  (`search_controller.cpp:784`), which cancels the grid's request of the same key;
  the grid ignores a cancelled answer (`thumbnail_manager.cpp:309`), and the tile
  goes on loading. `TilesSettle` is checked with the grid as the only caller.
* Every guard of the memory cache is pinned, since the last release takes the
  guard along (`app/thumbnail_service.cpp:859-874`). The branch of `HandleEvict`
  that erases a guard nobody has pinned (`:943-944`) is never taken, a resize
  never evicts, and the cache keeps no thumbnail of a hidden tile.
* `InvalidateThumbnail` drops waiting callbacks unanswered
  (`app/thumbnail_service.cpp:896`); the model names these calls `dropped`.

AI models:

* The worker reads the cancel flag before the archive is moved
  (`app/download_service.cpp:224`); a `CancelInstall` accepted after that returns
  true and the set is replaced all the same (`app/ai_model_package_service.cpp:610`).
* After a stop between the two renames the set shows as not installed until the
  settings page runs `CheckPackages`, since recovery does not run at the start.
* An installed set that cannot be moved because it is in use costs the archive
  that was just verified; it has to be downloaded again.

Project files. The first four are the accidents `SavedIsPacked` excepts:

* `WritePackedProject` removes the package, and when the rename of the
  temporary file then fails it removes that file too
  (`app/project_package_backend.cpp:763-781`). While the program runs the workspace
  has everything; when it is the save at quitting, whose result is ignored
  (`application_module_host.cpp:807`), the workspace is removed next and the
  project is gone.
* A switch looks for a load and an import only (`project_handler.cpp:76-87`), and
  deletions and ratings publish a lock `CloseProject` (`image_controller.cpp:644`,
  `:1596`) that nothing evaluates; a quit waits 15 seconds for a job
  (`application_module_host.cpp:791`), and `IsIdle` (`:892`) does not know of a load.
  So the loader packs beside a job or a quit, without `package_mutex_` and into the
  same temporary file, although the comment at `project_handler.hpp:174` says "Two
  packers would share the same "<package>.tmp" file, so packing is serialized."
  Pasting adjustments and semantic generation pack from completions without looking
  at a load (`adjustment_transfer_apply_coordinator.cpp:196`,
  `semantic_generation_controller.cpp:1051`).
* `BuildUniquePackedProjectPath` looks at the disk only, while a new project's
  package is written by its first save. A second project of the same name created
  before that gets the same path and overwrites the first.
* A project can be left while a deletion or rating job runs. The retirement thread
  removes the workspace under the job (`project_handler.cpp:345-356`), which then
  fails; or, when the package is opened again first, the job packs its older
  database over it.

And beside these:

* A stop between the removal and the rename leaves the project in its `.tmp`
  alone, which nothing reads. `SavedIsPacked` counts it as saved, since the bytes
  are there.
* `FinalizeEditorSession` only asks for the save of the open image
  (`project_module.cpp:879`), so the snapshot that the loader, or `SaveProject`,
  takes may miss its edits. `SavedIsPacked` counts as saved what was stored when the
  pack began.

AI image analysis (read, not modelled):

* `job_` is kept after a finished run, so in the next run a cancellation while the
  sidecar starts takes the branch of a running job
  (`image_analysis_controller.cpp:491`), and the analysis starts all the same.
* Preparation failures are appended before the rest of their batch
  (`app/image_analysis_service.cpp:934-945`); the comment at `:914` says "in item
  order".

## 7. Not modelled, and the plan

The repository has 330 thousand lines of implementation. Most are tables of
cameras and lenses, numeric code for decoding, colour, masks and GPUs, and Qt
objects that show state; a model checker has nothing to say of these, and they
are why the models cover a small share of all lines. What they aim at is the code
where threads, files and failures meet.

Left out of the modelled parts: contents of adjustments, masks and documents;
attribution and hashing; pasting and renaming in EditHistory; the delivery of
results to the render observer, view changes and comparison in the session;
background restrictions of the policy; the disk cache of thumbnails; contents of
feeds, archives and receipts; the recent list and the versions of project files.

What is left to do, in this order:

1. `CommandQueue`: submit, nested drain, delayed posts, the three phases of
   shutdown; properties: an accepted command runs once or is dropped by Stop,
   order of one submitter, no task after Stop. SessionNavigation takes its order
   of tasks as given.
2. `CommittedSnapshots`: editor leases, publication and the readers of
   committed state; paste as two transactions around a journal append.
3. The search preview as a second caller of ThumbnailCalls beside the grid.
4. `BatchJobs` for import and export; `AnalysisJobs` with the sidecar process.
5. The publication of LUT packages and updates, beside ModelPackages.
6. `SleeveTree`: the tree of folders and files and its path cache, against
   reference definitions.
