---------------------------- MODULE ModelPackages ----------------------------
(***************************************************************************)
(* The AI Mask model set on disk: download, install, replace, repair and    *)
(* remove.  AiModelPackageService (app/ai_model_package_service.cpp) on the  *)
(* GUI thread, its worker thread with the file operations of                *)
(* app/ai_model_package_install.cpp, and the worker of the shared download   *)
(* service (app/download_service.cpp).                                      *)
(*                                                                         *)
(* The process may stop between any two file operations and inside a         *)
(* recursive removal; what is on disk stays.  Every file operation may fail.  *)
(* This build supports one version of one package, so there is one target    *)
(* directory; feeds may offer different sets for it.  The download statement *)
(* is accepted.  Files below the directories are not told apart: a directory *)
(* holds all of a set or only some of it.                                   *)
(***************************************************************************)
CONSTANTS
    Sets,       \* model sets (revisions) that a feed may offer
    NoSet       \* no model set

ASSUME SetsAssumption == NoSet \notin Sets

VARIABLES
    disk,       \* the directories of the version and what they hold
    archives,   \* sets whose verified archive is in the staging directory
    have,       \* history: the set the user installed and has not removed
    at,         \* next file operation of the GUI thread and of the worker
    problem,    \* a step of the recovery under way has failed
    phase,      \* the package action that runs (active_package_id_)
    request,    \* the set it installs (active_request_)
    checking,   \* a feed check waits for the network
    offer,      \* the set the verified feed offers
    shown,      \* PackageState::installation.supported
    stop,       \* stop_ of the service
    download,   \* the download worker
    quit        \* cancel_requested_ of the download service

files    == <<disk, archives, have>>
worker   == <<at, problem>>
service  == <<phase, request, checking, offer, shown, stop>>
transfer == <<download, quit>>
vars     == <<disk, archives, have, at, problem, phase, request, checking,
              offer, shown, stop, download, quit>>

----------------------------------------------------------------------------
Absent   == [set |-> NoSet, whole |-> FALSE]
Whole(s) == [set |-> s, whole |-> TRUE]
Torn(d)  == [d EXCEPT !.whole = FALSE]
Directories == {Absent} \cup [set : Sets, whole : BOOLEAN]

\* content is in the staging directory; previous and removing are hidden
\* siblings of the target.
Places == {"target", "previous", "removing", "content"}
Exists(place) == disk[place] # Absent

\* The file operations, in the order of the code.  "told" is the end of the
\* worker, whose result is queued to the GUI thread.
Recovering == {"recover", "drop previous", "drop removing", "drop content", "recovered"}
Installing == {"verify", "extract", "extracting", "verified", "aside", "place",
               "restore", "abandon", "cancel", "drop old", "drop staging"}
Removing   == {"rename", "drop removed"}
Points     == {"idle", "told"} \cup Recovering \cup Installing \cup Removing
Threads    == {"gui", "worker"}

Goto(t, p) == at' = [at EXCEPT ![t] = p]

TypeOK ==
    /\ disk \in [Places -> Directories] /\ archives \subseteq Sets
    /\ have \in Sets \cup {NoSet}
    /\ at \in [Threads -> Points] /\ problem \in BOOLEAN
    /\ phase \in {"idle", "download", "install", "remove"}
    /\ request \in Sets \cup {NoSet} /\ offer \in Sets \cup {NoSet}
    /\ checking \in BOOLEAN /\ stop \in BOOLEAN /\ shown \in Directories
    /\ download \in {"idle", "running", "clean", "failed", "told ok", "told failed", "told canceled"}
    /\ quit \in BOOLEAN

\* The service reads the directory when it is constructed.
Init ==
    /\ disk = [p \in Places |-> Absent] /\ archives = {} /\ have = NoSet
    /\ at = [t \in Threads |-> "idle"] /\ problem = FALSE
    /\ phase = "idle" /\ request = NoSet /\ checking = FALSE /\ offer = NoSet
    /\ stop = FALSE /\ shown = disk["target"]
    /\ download = "idle" /\ quit = FALSE

----------------------------------------------------------------------------
\* File operations.

Rename(from, to) == disk' = [disk EXCEPT ![to] = disk[from], ![from] = Absent]

\* remove_all is not atomic: it may be seen, or fail, with some files gone.
RemoveAll(t, place, next) ==
    \/ /\ disk[place].whole
       /\ disk' = [disk EXCEPT ![place] = Torn(@)] /\ UNCHANGED at
    \/ disk' = [disk EXCEPT ![place] = Absent] /\ Goto(t, next)
RemoveFails(t, place, next) == Exists(place) /\ UNCHANGED disk /\ Goto(t, next)

\* RecoverAiModelPackageDirectory, of a thread that is to go on at "recovered".
RecoverPrevious(t) ==
    /\ at[t] = "recover"
    /\ \/ /\ ~Exists("previous")
          /\ Goto(t, "drop removing") /\ UNCHANGED <<disk, problem>>
       \/ /\ Exists("previous") /\ ~Exists("target")
          /\ Goto(t, "drop removing")
          /\ \/ Rename("previous", "target") /\ UNCHANGED problem
             \/ UNCHANGED disk /\ problem' = TRUE
       \/ /\ Exists("previous") /\ Exists("target")
          /\ Goto(t, "drop previous") /\ UNCHANGED <<disk, problem>>

Clear(t, point, place, next) ==
    /\ at[t] = point
    /\ \/ RemoveAll(t, place, next) /\ UNCHANGED problem
       \/ RemoveFails(t, place, next) /\ problem' = TRUE

Recover(t) ==
    /\ \/ RecoverPrevious(t)
       \/ Clear(t, "drop previous", "previous", "drop removing")
       \/ Clear(t, "drop removing", "removing", "drop content")
       \/ Clear(t, "drop content", "content", "recovered")
    /\ UNCHANGED <<archives, have, service, transfer>>

\* Mutant of WorkerRecovered: the problems of the recovery are not looked at.
WorkerRecoveredAnyway ==
    /\ at["worker"] = "recovered"
    /\ Goto("worker", IF phase = "install" THEN "extract" ELSE "rename")
    /\ UNCHANGED <<files, problem, service, transfer>>

\* A recovery with a problem ends the worker's operation.
WorkerRecovered ==
    /\ at["worker"] = "recovered"
    /\ Goto("worker", IF problem THEN "told"
                      ELSE IF phase = "install" THEN "extract" ELSE "rename")
    /\ UNCHANGED <<files, problem, service, transfer>>

----------------------------------------------------------------------------
\* InstallAiModelPackageArchive on the worker.

VerifyArchive ==
    /\ at["worker"] = "verify"
    /\ \/ archives' = archives \ {request} /\ Goto("worker", "told") /\ UNCHANGED problem
       \/ /\ request \in archives /\ UNCHANGED archives
          /\ \/ stop /\ Goto("worker", "told") /\ UNCHANGED problem
             \/ ~stop /\ Goto("worker", "recover") /\ problem' = FALSE
    /\ UNCHANGED <<disk, have, service, transfer>>

\* The content is complete when it is verified and has its receipt.
Extract ==
    /\ \/ /\ at["worker"] = "extract" /\ Goto("worker", "extracting")
          /\ disk' = [disk EXCEPT !["content"] = Torn(Whole(request))]
       \/ /\ at["worker"] = "extracting" /\ Goto("worker", "verified")
          /\ disk' = [disk EXCEPT !["content"] = Whole(request)]
       \/ /\ at["worker"] = "extracting" /\ UNCHANGED disk
          /\ \/ Goto("worker", "abandon")
             \/ stop /\ Goto("worker", "cancel")
    /\ UNCHANGED <<archives, have, problem, service, transfer>>

LastCheck ==
    /\ at["worker"] = "verified"
    /\ Goto("worker", IF stop THEN "cancel" ELSE "aside")
    /\ UNCHANGED <<files, problem, service, transfer>>

MoveAside ==
    /\ at["worker"] = "aside"
    /\ \/ ~Exists("target") /\ UNCHANGED disk /\ Goto("worker", "place")
       \/ Exists("target") /\ Rename("target", "previous") /\ Goto("worker", "place")
       \/ Exists("target") /\ UNCHANGED disk /\ Goto("worker", "abandon")
    /\ UNCHANGED <<archives, have, problem, service, transfer>>

\* The commit point.
MoveIntoPlace ==
    /\ at["worker"] = "place"
    /\ \/ /\ Rename("content", "target") /\ have' = request
          /\ Goto("worker", "drop old")
       \/ UNCHANGED <<disk, have>> /\ Goto("worker", "restore")
    /\ UNCHANGED <<archives, problem, service, transfer>>

\* What was set aside returns; that may fail too.
Restore ==
    /\ at["worker"] = "restore" /\ Goto("worker", "abandon")
    /\ \/ Exists("previous") /\ Rename("previous", "target")
       \/ UNCHANGED disk
    /\ UNCHANGED <<archives, have, problem, service, transfer>>

\* Only a cancellation keeps the archive.
Abandon ==
    /\ \/ /\ at["worker"] = "abandon"
          /\ \/ RemoveAll("worker", "content", "told")
             \/ RemoveFails("worker", "content", "told")
          /\ archives' \in IF at'["worker"] = "told" THEN {archives, archives \ {request}}
                                                    ELSE {archives}
       \/ /\ at["worker"] = "cancel" /\ UNCHANGED archives
          /\ \/ RemoveAll("worker", "content", "told")
             \/ RemoveFails("worker", "content", "told")
    /\ UNCHANGED <<have, problem, service, transfer>>

\* Errors after the commit are ignored.
DropOld ==
    /\ at["worker"] = "drop old"
    /\ \/ RemoveAll("worker", "previous", "drop staging")
       \/ RemoveFails("worker", "previous", "drop staging")
    /\ UNCHANGED <<archives, have, problem, service, transfer>>

DropStaging ==
    /\ at["worker"] = "drop staging" /\ Goto("worker", "told")
    /\ archives' \in SUBSET archives
    /\ UNCHANGED <<disk, have, problem, service, transfer>>

----------------------------------------------------------------------------
\* RemoveAiModelPackage on the worker.  Without the target it ends at once.

TakeAway ==
    /\ at["worker"] = "rename"
    /\ \/ /\ Exists("target") /\ Rename("target", "removing") /\ have' = NoSet
          /\ Goto("worker", "drop removed")
       \/ UNCHANGED <<disk, have>> /\ Goto("worker", "told")
    /\ UNCHANGED <<archives, problem, service, transfer>>

DropRemoved ==
    /\ at["worker"] = "drop removed"
    /\ \/ RemoveAll("worker", "removing", "drop staging")
       \/ RemoveFails("worker", "removing", "told")
    /\ UNCHANGED <<archives, have, problem, service, transfer>>

Work ==
    \/ Recover("worker") \/ WorkerRecovered
    \/ VerifyArchive \/ Extract \/ LastCheck \/ MoveAside \/ MoveIntoPlace
    \/ Restore \/ Abandon \/ DropOld \/ DropStaging
    \/ TakeAway \/ DropRemoved

----------------------------------------------------------------------------
\* The worker of the download service.  RunItems returns no error when it is
\* told to quit; the flag is read once more before the result is queued.

Download ==
    /\ \/ /\ download = "running" /\ archives' = archives \cup {request}
          /\ download' = "clean"
       \/ /\ download = "running" /\ UNCHANGED archives
          /\ \/ download' = "failed"
             \/ quit /\ download' = "clean"
       \/ /\ download \in {"clean", "failed"} /\ UNCHANGED archives
          /\ download' = IF quit THEN "told canceled"
                         ELSE IF download = "clean" THEN "told ok" ELSE "told failed"
    /\ UNCHANGED <<disk, have, worker, service, quit>>

----------------------------------------------------------------------------
\* The service on the GUI thread.

Ready == at["gui"] = "idle"

\* RefreshInstallations does nothing while an action runs.
Refresh(running) == shown' = IF running = "idle" THEN disk["target"] ELSE shown

CheckPackages ==
    /\ Ready /\ ~checking /\ phase = "idle"
    /\ Goto("gui", "recover") /\ problem' = FALSE
    /\ UNCHANGED <<files, service, transfer>>

CheckRecovered ==
    /\ at["gui"] = "recovered" /\ Goto("gui", "idle")
    /\ checking' = TRUE /\ Refresh(phase)
    /\ UNCHANGED <<files, problem, phase, request, offer, stop, transfer>>

\* A check that fails keeps the feed of the last one.
FeedAnswer ==
    /\ Ready /\ checking /\ checking' = FALSE
    /\ offer' \in Sets \cup {NoSet}
    /\ UNCHANGED <<files, worker, phase, request, shown, stop, transfer>>

\* Refused with a message while another download holds the shared service.
InstallPackage ==
    /\ Ready /\ phase = "idle" /\ ~checking /\ offer # NoSet
    /\ phase' = "download" /\ request' = offer
    /\ download' = "running" /\ quit' = FALSE
    /\ UNCHANGED <<files, worker, checking, offer, shown, stop>>

CancelInstall ==
    /\ Ready
    /\ \/ phase = "download" /\ quit' = TRUE /\ UNCHANGED stop
       \/ phase = "install" /\ stop' = TRUE /\ UNCHANGED quit
    /\ UNCHANGED <<files, worker, phase, request, checking, offer, shown, download>>

FinishInstall ==
    /\ phase' = "idle" /\ request' = NoSet /\ stop' = FALSE
    /\ Refresh("idle") /\ UNCHANGED <<checking, offer>>

\* Mutant of TransferFinished: only a transfer that was not canceled is answered.
TransferFinishedUnlessCanceled ==
    /\ Ready /\ download' = "idle"
    /\ \/ /\ download = "told ok" /\ phase' = "install" /\ Goto("worker", "verify")
          /\ UNCHANGED <<request, checking, offer, shown, stop>>
       \/ download = "told failed" /\ FinishInstall /\ UNCHANGED at
    /\ UNCHANGED <<files, problem, quit>>

\* The queued end of the transfer: StartInstallWorker, or the action is over.
TransferFinished ==
    /\ Ready /\ download' = "idle"
    /\ \/ /\ download = "told ok" /\ phase' = "install" /\ Goto("worker", "verify")
          /\ UNCHANGED <<request, checking, offer, shown, stop>>
       \/ download \in {"told failed", "told canceled"} /\ FinishInstall /\ UNCHANGED at
    /\ UNCHANGED <<files, problem, quit>>

RemovePackage ==
    /\ Ready /\ phase = "idle" /\ ~checking /\ shown # Absent
    /\ phase' = "remove" /\ Goto("worker", "recover") /\ problem' = FALSE
    /\ UNCHANGED <<files, request, checking, offer, shown, stop, transfer>>

\* Mutant of FinishRemoval: the installations are read before the action is cleared, and are not read.
FinishRemovalRefreshingFirst ==
    /\ Refresh(phase) /\ phase' = "idle"
    /\ UNCHANGED <<request, checking, offer, stop>>

FinishRemoval ==
    /\ phase' = "idle" /\ Refresh("idle")
    /\ UNCHANGED <<request, checking, offer, stop>>

WorkerFinished ==
    /\ Ready /\ at["worker"] = "told" /\ Goto("worker", "idle")
    /\ \/ phase = "install" /\ FinishInstall
       \/ phase = "remove" /\ FinishRemoval
    /\ UNCHANGED <<files, problem, transfer>>

\* The process stops, in any way, and is started again.
Restart ==
    /\ at' = [t \in Threads |-> "idle"] /\ problem' = FALSE
    /\ phase' = "idle" /\ request' = NoSet /\ checking' = FALSE /\ offer' = NoSet
    /\ stop' = FALSE /\ shown' = disk["target"]
    /\ download' = "idle" /\ quit' = FALSE
    /\ UNCHANGED files

Next ==
    \/ Work \/ Download \/ Recover("gui")
    \/ CheckPackages \/ CheckRecovered \/ FeedAnswer
    \/ InstallPackage \/ CancelInstall \/ TransferFinished
    \/ RemovePackage \/ WorkerFinished
    \/ Restart

\* The threads run on; the download service gives up a stalled transfer
\* (download_service.cpp:318-325) and the event loop delivers what is queued.
\* Users, the network and restarts owe nothing.
Fairness ==
    /\ WF_vars(Work) /\ WF_vars(Download)
    /\ WF_vars(Recover("gui")) /\ WF_vars(CheckRecovered)
    /\ WF_vars(TransferFinished) /\ WF_vars(WorkerFinished)

Spec     == Init /\ [][Next]_vars
FairSpec == Spec /\ Fairness

----------------------------------------------------------------------------
\* Safety: whatever stops or fails, the set the user installed is complete in
\* its directory, or set aside with nothing in its place so that the next
\* recovery returns it; and a set that was replaced or removed never comes back
\* (ai_model_package_install.hpp, RecoverAiModelPackageDirectory; the renames of
\* ai_model_package_install.cpp:469-492, 494-519).
SetSurvives ==
    IF have = NoSet THEN ~Exists("target") /\ ~Exists("previous")
    ELSE IF Exists("target") THEN disk["target"] = Whole(have)
    ELSE disk["previous"] = Whole(have)

\* Safety: while no action and no recovery runs the page and the AI Mask tool see
\* what is in the directory, after every end of an action and every restart
\* (RefreshInstallations, ai_model_package_service.cpp:350-358, is ignored while
\* an action runs).
ShownIsInstalled == phase = "idle" /\ Ready => shown = disk["target"]

\* Liveness: every download, installation and removal ends, also when it is
\* canceled or a file operation fails, so the page is not busy for ever
\* (FinishInstall, FinishRemoval: ai_model_package_service.cpp:588-608, 657-665).
ActionEnds == phase # "idle" ~> phase = "idle"
=============================================================================
