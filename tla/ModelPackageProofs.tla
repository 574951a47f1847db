-------------------------- MODULE ModelPackageProofs --------------------------
(***************************************************************************)
(* Theorems about ModelPackages, for every collection of model sets.         *)
(***************************************************************************)
EXTENDS ModelPackages, TLAPS

\* One thread works on the files, and the worker does what the action asks.
Turns ==
    /\ at["gui"] \in {"idle"} \cup Recovering
    /\ at["gui"] # "idle" => phase = "idle"
    /\ phase \in {"idle", "download"} => at["worker"] = "idle"
    /\ phase = "install" => at["worker"] \in {"told"} \cup Recovering \cup Installing
    /\ phase = "remove" =>
          at["worker"] \in {"told", "drop staging"} \cup Recovering \cup Removing
    /\ phase \in {"download", "install"} => request \in Sets
    /\ download # "idle" => phase = "download"

\* What a thread may rely on when it comes to a file operation.
Prepared(t) ==
    /\ at[t] \in {"drop previous", "drop old"} => Exists("target")
    /\ at[t] \in {"place", "restore"} => ~Exists("target")
    /\ at[t] \in {"drop removing", "drop content", "recovered"} =>
          problem \/ ~Exists("previous")
    /\ at[t] \in {"extract", "extracting", "verified", "aside", "rename"} =>
          ~Exists("previous")
    /\ at[t] \in {"verified", "aside", "place"} => disk["content"] = Whole(request)

PackagesInv ==
    /\ TypeOK /\ Turns
    /\ \A t \in Threads : Prepared(t)
    /\ SetSurvives /\ ShownIsInstalled

----------------------------------------------------------------------------
LEMMA AbsentTyped == Absent \in Directories /\ ~Absent.whole
  BY DEF Absent, Directories

LEMMA WholeTyped ==
    ASSUME NEW s \in Sets
    PROVE  Whole(s) \in Directories /\ Whole(s) # Absent /\ Torn(Whole(s)) \in Directories
  BY SetsAssumption DEF Whole, Absent, Directories, Torn

LEMMA TornTyped ==
    ASSUME NEW d \in Directories, d.whole
    PROVE  Torn(d) \in Directories /\ Torn(d) # Absent
<1>1. d \in [set : Sets, whole : BOOLEAN]
  BY DEF Directories, Absent
<1>2. Torn(d) \in [set : Sets, whole : BOOLEAN]
  BY <1>1 DEF Torn
<1>. QED
  BY <1>2, SetsAssumption DEF Directories, Absent

\* Both ends of remove_all leave directories, and change no other place.
LEMMA RemoveAllTyped ==
    ASSUME TypeOK, NEW t \in Threads, NEW place \in Places, NEW next \in Points,
           RemoveAll(t, place, next)
    PROVE  /\ disk' \in [Places -> Directories] /\ at' \in [Threads -> Points]
           /\ \A p \in Places : p # place => disk'[p] = disk[p]
           /\ disk[place] = Absent => disk'[place] = Absent
           /\ at' = at \/ (at' = [at EXCEPT ![t] = next] /\ disk'[place] = Absent)
  BY AbsentTyped, TornTyped DEF TypeOK, RemoveAll, Goto

LEMMA RenameTyped ==
    ASSUME TypeOK, NEW from \in Places, NEW to \in Places, from # to, Rename(from, to)
    PROVE  /\ disk' \in [Places -> Directories]
           /\ disk'[to] = disk[from] /\ disk'[from] = Absent
           /\ \A p \in Places : p \notin {from, to} => disk'[p] = disk[p]
  BY AbsentTyped DEF TypeOK, Rename

----------------------------------------------------------------------------
\* Each step keeps the invariant.  All that is on disk is said of the four places;
\* a step of one thread finds the other one idle.

LEMMA InitPackages == Init => PackagesInv
<1> SUFFICES ASSUME Init PROVE PackagesInv
  OBVIOUS
<1>1. TypeOK
  BY AbsentTyped DEF Init, TypeOK, Threads, Points, Places
<1>2. Turns /\ \A t \in Threads : Prepared(t)
  BY DEF Init, Turns, Prepared, Threads
<1>3. SetSurvives /\ ShownIsInstalled
  BY DEF Init, SetSurvives, ShownIsInstalled, Exists, Places
<1>. QED
  BY <1>1, <1>2, <1>3 DEF PackagesInv

LEMMA RecoverKeepsInv ==
    ASSUME PackagesInv, NEW t \in Threads, Recover(t)
    PROVE  PackagesInv'
<1> USE DEF PackagesInv
<1>1. UNCHANGED <<archives, have, service, transfer>>
  BY DEF Recover
<1>2. CASE RecoverPrevious(t)
  <2>1. TypeOK'
    <3>1. disk' \in [Places -> Directories]
      BY <1>2, RenameTyped DEF RecoverPrevious, TypeOK, Places
    <3>2. at' \in [Threads -> Points] /\ problem' \in BOOLEAN
      BY <1>2 DEF RecoverPrevious, Goto, TypeOK, Points, Recovering
    <3>. QED
      BY <1>1, <3>1, <3>2, ZenonT(60) DEF TypeOK, service, transfer
  <2>2. Turns' /\ \A u \in Threads \ {t} : at[u] = "idle"
    BY <1>1, <1>2 DEF RecoverPrevious, Goto, TypeOK, Turns, Threads, Recovering, service, transfer
  <2>3. Prepared(t)' /\ SetSurvives'
    BY <1>1, <1>2, RenameTyped, AbsentTyped
    DEF RecoverPrevious, Goto, TypeOK, Prepared, SetSurvives, Exists, Places, service
  <2>4. at' \in [Threads -> Points] /\ at'[t] # "idle"
        /\ \A u \in Threads \ {t} : at'[u] = "idle"
    BY <1>2, <2>1, <2>2 DEF RecoverPrevious, Goto, TypeOK
  <2>5. \A u \in Threads : Prepared(u)'
    BY <2>3, <2>4 DEF Prepared
  <2>6. ShownIsInstalled'
    BY <1>1, <2>1, <2>2, <2>4 DEF TypeOK, Turns, ShownIsInstalled, Ready, Threads
  <2>. QED
    BY <2>1, <2>2, <2>3, <2>5, <2>6
<1>3. ASSUME NEW point \in Recovering \ {"recover", "recovered"}, NEW place \in Places \ {"target"},
             NEW next \in Recovering \ {"recover", "drop previous"},
             point = "drop previous" <=> place = "previous",
             Clear(t, point, place, next)
      PROVE  PackagesInv'
  <2>1. /\ at[t] = point /\ disk' \in [Places -> Directories] /\ at' \in [Threads -> Points]
        /\ \A p \in Places : p # place => disk'[p] = disk[p]
        /\ disk[place] = Absent => disk'[place] = Absent
        /\ problem' \in BOOLEAN /\ (problem => problem')
        /\ at' = at \/ (at' = [at EXCEPT ![t] = next] /\ (problem' \/ disk'[place] = Absent))
    <3>1. CASE RemoveAll(t, place, next) /\ UNCHANGED problem
      BY <1>3, <3>1, RemoveAllTyped DEF Clear, TypeOK, Points, Recovering
    <3>2. CASE RemoveFails(t, place, next) /\ problem' = TRUE
      BY <1>3, <3>2 DEF Clear, RemoveFails, Goto, TypeOK, Points, Recovering
    <3>. QED
      BY <1>3, <3>1, <3>2 DEF Clear
  <2>2. TypeOK'
    BY <1>1, <2>1 DEF TypeOK, service, transfer
  <2>3. Turns' /\ \A u \in Threads \ {t} : at[u] = "idle" /\ at'[u] = "idle"
    BY <1>1, <2>1 DEF TypeOK, Turns, Threads, Recovering, service, transfer
  <2>4. disk'["target"] = disk["target"] /\ (place # "previous" => disk'["previous"] = disk["previous"])
    BY <1>3, <2>1 DEF Places
  <2>5. SetSurvives'
    BY <1>1, <1>3, <2>1, <2>4 DEF Prepared, SetSurvives, Exists
  <2>6. /\ at'[t] \in Recovering \ {"recover"}
        /\ at'[t] = "drop previous" => at[t] = "drop previous"
        /\ \/ problem' \/ disk'["previous"] = Absent
           \/ at'[t] = "drop previous"
    BY <1>3, <2>1, <2>4 DEF TypeOK, Prepared, Exists, Recovering
  <2>7. Prepared(t)'
    BY <1>3, <2>1, <2>4, <2>6 DEF Prepared, Exists, Recovering
  <2>8. \A u \in Threads : Prepared(u)'
    BY <2>3, <2>7 DEF Prepared
  <2>9. ShownIsInstalled'
    BY <1>1, <2>1, <2>3, <2>4, <2>6 DEF TypeOK, Turns, ShownIsInstalled, Ready, Threads, Recovering, service
  <2>. QED
    BY <2>2, <2>3, <2>5, <2>8, <2>9
<1>. QED
  BY <1>2, <1>3 DEF Recover, Recovering, Places

\* A step of the worker that changes no place the invariant speaks of but those
\* named, and leaves it at a point of its own operation.
LEMMA WorkKeepsInv ==
    ASSUME PackagesInv, NEW next \in Points,
           at["worker"] \notin {"idle", "told"}, phase # "idle",
           at' = [at EXCEPT !["worker"] = next],
           UNCHANGED <<service, transfer>>,
           disk' \in [Places -> Directories], archives' \subseteq Sets,
           have' \in Sets \cup {NoSet}, problem' \in BOOLEAN,
           phase = "install" => next \in {"told"} \cup Recovering \cup Installing,
           phase = "remove" => next \in {"told", "drop staging"} \cup Recovering \cup Removing,
           SetSurvives', Prepared("worker")'
    PROVE  PackagesInv'
<1> USE DEF PackagesInv
<1>1. at["gui"] = "idle" /\ at'["gui"] = "idle" /\ at' \in [Threads -> Points]
  BY DEF Turns, TypeOK, Threads
<1>2. TypeOK' /\ Turns'
  BY <1>1 DEF TypeOK, Turns, Threads, service, transfer
<1>3. ShownIsInstalled'
  BY DEF ShownIsInstalled, service
<1>4. \A t \in Threads : Prepared(t)'
  BY <1>1 DEF Prepared, Threads
<1>. QED
  BY <1>2, <1>3, <1>4

LEMMA WorkerTurn ==
    ASSUME PackagesInv, at["worker"] # "idle"
    PROVE  phase \in {"install", "remove"} /\ at["gui"] = "idle" /\ at \in [Threads -> Points]
  BY DEF PackagesInv, TypeOK, Turns

LEMMA BeforeContent ==
    ASSUME PackagesInv,
           WorkerRecovered \/ VerifyArchive \/ LastCheck \/ DropStaging
    PROVE  PackagesInv'
<1> USE DEF PackagesInv
<1>1. phase \in {"install", "remove"} /\ at \in [Threads -> Points]
  BY WorkerTurn, ZenonT(60) DEF WorkerRecovered, VerifyArchive, LastCheck, DropStaging
<1>2. CASE WorkerRecovered
  BY <1>1, <1>2, WorkKeepsInv
  DEF WorkerRecovered, Goto, files, service, TypeOK, Turns, Prepared, SetSurvives, Exists,
      Points, Recovering, Installing, Removing, Threads
<1>3. CASE VerifyArchive
  BY <1>1, <1>3, WorkKeepsInv
  DEF VerifyArchive, Goto, service, TypeOK, Turns, Prepared, SetSurvives, Exists,
      Points, Recovering, Installing, Removing, Threads
<1>4. CASE LastCheck
  BY <1>1, <1>4, WorkKeepsInv
  DEF LastCheck, Goto, files, service, TypeOK, Turns, Prepared, SetSurvives, Exists,
      Points, Recovering, Installing, Removing, Threads
<1>5. CASE DropStaging
  BY <1>1, <1>5, WorkKeepsInv
  DEF DropStaging, Goto, service, TypeOK, Turns, Prepared, SetSurvives, Exists,
      Points, Recovering, Installing, Removing, Threads
<1>. QED
  BY <1>2, <1>3, <1>4, <1>5

LEMMA ExtractKeepsInv ==
    ASSUME PackagesInv, Extract
    PROVE  PackagesInv'
<1> USE DEF PackagesInv
<1>1. phase = "install" /\ at \in [Threads -> Points] /\ request \in Sets
  BY WorkerTurn DEF Extract, Turns, Recovering, Removing
<1>2. PICK next \in {"extracting", "verified", "abandon", "cancel"} :
         at' = [at EXCEPT !["worker"] = next] /\ (next = "verified" => disk'["content"] = Whole(request))
  BY <1>1 DEF Extract, Goto, TypeOK, Places
<1>3. disk' \in [Places -> Directories]
  BY <1>1, WholeTyped DEF Extract, TypeOK, Places
<1>4. disk'["target"] = disk["target"] /\ disk'["previous"] = disk["previous"]
  BY DEF Extract, TypeOK, Places
<1>5. at["worker"] \in {"extract", "extracting"}
      /\ UNCHANGED <<archives, have, problem, service, transfer>>
  BY DEF Extract
<1>6. SetSurvives' /\ Prepared("worker")'
  BY <1>1, <1>2, <1>4, <1>5 DEF SetSurvives, Prepared, Exists, service, Threads
<1>. QED
  BY <1>1, <1>2, <1>3, <1>5, <1>6, WorkKeepsInv DEF TypeOK, Points, Installing

\* The renames around the commit point.
LEMMA MovesKeepInv ==
    ASSUME PackagesInv, MoveAside \/ MoveIntoPlace \/ Restore
    PROVE  PackagesInv'
<1> USE DEF PackagesInv
<1>1. phase = "install" /\ at \in [Threads -> Points] /\ request \in Sets
  BY WorkerTurn DEF MoveAside, MoveIntoPlace, Restore, Turns, Recovering, Removing
<1>2. UNCHANGED <<archives, problem, service, transfer>>
      /\ at["worker"] \in {"aside", "place", "restore"}
  BY DEF MoveAside, MoveIntoPlace, Restore
<1>3. PICK next \in {"place", "drop old", "restore", "abandon"} :
         at' = [at EXCEPT !["worker"] = next]
  BY DEF MoveAside, MoveIntoPlace, Restore, Goto
<1>4. disk' \in [Places -> Directories] /\ have' \in Sets \cup {NoSet}
  BY <1>1, RenameTyped DEF MoveAside, MoveIntoPlace, Restore, TypeOK, Places
<1>5. SetSurvives' /\ Prepared("worker")'
  <2>1. CASE MoveAside
    BY <1>1, <1>2, <2>1, RenameTyped, AbsentTyped
    DEF MoveAside, Goto, SetSurvives, Prepared, Exists, service, Threads, Places
  <2>2. CASE MoveIntoPlace
    BY <1>1, <1>2, <2>2, RenameTyped, AbsentTyped, WholeTyped, SetsAssumption, ZenonT(60)
    DEF MoveIntoPlace, Goto, SetSurvives, Prepared, Exists, service, Threads, Places
  <2>3. CASE Restore
    BY <1>1, <1>2, <2>3, RenameTyped, AbsentTyped
    DEF Restore, Goto, SetSurvives, Prepared, Exists, service, Threads, Places
  <2>. QED
    BY <2>1, <2>2, <2>3
<1>. QED
  BY <1>1, <1>2, <1>3, <1>4, <1>5, WorkKeepsInv DEF TypeOK, Points, Installing

\* The removals after the commit, of an abandoned installation and of a set that
\* was taken away.
LEMMA DropsKeepInv ==
    ASSUME PackagesInv, Abandon \/ DropOld \/ DropRemoved
    PROVE  PackagesInv'
<1> USE DEF PackagesInv
<1>1. phase \in {"install", "remove"} /\ at \in [Threads -> Points]
      /\ at["worker"] \in {"abandon", "cancel", "drop old", "drop removed"}
  BY WorkerTurn DEF Abandon, DropOld, DropRemoved
<1>2. UNCHANGED <<have, problem, service, transfer>> /\ archives' \subseteq Sets
  BY DEF Abandon, DropOld, DropRemoved, TypeOK
<1>3. PICK place \in {"previous", "removing", "content"}, next \in {"told", "drop staging"} :
         /\ RemoveAll("worker", place, next) \/ RemoveFails("worker", place, next)
            \/ (place = "removing" /\ RemoveFails("worker", place, "told"))
         /\ place = "previous" => at["worker"] = "drop old"
  BY DEF Abandon, DropOld, DropRemoved
<1>4. /\ disk' \in [Places -> Directories]
      /\ disk'["target"] = disk["target"]
      /\ place # "previous" => disk'["previous"] = disk["previous"]
      /\ at' = at \/ at' = [at EXCEPT !["worker"] = next] \/ at' = [at EXCEPT !["worker"] = "told"]
  <2>1. place \in Places /\ next \in Points /\ "worker" \in Threads
    BY DEF Places, Points, Threads, Installing
  <2>2. CASE RemoveAll("worker", place, next)
    <3>1. /\ disk' \in [Places -> Directories]
          /\ \A p \in Places : p # place => disk'[p] = disk[p]
          /\ at' = at \/ at' = [at EXCEPT !["worker"] = next]
      BY <2>1, <2>2, RemoveAllTyped
    <3>. QED
      BY <1>3, <3>1 DEF Places
  <2>3. CASE RemoveFails("worker", place, next) \/ RemoveFails("worker", place, "told")
    BY <2>3 DEF RemoveFails, Goto, TypeOK
  <2>. QED
    BY <1>3, <2>2, <2>3
<1>5. PICK end \in {at["worker"], next, "told"} : at' = [at EXCEPT !["worker"] = end]
  BY <1>1, <1>4 DEF Threads
<1>6. SetSurvives'
  BY <1>2, <1>3, <1>4 DEF SetSurvives, Prepared, Exists, Threads
<1>7. Prepared("worker")'
  BY <1>1, <1>3, <1>4, <1>5 DEF Prepared, Exists, Threads
<1>8. end \in Points /\ (phase = "install" => end \in {"told"} \cup Recovering \cup Installing)
      /\ (phase = "remove" => end \in {"told", "drop staging"} \cup Recovering \cup Removing)
  BY <1>1, <1>3, <1>5 DEF Turns, Points, Installing
<1>. QED
  BY <1>1, <1>2, <1>4, <1>5, <1>6, <1>7, <1>8, WorkKeepsInv DEF TypeOK

LEMMA TakeAwayKeepsInv ==
    ASSUME PackagesInv, TakeAway
    PROVE  PackagesInv'
<1> USE DEF PackagesInv
<1>1. phase = "remove" /\ at \in [Threads -> Points] /\ at["worker"] = "rename"
  BY WorkerTurn DEF TakeAway, Turns, Recovering, Installing
<1>2. PICK next \in {"told", "drop removed"} : at' = [at EXCEPT !["worker"] = next]
  BY DEF TakeAway, Goto
<1>3. disk' \in [Places -> Directories] /\ have' \in Sets \cup {NoSet}
      /\ UNCHANGED <<archives, problem, service, transfer>>
  BY RenameTyped DEF TakeAway, TypeOK, Places
<1>4. SetSurvives' /\ Prepared("worker")'
  BY <1>1, <1>2, RenameTyped, AbsentTyped
  DEF TakeAway, SetSurvives, Prepared, Exists, Threads, Places
<1>. QED
  BY <1>1, <1>2, <1>3, <1>4, WorkKeepsInv DEF TypeOK, Points, Removing

\* Steps that touch no directory.
LEMMA ServiceKeepsInv ==
    ASSUME PackagesInv,
           Download \/ CheckPackages \/ CheckRecovered \/ FeedAnswer \/ InstallPackage
           \/ CancelInstall \/ TransferFinished \/ RemovePackage \/ WorkerFinished \/ Restart
    PROVE  PackagesInv'
<1> USE DEF PackagesInv
<1>1. UNCHANGED <<disk, have>>
  BY DEF Download, CheckPackages, CheckRecovered, FeedAnswer, InstallPackage, CancelInstall,
         TransferFinished, RemovePackage, WorkerFinished, Restart, files
<1>2. SetSurvives'
  BY <1>1 DEF SetSurvives, Exists
<1> USE DEF TypeOK, Turns, ShownIsInstalled, Prepared, Exists, Threads, Ready, Goto, Refresh,
            files, worker, service, transfer
<1>3. CASE Download
  <2>1. TypeOK'
    BY <1>1, <1>3 DEF Download
  <2>2. Turns' /\ ShownIsInstalled'
    BY <1>1, <1>3 DEF Download
  <2>3. \A t \in Threads : Prepared(t)'
    BY <1>1, <1>3 DEF Download
  <2>. QED
    BY <1>2, <2>1, <2>2, <2>3
<1>4. CASE CheckPackages
  BY <1>1, <1>2, <1>4 DEF CheckPackages, Points, Recovering
<1>5. CASE CheckRecovered
  BY <1>1, <1>2, <1>5 DEF CheckRecovered, Points, Recovering, Places
<1>6. CASE FeedAnswer
  <2>1. TypeOK'
    BY <1>1, <1>6 DEF FeedAnswer
  <2>2. Turns' /\ ShownIsInstalled'
    BY <1>1, <1>6 DEF FeedAnswer
  <2>3. \A t \in Threads : Prepared(t)'
    BY <1>1, <1>6 DEF FeedAnswer
  <2>. QED
    BY <1>2, <2>1, <2>2, <2>3
<1>7. CASE InstallPackage
  BY <1>1, <1>2, <1>7 DEF InstallPackage
<1>8. CASE CancelInstall
  <2>1. TypeOK'
    BY <1>1, <1>8 DEF CancelInstall
  <2>2. Turns' /\ ShownIsInstalled'
    BY <1>1, <1>8 DEF CancelInstall
  <2>3. \A t \in Threads : Prepared(t)'
    BY <1>1, <1>8 DEF CancelInstall
  <2>. QED
    BY <1>2, <2>1, <2>2, <2>3
<1>9. CASE TransferFinished
  <2>1. TypeOK'
    BY <1>1, <1>9 DEF TransferFinished, FinishInstall, Points, Installing, Places
  <2>2. Turns' /\ ShownIsInstalled'
    BY <1>1, <1>9 DEF TransferFinished, FinishInstall, Points, Installing, Places
  <2>3. \A t \in Threads : Prepared(t)'
    BY <1>1, <1>9 DEF TransferFinished, FinishInstall, Points, Installing, Places
  <2>. QED
    BY <1>2, <2>1, <2>2, <2>3
<1>10. CASE RemovePackage
  BY <1>1, <1>2, <1>10 DEF RemovePackage, Points, Recovering
<1>11. CASE WorkerFinished
  BY <1>1, <1>2, <1>11 DEF WorkerFinished, FinishInstall, FinishRemoval, Points, Places
<1>12. CASE Restart
  BY <1>1, <1>2, <1>12 DEF Restart, Points, Places
<1>. QED
  BY <1>3, <1>4, <1>5, <1>6, <1>7, <1>8, <1>9, <1>10, <1>11, <1>12

LEMMA StepKeepsPackages == PackagesInv /\ [Next]_vars => PackagesInv'
<1> SUFFICES ASSUME PackagesInv, [Next]_vars PROVE PackagesInv'
  OBVIOUS
<1>1. CASE Next
  <2>1. CASE Work
    BY <2>1, RecoverKeepsInv, BeforeContent, ExtractKeepsInv, MovesKeepInv, DropsKeepInv,
       TakeAwayKeepsInv DEF Work, Threads
  <2>2. CASE Recover("gui")
    BY <2>2, RecoverKeepsInv DEF Threads
  <2>. QED
    BY <1>1, <2>1, <2>2, ServiceKeepsInv DEF Next
<1>2. CASE UNCHANGED vars
  <2>1. TypeOK'
    <3>1. /\ disk' \in [Places -> Directories] /\ archives' \subseteq Sets
          /\ have' \in Sets \cup {NoSet} /\ at' \in [Threads -> Points]
          /\ phase' \in {"idle", "download", "install", "remove"}
          /\ request' \in Sets \cup {NoSet} /\ offer' \in Sets \cup {NoSet}
          /\ shown' \in Directories
      BY <1>2 DEF vars, PackagesInv, TypeOK
    <3>2. /\ problem' \in BOOLEAN /\ checking' \in BOOLEAN /\ stop' \in BOOLEAN
          /\ quit' \in BOOLEAN
          /\ download' \in {"idle", "running", "clean", "failed", "told ok", "told failed", "told canceled"}
      BY <1>2 DEF vars, PackagesInv, TypeOK
    <3>. QED
      BY <3>1, <3>2 DEF TypeOK
  <2>4. Turns'
    BY <1>2 DEF vars, PackagesInv, Turns
  <2>2. SetSurvives' /\ ShownIsInstalled'
    BY <1>2 DEF vars, PackagesInv, SetSurvives, ShownIsInstalled, Exists, Ready
  <2>3. \A t \in Threads : Prepared(t)'
    BY <1>2 DEF vars, PackagesInv, Prepared, Exists
  <2>. QED
    BY <2>1, <2>2, <2>3, <2>4 DEF PackagesInv
<1>. QED
  BY <1>1, <1>2

THEOREM PackagesInvariant == Spec => []PackagesInv
  BY InitPackages, StepKeepsPackages, PTL DEF Spec

\* Every variable holds a value of its kind in every reachable state: the
\* directories hold sets of the feeds and every thread stands at a file operation.
THEOREM PackagesKeepTypes == Spec => []TypeOK
  BY PackagesInvariant, PTL DEF PackagesInv

\* The installed set survives restarts and failing file operations at every point
\* of an installation, a removal and a recovery, and nothing else comes back in its
\* place (ai_model_package_install.cpp:354-519).
THEOREM InstalledSetSurvives == Spec => []SetSurvives
  BY PackagesInvariant, PTL DEF PackagesInv

\* Between actions what the service shows is what is on disk, whichever way the
\* last action ended (ai_model_package_service.cpp:350-358, 588-608, 657-665).
THEOREM ShownSetIsInstalled == Spec => []ShownIsInstalled
  BY PackagesInvariant, PTL DEF PackagesInv
=============================================================================
