--------------------------- MODULE DurableHistory ---------------------------
(***************************************************************************)
(* What the editor promises about an image's history: one durable view     *)
(* (a Version and its head).  Commands change what is on the screen and    *)
(* what is durable together.  Saving, closing, a crash and opening again   *)
(* never change the durable view, and opening shows it.  Closing with      *)
(* discard goes back to the view that was saved last, and to no other.     *)
(***************************************************************************)
CONSTANTS Views, InitialView

VARIABLES
    saved,      \* the view the project database holds
    durable,    \* the view the files hold
    screen      \* the view on the screen, as a singleton, or {} when closed

view == <<saved, durable, screen>>

Init == saved = InitialView /\ durable = InitialView /\ screen = {}

\* Recovery may save what it opens.
Open == /\ screen = {} /\ screen' = {durable}
        /\ saved' \in {saved, durable}
        /\ UNCHANGED durable

Save == UNCHANGED <<screen, durable>> /\ saved' = durable

\* Commands that change the Version are saved at once.
Command(v) == /\ screen # {} /\ screen' = {v}
              /\ saved' \in {saved, v} /\ durable' = v

\* Closing the image, and the end of the process.
Leave == screen # {} /\ screen' = {} /\ UNCHANGED <<saved, durable>>

\* Closing with discard gives up the unsaved commands.
LeaveDiscarding == screen # {} /\ screen' = {} /\ durable' = saved /\ UNCHANGED saved

Next == Open \/ Leave \/ LeaveDiscarding \/ (\E v \in Views : Command(v)) \/ Save

Spec == Init /\ [][Next]_view
=============================================================================
