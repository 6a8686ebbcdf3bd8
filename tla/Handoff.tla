------------------------------ MODULE Handoff ------------------------------
(***************************************************************************)
(* What one synchronous callback of the native app glue promises, for a    *)
(* single thing (the window, the input queue or the activity state) that   *)
(* the main thread owns and the app thread uses: the app changes over only *)
(* while a call is in progress, to nothing or to what was offered, and the *)
(* call ends only once it has.                                             *)
(***************************************************************************)
CONSTANTS Things, None

VARIABLES offered,  \* what the main thread last announced
          held,     \* what the app thread uses
          phase     \* "calling" while the announcing call is in progress

vars == <<offered, held, phase>>

Init == offered = None /\ held = None /\ phase = "quiet"

Begin(x) ==
  /\ phase = "quiet" /\ phase' = "calling"
  /\ offered' = x
  /\ UNCHANGED held

Take == phase = "calling" /\ held' = offered /\ UNCHANGED <<offered, phase>>

LetGo == phase = "calling" /\ held' = None /\ UNCHANGED <<offered, phase>>

End ==
  /\ phase = "calling" /\ phase' = "quiet"
  /\ held = offered
  /\ UNCHANGED <<offered, held>>

\* A new activity instance starts with nothing.
Restart ==
  /\ phase = "quiet"
  /\ offered' = None /\ held' = None
  /\ UNCHANGED phase

Next ==
  \/ \E x \in Things \cup {None} : Begin(x)
  \/ Take \/ LetGo \/ End \/ Restart

Spec == Init /\ [][Next]_vars
=============================================================================
