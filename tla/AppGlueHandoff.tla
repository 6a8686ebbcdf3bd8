--------------------------- MODULE AppGlueHandoff ---------------------------
(***************************************************************************)
(* AppGlue implements Handoff three times: for the window, the input queue *)
(* and the activity state.  A thing is offered from the moment the         *)
(* framework makes the call, before the pending field is written.          *)
(***************************************************************************)
EXTENDS AppGlueInv

Window == INSTANCE Handoff WITH
  Things <- Windows, None <- NULL,
  offered <- IF cb = "set_window" THEN arg ELSE pendingWindow,
  held <- window,
  phase <- IF cb = "set_window" THEN "calling" ELSE "quiet"

Input == INSTANCE Handoff WITH
  Things <- InputQueues, None <- NULL,
  offered <- IF cb = "set_input" THEN arg ELSE pendingInputQueue,
  held <- inputQueue,
  phase <- IF cb = "set_input" THEN "calling" ELSE "quiet"

Activity == INSTANCE Handoff WITH
  Things <- ActivityCmds, None <- "none",
  offered <- requested,
  held <- activityState,
  phase <- IF cb = "set_activity_state" THEN "calling" ELSE "quiet"

\* Window callbacks are a handoff: the app's window changes only during
\* android_app_set_window, to NULL or to the new window, and the callback
\* returns only when it has changed.
WindowHandoff == Window!Spec

\* The same for android_app_set_input and the input queue.
InputHandoff == Input!Spec

\* The same for android_app_set_activity_state and the activity state.
ActivityHandoff == Activity!Spec

\* AppGlue implements all three: a callback never returns before the app thread
\* has taken over what it announced, and nothing changes hands in between.
Handoffs == WindowHandoff /\ InputHandoff /\ ActivityHandoff
=============================================================================
