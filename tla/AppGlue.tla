------------------------------ MODULE AppGlue ------------------------------
(***************************************************************************)
(* The threaded native-activity glue of                                    *)
(* sources/android/native_app_glue/android_native_app_glue.c.              *)
(*                                                                         *)
(* Two threads share one struct android_app.  The main thread runs the     *)
(* activity callbacks: each takes the mutex, leaves a command in a pipe    *)
(* and waits on the condition variable until the app thread has applied    *)
(* it.  The app thread polls the pipe and runs read / pre_exec / onAppCmd  *)
(* / post_exec for every command.                                          *)
(*                                                                         *)
(* A critical section of the app thread contains no blocking call, so it   *)
(* is one step guarded by a free mutex.  The main thread may block in      *)
(* write() while it holds the mutex, so its sections are several steps.    *)
(***************************************************************************)
EXTENDS Naturals, Sequences, FiniteSets

CONSTANTS Windows,      \* ANativeWindow objects
          InputQueues,  \* AInputQueue objects
          Configs,      \* device configurations
          Blocks,       \* heap blocks for saved state
          NULL,
          PipeCap,      \* capacity of the command pipe, in commands
          Backlog,      \* commands in the pipe above which the framework
                        \* has no further asynchronous event to report
          IOMayFail,    \* may pipe(), pthread_create() and write() fail?
          ExitEarly     \* may android_main return before it is asked to?

ASSUME GlueAssumption ==
  /\ NULL \notin Windows \cup InputQueues \cup Blocks
  /\ Configs # {}
  /\ PipeCap \in Nat \ {0}
  /\ Backlog \in Nat
  /\ IOMayFail \in BOOLEAN
  /\ ExitEarly \in BOOLEAN

AsyncCmds == {"CONFIG_CHANGED", "LOW_MEMORY", "GAINED_FOCUS", "LOST_FOCUS"}
ActivityCmds == {"START", "RESUME", "PAUSE", "STOP"}
WindowCmds == {"INIT_WINDOW", "TERM_WINDOW"}
Cmds == AsyncCmds \cup ActivityCmds \cup WindowCmds
          \cup {"INPUT_CHANGED", "SAVE_STATE", "DESTROY"}

VARIABLES
  \* The main thread: where it is, the callback it runs and its argument.
  mpc, cb, arg,
  \* The app thread: where it is and the command it processes.
  apc, cmd,
  \* The fields of struct android_app, and whether it is allocated.
  alive, mutex, pipe, window, pendingWindow, inputQueue, pendingInputQueue,
  activityState, stateSaved, savedState, config, running, destroyRequested,
  destroyed,
  \* The framework: the activity state it last requested, the device
  \* configuration, and the saved-state block it was handed and must free.
  requested, device, given,
  \* The allocated saved-state blocks, and the block the application
  \* produced for the save request in progress.
  heap, made

mainVars == <<mpc, cb, arg>>
appVars == <<apc, cmd>>
winVars == <<window, pendingWindow>>
inVars == <<inputQueue, pendingInputQueue>>
saveVars == <<stateSaved, savedState, given, heap, made>>
actVars == <<activityState, requested>>
confVars == <<config, device>>
endVars == <<alive, running, destroyRequested, destroyed>>
vars == <<mainVars, appVars, mutex, pipe, winVars, inVars, saveVars, actVars,
          confVars, endVars>>

-----------------------------------------------------------------------------
(* Shared primitives.                                                      *)

\* (Mutant) a forgotten broadcast.
BroadcastLost == UNCHANGED mpc

\* pthread_cond_broadcast: only the main thread ever waits on cond.
Broadcast == mpc' = IF mpc = "blocked" THEN "woken" ELSE mpc

\* (Mutants) a command is dropped when the app thread read the same one last;
\* a retried write leaves the command twice.
WriteCmdCoalesced(c) ==
  Len(pipe) < PipeCap /\ pipe' = IF cmd = c THEN pipe ELSE Append(pipe, c)
WriteCmdTwice(c) == Len(pipe) < PipeCap /\ pipe' = pipe \o <<c, c>>

\* android_app_write_cmd: blocks while the pipe is full; a failed write is
\* only logged, so the command is lost.
WriteCmd(c) ==
  \/ /\ Len(pipe) < PipeCap
     /\ pipe' = Append(pipe, c)
  \/ /\ IOMayFail
     /\ pipe' = pipe

\* (Mutant) the freed pointer is left behind.
FreeSavedStateDangling == heap' = heap \ {savedState} /\ UNCHANGED savedState

\* What free_saved_state does once it holds the mutex.
FreeSavedState ==
  /\ heap' = heap \ {savedState}
  /\ savedState' = NULL

-----------------------------------------------------------------------------
(* Main thread: creation and destruction of the activity.                  *)

Init ==
  /\ mpc = "none" /\ cb = "none" /\ arg = NULL
  /\ apc = "dead" /\ cmd = "none"
  /\ alive = FALSE /\ mutex = "free" /\ pipe = <<>>
  /\ window = NULL /\ pendingWindow = NULL
  /\ inputQueue = NULL /\ pendingInputQueue = NULL
  /\ activityState = "none" /\ requested = "none"
  /\ stateSaved = FALSE /\ savedState = NULL
  /\ config \in Configs /\ device = config
  /\ running = FALSE /\ destroyRequested = FALSE /\ destroyed = FALSE
  /\ given = NULL /\ heap = {} /\ made = NULL

\* ANativeActivity_onCreate / android_app_create: a zeroed struct, a copy of
\* the saved state the framework kept (if any), the pipe and the detached
\* thread; then the main thread waits for running.  If pipe() fails the
\* instance is NULL and the next callback dereferences it: "broken".  The
\* result of pthread_create is ignored.
AndroidAppCreate ==
  /\ mpc = "none"
  /\ alive' = TRUE /\ mutex' = "free" /\ pipe' = <<>>
  /\ window' = NULL /\ pendingWindow' = NULL
  /\ inputQueue' = NULL /\ pendingInputQueue' = NULL
  /\ activityState' = "none" /\ requested' = "none"
  /\ stateSaved' = FALSE
  /\ running' = FALSE /\ destroyRequested' = FALSE /\ destroyed' = FALSE
  /\ \/ savedState' = NULL /\ UNCHANGED heap
     \/ \E b \in Blocks \ heap :
          savedState' = b /\ heap' = heap \cup {b}
  /\ \/ mpc' = "lock" /\ cb' = "create" /\ apc' = "entry"
     \/ IOMayFail /\ mpc' = "lock" /\ cb' = "create" /\ apc' = "dead"
     \/ IOMayFail /\ mpc' = "broken" /\ cb' = "none" /\ apc' = "dead"
  /\ UNCHANGED <<arg, cmd, confVars, given, made>>

\* android_app_free after its unlock: close, destroy, free.
AndroidAppRelease ==
  /\ mpc = "release"
  /\ mpc' = "none"
  /\ alive' = FALSE
  /\ UNCHANGED <<cb, arg, appVars, mutex, pipe, winVars, inVars, saveVars,
                 actVars, confVars, running, destroyRequested, destroyed>>

-----------------------------------------------------------------------------
(* Main thread: the callbacks.  Android delivers them one at a time.       *)

\* The framework may deliver a callback: the previous one has returned and
\* the block it was handed is freed.
Deliverable == mpc = "idle" /\ given = NULL

Call(c, a) ==
  /\ Deliverable
  /\ mpc' = "lock" /\ cb' = c /\ arg' = a
  /\ UNCHANGED <<appVars, mutex, pipe, winVars, inVars, saveVars,
                 activityState, confVars, endVars>>

\* The lifecycle order of an activity.
NextActivity(s) ==
  CASE s = "none"   -> {"START"}
    [] s = "START"  -> {"RESUME", "STOP"}
    [] s = "RESUME" -> {"PAUSE"}
    [] s = "PAUSE"  -> {"RESUME", "STOP"}
    [] s = "STOP"   -> {"START"}

\* onNativeWindowCreated(w), and onNativeWindowDestroyed for NULL.
OnNativeWindow(w) ==
  w # pendingWindow /\ Call("set_window", w) /\ UNCHANGED requested

\* onInputQueueCreated(q), and onInputQueueDestroyed for NULL.
OnInputQueue(q) ==
  q # pendingInputQueue /\ Call("set_input", q) /\ UNCHANGED requested

\* onStart, onResume, onPause, onStop.
OnActivity(s) ==
  /\ s \in NextActivity(requested)
  /\ requested' = s
  /\ Call("set_activity_state", s)

OnSaveInstanceState == Call("save", NULL) /\ UNCHANGED requested
OnDestroy == Call("free", NULL) /\ UNCHANGED requested

\* onConfigurationChanged, onLowMemory, onWindowFocusChanged: write without
\* the mutex and without waiting.
OnAsync(c, d) ==
  /\ Deliverable
  /\ Len(pipe) < Backlog
  /\ c # "CONFIG_CHANGED" => d = device
  /\ device' = d
  /\ mpc' = "async" /\ arg' = c
  /\ UNCHANGED <<cb, appVars, mutex, pipe, winVars, inVars, saveVars,
                 actVars, config, endVars>>

AsyncWrite ==
  /\ mpc = "async"
  /\ WriteCmd(arg)
  /\ mpc' = "idle" /\ arg' = NULL
  /\ UNCHANGED <<cb, appVars, mutex, winVars, inVars, saveVars, actVars,
                 confVars, endVars>>

\* The framework copies the block it got and frees it.
FrameworkFree ==
  /\ given # NULL
  /\ given' = NULL /\ heap' = heap \ {given}
  /\ UNCHANGED <<mainVars, appVars, mutex, pipe, winVars, inVars, stateSaved,
                 savedState, made, actVars, confVars, endVars>>

-----------------------------------------------------------------------------
(* Main thread: the locked sections of the callbacks.                      *)

Lock(next) ==
  /\ mpc = "lock" /\ mutex = "free"
  /\ mutex' = "main" /\ mpc' = next
  /\ UNCHANGED <<cb, arg>>

Write(c, at, next) ==
  /\ mpc = at
  /\ WriteCmd(c)
  /\ mpc' = next
  /\ UNCHANGED <<cb, arg, mutex>>

\* (Mutant) the wait is skipped.
WaitForNothing(done, next) ==
  mpc = "check" /\ mutex' = "free" /\ mpc' = next /\ cb' = "none" /\ arg' = NULL

\* One evaluation of while (!done) pthread_cond_wait(...), and the unlock
\* after the loop.
WaitFor(done, next) ==
  /\ mpc = "check"
  /\ mutex' = "free"
  /\ IF done THEN mpc' = next /\ cb' = "none" /\ arg' = NULL
             ELSE mpc' = "blocked" /\ UNCHANGED <<cb, arg>>

\* pthread_cond_wait takes the mutex again before it returns.
Reacquire ==
  /\ mpc = "woken" /\ mutex = "free"
  /\ mutex' = "main" /\ mpc' = "check"
  /\ UNCHANGED <<cb, arg, appVars, pipe, winVars, inVars, saveVars, actVars,
                 confVars, endVars>>

\* pthread_cond_wait may return without a broadcast.
SpuriousWakeup ==
  /\ mpc = "blocked"
  /\ mpc' = "woken"
  /\ UNCHANGED <<cb, arg, appVars, mutex, pipe, winVars, inVars, saveVars,
                 actVars, confVars, endVars>>

AwaitRunning ==
  /\ cb = "create"
  /\ Lock("check") \/ WaitFor(running, "idle")
  /\ UNCHANGED <<appVars, pipe, winVars, inVars, saveVars, actVars,
                 confVars, endVars>>

SetInput ==
  /\ cb = "set_input"
  /\ \/ Lock("write") /\ pendingInputQueue' = arg /\ UNCHANGED pipe
     \/ Write("INPUT_CHANGED", "write", "check") /\ UNCHANGED pendingInputQueue
     \/ /\ WaitFor(inputQueue = pendingInputQueue, "idle")
        /\ UNCHANGED <<pipe, pendingInputQueue>>
  /\ UNCHANGED <<appVars, winVars, inputQueue, saveVars, actVars,
                 confVars, endVars>>

\* TERM_WINDOW is written before pendingWindow is replaced, INIT_WINDOW
\* after it.
AfterTerm == IF arg = NULL THEN "check" ELSE "init"

SetWindow ==
  /\ cb = "set_window"
  /\ \/ /\ pendingWindow # NULL
        /\ Lock("term") /\ UNCHANGED <<pipe, pendingWindow>>
     \/ /\ pendingWindow = NULL
        /\ Lock(AfterTerm) /\ pendingWindow' = arg /\ UNCHANGED pipe
     \/ Write("TERM_WINDOW", "term", AfterTerm) /\ pendingWindow' = arg
     \/ Write("INIT_WINDOW", "init", "check") /\ UNCHANGED pendingWindow
     \/ /\ WaitFor(window = pendingWindow, "idle")
        /\ UNCHANGED <<pipe, pendingWindow>>
  /\ UNCHANGED <<appVars, window, inVars, saveVars, actVars,
                 confVars, endVars>>

SetActivityState ==
  /\ cb = "set_activity_state"
  /\ \/ Lock("write") /\ UNCHANGED pipe
     \/ Write(arg, "write", "check")
     \/ WaitFor(activityState = arg, "idle") /\ UNCHANGED pipe
  /\ UNCHANGED <<appVars, winVars, inVars, saveVars, actVars,
                 confVars, endVars>>

AppFree ==
  /\ cb = "free"
  /\ \/ Lock("write") /\ UNCHANGED pipe
     \/ Write("DESTROY", "write", "check")
     \/ WaitFor(destroyed, "release") /\ UNCHANGED pipe
  /\ UNCHANGED <<appVars, winVars, inVars, saveVars, actVars,
                 confVars, endVars>>

\* (Mutant) stateSaved keeps the answer to the previous request.
KeepStateSaved == UNCHANGED stateSaved /\ made' = NULL

\* The request starts unanswered.
ClearStateSaved == stateSaved' = FALSE /\ made' = NULL

\* onSaveInstanceState: clear stateSaved, ask, wait, and take the block.
SaveInstanceState ==
  /\ cb = "save"
  /\ \/ /\ Lock("write")
        /\ ClearStateSaved
        /\ UNCHANGED <<pipe, savedState, given>>
     \/ /\ Write("SAVE_STATE", "write", "check")
        /\ UNCHANGED <<stateSaved, savedState, given, made>>
     \/ /\ WaitFor(stateSaved, "idle")
        /\ IF stateSaved
           THEN given' = savedState /\ savedState' = NULL /\ made' = NULL
           ELSE UNCHANGED <<given, savedState, made>>
        /\ UNCHANGED <<pipe, stateSaved>>
  /\ UNCHANGED <<appVars, winVars, inVars, heap, actVars, confVars,
                 endVars>>

-----------------------------------------------------------------------------
(* App thread.                                                             *)

AppAt(at, next) == apc = at /\ apc' = next

\* android_app_entry up to android_main.
Entry ==
  /\ AppAt("entry", "poll")
  /\ mutex = "free"
  /\ config' = device
  /\ running' = TRUE
  /\ Broadcast
  /\ UNCHANGED <<cb, arg, cmd, mutex, pipe, winVars, inVars, saveVars,
                 actVars, device, alive, destroyRequested, destroyed>>

\* android_app_read_cmd: the looper reports the pipe readable.
ReadCmd ==
  /\ apc = "poll" /\ ~destroyRequested
  /\ pipe # <<>>
  /\ cmd' = Head(pipe) /\ pipe' = Tail(pipe)
  /\ apc' = IF Head(pipe) = "SAVE_STATE" THEN "free" ELSE "pre"
  /\ UNCHANGED <<mainVars, mutex, winVars, inVars, saveVars, actVars,
                 confVars, endVars>>

\* The free_saved_state call of android_app_read_cmd.
ReadCmdFree ==
  /\ AppAt("free", "pre")
  /\ mutex = "free"
  /\ FreeSavedState
  /\ UNCHANGED <<mainVars, cmd, mutex, pipe, winVars, inVars, stateSaved,
                 given, made, actVars, confVars, endVars>>

\* android_app_pre_exec_cmd.
PreExecCmd ==
  /\ AppAt("pre", "handler")
  /\ cmd \in ActivityCmds \cup {"INPUT_CHANGED", "INIT_WINDOW"}
       => mutex = "free"
  /\ inputQueue' = IF cmd = "INPUT_CHANGED" THEN pendingInputQueue
                                            ELSE inputQueue
  /\ window' = IF cmd = "INIT_WINDOW" THEN pendingWindow ELSE window
  /\ activityState' = IF cmd \in ActivityCmds THEN cmd ELSE activityState
  /\ config' = IF cmd = "CONFIG_CHANGED" THEN device ELSE config
  /\ destroyRequested' = (destroyRequested \/ cmd = "DESTROY")
  /\ IF cmd \in ActivityCmds \cup WindowCmds \cup {"INPUT_CHANGED"}
     THEN Broadcast ELSE UNCHANGED mpc
  /\ UNCHANGED <<cb, arg, cmd, mutex, pipe, pendingWindow, pendingInputQueue,
                 saveVars, requested, device, alive, running, destroyed>>

\* onAppCmd, the application's handler: on SAVE_STATE it may allocate a
\* block and leave it in savedState, without the mutex.
OnAppCmd ==
  /\ AppAt("handler", "post")
  /\ \/ UNCHANGED <<savedState, heap, made>>
     \/ /\ cmd = "SAVE_STATE"
        /\ \E b \in Blocks \ heap :
             savedState' = b /\ made' = b /\ heap' = heap \cup {b}
  /\ UNCHANGED <<mainVars, cmd, mutex, pipe, winVars, inVars, stateSaved,
                 given, actVars, confVars, endVars>>

\* android_app_post_exec_cmd.
PostExecCmd ==
  /\ AppAt("post", "poll")
  /\ cmd' = "none"
  /\ cmd \in {"TERM_WINDOW", "SAVE_STATE", "RESUME"} => mutex = "free"
  /\ window' = IF cmd = "TERM_WINDOW" THEN NULL ELSE window
  /\ stateSaved' = (stateSaved \/ cmd = "SAVE_STATE")
  /\ IF cmd = "RESUME" THEN FreeSavedState ELSE UNCHANGED <<savedState, heap>>
  /\ IF cmd \in {"TERM_WINDOW", "SAVE_STATE"} THEN Broadcast
                                              ELSE UNCHANGED mpc
  /\ UNCHANGED <<cb, arg, mutex, pipe, pendingWindow, inVars, given, made,
                 actVars, confVars, endVars>>

\* process_input drains the attached queue: events are fetched from and
\* finished on app->inputQueue.
ProcessInput ==
  /\ \/ AppAt("poll", "input") /\ ~destroyRequested /\ inputQueue # NULL
     \/ AppAt("input", "poll")
  /\ UNCHANGED <<mainVars, cmd, mutex, pipe, winVars, inVars, saveVars,
                 actVars, confVars, endVars>>

\* android_main returns: asked to, or (ExitEarly) on its own.
MainReturns ==
  /\ AppAt("poll", "destroy")
  /\ destroyRequested \/ ExitEarly
  /\ UNCHANGED <<mainVars, cmd, mutex, pipe, winVars, inVars, saveVars,
                 actVars, confVars, endVars>>

\* android_app_destroy: free_saved_state, then the section that announces
\* destroyed; the unlock is its last access to the struct.
AppDestroy ==
  \/ /\ AppAt("destroy", "announce")
     /\ mutex = "free"
     /\ FreeSavedState
     /\ UNCHANGED <<mainVars, mutex, destroyed>>
  \/ /\ AppAt("announce", "unlock")
     /\ mutex = "free" /\ mutex' = "app"
     /\ destroyed' = TRUE
     /\ Broadcast
     /\ UNCHANGED <<cb, arg, savedState, heap>>
  \/ /\ AppAt("unlock", "dead")
     /\ mutex' = "free"
     /\ UNCHANGED <<mainVars, savedState, heap, destroyed>>

AndroidAppDestroy ==
  /\ AppDestroy
  /\ UNCHANGED <<cmd, pipe, winVars, inVars, stateSaved, given, made, actVars,
                 confVars, alive, running, destroyRequested>>

-----------------------------------------------------------------------------
MainCalls ==
  \/ AndroidAppCreate
  \/ \E w \in Windows \cup {NULL} : OnNativeWindow(w)
  \/ \E q \in InputQueues \cup {NULL} : OnInputQueue(q)
  \/ \E s \in ActivityCmds : OnActivity(s)
  \/ OnSaveInstanceState
  \/ OnDestroy
  \/ \E c \in AsyncCmds, d \in Configs : OnAsync(c, d)

MainStep ==
  \/ AsyncWrite \/ FrameworkFree \/ Reacquire
  \/ AwaitRunning \/ SetInput \/ SetWindow \/ SetActivityState
  \/ SaveInstanceState \/ AppFree \/ AndroidAppRelease

\* The steps the app thread takes on its way back to the looper.
AppStep ==
  \/ Entry \/ ReadCmdFree \/ PreExecCmd \/ OnAppCmd \/ PostExecCmd
  \/ AndroidAppDestroy
  \/ apc = "input" /\ ProcessInput
  \/ destroyRequested /\ MainReturns

Next ==
  MainCalls \/ MainStep \/ SpuriousWakeup
  \/ AppStep \/ ReadCmd \/ ProcessInput \/ MainReturns

Spec == Init /\ [][Next]_vars

\* Both threads are scheduled; the app thread is not starved of the mutex
\* by endless spurious wakeups, and its looper reports a readable pipe even
\* when the input queue always has events.
Fairness == WF_vars(MainStep) /\ SF_vars(AppStep) /\ SF_vars(ReadCmd)
FairSpec == Spec /\ Fairness

-----------------------------------------------------------------------------
(* Properties.                                                             *)

MainPcs == {"none", "broken", "lock", "write", "term", "init", "check",
            "blocked", "woken", "idle", "async", "release"}
AppPcs == {"dead", "entry", "poll", "free", "pre", "handler", "post",
           "input", "destroy", "announce", "unlock"}
Callbacks == {"none", "create", "set_window", "set_input",
              "set_activity_state", "save", "free"}

\* Every variable has its type; the pipe never exceeds its capacity.
TypeOK ==
  /\ mpc \in MainPcs /\ cb \in Callbacks
  /\ arg \in Windows \cup InputQueues \cup ActivityCmds \cup AsyncCmds
               \cup {NULL}
  /\ apc \in AppPcs /\ cmd \in Cmds \cup {"none"}
  /\ mutex \in {"free", "main", "app"}
  /\ pipe \in Seq(Cmds) /\ Len(pipe) <= PipeCap
  /\ window \in Windows \cup {NULL} /\ pendingWindow \in Windows \cup {NULL}
  /\ inputQueue \in InputQueues \cup {NULL}
  /\ pendingInputQueue \in InputQueues \cup {NULL}
  /\ activityState \in ActivityCmds \cup {"none"}
  /\ requested \in ActivityCmds \cup {"none"}
  /\ stateSaved \in BOOLEAN
  /\ heap \in SUBSET Blocks
  /\ savedState \in Blocks \cup {NULL} /\ given \in Blocks \cup {NULL}
  /\ made \in Blocks \cup {NULL}
  /\ config \in Configs /\ device \in Configs
  /\ alive \in BOOLEAN /\ running \in BOOLEAN
  /\ destroyRequested \in BOOLEAN /\ destroyed \in BOOLEAN

\* When a callback has returned, the app thread has taken over what the
\* callback announced: the app never keeps a window or an input queue whose
\* destroyed-callback is over, nor an old activity state.
HandedOver ==
  mpc \in {"idle", "async"} =>
    /\ window = pendingWindow
    /\ inputQueue = pendingInputQueue
    /\ activityState = requested

\* The application's handler finds a window when it is told to start or to
\* stop using one (the contract of APP_CMD_INIT_WINDOW and
\* APP_CMD_TERM_WINDOW in android_native_app_glue.h).
HandlerSeesWindow ==
  apc = "handler" /\ cmd \in WindowCmds => window # NULL

\* A saved-state block is owned once: by android_app.savedState until it is
\* freed or handed to the framework, which then frees it.  No block leaks,
\* none is freed twice.
SavedStateOwned ==
  /\ heap = {savedState, given} \ {NULL}
  /\ savedState = given => savedState = NULL

\* onSaveInstanceState returns what the application saved for this very
\* request, not the answer to an earlier one and not the state the activity
\* was created with.  (If android_main returns between its answer and the
\* callback's wakeup, android_app_destroy has freed the answer.)
SavedStateFresh ==
  cb = "save" /\ mpc = "check" /\ stateSaved
    => savedState = made \/ (ExitEarly /\ savedState = NULL)

\* android_app_free releases the struct only after the app thread's last
\* access to it ("Can't touch android_app object after this").
NoUseAfterFree ==
  apc # "dead" \/ mpc \notin {"none", "broken"} => alive

\* A configuration change is never lost (unless a write is): until the app
\* thread has reloaded config, a CONFIG_CHANGED is on its way.
ConfigFollowsDevice ==
  ~IOMayFail /\ alive /\ running /\ config # device =>
    \/ mpc = "async" /\ arg = "CONFIG_CHANGED"
    \/ \E i \in DOMAIN pipe : pipe[i] = "CONFIG_CHANGED"
    \/ apc = "pre" /\ cmd = "CONFIG_CHANGED"

\* write() never blocks the main thread, which mostly holds the mutex there,
\* if asynchronous events leave room in the pipe for the two commands of
\* android_app_set_window.
WriteNeverBlocks ==
  Backlog + 2 <= PipeCap /\ mpc \in {"write", "term", "init", "async"}
    => Len(pipe) < PipeCap

\* Every callback returns: a main thread that waits for the app thread is
\* always released (the native activity callbacks "should not block").
CallbackReturns ==
  (mpc \in MainPcs \ {"none", "idle"}) ~> (mpc \in {"none", "idle"})
=============================================================================
