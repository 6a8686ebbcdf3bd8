----------------------------- MODULE AppGlueInv -----------------------------
(***************************************************************************)
(* The inductive invariant of AppGlue, by topic.  The argument: the main   *)
(* thread runs one callback at a time and writes nothing while it waits,   *)
(* so the command it waits for is the last one in the pipe; hence, when    *)
(* the awaited condition holds, the pipe is empty and nothing the callback *)
(* asked for is still on its way.                                          *)
(***************************************************************************)
EXTENDS AppGlue

Waiting == mpc \in {"check", "blocked", "woken"}
Processing(c) == cmd = c /\ apc \in {"free", "pre", "handler", "post"}
Queued(c) == \E i \in DOMAIN pipe : pipe[i] = c

\* A queued command c is the last one in the pipe.
OnlyLast(c) == \A i \in DOMAIN pipe : pipe[i] = c => i = Len(pipe)

\* c is on its way: queued, or read but not yet applied by pre_exec_cmd.
Unapplied(c) == Queued(c) \/ (apc = "pre" /\ cmd = c)

\* c is on its way: queued, or read but not yet through post_exec_cmd.
Unfinished(c) == Queued(c) \/ Processing(c)

\* The argument of a callback has the type of its parameter.
ArgInv ==
  /\ cb = "set_window" => arg \in Windows \cup {NULL}
  /\ cb = "set_input" => arg \in InputQueues \cup {NULL}
  /\ cb = "set_activity_state" => arg \in ActivityCmds /\ arg = requested
  /\ mpc = "async" => arg \in AsyncCmds

\* Which callback runs at which program point, and who holds the mutex.
PcInv ==
  /\ mpc \in {"none", "broken", "idle", "async", "release"} <=> cb = "none"
  /\ mpc = "write" => cb \in {"set_input", "set_activity_state", "save", "free"}
  /\ mpc \in {"term", "init"} => cb = "set_window"
  /\ mutex = "main" <=> mpc \in {"write", "term", "init", "check"}
  /\ mutex = "app" <=> apc = "unlock"
  /\ cmd \in Cmds <=> apc \in {"free", "pre", "handler", "post"}
  /\ apc = "free" => cmd = "SAVE_STATE"

\* The window handshake.
WindowMoving == cb = "set_window" /\ (Waiting \/ mpc = "init")
WindowInv ==
  /\ ~WindowMoving => window = pendingWindow
  /\ WindowMoving => pendingWindow = arg
  /\ cb = "set_window" /\ mpc \in {"lock", "term"} => pendingWindow # arg
  /\ mpc = "term" => pendingWindow # NULL
  /\ mpc = "init" => arg # NULL /\ window # pendingWindow
  /\ Unapplied("INIT_WINDOW") =>
       /\ WindowMoving /\ mpc # "init"
       /\ pendingWindow # NULL /\ window # pendingWindow
  /\ Unfinished("TERM_WINDOW") =>
       WindowMoving /\ window # NULL /\ window # pendingWindow
  /\ apc = "handler" /\ cmd = "INIT_WINDOW" => window # NULL
  /\ OnlyLast("INIT_WINDOW")
  /\ apc = "pre" /\ cmd = "INIT_WINDOW" => pipe = <<>>
  /\ \A i, j \in DOMAIN pipe :
       pipe[i] = "TERM_WINDOW" /\ i < j => pipe[j] = "INIT_WINDOW"
  /\ Processing("TERM_WINDOW") =>
       \A i \in DOMAIN pipe : pipe[i] = "INIT_WINDOW"
  /\ WindowMoving /\ window = pendingWindow => pipe = <<>>

\* The input-queue handshake.
InputMoving == cb = "set_input" /\ (Waiting \/ mpc = "write")
InputInv ==
  /\ ~InputMoving => inputQueue = pendingInputQueue
  /\ InputMoving => pendingInputQueue = arg
  /\ cb = "set_input" /\ mpc = "lock" => pendingInputQueue # arg
  /\ cb = "set_input" /\ mpc = "write" => inputQueue # pendingInputQueue
  /\ Unapplied("INPUT_CHANGED") =>
       cb = "set_input" /\ Waiting /\ inputQueue # pendingInputQueue
  /\ OnlyLast("INPUT_CHANGED")
  /\ apc = "pre" /\ cmd = "INPUT_CHANGED" => pipe = <<>>
  /\ cb = "set_input" /\ Waiting /\ inputQueue = pendingInputQueue
       => pipe = <<>>

\* The activity-state handshake.
ActivityInv ==
  /\ cb # "set_activity_state" => activityState = requested
  /\ cb = "set_activity_state" /\ ~Waiting => activityState # requested
  /\ \A s \in ActivityCmds :
       /\ Unapplied(s) => /\ cb = "set_activity_state" /\ Waiting
                          /\ s = requested /\ activityState # requested
       /\ OnlyLast(s)
  /\ apc = "pre" /\ cmd \in ActivityCmds => pipe = <<>>
  /\ cb = "set_activity_state" /\ Waiting /\ activityState = requested
       => pipe = <<>>

\* The saved-state handshake and the ownership of its blocks.
SaveInv ==
  /\ SavedStateOwned
  /\ given # NULL => mpc = "idle"
  /\ cb = "save" /\ mpc = "write" => ~stateSaved /\ made = NULL
  /\ Unfinished("SAVE_STATE") => cb = "save" /\ Waiting /\ ~stateSaved
  /\ OnlyLast("SAVE_STATE")
  /\ Processing("SAVE_STATE") => pipe = <<>>
  /\ apc \in {"pre", "handler"} /\ cmd = "SAVE_STATE" => savedState = NULL
  /\ apc = "post" /\ cmd = "SAVE_STATE" => savedState = made
  /\ cb = "save" /\ Waiting /\ (Queued("SAVE_STATE")
        \/ (apc \in {"free", "pre", "handler"} /\ cmd = "SAVE_STATE"))
       => made = NULL
  /\ cb = "save" /\ Waiting /\ stateSaved =>
       /\ pipe = <<>> /\ cmd = "none"
       /\ savedState = made \/ (ExitEarly /\ savedState = NULL)

\* Start and end of the app thread, and the life of the struct.
EndInv ==
  /\ alive <=> mpc # "none"
  /\ apc # "dead" => mpc \notin {"none", "broken", "release"}
  /\ mpc = "none" \/ mpc = "release" => savedState = NULL
  /\ apc = "entry" => cb = "create" /\ ~running /\ ~destroyed
  /\ cb = "create" => pipe = <<>> /\ cmd = "none"
  /\ destroyed => apc \in {"unlock", "dead"} /\ savedState = NULL
  /\ apc \in {"announce", "unlock"} => savedState = NULL
  /\ destroyRequested \/ Queued("DESTROY") \/ Processing("DESTROY") =>
       (cb = "free" /\ Waiting) \/ mpc \in {"release", "none"}
  /\ apc \in {"destroy", "announce", "unlock"} => destroyRequested \/ ExitEarly

\* How full the pipe gets.
RoomInv ==
  /\ mpc \in {"idle", "lock", "write", "term"} => Len(pipe) <= Backlog
  /\ mpc = "async" => Len(pipe) < Backlog
  /\ mpc = "init" => Len(pipe) <= Backlog + 1

IInv ==
  /\ TypeOK /\ ArgInv /\ PcInv
  /\ WindowInv /\ InputInv /\ ActivityInv
  /\ SaveInv /\ EndInv /\ RoomInv /\ ConfigFollowsDevice
=============================================================================
