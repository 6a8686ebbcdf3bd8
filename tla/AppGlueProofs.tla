--------------------------- MODULE AppGlueProofs ---------------------------
(***************************************************************************)
(* Proofs about AppGlue: IInv is inductive, and the safety properties of   *)
(* the glue follow from it, for every set of windows, queues, heap blocks  *)
(* and configurations, every pipe capacity and backlog, with or without    *)
(* I/O failures and early exits.                                           *)
(***************************************************************************)
EXTENDS AppGlueInv, TLAPS

USE GlueAssumption
    DEF AsyncCmds, ActivityCmds, WindowCmds, Cmds, MainPcs, AppPcs, Callbacks,
        mainVars, appVars, winVars, inVars, saveVars, actVars, confVars,
        endVars, Waiting, Processing, Queued, OnlyLast, Unapplied, Unfinished

-----------------------------------------------------------------------------
(* One lemma per action: it preserves every part of IInv.                  *)

\* A new activity starts from a zeroed struct.
LEMMA AndroidAppCreateInv ==
  ASSUME IInv, AndroidAppCreate
  PROVE  IInv'
<1> USE DEF IInv, TypeOK, ArgInv, PcInv, EndInv, AndroidAppCreate
<1>1. TypeOK'
  <2>1. alive' \in BOOLEAN /\ stateSaved' \in BOOLEAN /\ running' \in BOOLEAN 
        /\ destroyRequested' \in BOOLEAN /\ destroyed' \in BOOLEAN
    BY Zenon
  <2> QED BY <2>1
<1>2. ArgInv' OBVIOUS
<1>3. PcInv' OBVIOUS
<1>4. WindowInv' BY DEF WindowInv, WindowMoving
<1>5. InputInv' BY DEF InputInv, InputMoving
<1>6. ActivityInv' BY DEF ActivityInv
<1>7. SaveInv' BY DEF SaveInv, SavedStateOwned
<1>8. EndInv' BY DEF SaveInv, SavedStateOwned
<1>9. RoomInv' BY DEF RoomInv
<1>10. ConfigFollowsDevice' BY DEF ConfigFollowsDevice
<1> QED BY <1>1, <1>2, <1>3, <1>4, <1>5, <1>6, <1>7, <1>8, <1>9, <1>10

\* Freeing the struct leaves the rest alone.
LEMMA AndroidAppReleaseInv ==
  ASSUME IInv, AndroidAppRelease
  PROVE  IInv'
<1> USE DEF IInv, TypeOK, ArgInv, PcInv, EndInv, AndroidAppRelease
<1>1. TypeOK'
  <2>1. alive' \in BOOLEAN
    BY Zenon
  <2> QED BY <2>1
<1>2. ArgInv' OBVIOUS
<1>3. PcInv' OBVIOUS
<1>4. WindowInv' BY DEF WindowInv, WindowMoving
<1>5. InputInv' BY DEF InputInv, InputMoving
<1>6. ActivityInv' BY DEF ActivityInv
<1>7. SaveInv' BY DEF SaveInv, SavedStateOwned
<1>8. EndInv' BY DEF SaveInv, SavedStateOwned
<1>9. RoomInv' BY DEF RoomInv
<1>10. ConfigFollowsDevice' BY DEF ConfigFollowsDevice
<1> QED BY <1>1, <1>2, <1>3, <1>4, <1>5, <1>6, <1>7, <1>8, <1>9, <1>10

\* A window callback begins.
LEMMA OnNativeWindowInv ==
  ASSUME NEW w \in Windows \cup {NULL}, IInv, OnNativeWindow(w)
  PROVE  IInv'
<1> USE DEF IInv, TypeOK, ArgInv, PcInv, EndInv, OnNativeWindow, Call,
            Deliverable
<1>1. TypeOK' OBVIOUS
<1>2. ArgInv' OBVIOUS
<1>3. PcInv' OBVIOUS
<1>4. WindowInv' BY DEF WindowInv, WindowMoving
<1>5. InputInv' BY DEF InputInv, InputMoving
<1>6. ActivityInv' BY DEF ActivityInv
<1>7. SaveInv' BY DEF SaveInv, SavedStateOwned
<1>8. EndInv' BY DEF SaveInv, SavedStateOwned
<1>9. RoomInv' BY DEF RoomInv
<1>10. ConfigFollowsDevice' BY DEF ConfigFollowsDevice
<1> QED BY <1>1, <1>2, <1>3, <1>4, <1>5, <1>6, <1>7, <1>8, <1>9, <1>10

\* An input-queue callback begins.
LEMMA OnInputQueueInv ==
  ASSUME NEW q \in InputQueues \cup {NULL}, IInv, OnInputQueue(q)
  PROVE  IInv'
<1> USE DEF IInv, TypeOK, ArgInv, PcInv, EndInv, OnInputQueue, Call,
            Deliverable
<1>1. TypeOK' OBVIOUS
<1>2. ArgInv' OBVIOUS
<1>3. PcInv' OBVIOUS
<1>4. WindowInv' BY DEF WindowInv, WindowMoving
<1>5. InputInv' BY DEF InputInv, InputMoving
<1>6. ActivityInv' BY DEF ActivityInv
<1>7. SaveInv' BY DEF SaveInv, SavedStateOwned
<1>8. EndInv' BY DEF SaveInv, SavedStateOwned
<1>9. RoomInv' BY DEF RoomInv
<1>10. ConfigFollowsDevice' BY DEF ConfigFollowsDevice
<1> QED BY <1>1, <1>2, <1>3, <1>4, <1>5, <1>6, <1>7, <1>8, <1>9, <1>10

\* A lifecycle callback begins.
LEMMA OnActivityInv ==
  ASSUME NEW s \in ActivityCmds, IInv, OnActivity(s)
  PROVE  IInv'
<1> USE DEF IInv, TypeOK, ArgInv, PcInv, EndInv, OnActivity, Call,
            Deliverable, NextActivity
<1>1. TypeOK' OBVIOUS
<1>2. ArgInv' OBVIOUS
<1>3. PcInv' OBVIOUS
<1>4. WindowInv' BY DEF WindowInv, WindowMoving
<1>5. InputInv' BY DEF InputInv, InputMoving
<1>6. ActivityInv' BY DEF ActivityInv
<1>7. SaveInv' BY DEF SaveInv, SavedStateOwned
<1>8. EndInv' BY DEF SaveInv, SavedStateOwned
<1>9. RoomInv' BY DEF RoomInv
<1>10. ConfigFollowsDevice' BY DEF ConfigFollowsDevice
<1> QED BY <1>1, <1>2, <1>3, <1>4, <1>5, <1>6, <1>7, <1>8, <1>9, <1>10

\* A save request begins.
LEMMA OnSaveInstanceStateInv ==
  ASSUME IInv, OnSaveInstanceState
  PROVE  IInv'
<1> USE DEF IInv, TypeOK, ArgInv, PcInv, EndInv, OnSaveInstanceState, Call,
            Deliverable
<1>1. TypeOK' OBVIOUS
<1>2. ArgInv' OBVIOUS
<1>3. PcInv' OBVIOUS
<1>4. WindowInv' BY DEF WindowInv, WindowMoving
<1>5. InputInv' BY DEF InputInv, InputMoving
<1>6. ActivityInv' BY DEF ActivityInv
<1>7. SaveInv' BY DEF SaveInv, SavedStateOwned
<1>8. EndInv' BY DEF SaveInv, SavedStateOwned
<1>9. RoomInv' BY DEF RoomInv
<1>10. ConfigFollowsDevice' BY DEF ConfigFollowsDevice
<1> QED BY <1>1, <1>2, <1>3, <1>4, <1>5, <1>6, <1>7, <1>8, <1>9, <1>10

\* The destruction begins.
LEMMA OnDestroyInv ==
  ASSUME IInv, OnDestroy
  PROVE  IInv'
<1> USE DEF IInv, TypeOK, ArgInv, PcInv, EndInv, OnDestroy, Call,
            Deliverable
<1>1. TypeOK' OBVIOUS
<1>2. ArgInv' OBVIOUS
<1>3. PcInv' OBVIOUS
<1>4. WindowInv' BY DEF WindowInv, WindowMoving
<1>5. InputInv' BY DEF InputInv, InputMoving
<1>6. ActivityInv' BY DEF ActivityInv
<1>7. SaveInv' BY DEF SaveInv, SavedStateOwned
<1>8. EndInv' BY DEF SaveInv, SavedStateOwned
<1>9. RoomInv' BY DEF RoomInv
<1>10. ConfigFollowsDevice' BY DEF ConfigFollowsDevice
<1> QED BY <1>1, <1>2, <1>3, <1>4, <1>5, <1>6, <1>7, <1>8, <1>9, <1>10

\* An asynchronous event is reported.
LEMMA OnAsyncInv ==
  ASSUME NEW c \in AsyncCmds, NEW d \in Configs, IInv, OnAsync(c, d)
  PROVE  IInv'
<1> USE DEF IInv, TypeOK, ArgInv, PcInv, EndInv, OnAsync, Deliverable
<1>1. TypeOK' OBVIOUS
<1>2. ArgInv' OBVIOUS
<1>3. PcInv' OBVIOUS
<1>4. WindowInv' BY DEF WindowInv, WindowMoving
<1>5. InputInv' BY DEF InputInv, InputMoving
<1>6. ActivityInv' BY DEF ActivityInv
<1>7. SaveInv' BY DEF SaveInv, SavedStateOwned
<1>8. EndInv' BY DEF SaveInv, SavedStateOwned
<1>9. RoomInv' BY DEF RoomInv
<1>10. ConfigFollowsDevice' BY DEF ConfigFollowsDevice
<1> QED BY <1>1, <1>2, <1>3, <1>4, <1>5, <1>6, <1>7, <1>8, <1>9, <1>10

\* Its command enters the pipe.
LEMMA AsyncWriteInv ==
  ASSUME IInv, AsyncWrite
  PROVE  IInv'
<1> USE DEF IInv, TypeOK, ArgInv, PcInv, EndInv, AsyncWrite, WriteCmd
<1>1. TypeOK' OBVIOUS
<1>2. ArgInv' OBVIOUS
<1>3. PcInv' OBVIOUS
<1>4. WindowInv' BY DEF WindowInv, WindowMoving
<1>5. InputInv' BY DEF InputInv, InputMoving
<1>6. ActivityInv' BY DEF ActivityInv
<1>7. SaveInv' BY DEF SaveInv, SavedStateOwned
<1>8. EndInv' BY DEF SaveInv, SavedStateOwned
<1>9. RoomInv' BY DEF RoomInv
<1>10. ConfigFollowsDevice' BY DEF ConfigFollowsDevice
<1> QED BY <1>1, <1>2, <1>3, <1>4, <1>5, <1>6, <1>7, <1>8, <1>9, <1>10

\* The framework frees the block it was handed.
LEMMA FrameworkFreeInv ==
  ASSUME IInv, FrameworkFree
  PROVE  IInv'
<1> USE DEF IInv, TypeOK, ArgInv, PcInv, EndInv, FrameworkFree
<1>1. TypeOK' OBVIOUS
<1>2. ArgInv' OBVIOUS
<1>3. PcInv' OBVIOUS
<1>4. WindowInv' BY DEF WindowInv, WindowMoving
<1>5. InputInv' BY DEF InputInv, InputMoving
<1>6. ActivityInv' BY DEF ActivityInv
<1>7. SaveInv' BY DEF SaveInv, SavedStateOwned
<1>8. EndInv' BY DEF SaveInv, SavedStateOwned
<1>9. RoomInv' BY DEF RoomInv
<1>10. ConfigFollowsDevice' BY DEF ConfigFollowsDevice
<1> QED BY <1>1, <1>2, <1>3, <1>4, <1>5, <1>6, <1>7, <1>8, <1>9, <1>10

\* The waiter holds the mutex again.
LEMMA ReacquireInv ==
  ASSUME IInv, Reacquire
  PROVE  IInv'
<1> USE DEF IInv, TypeOK, ArgInv, PcInv, EndInv, Reacquire
<1>1. TypeOK' OBVIOUS
<1>2. ArgInv' OBVIOUS
<1>3. PcInv' OBVIOUS
<1>4. WindowInv' BY DEF WindowInv, WindowMoving
<1>5. InputInv' BY DEF InputInv, InputMoving
<1>6. ActivityInv' BY DEF ActivityInv
<1>7. SaveInv' BY DEF SaveInv, SavedStateOwned
<1>8. EndInv' BY DEF SaveInv, SavedStateOwned
<1>9. RoomInv' BY DEF RoomInv
<1>10. ConfigFollowsDevice' BY DEF ConfigFollowsDevice
<1> QED BY <1>1, <1>2, <1>3, <1>4, <1>5, <1>6, <1>7, <1>8, <1>9, <1>10

\* A wakeup without a broadcast.
LEMMA SpuriousWakeupInv ==
  ASSUME IInv, SpuriousWakeup
  PROVE  IInv'
<1> USE DEF IInv, TypeOK, ArgInv, PcInv, EndInv, SpuriousWakeup
<1>1. TypeOK' OBVIOUS
<1>2. ArgInv' OBVIOUS
<1>3. PcInv' OBVIOUS
<1>4. WindowInv' BY DEF WindowInv, WindowMoving
<1>5. InputInv' BY DEF InputInv, InputMoving
<1>6. ActivityInv' BY DEF ActivityInv
<1>7. SaveInv' BY DEF SaveInv, SavedStateOwned
<1>8. EndInv' BY DEF SaveInv, SavedStateOwned
<1>9. RoomInv' BY DEF RoomInv
<1>10. ConfigFollowsDevice' BY DEF ConfigFollowsDevice
<1> QED BY <1>1, <1>2, <1>3, <1>4, <1>5, <1>6, <1>7, <1>8, <1>9, <1>10

\* android_app_create waits for the thread.
LEMMA AwaitRunningInv ==
  ASSUME IInv, AwaitRunning
  PROVE  IInv'
<1> USE DEF IInv, TypeOK, ArgInv, PcInv, EndInv, AwaitRunning, Lock, WaitFor
<1>1. TypeOK' OBVIOUS
<1>2. ArgInv' OBVIOUS
<1>3. PcInv' OBVIOUS
<1>4. WindowInv' BY DEF WindowInv, WindowMoving
<1>5. InputInv' BY DEF InputInv, InputMoving
<1>6. ActivityInv' BY DEF ActivityInv
<1>7. SaveInv' BY DEF SaveInv, SavedStateOwned
<1>8. EndInv' BY DEF SaveInv, SavedStateOwned
<1>9. RoomInv' BY DEF RoomInv
<1>10. ConfigFollowsDevice' BY DEF ConfigFollowsDevice
<1> QED BY <1>1, <1>2, <1>3, <1>4, <1>5, <1>6, <1>7, <1>8, <1>9, <1>10

\* The locked section of android_app_set_input.
LEMMA SetInputInv ==
  ASSUME IInv, SetInput
  PROVE  IInv'
<1> USE DEF IInv, TypeOK, ArgInv, PcInv, EndInv, SetInput, Lock, Write,
            WriteCmd, WaitFor
<1>1. TypeOK' OBVIOUS
<1>2. ArgInv' OBVIOUS
<1>3. PcInv' OBVIOUS
<1>4. WindowInv' BY DEF WindowInv, WindowMoving
<1>5. InputInv' BY DEF InputInv, InputMoving
<1>6. ActivityInv' BY DEF ActivityInv
<1>7. SaveInv' BY DEF SaveInv, SavedStateOwned
<1>8. EndInv' BY DEF SaveInv, SavedStateOwned
<1>9. RoomInv' BY DEF RoomInv, InputInv
<1>10. ConfigFollowsDevice' BY DEF ConfigFollowsDevice
<1> QED BY <1>1, <1>2, <1>3, <1>4, <1>5, <1>6, <1>7, <1>8, <1>9, <1>10

\* The locked section of android_app_set_window.
LEMMA SetWindowInv ==
  ASSUME IInv, SetWindow
  PROVE  IInv'
<1> USE DEF IInv, TypeOK, ArgInv, PcInv, EndInv, SetWindow, Lock, Write,
            WriteCmd, WaitFor, AfterTerm
<1>1. TypeOK' OBVIOUS
<1>2. ArgInv' OBVIOUS
<1>3. PcInv' OBVIOUS
<1>4. WindowInv' BY DEF WindowInv, WindowMoving
<1>5. InputInv' BY DEF InputInv, InputMoving
<1>6. ActivityInv' BY SMTT(40) DEF ActivityInv
<1>7. SaveInv' BY DEF SaveInv, SavedStateOwned
<1>8. EndInv' BY DEF SaveInv, SavedStateOwned
<1>9. RoomInv' BY DEF RoomInv, WindowInv, WindowMoving
<1>10. ConfigFollowsDevice' BY DEF ConfigFollowsDevice
<1> QED BY <1>1, <1>2, <1>3, <1>4, <1>5, <1>6, <1>7, <1>8, <1>9, <1>10

\* The locked section of android_app_set_activity_state.
LEMMA SetActivityStateInv ==
  ASSUME IInv, SetActivityState
  PROVE  IInv'
<1> USE DEF IInv, TypeOK, ArgInv, PcInv, EndInv, SetActivityState, Lock,
            Write, WriteCmd, WaitFor
<1>1. TypeOK' OBVIOUS
<1>2. ArgInv' OBVIOUS
<1>3. PcInv' OBVIOUS
<1>4. WindowInv' BY DEF WindowInv, WindowMoving
<1>5. InputInv' BY DEF InputInv, InputMoving
<1>6. ActivityInv' BY SMTT(40) DEF ActivityInv
<1>7. SaveInv' BY DEF SaveInv, SavedStateOwned
<1>8. EndInv' BY DEF SaveInv, SavedStateOwned
<1>9. RoomInv' BY DEF RoomInv, ActivityInv
<1>10. ConfigFollowsDevice' BY DEF ConfigFollowsDevice
<1> QED BY <1>1, <1>2, <1>3, <1>4, <1>5, <1>6, <1>7, <1>8, <1>9, <1>10

\* The locked section of android_app_free.
LEMMA AppFreeInv ==
  ASSUME IInv, AppFree
  PROVE  IInv'
<1> USE DEF IInv, TypeOK, ArgInv, PcInv, EndInv, AppFree, Lock, Write,
            WriteCmd, WaitFor
<1>1. TypeOK' OBVIOUS
<1>2. ArgInv' OBVIOUS
<1>3. PcInv' OBVIOUS
<1>4. WindowInv' BY DEF WindowInv, WindowMoving
<1>5. InputInv' BY DEF InputInv, InputMoving
<1>6. ActivityInv' BY DEF ActivityInv
<1>7. SaveInv' BY DEF SaveInv, SavedStateOwned
<1>8. EndInv' BY DEF SaveInv, SavedStateOwned
<1>9. RoomInv' BY DEF RoomInv
<1>10. ConfigFollowsDevice' BY DEF ConfigFollowsDevice
<1> QED BY <1>1, <1>2, <1>3, <1>4, <1>5, <1>6, <1>7, <1>8, <1>9, <1>10

\* The locked section of onSaveInstanceState.
LEMMA SaveInstanceStateInv ==
  ASSUME IInv, SaveInstanceState
  PROVE  IInv'
<1> USE DEF IInv, TypeOK, ArgInv, PcInv, EndInv, SaveInstanceState, Lock,
            Write, WriteCmd, WaitFor, ClearStateSaved
<1>1. TypeOK'
  <2>1. stateSaved' \in BOOLEAN
    BY Zenon
  <2> QED BY <2>1
<1>2. ArgInv' OBVIOUS
<1>3. PcInv' OBVIOUS
<1>4. WindowInv' BY DEF WindowInv, WindowMoving
<1>5. InputInv' BY DEF InputInv, InputMoving
<1>6. ActivityInv' BY DEF ActivityInv
<1>7. SaveInv' BY DEF SaveInv, SavedStateOwned
<1>8. EndInv' BY DEF SaveInv, SavedStateOwned
<1>9. RoomInv' BY DEF RoomInv, SaveInv
<1>10. ConfigFollowsDevice' BY DEF ConfigFollowsDevice
<1> QED BY <1>1, <1>2, <1>3, <1>4, <1>5, <1>6, <1>7, <1>8, <1>9, <1>10

\* The app thread starts.
LEMMA EntryInv ==
  ASSUME IInv, Entry
  PROVE  IInv'
<1> USE DEF IInv, TypeOK, ArgInv, PcInv, EndInv, Entry, AppAt, Broadcast
<1>1. TypeOK' OBVIOUS
<1>2. ArgInv' OBVIOUS
<1>3. PcInv' OBVIOUS
<1>4. WindowInv' BY DEF WindowInv, WindowMoving
<1>5. InputInv' BY DEF InputInv, InputMoving
<1>6. ActivityInv' BY DEF ActivityInv
<1>7. SaveInv' BY DEF SaveInv, SavedStateOwned
<1>8. EndInv' BY DEF SaveInv, SavedStateOwned
<1>9. RoomInv' BY DEF RoomInv
<1>10. ConfigFollowsDevice' BY DEF ConfigFollowsDevice
<1> QED BY <1>1, <1>2, <1>3, <1>4, <1>5, <1>6, <1>7, <1>8, <1>9, <1>10

\* The app thread takes the first command of the pipe.
LEMMA ReadCmdInv ==
  ASSUME IInv, ReadCmd
  PROVE  IInv'
<1> USE DEF IInv, TypeOK, ArgInv, PcInv, EndInv, ReadCmd
<1>1. TypeOK' OBVIOUS
<1>2. ArgInv' OBVIOUS
<1>3. PcInv' OBVIOUS
<1>4. WindowInv' BY DEF WindowInv, WindowMoving
<1>5. InputInv' BY DEF InputInv, InputMoving
<1>6. ActivityInv' BY DEF ActivityInv
<1>7. SaveInv' BY DEF SaveInv, SavedStateOwned
<1>8. EndInv' BY DEF SaveInv, SavedStateOwned
<1>9. RoomInv' BY DEF RoomInv
<1>10. ConfigFollowsDevice'
  <2>1. \A i \in DOMAIN pipe : i # 1 => i - 1 \in DOMAIN pipe' /\ pipe'[i - 1] = pipe[i]
    OBVIOUS
  <2>2. ASSUME NEW i \in DOMAIN pipe, pipe[i] = "CONFIG_CHANGED"
        PROVE  ConfigFollowsDevice'
    <3>1. CASE i = 1
      <4> apc' = "pre" /\ cmd' = "CONFIG_CHANGED" BY <2>2, <3>1
      <4> QED BY DEF ConfigFollowsDevice
    <3>2. CASE i # 1
      BY <2>1, <2>2, <3>2 DEF ConfigFollowsDevice
    <3> QED BY <3>1, <3>2
  <2> QED BY <2>2 DEF ConfigFollowsDevice
<1> QED BY <1>1, <1>2, <1>3, <1>4, <1>5, <1>6, <1>7, <1>8, <1>9, <1>10

\* SAVE_STATE first discards the old state.
LEMMA ReadCmdFreeInv ==
  ASSUME IInv, ReadCmdFree
  PROVE  IInv'
<1> USE DEF IInv, TypeOK, ArgInv, PcInv, EndInv, ReadCmdFree, AppAt,
            FreeSavedState
<1>1. TypeOK' OBVIOUS
<1>2. ArgInv' OBVIOUS
<1>3. PcInv' OBVIOUS
<1>4. WindowInv' BY DEF WindowInv, WindowMoving
<1>5. InputInv' BY DEF InputInv, InputMoving
<1>6. ActivityInv' BY DEF ActivityInv
<1>7. SaveInv' BY DEF SaveInv, SavedStateOwned
<1>8. EndInv' BY DEF SaveInv, SavedStateOwned
<1>9. RoomInv' BY DEF RoomInv
<1>10. ConfigFollowsDevice' BY DEF ConfigFollowsDevice
<1> QED BY <1>1, <1>2, <1>3, <1>4, <1>5, <1>6, <1>7, <1>8, <1>9, <1>10

\* android_app_pre_exec_cmd applies the command.
LEMMA PreExecCmdInv ==
  ASSUME IInv, PreExecCmd
  PROVE  IInv'
<1> USE DEF IInv, TypeOK, ArgInv, PcInv, EndInv, PreExecCmd, AppAt,
            Broadcast
<1>1. TypeOK' OBVIOUS
<1>2. ArgInv' OBVIOUS
<1>3. PcInv' OBVIOUS
<1>4. WindowInv' BY DEF WindowInv, WindowMoving
<1>5. InputInv' BY DEF InputInv, InputMoving
<1>6. ActivityInv' BY DEF ActivityInv
<1>7. SaveInv' BY DEF SaveInv, SavedStateOwned
<1>8. EndInv' BY DEF SaveInv, SavedStateOwned
<1>9. RoomInv' BY DEF RoomInv
<1>10. ConfigFollowsDevice' BY DEF ConfigFollowsDevice
<1> QED BY <1>1, <1>2, <1>3, <1>4, <1>5, <1>6, <1>7, <1>8, <1>9, <1>10

\* The application handles the command.
LEMMA OnAppCmdInv ==
  ASSUME IInv, OnAppCmd
  PROVE  IInv'
<1> USE DEF IInv, TypeOK, ArgInv, PcInv, EndInv, OnAppCmd, AppAt
<1>1. TypeOK' OBVIOUS
<1>2. ArgInv' OBVIOUS
<1>3. PcInv' OBVIOUS
<1>4. WindowInv' BY DEF WindowInv, WindowMoving
<1>5. InputInv' BY DEF InputInv, InputMoving
<1>6. ActivityInv' BY DEF ActivityInv
<1>7. SaveInv' BY DEF SaveInv, SavedStateOwned
<1>8. EndInv' BY DEF SaveInv, SavedStateOwned
<1>9. RoomInv' BY DEF RoomInv
<1>10. ConfigFollowsDevice' BY DEF ConfigFollowsDevice
<1> QED BY <1>1, <1>2, <1>3, <1>4, <1>5, <1>6, <1>7, <1>8, <1>9, <1>10

\* android_app_post_exec_cmd completes the command.
LEMMA PostExecCmdInv ==
  ASSUME IInv, PostExecCmd
  PROVE  IInv'
<1> USE DEF IInv, TypeOK, ArgInv, PcInv, EndInv, PostExecCmd, AppAt,
            Broadcast, FreeSavedState
<1>1. TypeOK' OBVIOUS
<1>2. ArgInv' OBVIOUS
<1>3. PcInv' OBVIOUS
<1>4. WindowInv' BY DEF WindowInv, WindowMoving
<1>5. InputInv' BY DEF InputInv, InputMoving
<1>6. ActivityInv' BY DEF ActivityInv
<1>7. SaveInv' BY DEF SaveInv, SavedStateOwned
<1>8. EndInv' BY DEF SaveInv, SavedStateOwned
<1>9. RoomInv' BY DEF RoomInv
<1>10. ConfigFollowsDevice' BY DEF ConfigFollowsDevice
<1> QED BY <1>1, <1>2, <1>3, <1>4, <1>5, <1>6, <1>7, <1>8, <1>9, <1>10

\* Input events are drained.
LEMMA ProcessInputInv ==
  ASSUME IInv, ProcessInput
  PROVE  IInv'
<1> USE DEF IInv, TypeOK, ArgInv, PcInv, EndInv, ProcessInput, AppAt
<1>1. TypeOK' OBVIOUS
<1>2. ArgInv' OBVIOUS
<1>3. PcInv' OBVIOUS
<1>4. WindowInv' BY DEF WindowInv, WindowMoving
<1>5. InputInv' BY DEF InputInv, InputMoving
<1>6. ActivityInv' BY DEF ActivityInv
<1>7. SaveInv' BY DEF SaveInv, SavedStateOwned
<1>8. EndInv' BY DEF SaveInv, SavedStateOwned
<1>9. RoomInv' BY DEF RoomInv
<1>10. ConfigFollowsDevice' BY DEF ConfigFollowsDevice
<1> QED BY <1>1, <1>2, <1>3, <1>4, <1>5, <1>6, <1>7, <1>8, <1>9, <1>10

\* android_main returns.
LEMMA MainReturnsInv ==
  ASSUME IInv, MainReturns
  PROVE  IInv'
<1> USE DEF IInv, TypeOK, ArgInv, PcInv, EndInv, MainReturns, AppAt
<1>1. TypeOK' OBVIOUS
<1>2. ArgInv' OBVIOUS
<1>3. PcInv' OBVIOUS
<1>4. WindowInv' BY DEF WindowInv, WindowMoving
<1>5. InputInv' BY DEF InputInv, InputMoving
<1>6. ActivityInv' BY DEF ActivityInv
<1>7. SaveInv' BY DEF SaveInv, SavedStateOwned
<1>8. EndInv' BY DEF SaveInv, SavedStateOwned
<1>9. RoomInv' BY DEF RoomInv
<1>10. ConfigFollowsDevice' BY DEF ConfigFollowsDevice
<1> QED BY <1>1, <1>2, <1>3, <1>4, <1>5, <1>6, <1>7, <1>8, <1>9, <1>10

\* android_app_destroy announces the end.
LEMMA AndroidAppDestroyInv ==
  ASSUME IInv, AndroidAppDestroy
  PROVE  IInv'
<1> USE DEF IInv, TypeOK, ArgInv, PcInv, EndInv, AndroidAppDestroy,
            AppDestroy, AppAt, Broadcast, FreeSavedState
<1>1. TypeOK'
  <2>1. destroyed' \in BOOLEAN
    BY Zenon
  <2> QED BY <2>1
<1>2. ArgInv' OBVIOUS
<1>3. PcInv' OBVIOUS
<1>4. WindowInv' BY DEF WindowInv, WindowMoving
<1>5. InputInv' BY DEF InputInv, InputMoving
<1>6. ActivityInv' BY DEF ActivityInv
<1>7. SaveInv' BY DEF SaveInv, SavedStateOwned
<1>8. EndInv' BY DEF SaveInv, SavedStateOwned
<1>9. RoomInv' BY DEF RoomInv
<1>10. ConfigFollowsDevice' BY DEF ConfigFollowsDevice
<1> QED BY <1>1, <1>2, <1>3, <1>4, <1>5, <1>6, <1>7, <1>8, <1>9, <1>10

\* Stuttering changes nothing.
LEMMA StutterInv == ASSUME IInv, UNCHANGED vars PROVE IInv'
<1> USE DEF vars
<1>1. TypeOK' /\ ArgInv' /\ PcInv' BY DEF IInv, TypeOK, ArgInv, PcInv
<1>2. WindowInv' BY DEF IInv, WindowInv, WindowMoving
<1>3. InputInv' /\ ActivityInv'
  BY DEF IInv, InputInv, InputMoving, ActivityInv
<1>4. SaveInv' /\ EndInv' BY DEF IInv, SaveInv, SavedStateOwned, EndInv
<1>5. RoomInv' /\ ConfigFollowsDevice'
  BY DEF IInv, RoomInv, ConfigFollowsDevice
<1> QED BY <1>1, <1>2, <1>3, <1>4, <1>5 DEF IInv

-----------------------------------------------------------------------------
(* The theorems.                                                           *)

\* IInv holds initially.
LEMMA InitInv == Init => IInv
<1> SUFFICES ASSUME Init PROVE IInv OBVIOUS
<1> USE DEF Init
<1>1. TypeOK
  <2>1. /\ stateSaved \in BOOLEAN /\ alive \in BOOLEAN /\ running \in BOOLEAN
        /\ destroyRequested \in BOOLEAN /\ destroyed \in BOOLEAN
    BY Zenon
  <2> QED BY <2>1 DEF TypeOK
<1>2. ArgInv /\ PcInv BY DEF ArgInv, PcInv
<1>3. WindowInv /\ InputInv /\ ActivityInv
  BY DEF WindowInv, WindowMoving, InputInv, InputMoving, ActivityInv
<1>4. SaveInv /\ EndInv /\ RoomInv /\ ConfigFollowsDevice
  BY DEF SaveInv, SavedStateOwned, EndInv, RoomInv, ConfigFollowsDevice
<1> QED BY <1>1, <1>2, <1>3, <1>4 DEF IInv

\* IInv is an invariant of the glue: every callback's command is the last
\* one in the pipe until the app thread has applied it.
THEOREM Inductive == Spec => []IInv
<1>1. IInv /\ [Next]_vars => IInv'
  <2> SUFFICES ASSUME IInv, [Next]_vars PROVE IInv' OBVIOUS
  <2>1. CASE MainCalls
    BY <2>1, AndroidAppCreateInv, OnNativeWindowInv, OnInputQueueInv,
       OnActivityInv, OnSaveInstanceStateInv, OnDestroyInv, OnAsyncInv
       DEF MainCalls
  <2>2. CASE MainStep
    BY <2>2, AsyncWriteInv, FrameworkFreeInv, ReacquireInv, AwaitRunningInv,
       SetInputInv, SetWindowInv, SetActivityStateInv, SaveInstanceStateInv,
       AppFreeInv, AndroidAppReleaseInv DEF MainStep
  <2>3. CASE AppStep
    BY <2>3, EntryInv, ReadCmdFreeInv, PreExecCmdInv, OnAppCmdInv,
       PostExecCmdInv, AndroidAppDestroyInv, ProcessInputInv, MainReturnsInv
       DEF AppStep
  <2>4. CASE SpuriousWakeup BY <2>4, SpuriousWakeupInv
  <2>5. CASE ReadCmd BY <2>5, ReadCmdInv
  <2>6. CASE ProcessInput BY <2>6, ProcessInputInv
  <2>7. CASE MainReturns BY <2>7, MainReturnsInv
  <2>8. CASE UNCHANGED vars BY <2>8, StutterInv
  <2> QED BY <2>1, <2>2, <2>3, <2>4, <2>5, <2>6, <2>7, <2>8 DEF Next
<1> QED BY InitInv, <1>1, PTL DEF Spec

\* The types of all fields, and the pipe within its capacity.
THEOREM TypeCorrect == Spec => []TypeOK
<1>1. IInv => TypeOK BY DEF IInv
<1> QED BY Inductive, <1>1, PTL

\* A callback returns only when the app thread has taken over the window,
\* the input queue and the activity state it announced.
THEOREM HandOver == Spec => []HandedOver
<1>1. IInv => HandedOver
  BY DEF IInv, HandedOver, PcInv, WindowInv, WindowMoving, InputInv,
         InputMoving, ActivityInv
<1> QED BY Inductive, <1>1, PTL

\* The application's handler finds a window on INIT_WINDOW and TERM_WINDOW.
THEOREM HandlerWindow == Spec => []HandlerSeesWindow
<1>1. IInv => HandlerSeesWindow
  BY DEF IInv, HandlerSeesWindow, WindowInv
<1> QED BY Inductive, <1>1, PTL

\* No saved-state block leaks or is freed twice.
THEOREM SavedStateOwnership == Spec => []SavedStateOwned
<1>1. IInv => SavedStateOwned BY DEF IInv, SaveInv
<1> QED BY Inductive, <1>1, PTL

\* onSaveInstanceState returns the answer to its own request.
THEOREM SavedStateFreshness == Spec => []SavedStateFresh
<1>1. IInv => SavedStateFresh BY DEF IInv, SavedStateFresh, SaveInv
<1> QED BY Inductive, <1>1, PTL

\* The struct outlives the app thread's last access.
THEOREM NoAccessAfterFree == Spec => []NoUseAfterFree
<1>1. IInv => NoUseAfterFree BY DEF IInv, NoUseAfterFree, EndInv
<1> QED BY Inductive, <1>1, PTL

\* A configuration change reaches the app unless a write fails.
THEOREM ConfigDelivery == Spec => []ConfigFollowsDevice
<1>1. IInv => ConfigFollowsDevice BY DEF IInv
<1> QED BY Inductive, <1>1, PTL

\* With room for two commands above the backlog of asynchronous events, the
\* main thread never blocks in write(): the deadlock of a full pipe is then
\* impossible.
THEOREM NoBlockingWrite == Spec => []WriteNeverBlocks
<1>1. IInv => WriteNeverBlocks
  BY DEF IInv, WriteNeverBlocks, RoomInv, TypeOK
<1> QED BY Inductive, <1>1, PTL
=============================================================================
