------------------------- MODULE AppGlueRefinement -------------------------
(***************************************************************************)
(* Proofs that AppGlue implements Handoff for the window, the input queue  *)
(* and the activity state: with IInv, every step of the two threads maps   *)
(* to a step of Handoff or leaves the mapped variables alone.              *)
(***************************************************************************)
EXTENDS AppGlueHandoff, AppGlueProofs

USE GlueAssumption
    DEF AsyncCmds, ActivityCmds, WindowCmds, Cmds, mainVars, appVars, winVars,
        inVars, saveVars, actVars, confVars, endVars, Waiting, Processing,
        Queued, Unapplied, Unfinished, AppAt

-----------------------------------------------------------------------------
\* A step of the glue is a step of the window handoff.
LEMMA WindowStep ==
  ASSUME IInv, [Next]_vars
  PROVE  [Window!Next]_(Window!vars)
<1> USE DEF IInv, ArgInv, PcInv, WindowInv, WindowMoving, Window!Next, Window!vars, Window!Begin,
        Window!Take, Window!LetGo, Window!End, Window!Restart
<1>1. CASE AndroidAppCreate
  BY <1>1 DEF AndroidAppCreate
<1>2. CASE \E w \in Windows \cup {NULL} : OnNativeWindow(w)
  BY <1>2 DEF OnNativeWindow, Call, Deliverable
<1>3. CASE \E q \in InputQueues \cup {NULL} : OnInputQueue(q)
  BY <1>3 DEF OnInputQueue, Call, Deliverable
<1>4. CASE \E s \in ActivityCmds : OnActivity(s)
  BY <1>4 DEF OnActivity, Call, Deliverable, NextActivity
<1>5. CASE OnSaveInstanceState
  BY <1>5 DEF OnSaveInstanceState, Call, Deliverable
<1>6. CASE OnDestroy
  BY <1>6 DEF OnDestroy, Call, Deliverable
<1>7. CASE \E c \in AsyncCmds, d \in Configs : OnAsync(c, d)
  BY <1>7 DEF OnAsync, Deliverable
<1>8. CASE AsyncWrite
  BY <1>8 DEF AsyncWrite
<1>9. CASE FrameworkFree
  BY <1>9 DEF FrameworkFree
<1>10. CASE Reacquire
  BY <1>10 DEF Reacquire
<1>11. CASE SpuriousWakeup
  BY <1>11 DEF SpuriousWakeup
<1>12. CASE AwaitRunning
  BY <1>12 DEF AwaitRunning, Lock, WaitFor
<1>13. CASE SetInput
  BY <1>13 DEF SetInput, Lock, Write, WaitFor
<1>14. CASE SetWindow
  BY <1>14 DEF SetWindow, Lock, Write, WaitFor, AfterTerm
<1>15. CASE SetActivityState
  BY <1>15 DEF SetActivityState, Lock, Write, WaitFor
<1>16. CASE SaveInstanceState
  BY <1>16 DEF SaveInstanceState, Lock, Write, WaitFor
<1>17. CASE AppFree
  BY <1>17 DEF AppFree, Lock, Write, WaitFor
<1>18. CASE AndroidAppRelease
  BY <1>18 DEF AndroidAppRelease
<1>19. CASE Entry
  BY <1>19 DEF Entry
<1>20. CASE ReadCmd
  BY <1>20 DEF ReadCmd
<1>21. CASE ReadCmdFree
  BY <1>21 DEF ReadCmdFree
<1>22. CASE PreExecCmd
  BY <1>22 DEF PreExecCmd
<1>23. CASE OnAppCmd
  BY <1>23 DEF OnAppCmd
<1>24. CASE PostExecCmd
  BY <1>24 DEF PostExecCmd
<1>25. CASE ProcessInput
  BY <1>25 DEF ProcessInput
<1>26. CASE MainReturns
  BY <1>26 DEF MainReturns
<1>27. CASE AndroidAppDestroy
  BY <1>27 DEF AndroidAppDestroy, AppDestroy
<1>28. CASE UNCHANGED vars
  BY <1>28 DEF vars
<1> HIDE DEF IInv, Window!Next, Window!vars, AsyncCmds, ActivityCmds
<1> QED
  BY <1>1, <1>2, <1>3, <1>4, <1>5, <1>6, <1>7, <1>8, <1>9, <1>10, <1>11,
     <1>12, <1>13, <1>14, <1>15, <1>16, <1>17, <1>18, <1>19, <1>20, <1>21,
     <1>22, <1>23, <1>24, <1>25, <1>26, <1>27, <1>28
     DEF Next, MainCalls, MainStep, AppStep

\* Window callbacks are a handoff between the two threads.
THEOREM WindowHandoffRefined == Spec => WindowHandoff
<1>1. Init => Window!Init
  BY DEF Init, Window!Init
<1>2. IInv /\ [Next]_vars => [Window!Next]_(Window!vars)
  BY WindowStep
<1> QED BY Inductive, <1>1, <1>2, PTL DEF Spec, WindowHandoff, Window!Spec

-----------------------------------------------------------------------------
\* A step of the glue is a step of the input handoff.
LEMMA InputStep ==
  ASSUME IInv, [Next]_vars
  PROVE  [Input!Next]_(Input!vars)
<1> USE DEF IInv, ArgInv, PcInv, InputInv, InputMoving, Input!Next, Input!vars, Input!Begin,
        Input!Take, Input!LetGo, Input!End, Input!Restart
<1>1. CASE AndroidAppCreate
  BY <1>1 DEF AndroidAppCreate
<1>2. CASE \E w \in Windows \cup {NULL} : OnNativeWindow(w)
  BY <1>2 DEF OnNativeWindow, Call, Deliverable
<1>3. CASE \E q \in InputQueues \cup {NULL} : OnInputQueue(q)
  BY <1>3 DEF OnInputQueue, Call, Deliverable
<1>4. CASE \E s \in ActivityCmds : OnActivity(s)
  BY <1>4 DEF OnActivity, Call, Deliverable, NextActivity
<1>5. CASE OnSaveInstanceState
  BY <1>5 DEF OnSaveInstanceState, Call, Deliverable
<1>6. CASE OnDestroy
  BY <1>6 DEF OnDestroy, Call, Deliverable
<1>7. CASE \E c \in AsyncCmds, d \in Configs : OnAsync(c, d)
  BY <1>7 DEF OnAsync, Deliverable
<1>8. CASE AsyncWrite
  BY <1>8 DEF AsyncWrite
<1>9. CASE FrameworkFree
  BY <1>9 DEF FrameworkFree
<1>10. CASE Reacquire
  BY <1>10 DEF Reacquire
<1>11. CASE SpuriousWakeup
  BY <1>11 DEF SpuriousWakeup
<1>12. CASE AwaitRunning
  BY <1>12 DEF AwaitRunning, Lock, WaitFor
<1>13. CASE SetInput
  BY <1>13 DEF SetInput, Lock, Write, WaitFor
<1>14. CASE SetWindow
  BY <1>14 DEF SetWindow, Lock, Write, WaitFor, AfterTerm
<1>15. CASE SetActivityState
  BY <1>15 DEF SetActivityState, Lock, Write, WaitFor
<1>16. CASE SaveInstanceState
  BY <1>16 DEF SaveInstanceState, Lock, Write, WaitFor
<1>17. CASE AppFree
  BY <1>17 DEF AppFree, Lock, Write, WaitFor
<1>18. CASE AndroidAppRelease
  BY <1>18 DEF AndroidAppRelease
<1>19. CASE Entry
  BY <1>19 DEF Entry
<1>20. CASE ReadCmd
  BY <1>20 DEF ReadCmd
<1>21. CASE ReadCmdFree
  BY <1>21 DEF ReadCmdFree
<1>22. CASE PreExecCmd
  BY <1>22 DEF PreExecCmd
<1>23. CASE OnAppCmd
  BY <1>23 DEF OnAppCmd
<1>24. CASE PostExecCmd
  BY <1>24 DEF PostExecCmd
<1>25. CASE ProcessInput
  BY <1>25 DEF ProcessInput
<1>26. CASE MainReturns
  BY <1>26 DEF MainReturns
<1>27. CASE AndroidAppDestroy
  BY <1>27 DEF AndroidAppDestroy, AppDestroy
<1>28. CASE UNCHANGED vars
  BY <1>28 DEF vars
<1> HIDE DEF IInv, Input!Next, Input!vars, AsyncCmds, ActivityCmds
<1> QED
  BY <1>1, <1>2, <1>3, <1>4, <1>5, <1>6, <1>7, <1>8, <1>9, <1>10, <1>11,
     <1>12, <1>13, <1>14, <1>15, <1>16, <1>17, <1>18, <1>19, <1>20, <1>21,
     <1>22, <1>23, <1>24, <1>25, <1>26, <1>27, <1>28
     DEF Next, MainCalls, MainStep, AppStep

\* Input-queue callbacks are a handoff between the two threads.
THEOREM InputHandoffRefined == Spec => InputHandoff
<1>1. Init => Input!Init
  BY DEF Init, Input!Init
<1>2. IInv /\ [Next]_vars => [Input!Next]_(Input!vars)
  BY InputStep
<1> QED BY Inductive, <1>1, <1>2, PTL DEF Spec, InputHandoff, Input!Spec

-----------------------------------------------------------------------------
\* A step of the glue is a step of the activity handoff.
LEMMA ActivityStep ==
  ASSUME IInv, [Next]_vars
  PROVE  [Activity!Next]_(Activity!vars)
<1> USE DEF IInv, ArgInv, PcInv, ActivityInv, Activity!Next, Activity!vars, Activity!Begin,
        Activity!Take, Activity!LetGo, Activity!End, Activity!Restart
<1>1. CASE AndroidAppCreate
  BY <1>1 DEF AndroidAppCreate
<1>2. CASE \E w \in Windows \cup {NULL} : OnNativeWindow(w)
  BY <1>2 DEF OnNativeWindow, Call, Deliverable
<1>3. CASE \E q \in InputQueues \cup {NULL} : OnInputQueue(q)
  BY <1>3 DEF OnInputQueue, Call, Deliverable
<1>4. CASE \E s \in ActivityCmds : OnActivity(s)
  BY <1>4 DEF OnActivity, Call, Deliverable, NextActivity
<1>5. CASE OnSaveInstanceState
  BY <1>5 DEF OnSaveInstanceState, Call, Deliverable
<1>6. CASE OnDestroy
  BY <1>6 DEF OnDestroy, Call, Deliverable
<1>7. CASE \E c \in AsyncCmds, d \in Configs : OnAsync(c, d)
  BY <1>7 DEF OnAsync, Deliverable
<1>8. CASE AsyncWrite
  BY <1>8 DEF AsyncWrite
<1>9. CASE FrameworkFree
  BY <1>9 DEF FrameworkFree
<1>10. CASE Reacquire
  BY <1>10 DEF Reacquire
<1>11. CASE SpuriousWakeup
  BY <1>11 DEF SpuriousWakeup
<1>12. CASE AwaitRunning
  BY <1>12 DEF AwaitRunning, Lock, WaitFor
<1>13. CASE SetInput
  BY <1>13 DEF SetInput, Lock, Write, WaitFor
<1>14. CASE SetWindow
  BY <1>14 DEF SetWindow, Lock, Write, WaitFor, AfterTerm
<1>15. CASE SetActivityState
  BY <1>15 DEF SetActivityState, Lock, Write, WaitFor
<1>16. CASE SaveInstanceState
  BY <1>16 DEF SaveInstanceState, Lock, Write, WaitFor
<1>17. CASE AppFree
  BY <1>17 DEF AppFree, Lock, Write, WaitFor
<1>18. CASE AndroidAppRelease
  BY <1>18 DEF AndroidAppRelease
<1>19. CASE Entry
  BY <1>19 DEF Entry
<1>20. CASE ReadCmd
  BY <1>20 DEF ReadCmd
<1>21. CASE ReadCmdFree
  BY <1>21 DEF ReadCmdFree
<1>22. CASE PreExecCmd
  BY <1>22 DEF PreExecCmd
<1>23. CASE OnAppCmd
  BY <1>23 DEF OnAppCmd
<1>24. CASE PostExecCmd
  BY <1>24 DEF PostExecCmd
<1>25. CASE ProcessInput
  BY <1>25 DEF ProcessInput
<1>26. CASE MainReturns
  BY <1>26 DEF MainReturns
<1>27. CASE AndroidAppDestroy
  BY <1>27 DEF AndroidAppDestroy, AppDestroy
<1>28. CASE UNCHANGED vars
  BY <1>28 DEF vars
<1> HIDE DEF IInv, Activity!Next, Activity!vars, AsyncCmds, ActivityCmds
<1> QED
  BY <1>1, <1>2, <1>3, <1>4, <1>5, <1>6, <1>7, <1>8, <1>9, <1>10, <1>11,
     <1>12, <1>13, <1>14, <1>15, <1>16, <1>17, <1>18, <1>19, <1>20, <1>21,
     <1>22, <1>23, <1>24, <1>25, <1>26, <1>27, <1>28
     DEF Next, MainCalls, MainStep, AppStep

\* Activity-state callbacks are a handoff between the two threads.
THEOREM ActivityHandoffRefined == Spec => ActivityHandoff
<1>1. Init => Activity!Init
  BY DEF Init, Activity!Init
<1>2. IInv /\ [Next]_vars => [Activity!Next]_(Activity!vars)
  BY ActivityStep
<1> QED BY Inductive, <1>1, <1>2, PTL DEF Spec, ActivityHandoff, Activity!Spec

\* The callbacks of the glue are handoffs of windows, queues and states.
THEOREM HandoffsRefined == Spec => Handoffs
  BY WindowHandoffRefined, InputHandoffRefined, ActivityHandoffRefined DEF Handoffs
=============================================================================
