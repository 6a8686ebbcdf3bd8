---------------------------- MODULE StaticArray ----------------------------
(***************************************************************************)
(* A function-local static array in a program with several threads: the    *)
(* guards of CxaGuard decide which thread runs the initialiser, and the    *)
(* initialiser of the guard ArrayGuard is one of the array functions of    *)
(* CxaVector.  The compiled code calls __cxa_guard_release when the array  *)
(* function returns and __cxa_guard_abort when an exception leaves it; a   *)
(* second exception terminates the program in all threads.                 *)
(***************************************************************************)
EXTENDS CxaGuard, CxaVector

CONSTANT ArrayGuard

ASSUME ArrayGuardAssumption == ArrayGuard \in Guards

staticVars == <<guard, phase, nest, calls, arr, elem, block, stage, idx, terminateGuard, thrown>>

StaticInit == Init /\ VecInit

\* A thread inside the initialiser of the array runs the array functions.
BuildArray(t) ==
  /\ At(t, ArrayGuard, "init")
  /\ \/ New \/ Construct \/ Constructed \/ ConstructThrows
     \/ CleanupElement \/ CleanupDone \/ DestructorThrows
  /\ UNCHANGED vars

\* The initialiser returns ...
ReleaseStatic(t, g) ==
  /\ g = ArrayGuard => stage = "ready"
  /\ Release(t, g)
  /\ UNCHANGED vecVars

\* ... or an exception leaves it; nothing of the array is kept.
AbortStatic(t, g) ==
  /\ Abort(t, g)
  /\ IF g = ArrayGuard THEN Forget ELSE UNCHANGED vecVars

\* A step of a thread inside the library or inside an initialiser.
ThreadStep(t) ==
  /\ stage # "terminated"
  /\ \/ BuildArray(t)
     \/ \E g \in Guards :
          \/ (Acquire(t, g) \/ Recheck(t, g) \/ Broadcast(t, g)) /\ UNCHANGED vecVars
          \/ ReleaseStatic(t, g)
          \/ AbortStatic(t, g)

\* The program reaches a static, or a waiting thread wakes up on its own.
ThreadEvent(t) ==
  /\ stage # "terminated"
  /\ \E g \in Guards : Reach(t, g) \/ SpuriousWakeup(t, g)
  /\ UNCHANGED vecVars

\* The program destroys the array when its threads have ended.
DestroyArray ==
  /\ calls = MaxCalls /\ \A t \in Threads : nest[t] = <<>>
  /\ guard[ArrayGuard].initialized
  /\ \/ Delete \/ Destroy \/ DestroyDone \/ DestructorThrows \/ CleanupElement \/ CleanupDone
  /\ UNCHANGED vars

StaticNext == DestroyArray \/ \E t \in Threads : ThreadStep(t) \/ ThreadEvent(t)

\* The fairness of CxaGuard: threads are scheduled and initialisers end.
StaticSpec ==
  /\ StaticInit /\ [][StaticNext]_staticVars
  /\ \A t \in Threads : WF_staticVars(ThreadStep(t))

-----------------------------------------------------------------------------
\* A thread that passes the guard finds the finished array, whichever thread
\* built it and however many attempts failed before: when the guard says
\* initialised, all elements are constructed.
PassesToBuiltArray ==
  [][\A t \in Threads :
       /\ phase[t][ArrayGuard] # "none" /\ phase'[t][ArrayGuard] = "none"
       /\ guard'[ArrayGuard].initialized
       => stage' = "ready" /\ \A i \in DOMAIN elem' : elem'[i] = "built"]_staticVars

\* Every thread that reaches a static gets past it, unless the program
\* terminates: no wake-up is lost although release and abort broadcast after
\* they have unlocked the mutex, although all statics share one condition
\* variable, and although constructors throw.
CallsReturn ==
  \A t \in Threads : nest[t] # <<>> ~> nest[t] = <<>> \/ stage = "terminated"
=============================================================================
