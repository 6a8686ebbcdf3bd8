--------------------------- MODULE CxaGuardProofs ---------------------------
(***************************************************************************)
(* For any number of threads and statics, any nesting of initialisers and  *)
(* any number of calls: a static has at most one initialiser running, its  *)
(* lock byte says exactly that, and it is initialised at most once.        *)
(***************************************************************************)
EXTENDS CxaGuard, TLAPS

\* The types the argument needs.
GuardType ==
  /\ guard \in [Guards -> [initialized : BOOLEAN, lock : BOOLEAN]]
  /\ phase \in [Threads -> [Guards -> Phases]]

\* OneInitialiser and LockHeld together are inductive: ReturnOne needs the
\* lock byte clear to know that nobody else is initialising, and Release and
\* Abort need OneInitialiser to know that clearing the byte frees no one else's
\* static.
GInv == GuardType /\ OneInitialiser /\ LockHeld

\* The six ways a step can change a guard and the phases of its users; the
\* other variables do not matter.
Change(t, g) ==
  \/ /\ guard' = guard
     /\ \E p \in Phases \ {"init"} :
          phase[t][g] # "init" /\ phase' = [phase EXCEPT ![t][g] = p]
  \/ /\ ~guard[g].lock /\ ~guard[g].initialized
     /\ guard' = [guard EXCEPT ![g] = [initialized |-> FALSE, lock |-> TRUE]]
     /\ phase' = [phase EXCEPT ![t][g] = "init"]
  \/ /\ phase[t][g] = "init"
     /\ \E b \in BOOLEAN :
          guard' = [guard EXCEPT ![g] = [initialized |-> b, lock |-> FALSE]]
     /\ phase' = [phase EXCEPT ![t][g] = "broadcast"]
  \/ /\ guard' = guard
     /\ phase[t][g] # "init"
     /\ phase' = [Woken(phase) EXCEPT ![t][g] = "none"]

\* Every action of the specification is such a change.
LEMMA NextChanges ==
  ASSUME GuardType, Next
  PROVE  \E t \in Threads, g \in Guards : Change(t, g)
<1>1. PICK t \in Threads, g \in Guards :
        \/ Reach(t, g) \/ SpuriousWakeup(t, g) \/ Step(t, g)
  BY DEF Next
<1> USE DEF Change, Goto, Phases
<1>2. CASE Reach(t, g)
  BY <1>2 DEF Reach
<1>3. CASE SpuriousWakeup(t, g)
  BY <1>3 DEF SpuriousWakeup, At
<1>4. CASE Acquire(t, g)
  BY <1>4 DEF Acquire, At, ReturnZero, ReturnOne, CondWait, SetLock, Zeroed
<1>5. CASE Recheck(t, g)
  BY <1>5 DEF Recheck, At, ReturnZero, ReturnOne, CondWait, SetLock, Zeroed
<1>6. CASE Release(t, g)
  BY <1>6 DEF Release, At
<1>7. CASE Abort(t, g)
  BY <1>7 DEF Abort, At, Zeroed
<1>8. CASE Broadcast(t, g)
  BY <1>8 DEF Broadcast, At
<1> QED
  BY <1>1, <1>2, <1>3, <1>4, <1>5, <1>6, <1>7, <1>8 DEF Step

\* A change keeps the invariant.
LEMMA ChangePreserves ==
  ASSUME GInv, NEW t \in Threads, NEW g \in Guards, Change(t, g)
  PROVE  GInv'
<1> USE DEF GInv, GuardType, OneInitialiser, LockHeld, Phases
<1>1. CASE /\ guard' = guard
           /\ \E p \in Phases \ {"init"} :
                phase[t][g] # "init" /\ phase' = [phase EXCEPT ![t][g] = p]
  <2>1. \A u \in Threads, h \in Guards : phase'[u][h] = "init" <=> phase[u][h] = "init"
    BY <1>1
  <2> QED
    BY <1>1, <2>1
<1>2. CASE /\ ~guard[g].lock /\ ~guard[g].initialized
           /\ guard' = [guard EXCEPT ![g] = [initialized |-> FALSE, lock |-> TRUE]]
           /\ phase' = [phase EXCEPT ![t][g] = "init"]
  <2>1. \A u \in Threads : phase[u][g] # "init"
    BY <1>2
  <2>2. \A u \in Threads, h \in Guards :
          phase'[u][h] = "init" <=> phase[u][h] = "init" \/ (u = t /\ h = g)
    BY <1>2
  <2> QED
    BY <1>2, <2>1, <2>2
<1>3. CASE /\ phase[t][g] = "init"
           /\ \E b \in BOOLEAN :
                guard' = [guard EXCEPT ![g] = [initialized |-> b, lock |-> FALSE]]
           /\ phase' = [phase EXCEPT ![t][g] = "broadcast"]
  <2>1. \A u \in Threads, h \in Guards :
          phase'[u][h] = "init" <=> phase[u][h] = "init" /\ h # g
    BY <1>3
  <2> QED
    BY <1>3, <2>1
<1>4. CASE /\ guard' = guard
           /\ phase[t][g] # "init"
           /\ phase' = [Woken(phase) EXCEPT ![t][g] = "none"]
  <2>1. \A u \in Threads, h \in Guards : phase'[u][h] = "init" <=> phase[u][h] = "init"
    BY <1>4 DEF Woken
  <2>2. phase' \in [Threads -> [Guards -> Phases]]
    BY <1>4 DEF Woken
  <2> QED
    BY <1>4, <2>1, <2>2
<1> QED
  BY <1>1, <1>2, <1>3, <1>4 DEF Change

\* The guards start unlocked, uninitialised and unused.
LEMMA InitInv == Init => GInv
BY DEF Init, GInv, GuardType, OneInitialiser, LockHeld, Zeroed, Phases

\* Steps of the program and stuttering keep the invariant.
LEMMA NextInv == GInv /\ [Next]_vars => GInv'
<1> SUFFICES ASSUME GInv, [Next]_vars PROVE GInv'
  OBVIOUS
<1>1. CASE Next
  BY <1>1, NextChanges, ChangePreserves DEF GInv
<1>2. CASE UNCHANGED vars
  BY <1>2 DEF vars, GInv, GuardType, OneInitialiser, LockHeld
<1> QED
  BY <1>1, <1>2

\* At most one thread at a time runs the initialiser of a static
\* (__cxa_guard_acquire returns 1 to one caller only).
THEOREM OneInitialiserTheorem == Spec => []OneInitialiser
<1>1. GInv => OneInitialiser
  BY DEF GInv
<1> QED
  BY <1>1, InitInv, NextInv, PTL DEF Spec

\* The lock byte is set exactly while an initialiser runs, so that release and
\* abort never leave a static that nobody can initialise any more.
THEOREM LockHeldTheorem == Spec => []LockHeld
<1>1. GInv => LockHeld
  BY DEF GInv
<1> QED
  BY <1>1, InitInv, NextInv, PTL DEF Spec

\* A static that is initialised is never initialised again.
THEOREM InitialisedOnceTheorem == Spec => InitialisedOnce
<1> DEFINE Once == \A g \in Guards : guard[g].initialized =>
                     /\ guard'[g].initialized
                     /\ \A t \in Threads : phase'[t][g] # "init"
<1>1. ASSUME GInv, GInv', [Next]_vars PROVE [Once]_vars
  <2>1. CASE Next
    <3>1. PICK t \in Threads, g \in Guards : Change(t, g)
      BY <1>1, <2>1, NextChanges DEF GInv
    <3>2. \A h \in Guards : guard[h].initialized => guard'[h].initialized
      BY <1>1, <3>1 DEF Change, GInv, GuardType, LockHeld
    <3> QED
      BY <1>1, <3>2 DEF GInv, LockHeld
  <2>2. CASE UNCHANGED vars
    BY <2>2
  <2> QED
    BY <1>1, <2>1, <2>2
<1>2. Spec => []GInv
  BY InitInv, NextInv, PTL DEF Spec
<1> QED
  BY <1>1, <1>2, PTL DEF Spec, InitialisedOnce
=============================================================================
