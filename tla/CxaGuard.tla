------------------------------ MODULE CxaGuard ------------------------------
(***************************************************************************)
(* The guards of function-local statics in libc++abi (cxa_guard.cpp):      *)
(* __cxa_guard_acquire, __cxa_guard_release and __cxa_guard_abort, called  *)
(* by several threads, with initialisers that may use other statics and    *)
(* may throw.                                                              *)
(*                                                                         *)
(* Everything between pthread_mutex_lock and pthread_mutex_unlock (or      *)
(* pthread_cond_wait) of guard_mut is one step, since all accesses to a    *)
(* guard object in the library are made with that mutex held.  The         *)
(* broadcast is a step of its own: the code makes it after the unlock.     *)
(***************************************************************************)
EXTENDS Naturals, Sequences

CONSTANTS
  Threads,
  Guards,     \* guard objects, one per static variable
  Uses,       \* <<g, h>>: the initialiser of g may reach the static of h
  MaxCalls    \* calls of __cxa_guard_acquire in the program's life (bound)

ASSUME UsesAssumption == Uses \subseteq Guards \X Guards
ASSUME MaxCallsAssumption == MaxCalls \in Nat

VARIABLES
  guard,   \* guard[g]: the initialized byte and the lock byte of g
  phase,   \* phase[t][g]: where t is in the life of its use of g
  nest,    \* nest[t]: the statics t is in the middle of, innermost last
  calls    \* calls of __cxa_guard_acquire so far

vars == <<guard, phase, nest, calls>>

\* "acquire": called; "wait": blocked on guard_cv; "recheck": woken up;
\* "init": acquire returned 1, the initialiser runs; "broadcast": release or
\* abort has unlocked guard_mut and has not broadcast yet.
Phases == {"none", "acquire", "wait", "recheck", "init", "broadcast"}

Zeroed == [initialized |-> FALSE, lock |-> FALSE]

Init ==
  /\ guard = [g \in Guards |-> Zeroed]
  /\ phase = [t \in Threads |-> [g \in Guards |-> "none"]]
  /\ nest  = [t \in Threads |-> <<>>]
  /\ calls = 0

At(t, g, ph) == nest[t] # <<>> /\ nest[t][Len(nest[t])] = g /\ phase[t][g] = ph

\* The thread executes program code: no static in progress, or the innermost
\* one is being initialised.
Running(t) ==
  nest[t] = <<>> \/ \E g \in Guards : At(t, g, "init")

Goto(t, g, ph) == phase' = [phase EXCEPT ![t][g] = ph]

Pop(t) == nest' = [nest EXCEPT ![t] = SubSeq(@, 1, Len(@) - 1)]

\* The program reaches a static: at top level, or inside the initialiser of
\* another one.  Re-entering a static one is initialising is undefined in C++.
Reach(t, g) ==
  /\ Running(t)
  /\ calls < MaxCalls
  /\ phase[t][g] = "none"
  /\ nest[t] # <<>> => <<nest[t][Len(nest[t])], g>> \in Uses
  /\ Goto(t, g, "acquire")
  /\ nest' = [nest EXCEPT ![t] = Append(@, g)]
  /\ calls' = calls + 1
  /\ UNCHANGED guard

\* set_lock(*guard_object, true) writes the whole object: everything but the
\* lock byte becomes zero.
SetLock(g) == guard' = [guard EXCEPT ![g] = [initialized |-> FALSE, lock |-> TRUE]]

\* __cxa_guard_acquire returns 0: somebody else has initialised the static.
ReturnZero(t, g) ==
  /\ Goto(t, g, "none")
  /\ Pop(t)
  /\ UNCHANGED <<guard, calls>>

\* ... returns 1: the caller runs the initialiser.
ReturnOne(t, g) ==
  /\ SetLock(g)
  /\ Goto(t, g, "init")
  /\ UNCHANGED <<nest, calls>>

CondWait(t, g) ==
  /\ Goto(t, g, "wait")
  /\ UNCHANGED <<guard, nest, calls>>

\* The critical section of __cxa_guard_acquire up to its first wait.
Acquire(t, g) ==
  /\ At(t, g, "acquire")
  /\ \/ guard[g].initialized /\ ReturnZero(t, g)
     \/ ~guard[g].initialized /\ guard[g].lock /\ CondWait(t, g)
     \/ ~guard[g].initialized /\ ~guard[g].lock /\ ReturnOne(t, g)

\* (Mutant) a waiter takes the guard without looking at the lock byte again (if
\* instead of while).
RecheckOnce(t, g) ==
  /\ At(t, g, "recheck")
  /\ \/ guard[g].initialized /\ ReturnZero(t, g)
     \/ ~guard[g].initialized /\ ReturnOne(t, g)

\* (Mutant) the initialized byte is not tested again after the wait.
RecheckLockOnly(t, g) ==
  /\ At(t, g, "recheck")
  /\ \/ guard[g].lock /\ CondWait(t, g)
     \/ ~guard[g].lock /\ ReturnOne(t, g)

\* The rest of it, after pthread_cond_wait has returned.
Recheck(t, g) ==
  /\ At(t, g, "recheck")
  /\ \/ guard[g].lock /\ CondWait(t, g)
     \/ ~guard[g].lock /\ guard[g].initialized /\ ReturnZero(t, g)
     \/ ~guard[g].lock /\ ~guard[g].initialized /\ ReturnOne(t, g)

SpuriousWakeup(t, g) ==
  /\ At(t, g, "wait")
  /\ Goto(t, g, "recheck")
  /\ UNCHANGED <<guard, nest, calls>>

\* __cxa_guard_release, called when the initialiser has returned.
Release(t, g) ==
  /\ At(t, g, "init")
  /\ guard' = [guard EXCEPT ![g] = [initialized |-> TRUE, lock |-> FALSE]]
  /\ Goto(t, g, "broadcast")
  /\ UNCHANGED <<nest, calls>>

\* (Mutant) abort forgets to clear the lock byte.
AbortLocked(t, g) ==
  /\ At(t, g, "init")
  /\ Goto(t, g, "broadcast")
  /\ UNCHANGED <<guard, nest, calls>>

\* (Mutant) abort does what release does.
AbortInitialised(t, g) ==
  /\ At(t, g, "init")
  /\ guard' = [guard EXCEPT ![g] = [initialized |-> TRUE, lock |-> FALSE]]
  /\ Goto(t, g, "broadcast")
  /\ UNCHANGED <<nest, calls>>

\* __cxa_guard_abort, called when the initialiser has thrown.
Abort(t, g) ==
  /\ At(t, g, "init")
  /\ guard' = [guard EXCEPT ![g] = Zeroed]
  /\ Goto(t, g, "broadcast")
  /\ UNCHANGED <<nest, calls>>

\* pthread_cond_broadcast(&guard_cv): there is one condition variable for all
\* guards, so the waiters of every guard wake up.
Woken(ph) == [u \in Threads |-> [h \in Guards |->
                IF ph[u][h] = "wait" THEN "recheck" ELSE ph[u][h]]]

\* (Mutant) only one waiter is woken up (pthread_cond_signal).
SignalOne(t, g) ==
  /\ At(t, g, "broadcast")
  /\ \/ /\ \A u \in Threads, h \in Guards : phase[u][h] # "wait"
        /\ Goto(t, g, "none")
     \/ \E u \in Threads, h \in Guards :
          /\ phase[u][h] = "wait"
          /\ phase' = [phase EXCEPT ![u][h] = "recheck", ![t][g] = "none"]
  /\ Pop(t)
  /\ UNCHANGED <<guard, calls>>

Broadcast(t, g) ==
  /\ At(t, g, "broadcast")
  /\ phase' = [Woken(phase) EXCEPT ![t][g] = "none"]
  /\ Pop(t)
  /\ UNCHANGED <<guard, calls>>

Step(t, g) ==
  \/ Acquire(t, g)
  \/ Recheck(t, g)
  \/ Release(t, g)
  \/ Abort(t, g)
  \/ Broadcast(t, g)

Next ==
  \E t \in Threads, g \in Guards :
    \/ Reach(t, g)
    \/ SpuriousWakeup(t, g)
    \/ Step(t, g)

Spec == Init /\ [][Next]_vars

-----------------------------------------------------------------------------
(* Properties *)

\* No two threads run the initialiser of the same static at the same time,
\* whatever order threads acquire, wait, are woken up, release and abort in.
OneInitialiser ==
  \A g \in Guards, t, u \in Threads :
    phase[t][g] = "init" /\ phase[u][g] = "init" => t = u

\* The lock byte of a guard is set exactly while a thread runs its
\* initialiser: an abort or a release never leaves a static locked by nobody,
\* and set_lock never erases the initialized byte of a finished static.
LockHeld ==
  \A g \in Guards :
    /\ guard[g].lock <=> \E t \in Threads : phase[t][g] = "init"
    /\ ~(guard[g].lock /\ guard[g].initialized)

\* "Ensure that we initialize each variable once and only once" (the test of
\* the library): an initialised static stays initialised and no thread starts
\* its initialiser again.
InitialisedOnce ==
  [][\A g \in Guards : guard[g].initialized =>
       /\ guard'[g].initialized
       /\ \A t \in Threads : phase'[t][g] # "init"]_vars
=============================================================================
