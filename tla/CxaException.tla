---------------------------- MODULE CxaException ----------------------------
(***************************************************************************)
(* The exception runtime of libc++abi (cxa_exception.cpp, the ARM EHABI    *)
(* build): exception headers with their reference and handler counts, the  *)
(* stacks of caught and of propagating exceptions of each thread, and      *)
(* exception_ptr references shared by the threads.                         *)
(*                                                                         *)
(* The calls come from compiled programs and from the unwinder.  stack[t]  *)
(* is what thread t is in the middle of, innermost last: handlers          *)
(* ("catch"), exceptions being unwound ("flight") and cleanups run by the  *)
(* unwinder ("cleanup").                                                   *)
(***************************************************************************)
EXTENDS Integers, Sequences, FiniteSets, SequencesExt

CONSTANTS
  Threads,
  Ptrs,             \* exception_ptr variables, shared by the threads
  MaxExc,           \* headers do_malloc can provide before it fails (bound)
  MaxDepth,         \* entries of each thread's stack (bound)
  RethrowInFlight   \* whether a cleanup executes "throw;" while the exception
                    \* it would rethrow is itself being unwound

ASSUME ConstantsAssumption ==
  MaxExc \in Nat \ {0} /\ MaxDepth \in [Threads -> Nat] /\ RethrowInFlight \in BOOLEAN

VARIABLES
  header,       \* the headers: allocation state and fields of __cxa_exception
  globals,      \* __cxa_eh_globals of each thread
  stack,
  ptr,          \* the primary exception each exception_ptr holds
  terminated    \* std::terminate has been called

vars == <<header, globals, stack, ptr, terminated>>

Exc == 1 .. MaxExc
None == 0

Free == [kind |-> "free", referenceCount |-> 0, primaryException |-> None,
         handlerCount |-> 0, nextException |-> None,
         propagationCount |-> 0, nextPropagating |-> None]

Init ==
  /\ header = [e \in Exc |-> Free]
  /\ globals = [t \in Threads |-> [caught |-> None, uncaught |-> 0, propagating |-> None]]
  /\ stack = [t \in Threads |-> <<>>]
  /\ ptr = [p \in Ptrs |-> None]
  /\ terminated = FALSE

-----------------------------------------------------------------------------
Native(e) == header[e].kind \in {"primary", "dependent"}   \* isOurExceptionClass

Top(t) == Last(stack[t])
Flying(t) == stack[t] # <<>> /\ Top(t).kind = "flight"
InHandler(t) == stack[t] # <<>> /\ Top(t).kind = "catch"
InCleanup(t) == stack[t] # <<>> /\ Top(t).kind = "cleanup"

\* Thread t runs program code, not the unwinder.
Running(t) == ~terminated /\ ~Flying(t)

Frame(kind, e) == [kind |-> kind, exc |-> e]

Push(t, f) ==
  /\ Len(stack[t]) < MaxDepth[t]
  /\ stack' = [stack EXCEPT ![t] = Append(@, f)]

Terminate ==
  /\ terminated' = TRUE
  /\ UNCHANGED <<header, globals, stack, ptr>>

\* Headers do_malloc can still provide, from malloc or the emergency stash.
Unused == {e \in Exc : header[e].kind = "free"}
NewExc == CHOOSE e \in Unused : \A o \in Unused : e <= o

-----------------------------------------------------------------------------
(* Reference counts *)

\* __cxa_increment_exception_refcount on the headers h.
Increment(h, p) == [h EXCEPT ![p].referenceCount = @ + 1]

\* (Mutant) the exception is destroyed when one reference is left.
DecrementEarly(h, p) ==
  IF h[p].referenceCount <= 2 THEN [h EXCEPT ![p] = Free]
  ELSE [h EXCEPT ![p].referenceCount = @ - 1]

\* __cxa_decrement_exception_refcount: the last reference destroys the
\* exception object and frees the header.
Decrement(h, p) ==
  IF h[p].referenceCount = 1 THEN [h EXCEPT ![p] = Free]
  ELSE [h EXCEPT ![p].referenceCount = @ - 1]

-----------------------------------------------------------------------------
(* Throwing *)

\* __cxa_allocate_exception, the construction of the object, and __cxa_throw.
\* Without memory the program terminates.
__cxa_throw(t) ==
  /\ Running(t)
  /\ \/ Unused = {} /\ Terminate
     \/ /\ Unused # {}
        /\ header' = [header EXCEPT ![NewExc] =
                        [Free EXCEPT !.kind = "primary", !.referenceCount = 1]]
        /\ globals' = [globals EXCEPT ![t].uncaught = @ + 1]
        /\ Push(t, Frame("flight", NewExc))
        /\ UNCHANGED <<ptr, terminated>>

\* Another language's runtime raises an exception of its own.
ForeignThrow(t) ==
  /\ Running(t)
  /\ Unused # {}
  /\ header' = [header EXCEPT ![NewExc] = [Free EXCEPT !.kind = "foreign"]]
  /\ Push(t, Frame("flight", NewExc))
  /\ UNCHANGED <<globals, ptr, terminated>>

\* (Mutant) the dependent exception takes no reference of its own.
RethrowPrimaryUncounted(t, p) ==
  /\ Running(t)
  /\ ptr[p] # None
  /\ \/ Unused = {} /\ Terminate
     \/ /\ Unused # {}
        /\ header' = [header EXCEPT ![NewExc] =
                        [Free EXCEPT !.kind = "dependent", !.primaryException = ptr[p]]]
        /\ globals' = [globals EXCEPT ![t].uncaught = @ + 1]
        /\ Push(t, Frame("flight", NewExc))
        /\ UNCHANGED <<ptr, terminated>>

\* __cxa_rethrow_primary_exception: the exception an exception_ptr holds is
\* thrown again, in this thread, through a dependent exception.
__cxa_rethrow_primary_exception(t, p) ==
  /\ Running(t)
  /\ ptr[p] # None
  /\ \/ Unused = {} /\ Terminate
     \/ /\ Unused # {}
        /\ header' = [Increment(header, ptr[p]) EXCEPT ![NewExc] =
                        [Free EXCEPT !.kind = "dependent", !.primaryException = ptr[p]]]
        /\ globals' = [globals EXCEPT ![t].uncaught = @ + 1]
        /\ Push(t, Frame("flight", NewExc))
        /\ UNCHANGED <<ptr, terminated>>

InFlight(t, e) == Frame("flight", e) \in Range(stack[t])
Handlers(t, e) == {i \in DOMAIN stack[t] : stack[t][i] = Frame("catch", e)}

\* (Mutant) the exception is not marked as rethrown.
MarkRethrownNot(t, e) ==
  /\ globals' = [globals EXCEPT ![t].uncaught = @ + 1]
  /\ UNCHANGED header

\* A native exception is marked by a negative handler count; the stack is
\* emptied of a foreign one.
MarkRethrown(t, e) ==
  IF Native(e)
    THEN /\ header' = [header EXCEPT ![e].handlerCount = -@]
         /\ globals' = [globals EXCEPT ![t].uncaught = @ + 1]
    ELSE /\ globals' = [globals EXCEPT ![t].caught = None]
         /\ UNCHANGED header

\* "throw;" rethrows the exception on top of the stack of caught exceptions.
__cxa_rethrow(t) ==
  LET e == globals[t].caught IN
  /\ Running(t)
  /\ RethrowInFlight \/ ~InFlight(t, e)
  /\ \/ e = None /\ Terminate
     \/ /\ e # None
        /\ MarkRethrown(t, e)
        /\ Push(t, Frame("flight", e))
        /\ UNCHANGED <<ptr, terminated>>

-----------------------------------------------------------------------------
(* Handlers *)

Abs(n) == IF n < 0 THEN -n ELSE n

\* (Mutant) a rethrown exception is pushed a second time.
BeginNativePushed(t, e) ==
  /\ header' = [header EXCEPT ![e].handlerCount = Abs(@) + 1,
                              ![e].nextException = globals[t].caught]
  /\ globals' = [globals EXCEPT ![t].caught = e, ![t].uncaught = @ - 1]

\* (Mutant) the exception counts as uncaught while it is handled.
BeginNativeUncaught(t, e) ==
  LET onTop == globals[t].caught = e IN
  /\ header' = [header EXCEPT ![e].handlerCount = Abs(@) + 1,
                              ![e].nextException = IF onTop THEN @ ELSE globals[t].caught]
  /\ globals' = [globals EXCEPT ![t].caught = e]

\* The native part of __cxa_begin_catch: the rethrown mark is removed, and the
\* exception pushed unless a rethrow left it on top of the stack.
BeginNative(t, e) ==
  LET onTop == globals[t].caught = e IN
  /\ header' = [header EXCEPT ![e].handlerCount = Abs(@) + 1,
                              ![e].nextException = IF onTop THEN @ ELSE globals[t].caught]
  /\ globals' = [globals EXCEPT ![t].caught = e, ![t].uncaught = @ - 1]

\* The flight on top of the stack becomes a handler.
EnterHandler(t) ==
  stack' = [stack EXCEPT ![t] = Append(Front(@), Frame("catch", Last(@).exc))]

\* The unwinder reaches a handler for the exception.  A foreign exception can
\* be pushed on an empty stack only.  A second handler for one foreign exception
\* inside the first is undefined behaviour and is left out.
__cxa_begin_catch(t) ==
  LET e == Top(t).exc IN
  /\ ~terminated /\ Flying(t)
  /\ \/ /\ Native(e)
        /\ BeginNative(t, e)
        /\ EnterHandler(t)
        /\ UNCHANGED <<ptr, terminated>>
     \/ /\ ~Native(e)
        /\ globals[t].caught # None
        /\ Terminate
     \/ /\ ~Native(e)
        /\ globals[t].caught = None
        /\ Handlers(t, e) = {}
        /\ globals' = [globals EXCEPT ![t].caught = e]
        /\ EnterHandler(t)
        /\ UNCHANGED <<header, ptr, terminated>>

\* failed_throw and the ends of __cxa_rethrow: there is no handler, or the
\* exception would leave a cleanup.  terminate counts as a handler.
failed_throw(t) ==
  /\ ~terminated /\ Flying(t)
  /\ \/ /\ Native(Top(t).exc)
        /\ BeginNative(t, Top(t).exc)
        /\ EnterHandler(t)
        /\ terminated' = TRUE
        /\ UNCHANGED ptr
     \/ ~Native(Top(t).exc) /\ Terminate

\* The last handler of e is left: the stack is popped; a dependent exception is
\* freed and the reference to the primary one dropped.
Destroy(t, e) ==
  /\ globals' = [globals EXCEPT ![t].caught = header[e].nextException]
  /\ header' = IF header[e].kind = "dependent"
                 THEN Decrement([header EXCEPT ![e] = Free], header[e].primaryException)
                 ELSE Decrement(header, e)

\* (Mutant) the rethrown exception stays on the stack of caught exceptions.
EndRethrownKept(t, e) ==
  /\ header' = [header EXCEPT ![e].handlerCount = @ + 1]
  /\ UNCHANGED globals

\* A handler of a rethrown exception is left: nothing is destroyed.
EndRethrown(t, e) ==
  /\ header' = [header EXCEPT ![e].handlerCount = @ + 1]
  /\ globals' = IF header[e].handlerCount = -1
                  THEN [globals EXCEPT ![t].caught = header[e].nextException]
                  ELSE globals

\* __cxa_end_catch works on the top of the stack of caught exceptions, whatever
\* handler is being left.
__cxa_end_catch(t) ==
  LET e == globals[t].caught IN
  \/ e = None /\ UNCHANGED <<header, globals>>
  \/ e # None /\ Native(e) /\ header[e].handlerCount < 0 /\ EndRethrown(t, e)
  \/ /\ e # None /\ Native(e) /\ header[e].handlerCount > 1
     /\ header' = [header EXCEPT ![e].handlerCount = @ - 1]
     /\ UNCHANGED globals
  \/ e # None /\ Native(e) /\ header[e].handlerCount = 1 /\ Destroy(t, e)
  \/ /\ e # None /\ ~Native(e)
     /\ header' = [header EXCEPT ![e] = Free]       \* _Unwind_DeleteException
     /\ globals' = [globals EXCEPT ![t].caught = None]

\* Control leaves a handler at its end.
LeaveHandler(t) ==
  /\ ~terminated /\ InHandler(t)
  /\ __cxa_end_catch(t)
  /\ stack' = [stack EXCEPT ![t] = Front(@)]
  /\ UNCHANGED <<ptr, terminated>>

\* The unwinder leaves the handler below an exception in flight.
UnwindHandler(t) ==
  LET n == Len(stack[t]) IN
  /\ ~terminated /\ Flying(t)
  /\ n > 1 /\ stack[t][n - 1].kind = "catch"
  /\ __cxa_end_catch(t)
  /\ stack' = [stack EXCEPT ![t] = RemoveAt(@, n - 1)]
  /\ UNCHANGED <<ptr, terminated>>

-----------------------------------------------------------------------------
(* Cleanups, ARM EHABI *)

PushPropagating(t, e) ==
  LET first == header[e].propagationCount = 0 IN
  /\ header' = [header EXCEPT ![e].propagationCount = @ + 1,
                              ![e].nextPropagating = IF first THEN globals[t].propagating ELSE @]
  /\ globals' = IF first THEN [globals EXCEPT ![t].propagating = e] ELSE globals

__cxa_begin_cleanup(t) ==
  LET e == Top(t).exc IN
  /\ ~terminated /\ Flying(t)
  /\ \/ /\ Native(e)
        /\ PushPropagating(t, e)
        /\ Push(t, Frame("cleanup", e))
        /\ UNCHANGED <<ptr, terminated>>
     \/ ~Native(e) /\ globals[t].propagating # None /\ Terminate
     \/ /\ ~Native(e) /\ globals[t].propagating = None
        /\ globals' = [globals EXCEPT ![t].propagating = e]
        /\ Push(t, Frame("cleanup", e))
        /\ UNCHANGED <<header, ptr, terminated>>

\* (Mutant) the stack of propagating exceptions is emptied.
PopPropagatingAll(t, e) ==
  /\ header' = [header EXCEPT ![e].propagationCount = 0, ![e].nextPropagating = None]
  /\ globals' = [globals EXCEPT ![t].propagating = None]

PopPropagating(t, e) ==
  LET last == header[e].propagationCount = 1 IN
  /\ header' = [header EXCEPT ![e].propagationCount = @ - 1,
                              ![e].nextPropagating = IF last THEN None ELSE @]
  /\ globals' = IF last THEN [globals EXCEPT ![t].propagating = header[e].nextPropagating]
                ELSE globals

\* __cxa_end_cleanup: the unwinding of the exception on top of the stack of
\* propagating exceptions resumes.
__cxa_end_cleanup(t) ==
  LET e == globals[t].propagating IN
  /\ ~terminated /\ InCleanup(t)
  /\ IF e = None THEN Terminate
     ELSE /\ IF Native(e) THEN PopPropagating(t, e)
             ELSE globals' = [globals EXCEPT ![t].propagating = None] /\ UNCHANGED header
          /\ stack' = [stack EXCEPT ![t] = Append(Front(Front(@)), Frame("flight", e))]
          /\ UNCHANGED <<ptr, terminated>>

-----------------------------------------------------------------------------
(* exception_ptr *)

\* std::current_exception: __cxa_current_primary_exception.
__cxa_current_primary_exception(t, p) ==
  LET e == globals[t].caught
      primary == IF header[e].kind = "dependent" THEN header[e].primaryException ELSE e IN
  /\ Running(t)
  /\ ptr[p] = None
  /\ e # None /\ Native(e)
  /\ ptr' = [ptr EXCEPT ![p] = primary]
  /\ header' = Increment(header, primary)
  /\ UNCHANGED <<globals, stack, terminated>>

\* The destructor of an exception_ptr.
DropPtr(t, p) ==
  /\ Running(t)
  /\ ptr[p] # None
  /\ ptr' = [ptr EXCEPT ![p] = None]
  /\ header' = Decrement(header, ptr[p])
  /\ UNCHANGED <<globals, stack, terminated>>

-----------------------------------------------------------------------------
\* The threads in which e is handled or in flight.
Users(e) == {t \in Threads : InFlight(t, e) \/ Handlers(t, e) # {}}

\* No exception is destroyed while it is in flight, handled, held by an
\* exception_ptr or by a dependent exception, whatever rethrows, nested
\* handlers and cleanups happen in the threads.
NoUseAfterFree ==
  /\ \A t \in Threads : \A i \in DOMAIN stack[t] : header[stack[t][i].exc].kind # "free"
  /\ \A p \in Ptrs : ptr[p] # None => header[ptr[p]].kind = "primary"
  /\ \A e \in Exc : header[e].kind = "dependent" =>
                      header[header[e].primaryException].kind = "primary"

\* The reference count of a primary exception is the number of its owners: the
\* exception_ptrs and dependent exceptions that refer to it, and the thread in
\* which it is itself in flight or handled.  So it is destroyed with the last
\* owner, and never leaks.
RefCountExact ==
  \A e \in Exc :
    /\ header[e].kind = "primary" =>
         header[e].referenceCount =
             Cardinality({p \in Ptrs : ptr[p] = e})
           + Cardinality({d \in Exc : header[d].kind = "dependent" /\ header[d].primaryException = e})
           + Cardinality(Users(e))
    /\ header[e].kind \in {"dependent", "foreign"} => Cardinality(Users(e)) = 1

\* The handler count of a native exception is the number of handlers active for
\* it, negative exactly while it is in flight after a rethrow.
HandlerCountExact ==
  \A t \in Threads : \A e \in Exc :
    Native(e) /\ t \in Users(e) =>
      header[e].handlerCount = Cardinality(Handlers(t, e)) * IF InFlight(t, e) THEN -1 ELSE 1

\* uncaught_exception() counts the native exceptions in flight.
UncaughtExact ==
  \A t \in Threads :
    globals[t].uncaught =
      Cardinality({i \in DOMAIN stack[t] : stack[t][i].kind = "flight" /\ Native(stack[t][i].exc)})

\* The exception a program sees as the current one ("throw;",
\* current_exception) is that of the innermost active handler, unless that one
\* is foreign.
CurrentIsInnermost ==
  \A t \in Threads :
    LET hs == {i \in DOMAIN stack[t] : stack[t][i].kind = "catch"}
        inner == CHOOSE i \in hs : \A j \in hs : j <= i IN
    IF hs = {} THEN globals[t].caught = None
    ELSE Native(stack[t][inner].exc) => globals[t].caught = stack[t][inner].exc

\* A cleanup is followed by the unwinding of the exception that caused it, also
\* when other exceptions were thrown, unwound and caught inside it.
ResumesOwnException ==
  \A t \in Threads : InCleanup(t) => globals[t].propagating = Top(t).exc
=============================================================================
