--------------------------- MODULE EmergencyStash ---------------------------
(***************************************************************************)
(* The exception runtime with the memory it uses (do_malloc and do_free of *)
(* cxa_exception.cpp): the exceptions of CxaException, thrown, shared and  *)
(* destroyed by several threads, take their storage from malloc or, when   *)
(* malloc fails, from the emergency heap of FallbackHeap, and give it back *)
(* where it came from.                                                     *)
(*                                                                         *)
(* All stash chunks have one size: the thrown objects have one type, and   *)
(* dependent exceptions, which are smaller, come from malloc.              *)
(***************************************************************************)
EXTENDS CxaException, FallbackHeap

CONSTANT ThrownSize   \* bytes of a header and its thrown object

ASSUME OwnersAssumption == Owners = Exc

stashVars == <<header, globals, stack, ptr, terminated, freelist, next_node, len, held>>

StashInit == Init /\ HeapInit

\* do_malloc: malloc provides the memory of the new exception, or the stash.
do_malloc(e) ==
  \/ UNCHANGED heapVars
  \/ /\ fallback_malloc(e, ThrownSize)
     /\ held'[e] # NoChunk

\* Both fail, and __cxa_allocate_exception terminates the program.
OutOfMemory(t) ==
  /\ Running(t)
  /\ Unused # {}
  /\ fallback_malloc(NewExc, ThrownSize)
  /\ held' = held
  /\ Terminate

Throw(t) ==
  /\ __cxa_throw(t)
  /\ IF terminated' THEN UNCHANGED heapVars ELSE do_malloc(NewExc)

\* The exceptions from the stash that the step has freed.
FreedFromStash == {e \in Exc : e \in Held /\ header'[e].kind = "free"}

\* (Mutant) the memory of the stash is left to free().
do_freeNever == UNCHANGED heapVars

\* do_free gives the memory back where is_fallback_ptr says it came from.
do_free ==
  IF FreedFromStash = {} THEN UNCHANGED heapVars
  ELSE \E e \in FreedFromStash : fallback_free(e)

\* All other calls of the runtime; some of them free exceptions.
Runtime(t) ==
  /\ \/ ForeignThrow(t) \/ __cxa_rethrow(t)
     \/ __cxa_begin_catch(t) \/ failed_throw(t)
     \/ LeaveHandler(t) \/ UnwindHandler(t)
     \/ __cxa_begin_cleanup(t) \/ __cxa_end_cleanup(t)
     \/ \E p \in Ptrs : \/ __cxa_current_primary_exception(t, p)
                        \/ __cxa_rethrow_primary_exception(t, p)
                        \/ DropPtr(t, p)
  /\ do_free

StashNext == \E t \in Threads : Throw(t) \/ OutOfMemory(t) \/ Runtime(t)

StashSpec == StashInit /\ [][StashNext]_stashVars

-----------------------------------------------------------------------------
\* A chunk of the stash belongs to a living exception with owners: one that is
\* shared by threads through handlers, rethrows and exception_ptrs gives its
\* chunk back with its last reference, and no chunk is leaked.
StashReturned ==
  \A e \in Held : header[e].kind = "primary" /\ header[e].referenceCount > 0
=============================================================================
