----------------------------- MODULE CxaVector -----------------------------
(***************************************************************************)
(* Arrays of objects in libc++abi (cxa_vector.cpp): new[] and delete[] of  *)
(* an array with a cookie, the loops that construct, copy and destroy its  *)
(* elements, and what their guard objects do when a constructor or a       *)
(* destructor throws.                                                      *)
(*                                                                         *)
(* One array at a time.  stage is where the runtime is; in "construct",    *)
(* "destroy" and "cleanup" the next step calls a constructor or destructor *)
(* of the program, which may throw.  size_t has Width bits.                *)
(***************************************************************************)
EXTENDS Integers, Sequences

CONSTANTS
  Width,        \* bits of a size_t (bound)
  Counts,       \* element_count
  Sizes,        \* element_size
  Paddings      \* padding_size: zero, or room for the cookie

ASSUME ConstantsAssumption ==
  Width \in Nat /\ Counts \subseteq Nat /\ Sizes \subseteq Nat /\ Paddings \subseteq Nat

VARIABLES
  arr,      \* the array: how it was made, its sizes, its functions
  elem,     \* state of each element
  block,    \* the heap block: its size, and the size it was freed with
  stage,
  idx,      \* the loop variable of the running loop
  terminateGuard,    \* whether the st_terminate guard of the running loop is enabled
  thrown    \* exceptions in flight

vecVars == <<arr, elem, block, stage, idx, terminateGuard, thrown>>

NoBlock == [state |-> "none", size |-> 0, freedAs |-> 0]
NoArray == [heap |-> FALSE, count |-> 0, size |-> 1, pad |-> 0, ctor |-> FALSE, dtor |-> FALSE]
NoElements == [i \in 1 .. 0 |-> "raw"]

VecInit ==
  /\ arr = NoArray
  /\ elem = NoElements
  /\ block = NoBlock
  /\ stage = "none"
  /\ idx = 0
  /\ terminateGuard = "off"
  /\ thrown = 0

-----------------------------------------------------------------------------
\* element_count * element_size + padding_size, as a size_t.
HeapSize(count, size, pad) == (count * size + pad) % 2^Width

\* The destructors of the heap guards: st_heap_block3 passes a size on.
Dealloc(size) == block' = [state |-> "freed", size |-> block.size, freedAs |-> size]

\* __cxa_vec_new2 or new3 (heap), or __cxa_vec_ctor and __cxa_vec_cctor of an
\* array that lives elsewhere.  When alloc returns NULL nothing happens.  The
\* elements of a type without a constructor are there at once.
New ==
  /\ stage = "none"
  /\ \E heap, ctor, dtor \in BOOLEAN, n \in Counts, s \in Sizes, p \in Paddings :
       /\ IF heap THEN p = 0 => ~dtor ELSE p = 0
       /\ arr' = [heap |-> heap, count |-> n, size |-> s, pad |-> p, ctor |-> ctor, dtor |-> dtor]
       /\ elem' = [i \in 1 .. n |-> IF ctor THEN "raw" ELSE "built"]
       /\ block' = IF heap THEN [state |-> "live", size |-> HeapSize(n, s, p), freedAs |-> 0]
                   ELSE NoBlock
       /\ stage' = IF ctor THEN "construct" ELSE "ready"
  /\ idx' = 0
  /\ UNCHANGED <<terminateGuard, thrown>>

-----------------------------------------------------------------------------
\* The constructor of element idx returns, and the loop goes on or ends.
Construct ==
  /\ stage = "construct" /\ idx < arr.count
  /\ elem' = [elem EXCEPT ![idx + 1] = IF @ = "raw" THEN "built" ELSE "twice"]
  /\ idx' = idx + 1
  /\ UNCHANGED <<arr, block, stage, terminateGuard, thrown>>

Constructed ==
  /\ stage = "construct" /\ idx = arr.count
  /\ stage' = "ready"
  /\ UNCHANGED <<arr, elem, block, idx, terminateGuard, thrown>>

\* (Mutant) the cleanup is given the number of elements, not of constructed ones.
CleanupFromEnd == idx' = arr.count

\* ~st_cxa_cleanup passes the loop variable, by reference, to __cxa_vec_cleanup.
CleanupFrom == idx' = idx

\* It throws: the guard objects of __cxa_vec_ctor run.
ConstructThrows ==
  /\ stage = "construct" /\ idx < arr.count
  /\ thrown' = thrown + 1
  /\ CleanupFrom
  /\ stage' = "cleanup"
  /\ terminateGuard' = "on"
  /\ UNCHANGED <<arr, elem, block>>

Destroyed(i) == [elem EXCEPT ![i] = IF @ = "built" THEN "dead" ELSE "twice"]

\* One turn of the loop of __cxa_vec_cleanup.
CleanupElement ==
  /\ stage = "cleanup" /\ arr.dtor /\ idx > 0
  /\ elem' = Destroyed(idx)
  /\ idx' = idx - 1
  /\ UNCHANGED <<arr, block, stage, terminateGuard, thrown>>

\* (Mutant) the block is left to the caller.
FreeBlockNot == UNCHANGED block

\* The heap guard of the function that called the loop.
FreeBlock ==
  IF arr.heap THEN Dealloc(HeapSize(arr.count, arr.size, arr.pad)) ELSE UNCHANGED block

\* The cleanup ends, the block is freed, and the exception goes on to the caller.
CleanupDone ==
  /\ stage = "cleanup" /\ (idx = 0 \/ ~arr.dtor)
  /\ FreeBlock
  /\ stage' = "gone"
  /\ terminateGuard' = "off"
  /\ UNCHANGED <<arr, elem, idx, thrown>>

-----------------------------------------------------------------------------
\* st_terminate exception_guard (__cxa_uncaught_exception ())
DtorGuard == thrown > 0

\* (Mutant) the padding is not part of the size passed on.
DeleteSizeUnpadded(a) == HeapSize(IF a.pad # 0 THEN a.count ELSE 0, a.size, 0)

\* The size __cxa_vec_delete3 passes on: without a cookie the count is unknown.
DeleteSize(a) == HeapSize(IF a.pad # 0 THEN a.count ELSE 0, a.size, a.pad)

\* __cxa_vec_delete2 and delete3 (heap) or __cxa_vec_dtor, called normally or
\* while an exception unwinds the caller.
Delete ==
  /\ stage = "ready"
  /\ thrown' \in {0, 1}
  /\ IF arr.dtor
       THEN /\ stage' = "destroy"
            /\ terminateGuard' = IF (DtorGuard)' THEN "on" ELSE "off"
            /\ UNCHANGED block
       ELSE /\ stage' = "gone"
            /\ IF arr.heap THEN Dealloc(DeleteSize(arr)) ELSE UNCHANGED block
            /\ UNCHANGED terminateGuard
  /\ idx' = arr.count
  /\ UNCHANGED <<arr, elem>>

\* One turn of the loop of __cxa_vec_dtor: idx is decremented first.
Destroy ==
  /\ stage = "destroy" /\ idx > 0
  /\ elem' = Destroyed(idx)
  /\ idx' = idx - 1
  /\ UNCHANGED <<arr, block, stage, terminateGuard, thrown>>

DestroyDone ==
  /\ stage = "destroy" /\ idx = 0
  /\ IF arr.heap THEN Dealloc(DeleteSize(arr)) ELSE UNCHANGED block
  /\ stage' = "gone"
  /\ terminateGuard' = "off"
  /\ UNCHANGED <<arr, elem, idx, thrown>>

\* A destructor throws: with an enabled guard the program terminates, otherwise
\* __cxa_vec_cleanup destroys the remaining elements.
DestructorThrows ==
  /\ stage \in {"destroy", "cleanup"} /\ arr.dtor /\ idx > 0
  /\ elem' = Destroyed(idx)
  /\ thrown' = thrown + 1
  /\ idx' = idx - 1
  /\ stage' = IF terminateGuard = "on" THEN "terminated" ELSE "cleanup"
  /\ terminateGuard' = "on"
  /\ UNCHANGED <<arr, block>>

\* The program is done with the array and with the exception.
Forget ==
  /\ stage = "gone"
  /\ arr' = NoArray /\ elem' = NoElements /\ block' = NoBlock /\ stage' = "none"
  /\ idx' = 0 /\ terminateGuard' = "off" /\ thrown' = 0

VecNext ==
  \/ New \/ Construct \/ Constructed \/ ConstructThrows
  \/ CleanupElement \/ CleanupDone
  \/ Delete \/ Destroy \/ DestroyDone \/ DestructorThrows \/ Forget

VecSpec == VecInit /\ [][VecNext]_vecVars

-----------------------------------------------------------------------------
\* No element is constructed or destroyed twice, or destroyed without having
\* been constructed, whatever throws; and elements are destroyed in the reverse
\* order of their construction.
ElementsOnce ==
  /\ \A i \in DOMAIN elem : elem[i] # "twice"
  /\ \A i, j \in DOMAIN elem : i < j /\ elem[j] = "built" => elem[i] = "built"

\* When the array is gone, after a delete[], a throwing constructor or a
\* throwing destructor, no constructed element and no block is left.
NothingLeft ==
  stage = "gone" =>
    /\ block.state # "live"
    /\ arr.dtor => \A i \in DOMAIN elem : elem[i] # "built"

\* "If the destructor throws a second exception, call terminate()": the program
\* is terminated by the second exception and never by the first.
TerminateOnSecond ==
  /\ stage = "terminated" => thrown >= 2
  /\ thrown >= 2 => stage = "terminated"

\* The inductive invariant: in each loop the elements below idx are the
\* constructed ones, the block lives until the last phase, and a loop runs
\* guarded exactly when an exception is in flight.
VecIInv ==
  /\ arr \in [heap : BOOLEAN, count : Nat, size : Nat, pad : Nat, ctor : BOOLEAN, dtor : BOOLEAN]
  /\ elem \in [1 .. arr.count -> {"raw", "built", "dead"}]
  /\ idx \in 0 .. arr.count
  /\ thrown \in 0 .. 2 /\ terminateGuard \in {"on", "off"}
  /\ stage \in {"none", "construct", "ready", "destroy", "cleanup", "gone", "terminated"}
  /\ (block.state = "live" <=> arr.heap /\ stage \notin {"none", "gone"})
  /\ \A i, j \in 1 .. arr.count : i < j /\ elem[j] = "built" => elem[i] = "built"
  /\ \A i \in 1 .. arr.count :
       /\ stage \in {"construct", "destroy", "cleanup"} => (elem[i] = "built" <=> i <= idx)
       /\ stage = "construct" => (elem[i] = "raw" <=> i > idx)
       /\ stage = "ready" => elem[i] = "built"
       /\ stage = "gone" /\ arr.dtor => elem[i] # "built"
  /\ stage \in {"none", "construct", "ready"} => thrown = 0
  /\ stage = "destroy" => arr.dtor
  /\ stage \in {"destroy", "cleanup"} => (terminateGuard = "on" <=> thrown > 0)
  /\ stage = "cleanup" => thrown = 1
  /\ (thrown = 2 <=> stage = "terminated")

\* The block of an array has room for its elements and the cookie, and
\* "the deallocation function takes both the object address and its size": when
\* a cookie tells delete[] the number of elements,
\* the block is freed with the size it was allocated with.
BlockFits ==
  arr.heap /\ stage # "none" =>
    /\ arr.count * arr.size + arr.pad <= block.size
    /\ stage = "gone" /\ arr.pad # 0 => block.freedAs = block.size
=============================================================================
