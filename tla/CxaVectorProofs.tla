-------------------------- MODULE CxaVectorProofs --------------------------
(***************************************************************************)
(* Proofs about the arrays of CxaVector, for every number and size of      *)
(* elements: the inductive invariant, and from it that elements are built  *)
(* and destroyed once, that nothing is left behind, and that only a second *)
(* exception terminates the program.                                       *)
(***************************************************************************)
EXTENDS CxaVector, TLAPS

\* The program starts without an array.
LEMMA InitInv == VecInit => VecIInv
  BY DEF VecInit, VecIInv, NoArray, NoBlock, NoElements

\* A new array: all elements raw, or all there.
LEMMA NewInv == VecIInv /\ New => VecIInv'
<1> SUFFICES ASSUME VecIInv, New PROVE VecIInv'
  OBVIOUS
<1>1. PICK heap, ctor, dtor \in BOOLEAN, n \in Counts, s \in Sizes, p \in Paddings :
        /\ arr' = [heap |-> heap, count |-> n, size |-> s, pad |-> p, ctor |-> ctor, dtor |-> dtor]
        /\ elem' = [i \in 1 .. n |-> IF ctor THEN "raw" ELSE "built"]
        /\ block' = IF heap THEN [state |-> "live", size |-> HeapSize(n, s, p), freedAs |-> 0]
                    ELSE NoBlock
        /\ stage' = IF ctor THEN "construct" ELSE "ready"
  BY DEF New
<1>2. n \in Nat /\ s \in Nat /\ p \in Nat
  BY ConstantsAssumption
<1> QED
  BY <1>1, <1>2 DEF VecIInv, New, NoBlock

\* The steps of the construction loop.
LEMMA ConstructInv == VecIInv /\ (Construct \/ Constructed \/ ConstructThrows) => VecIInv'
<1> SUFFICES ASSUME VecIInv, Construct \/ Constructed \/ ConstructThrows PROVE VecIInv'
  OBVIOUS
<1>1. CASE Construct
  BY <1>1 DEF VecIInv, Construct
<1>2. CASE Constructed
  BY <1>2 DEF VecIInv, Constructed
<1>3. CASE ConstructThrows
  BY <1>3 DEF VecIInv, ConstructThrows, CleanupFrom
<1> QED
  BY <1>1, <1>2, <1>3

\* The steps of the cleanup loop.
LEMMA CleanupInv == VecIInv /\ (CleanupElement \/ CleanupDone) => VecIInv'
<1> SUFFICES ASSUME VecIInv, CleanupElement \/ CleanupDone PROVE VecIInv'
  OBVIOUS
<1>1. CASE CleanupElement
  BY <1>1 DEF VecIInv, CleanupElement, Destroyed
<1>2. CASE CleanupDone
  BY <1>2 DEF VecIInv, CleanupDone, FreeBlock, Dealloc
<1> QED
  BY <1>1, <1>2

\* delete[] and its loop.
LEMMA DestroyInv == VecIInv /\ (Delete \/ Destroy \/ DestroyDone \/ DestructorThrows) => VecIInv'
<1> SUFFICES ASSUME VecIInv, Delete \/ Destroy \/ DestroyDone \/ DestructorThrows PROVE VecIInv'
  OBVIOUS
<1>1. CASE Delete
  BY <1>1 DEF VecIInv, Delete, DtorGuard, Dealloc
<1>2. CASE Destroy
  BY <1>2 DEF VecIInv, Destroy, Destroyed
<1>3. CASE DestroyDone
  BY <1>3 DEF VecIInv, DestroyDone, Dealloc
<1>4. CASE DestructorThrows
  BY <1>4 DEF VecIInv, DestructorThrows, Destroyed
<1> QED
  BY <1>1, <1>2, <1>3, <1>4

\* Every step keeps the invariant.
LEMMA NextInv == VecIInv /\ [VecNext]_vecVars => VecIInv'
<1> SUFFICES ASSUME VecIInv, [VecNext]_vecVars PROVE VecIInv'
  OBVIOUS
<1>1. CASE Forget
  BY <1>1 DEF VecIInv, Forget, NoArray, NoBlock, NoElements
<1>2. CASE UNCHANGED vecVars
  BY <1>2 DEF VecIInv, vecVars
<1> QED
  BY <1>1, <1>2, NewInv, ConstructInv, CleanupInv, DestroyInv DEF VecNext

\* The invariant gives the three properties.
LEMMA InvImplies == VecIInv => ElementsOnce /\ NothingLeft /\ TerminateOnSecond
  BY DEF VecIInv, ElementsOnce, NothingLeft, TerminateOnSecond

\* Whatever constructor or destructor throws, no element is constructed or
\* destroyed twice, and destruction follows the reverse order of construction.
THEOREM ElementsOnceTheorem == VecSpec => []ElementsOnce
  BY InitInv, NextInv, InvImplies, PTL DEF VecSpec

\* After delete[] or a failed new[], however it ended, no constructed element
\* and no block is left.
THEOREM NothingLeftTheorem == VecSpec => []NothingLeft
  BY InitInv, NextInv, InvImplies, PTL DEF VecSpec

\* std::terminate is called for the second exception in flight, and only then.
THEOREM TerminateOnSecondTheorem == VecSpec => []TerminateOnSecond
  BY InitInv, NextInv, InvImplies, PTL DEF VecSpec
=============================================================================
