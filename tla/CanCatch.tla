------------------------------ MODULE CanCatch ------------------------------
(***************************************************************************)
(* Matching a class handler with a thrown object or pointer in libc++abi   *)
(* (can_catch of __class_type_info and __pointer_type_info), against the   *)
(* rule quoted above can_catch: the handler's class is the thrown class or *)
(* an unambiguous public base of it.                                       *)
(*                                                                         *)
(* An address is a base class object, or NullPtr all the way up when a     *)
(* null pointer was thrown.                                                *)
(***************************************************************************)
EXTENDS ClassGraph

NullPtr == <<>>      \* a thrown null pointer converts to a null pointer

\* The fields of __dynamic_cast_info this search uses.
NewCatchInfo == [leading |-> Null, path |-> "unknown", number |-> 0, done |-> FALSE]

\* (Mutant) a base reached again keeps the access of the first path.
process_found_base_classFirstPath(info, ptr, path) ==
  IF info.leading = Null
    THEN [info EXCEPT !.leading = ptr, !.path = path, !.number = 1]
  ELSE IF info.leading = ptr
    THEN info
  ELSE [info EXCEPT !.number = @ + 1, !.path = "not_public", !.done = TRUE]

process_found_base_class(info, ptr, path) ==
  IF info.leading = Null
    THEN [info EXCEPT !.leading = ptr, !.path = path, !.number = 1]
  ELSE IF info.leading = ptr
    THEN [info EXCEPT !.path = IF @ = "not_public" THEN path ELSE @]
  ELSE [info EXCEPT !.number = @ + 1, !.path = "not_public", !.done = TRUE]

\* (c, ptr) is a node of class c; ptr is NullPtr when the pointer thrown is.
BasePtr(ptr, b) == IF ptr = NullPtr THEN NullPtr ELSE BaseNode(ptr, b)

RECURSIVE has_unambiguous_public_base(_, _, _, _, _)
RECURSIVE PublicBases(_, _, _, _, _, _)

\* The loop of the vmi version from base k on.  search_done is tested after a
\* call, and not after the call for the first base.
PublicBases(info, c, ptr, path, handler, k) ==
  LET b == bases[c][k]
      after(next) == IF k > 1 /\ next.done THEN next
                     ELSE PublicBases(next, c, ptr, path, handler, k + 1)
  IN  IF k > Len(bases[c]) THEN info
      ELSE after(has_unambiguous_public_base(info, b.type, BasePtr(ptr, b),
                                             PathTo(b, path), handler))

has_unambiguous_public_base(info, c, ptr, path, handler) ==
  IF c = handler THEN process_found_base_class(info, ptr, path)
  ELSE IF Kind(c) = "class" THEN info
  ELSE IF Kind(c) = "si"
         THEN has_unambiguous_public_base(info, bases[c][1].type, BasePtr(ptr, bases[c][1]),
                                          path, handler)
  ELSE PublicBases(info, c, ptr, path, handler, 1)

\* can_catch of a class handler, and of a pointer handler for pointers to
\* classes of the same qualifiers: whether it matches, and the adjusted address.
can_catch(handler, thrown, ptr) ==
  LET info == has_unambiguous_public_base(NewCatchInfo, thrown, ptr, "public", handler) IN
  IF handler = thrown THEN [match |-> TRUE, ptr |-> ptr]
  ELSE IF info.path = "public"
         THEN [match |-> TRUE, ptr |-> IF ptr = NullPtr THEN ptr ELSE info.leading]
  ELSE [match |-> FALSE, ptr |-> ptr]

-----------------------------------------------------------------------------
(* The rule *)

Thrown == Len(bases)

BaseObjects(handler) == {n \in NodesAbove(<<Thrown>>) : TypeOf(n) = handler}

\* "T is an unambiguous public base class of E" or E itself.
Matches(handler) ==
  \E n \in BaseObjects(handler) :
    BaseObjects(handler) = {n} /\ n \in PublicAbove(<<Thrown>>)

Follows(handler, ptr) ==
  LET r == can_catch(handler, Thrown, ptr) IN
  /\ r.match <=> Matches(handler)
  /\ r.match => r.ptr = IF ptr = NullPtr THEN NullPtr
                        ELSE CHOOSE n \in BaseObjects(handler) : TRUE

\* A handler for a class catches a thrown object (or non-null pointer) exactly
\* when its class is the thrown one or an unambiguous public base, and gets the
\* address of that base: a public path to the only base object of the class is
\* always found, and a second object of the class is always noticed.  Left out
\* are handlers of a repeated class when the thrown class is diamond shaped.
\* A null pointer follows the same rule when no base is repeated or shared.
CatchesByTheRule ==
  \A h \in Classes :
    /\ \/ Cardinality(BaseObjects(h)) > 1 /\ DiamondShaped(Thrown)
       \/ Follows(h, <<Thrown>>)
    /\ NonDiamondRepeat(Thrown) \/ DiamondShaped(Thrown) \/ Follows(h, NullPtr)
=============================================================================
