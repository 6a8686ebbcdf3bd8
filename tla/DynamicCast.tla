----------------------------- MODULE DynamicCast -----------------------------
(***************************************************************************)
(* __dynamic_cast of libc++abi (private_typeinfo.cpp): the search of the   *)
(* graph of base class objects with its premature exits, against the       *)
(* result the comment above the function promises.                         *)
(*                                                                         *)
(* An info record is __dynamic_cast_info; the search functions take it and *)
(* return it as the C++ functions leave it.                                *)
(***************************************************************************)
EXTENDS ClassGraph

\* __dynamic_cast_info info = {dst_type, static_ptr, static_type, ..., 0}
NewInfo(dst, sptr, numberOfDst) ==
  [dst_type |-> dst, static_ptr |-> sptr,
   leading |-> Null, notLeading |-> Null,           \* dst_ptr_(not_)leading_to_static_ptr
   dstToStatic |-> "unknown", dynToStatic |-> "unknown", dynToDst |-> "unknown",
   toStatic |-> 0, toDst |-> 0,                     \* number_to_static_ptr, number_to_dst_ptr
   derived |-> "unknown",                           \* is_dst_type_derived_from_static_type
   ofDst |-> numberOfDst,                           \* number_of_dst_type
   ours |-> FALSE, any |-> FALSE, done |-> FALSE]

ZeroFound(info) == [info EXCEPT !.ours = FALSE, !.any = FALSE]

\* A static_type above a dst_type has been hit.
process_static_type_above_dst(info, dst, cur, path) ==
  LET found == [info EXCEPT !.any = TRUE]
      ours == [found EXCEPT !.ours = TRUE]
      first == [ours EXCEPT !.leading = dst, !.dstToStatic = path, !.toStatic = 1]
      again == [ours EXCEPT !.dstToStatic = IF @ = "not_public" THEN path ELSE @]
      stop(i) == [i EXCEPT !.done = @ \/ (i.ofDst = 1 /\ i.dstToStatic = "public")]
  IN  IF cur # info.static_ptr THEN found
      ELSE IF info.leading = Null THEN stop(first)
      ELSE IF info.leading = dst THEN stop(again)
      ELSE [ours EXCEPT !.toStatic = @ + 1, !.done = TRUE]

\* A static_type not above a dst_type has been hit.
process_static_type_below_dst(info, cur, path) ==
  IF cur = info.static_ptr /\ info.dynToStatic # "public"
    THEN [info EXCEPT !.dynToStatic = path]
    ELSE info

\* Whether __vmi_class_type_info::search_above_dst stops before the next base.
StopAbove(info, c) ==
  \/ info.done
  \/ info.ours /\ (info.dstToStatic = "public" \/ ~DiamondShaped(c))
  \/ ~info.ours /\ info.any /\ ~NonDiamondRepeat(c)

RECURSIVE search_above_dst(_, _, _, _)
RECURSIVE AboveBases(_, _, _, _, _)

\* The loop over the bases of a __vmi_class_type_info, from base k on.
AboveBases(info, dst, cur, path, k) ==
  LET c == TypeOf(cur)
      b == bases[c][k]
      next == search_above_dst(ZeroFound(info), dst, BaseNode(cur, b), PathTo(b, path))
  IN  IF k > Len(bases[c]) \/ (k > 1 /\ StopAbove(info, c)) THEN info
      ELSE AboveBases(next, dst, cur, path, k + 1)

search_above_dst(info, dst, cur, path) ==
  LET c == TypeOf(cur) IN
  IF c = TypeOf(info.static_ptr) THEN process_static_type_above_dst(info, dst, cur, path)
  ELSE IF Kind(c) = "class" THEN info
  ELSE IF Kind(c) = "si"
         THEN search_above_dst(info, dst, BaseNode(cur, bases[c][1]), path)
  ELSE [AboveBases(info, dst, cur, path, 1) EXCEPT !.ours = info.ours, !.any = info.any]

\* A dst_type whose bases do not lead to (static_ptr, static_type).
RecordNotLeading(info, cur) ==
  [info EXCEPT !.notLeading = cur, !.toDst = @ + 1,
               !.done = @ \/ (info.toStatic = 1 /\ info.dstToStatic = "not_public")]

\* The loop of search_below_dst over the bases of a dst_type; acc collects
\* is_dst_type_derived_from_static_type and does_dst_type_point_to_our_static_type.
Noted(acc, info) ==
  [info |-> info,
   derived |-> acc.derived \/ (~info.done /\ info.any),
   points |-> acc.points \/ (~info.done /\ info.any /\ info.ours)]

\* Whether that loop stops after a base whose search left info.
StopDst(info, c) ==
  \/ info.done
  \/ /\ info.any
     /\ IF info.ours THEN info.dstToStatic = "public" \/ ~DiamondShaped(c)
                     ELSE ~NonDiamondRepeat(c)

RECURSIVE DstBases(_, _, _)
DstBases(acc, cur, k) ==
  LET c == TypeOf(cur)
      b == bases[c][k]
      after(info) == IF StopDst(info, c) THEN Noted(acc, info)
                     ELSE DstBases(Noted(acc, info), cur, k + 1)
  IN  IF k > Len(bases[c]) THEN acc
      ELSE after(search_above_dst(ZeroFound(acc.info), cur, BaseNode(cur, b),
                                  PathTo(b, "public")))

\* The si version makes one call and does not look at search_done.
DstBase(info, cur) ==
  LET noted(i) == [info |-> i, derived |-> i.any, points |-> i.any /\ i.ours]
  IN  noted(search_above_dst(ZeroFound(info), cur,
                             BaseNode(cur, bases[TypeOf(cur)][1]), "public"))

\* A dst_type has been hit for the first time.  A dst_type known not to derive
\* from static_type is not recorded by the si and vmi versions.
NewDst(info, cur, path) ==
  LET c == TypeOf(cur)
      here == [info EXCEPT !.dynToDst = path]
      none == [info |-> here, derived |-> FALSE, points |-> FALSE]
      end(acc) == [IF acc.points THEN acc.info ELSE RecordNotLeading(acc.info, cur)
                   EXCEPT !.derived = IF acc.derived THEN "yes" ELSE "no"]
  IN  IF Kind(c) = "class" THEN [RecordNotLeading(here, cur) EXCEPT !.derived = "no"]
      ELSE IF info.derived = "no" THEN here
      ELSE end(IF Kind(c) = "si" THEN DstBase(here, cur) ELSE DstBases(none, cur, 1))

\* (Mutant) a dst_type hit again is counted again.
SeenDstCounted(info, path) ==
  [info EXCEPT !.dynToDst = IF path = "public" THEN path ELSE @, !.toDst = @ + 1]

\* A dst_type has been hit again: the path to it may now be public.
SeenDst(info, path) ==
  IF path = "public" THEN [info EXCEPT !.dynToDst = "public"] ELSE info

\* Which of the three loops of search_below_dst runs is decided after the
\* first base.
BelowLoop(info, c) ==
  IF DiamondShaped(c) \/ info.toStatic = 1 THEN "diamond"
  ELSE IF NonDiamondRepeat(c) THEN "repeat" ELSE "plain"

\* (Mutant) the search stops as soon as a dst_type leads to static_ptr.
StopBelowFirst(info, loop) == info.done \/ info.toStatic = 1

\* Whether a loop of search_below_dst stops before the next base.
StopBelow(info, loop) ==
  \/ info.done
  \/ loop = "repeat" /\ info.toStatic = 1 /\ info.dstToStatic = "public"
  \/ loop = "plain" /\ info.toStatic = 1

RECURSIVE search_below_dst(_, _, _)
RECURSIVE BelowBases(_, _, _, _, _)

BelowBases(info, cur, path, loop, k) ==
  LET c == TypeOf(cur)
      b == bases[c][k]
  IN  IF k > Len(bases[c]) \/ StopBelow(info, loop) THEN info
      ELSE BelowBases(search_below_dst(info, BaseNode(cur, b), PathTo(b, path)),
                      cur, path, loop, k + 1)

search_below_dst(info, cur, path) ==
  LET c == TypeOf(cur)
      b == bases[c][1]
      first == search_below_dst(info, BaseNode(cur, b), PathTo(b, path))
      rest(i) == BelowBases(i, cur, path, BelowLoop(i, c), 2)
  IN  IF c = TypeOf(info.static_ptr) THEN process_static_type_below_dst(info, cur, path)
      ELSE IF c = info.dst_type
             THEN IF cur \in {info.leading, info.notLeading}
                    THEN SeenDst(info, path) ELSE NewDst(info, cur, path)
      ELSE IF Kind(c) = "class" THEN info
      ELSE IF Kind(c) = "si" THEN first
      ELSE rest(first)

\* What __dynamic_cast makes of the data its search collected.
Answer(info) ==
  LET viaDynamic == info.dynToStatic = "public" /\ info.dynToDst = "public" IN
  IF info.toStatic = 0 /\ info.toDst = 1 /\ viaDynamic THEN info.notLeading
  ELSE IF info.toStatic = 1 /\ (info.dstToStatic = "public" \/ (info.toDst = 0 /\ viaDynamic))
         THEN info.leading
  ELSE Null

__dynamic_cast(sptr, dynamic, dst) ==
  LET short == search_above_dst(NewInfo(dst, sptr, 1), dynamic, dynamic, "public") IN
  IF TypeOf(dynamic) = dst
    THEN IF short.dstToStatic = "public" THEN dynamic ELSE Null
    ELSE Answer(search_below_dst(NewInfo(dst, sptr, 0), dynamic, "public"))

-----------------------------------------------------------------------------
(* What the comment of __dynamic_cast promises *)

Dsts(dynamic, dst) == {n \in NodesAbove(dynamic) : TypeOf(n) = dst}

\* dst_types of flavor 1: those below (static_ptr, static_type).
Flavor1(sptr, dynamic, dst) == {d \in Dsts(dynamic, dst) : sptr \in NodesAbove(d)}

Promised(sptr, dynamic, dst) ==
  LET f1 == Flavor1(sptr, dynamic, dst)
      f2 == Dsts(dynamic, dst) \ f1
      viaDynamic(d) == {sptr, d} \subseteq PublicAbove(dynamic)
  IN  IF Cardinality(f1) = 1
        THEN LET d == CHOOSE d \in f1 : TRUE IN
             IF sptr \in PublicAbove(d) \/ (f2 = {} /\ viaDynamic(d)) THEN d ELSE Null
      ELSE IF f1 = {} /\ Cardinality(f2) = 1 /\ viaDynamic(CHOOSE d \in f2 : TRUE)
             THEN CHOOSE d \in f2 : TRUE
      ELSE Null

\* The casts the compiler leaves to the run time: of a base class object of a
\* complete object of the newest class to another class, neither of them being
\* a base of the other in the wrong direction.
Casts ==
  IF bases = <<>> THEN {}
  ELSE LET D == <<Len(bases)>> IN
       {<<s, d>> \in (NodesAbove(D) \ {D}) \X Classes :
          d # TypeOf(s) /\ ~Derives(TypeOf(s), d)}

Correct(s, d) ==
  __dynamic_cast(s, <<Len(bases)>>, d) = Promised(s, <<Len(bases)>>, d)

\* No __vmi_class_type_info lies between dst_type and static_type.  Its
\* search_above_dst restores the "found" flags its caller had, so a static_type
\* found above it is not reported to the dst_type below it.
Direct(d, s) ==
  \A c \in Classes : Derives(d, c) /\ Derives(c, s) => Kind(c) = "si"

\* When dst_type derives from static_type with nothing but single public bases
\* in between, __dynamic_cast returns the object its comment promises, for
\* every hierarchy below and around: the premature exits driven by the diamond
\* and repeat flags, the counters and search_done lose neither an ambiguity nor
\* a public path.
DownCastAsPromised ==
  \A c \in Casts :
    Derives(c[2], TypeOf(c[1])) /\ Direct(c[2], TypeOf(c[1])) => Correct(c[1], c[2])

\* A cast to a class that does not derive from static_type (a cross cast)
\* returns the object its comment promises if the complete object has at most
\* one base object of that class.
CrossCastAsPromised ==
  \A c \in Casts :
    /\ ~Derives(c[2], TypeOf(c[1]))
    /\ Cardinality(Dsts(<<Len(bases)>>, c[2])) <= 1
    => Correct(c[1], c[2])

\* "If there is exactly one dst_type of flavor 1 ... Else return nullptr": the
\* whole promise for casts to a class derived from static_type.
CastAsPromised ==
  \A c \in Casts : Derives(c[2], TypeOf(c[1])) => Correct(c[1], c[2])
=============================================================================
