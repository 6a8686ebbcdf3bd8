----------------------------- MODULE ClassGraph -----------------------------
(***************************************************************************)
(* The type_info objects the compiler emits for a class hierarchy, as      *)
(* private_typeinfo.h of libc++abi declares them, and the graph of base    *)
(* class objects of a complete object.                                     *)
(*                                                                         *)
(* The classes are numbered in the order of their definition; class c has  *)
(* the direct bases bases[c], a sequence of __base_class_type_info.  A     *)
(* base class object is the sequence of classes on the way to it from the  *)
(* complete object or, below a virtual base, from that base: two objects   *)
(* are the same exactly when these sequences are, as (address, type) pairs *)
(* are in C++.                                                             *)
(***************************************************************************)
EXTENDS Naturals, Sequences, FiniteSets, SequencesExt

CONSTANTS
  MaxClasses,   \* classes in a hierarchy (bound)
  MaxBases,     \* direct bases of a class (bound)
  MaxMixed      \* classes of the hierarchies with bases that are not public
                \* (bound)

ASSUME BoundsAssumption == {MaxClasses, MaxBases, MaxMixed} \subseteq Nat

VARIABLE bases

Classes == 1 .. Len(bases)

Init == bases = <<>>

\* A direct base list: distinct earlier classes, in any order.
BaseLists(c) ==
  {l \in UNION {[1 .. n -> [type : 1 .. c - 1, virtual : BOOLEAN, public : BOOLEAN]] :
                  n \in 0 .. MaxBases} :
     \A i, j \in DOMAIN l : i # j => l[i].type # l[j].type}

AllPublic(l) == \A i \in DOMAIN l : l[i].public

\* The translation unit defines one more class.
Next ==
  /\ Len(bases) < MaxClasses
  /\ \E l \in BaseLists(Len(bases) + 1) :
       /\ Len(bases) < MaxMixed \/ (AllPublic(l) /\ \A c \in Classes : AllPublic(bases[c]))
       /\ bases' = Append(bases, l)

Spec == Init /\ [][Next]_bases

-----------------------------------------------------------------------------
Null == <<>>   \* no object

TypeOf(node) == Last(node)

\* The base class object at the other end of base b of node: a virtual base
\* is one object, however it is reached.
BaseNode(node, b) == IF b.virtual THEN <<b.type>> ELSE Append(node, b.type)

\* The access of the path grown by one base, as the three convenience functions
\* of __base_class_type_info compute it.
PathTo(b, path) == IF b.public THEN path ELSE "not_public"

RECURSIVE NodesAbove(_)
\* All base class objects of node, node included.
NodesAbove(node) ==
  {node} \cup UNION {NodesAbove(BaseNode(node, bases[TypeOf(node)][i])) :
                       i \in DOMAIN bases[TypeOf(node)]}

RECURSIVE PublicAbove(_)
\* Those reached along public bases only.
PublicAbove(node) ==
  {node} \cup UNION {PublicAbove(BaseNode(node, bases[TypeOf(node)][i])) :
                       i \in {j \in DOMAIN bases[TypeOf(node)] : bases[TypeOf(node)][j].public}}

RECURSIVE Derives(_, _)
Derives(c, d) ==
  \E i \in DOMAIN bases[c] : bases[c][i].type = d \/ Derives(bases[c][i].type, d)

\* __class_type_info: no base.  __si_class_type_info: one public non-virtual
\* base at offset zero.  __vmi_class_type_info: anything else.
Kind(c) ==
  IF bases[c] = <<>> THEN "class"
  ELSE IF Len(bases[c]) = 1 /\ bases[c][1].public /\ ~bases[c][1].virtual THEN "si"
  ELSE "vmi"

\* __non_diamond_repeat_mask: two or more distinct base class objects of the
\* same type.
NonDiamondRepeat(c) ==
  \E m, n \in NodesAbove(<<c>>) : m # n /\ TypeOf(m) = TypeOf(n)

\* __diamond_shaped_mask: a base class object with two or more derived objects.
DiamondShaped(c) ==
  LET nodes == NodesAbove(<<c>>)
      edges == {<<m, i>> : m \in nodes, i \in 1 .. MaxBases} IN
  \E x, y \in {e \in edges : e[2] \in DOMAIN bases[TypeOf(e[1])]} :
    /\ x # y
    /\ BaseNode(x[1], bases[TypeOf(x[1])][x[2]]) = BaseNode(y[1], bases[TypeOf(y[1])][y[2]])
=============================================================================
