---------------------------- MODULE MCTypeInfo ----------------------------
(* Both searches of private_typeinfo.cpp on the same class hierarchies.      *)
EXTENDS DynamicCast, CanCatch
=============================================================================
