---------------------------- MODULE MCAppGlue ----------------------------
(* Instances of AppGlue for TLC.                                           *)
EXTENDS AppGlueHandoff, TLC

\* Windows and heap blocks are interchangeable.
Symmetry == Permutations(Windows) \cup Permutations(Blocks)
=============================================================================
