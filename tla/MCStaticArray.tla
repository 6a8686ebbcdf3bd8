--------------------------- MODULE MCStaticArray ---------------------------
(* Three threads and two statics; the initialiser of the first, the array,  *)
(* uses the second.                                                         *)
EXTENDS StaticArray

CONSTANTS t1, t2, t3, g1, g2

MCThreads == {t1, t2, t3}
MCGuards == {g1, g2}
MCUses == {<<g1, g2>>}
=============================================================================
