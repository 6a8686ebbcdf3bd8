-------------------------- MODULE MCEmergencyStash --------------------------
(* Two threads: the stack of the first is deep, that of the second shallow.  *)
EXTENDS EmergencyStash

CONSTANTS t1, t2, Deep, Shallow

MCThreads == {t1, t2}
MCMaxDepth == [t \in MCThreads |-> IF t = t1 THEN Deep ELSE Shallow]
=============================================================================
