--------------------------- MODULE MCFallbackHeap ---------------------------
(* The emergency heap on its own: its users allocate and free chunks of the  *)
(* sizes Requests in any order.                                              *)
EXTENDS FallbackHeap

CONSTANT Requests   \* bytes asked for

Malloc(o) == held[o] = NoChunk /\ \E bytes \in Requests : fallback_malloc(o, bytes)

FreeChunk(o) == held[o] # NoChunk /\ fallback_free(o)

HeapNext == \E o \in Owners : Malloc(o) \/ FreeChunk(o)

HeapSpec == HeapInit /\ [][HeapNext]_heapVars
=============================================================================
