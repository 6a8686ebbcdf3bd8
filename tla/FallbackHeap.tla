---------------------------- MODULE FallbackHeap ----------------------------
(***************************************************************************)
(* The emergency heap of libc++abi (fallback_malloc.ipp), from which       *)
(* exception objects are allocated when malloc fails.                      *)
(*                                                                         *)
(* The heap is an array of units of four bytes.  A chunk is a header unit  *)
(* (next_node, len) and len - 1 units behind it.  Every call holds         *)
(* heap_mutex throughout, so a call is one step.  Only the header words    *)
(* are modelled: the library never looks at the contents of a chunk.       *)
(***************************************************************************)
EXTENDS Naturals, Sequences, FiniteSets, FiniteSetsExt, SequencesExt

CONSTANTS
  HeapUnits,   \* HEAP_SIZE / sizeof(heap_node)
  Owners       \* the users of the heap, with one chunk each at a time

ASSUME HeapUnitsAssumption == HeapUnits \in Nat \ {0}

VARIABLES
  freelist,    \* offset of the first free chunk, list_end or NULL
  next_node,   \* the two header fields, by offset of the header
  len,
  held         \* held[o]: the chunk o has, as the offset of its header and the
               \* units asked for, header included; or NoChunk

heapVars == <<freelist, next_node, len, held>>

NULL == HeapUnits + 1
list_end == HeapUnits
Offsets == 0 .. HeapUnits - 1
UnitSize == 4

NoChunk == [at |-> NULL, units |-> 0]

HeapInit ==
  /\ freelist = NULL
  /\ next_node = [i \in Offsets |-> 0]
  /\ len = [i \in Offsets |-> 0]
  /\ held = [o \in Owners |-> NoChunk]

\* How big a chunk is needed: the request rounded up, and the header.
alloc_size(n) == (n + UnitSize - 1) \div UnitSize + 1

after(p, ln) == p + ln[p]

\* The offsets the loop for (p = freelist; p && p != list_end; p = next) visits,
\* in order; a list longer than the heap has a cycle and is cut.
FreeChain(first, nx) ==
  LET visit[k \in 0 .. HeapUnits] ==
        IF k = 0 THEN <<first>>
        ELSE LET seen == visit[k - 1]
             IN  IF Last(seen) \in Offsets THEN Append(seen, nx[Last(seen)]) ELSE seen
  IN  SelectSeq(visit[HeapUnits], LAMBDA p : p \in Offsets)

\* init_heap: one free chunk, the whole heap.
Heap0 ==
  IF freelist = NULL
    THEN [first |-> 0,
          next  |-> [next_node EXCEPT ![0] = list_end],
          len   |-> [len EXCEPT ![0] = HeapUnits]]
    ELSE [first |-> freelist, next |-> next_node, len |-> len]

\* Indices of the chunks of a chain that satisfy a test; the loop stops at the
\* smallest.
Hits(chain, Test(_)) == {i \in 1 .. Len(chain) : Test(chain[i])}

\* (Mutant) the chunk keeps its length, so its tail is handed out again.
SplitKeepsLength(o, h, p, n) ==
  LET q == p + h.len[p] - n IN
  /\ freelist' = h.first
  /\ next_node' = [h.next EXCEPT ![q] = 0]
  /\ len' = [h.len EXCEPT ![q] = n]
  /\ held' = [held EXCEPT ![o] = [at |-> q, units |-> n]]

\* The chunk is larger: shorten it and return its tail.
Split(o, h, p, n) ==
  LET q == p + h.len[p] - n IN
  /\ freelist' = h.first
  /\ next_node' = [h.next EXCEPT ![q] = 0]
  /\ len' = [h.len EXCEPT ![p] = @ - n, ![q] = n]
  /\ held' = [held EXCEPT ![o] = [at |-> q, units |-> n]]

\* Exact size match: take the chunk out of the list.
Unlink(o, h, chain, i, n) ==
  LET p == chain[i] IN
  /\ freelist' = IF i = 1 THEN h.next[p] ELSE h.first
  /\ next_node' = [j \in Offsets |->
                     IF j = p THEN 0
                     ELSE IF i > 1 /\ j = chain[i - 1] THEN h.next[p]
                     ELSE h.next[j]]
  /\ len' = h.len
  /\ held' = [held EXCEPT ![o] = [at |-> p, units |-> n]]

fallback_malloc(o, bytes) ==
  LET n == alloc_size(bytes)
      h == Heap0
      chain == FreeChain(h.first, h.next)
      fits == Hits(chain, LAMBDA p : h.len[p] >= n)
  IN  \/ /\ fits = {}                               \* returns NULL
         /\ freelist' = h.first
         /\ next_node' = h.next
         /\ len' = h.len
         /\ UNCHANGED held
      \/ /\ fits # {}
         /\ LET i == Min(fits) IN
              \/ h.len[chain[i]] > n /\ Split(o, h, chain[i], n)
              \/ h.len[chain[i]] = n /\ Unlink(o, h, chain, i, n)

\* A free chunk ends where cp starts: make it larger.
MergeBehind(p, cp) ==
  /\ len' = [len EXCEPT ![p] = @ + len[cp]]
  /\ UNCHANGED <<freelist, next_node>>

\* A free chunk starts where cp ends: cp takes its place in the list.  The
\* code copies its next_node only when it was the first one.
MergeBefore(chain, i, cp) ==
  LET p == chain[i] IN
  /\ len' = [len EXCEPT ![cp] = @ + len[p]]
  /\ \/ /\ i = 1
        /\ freelist' = cp
        /\ next_node' = [next_node EXCEPT ![cp] = next_node[p]]
     \/ /\ i > 1
        /\ freelist' = freelist
        /\ next_node' = [next_node EXCEPT ![chain[i - 1]] = cp]

\* Nothing to merge with: cp becomes the first free chunk.
PushFree(cp) ==
  /\ next_node' = [next_node EXCEPT ![cp] = freelist]
  /\ freelist' = cp
  /\ UNCHANGED len

fallback_free(o) ==
  LET cp == held[o].at
      chain == FreeChain(freelist, next_node)
      near == Hits(chain, LAMBDA p : after(p, len) = cp \/ after(cp, len) = p)
  IN  /\ held' = [held EXCEPT ![o] = NoChunk]
      /\ \/ near = {} /\ PushFree(cp)
         \/ /\ near # {}
            /\ LET i == Min(near) IN
                 \/ after(chain[i], len) = cp /\ MergeBehind(chain[i], cp)
                 \/ after(chain[i], len) # cp /\ MergeBefore(chain, i, cp)

-----------------------------------------------------------------------------
(* Properties *)

Chain == FreeChain(freelist, next_node)
Held == {o \in Owners : held[o] # NoChunk}
Units(c, n) == c .. c + n - 1
HeldUnits(o) == Units(held[o].at, held[o].units)
FreeUnits == UNION {Units(Chain[i], len[Chain[i]]) : i \in 1 .. Len(Chain)}

\* What fallback_malloc.ipp says of itself: it "manages a fixed-size memory
\* pool, supports malloc and free".  fallback_malloc returns no memory that
\* another owner still has.
HandedOutOnce ==
  \A o, q \in Held : o # q => HeldUnits(o) \cap HeldUnits(q) = {}

\* Every unit of the heap is in exactly one chunk, held or reachable from
\* freelist: calls of malloc and free hand out no memory that somebody still
\* uses, lose none, and put no chunk twice on the list.  It holds while no chunk
\* is merged with one behind it that is not the first of the list: MergeBefore
\* with i > 1 leaves next_node of the merged chunk 0.
PoolConserved ==
  freelist # NULL =>
    /\ IsInjective(Chain)
    /\ \A i, j \in 1 .. Len(Chain) : i # j =>
         Units(Chain[i], len[Chain[i]]) \cap Units(Chain[j], len[Chain[j]]) = {}
    /\ HandedOutOnce
    /\ FreeUnits = Offsets \ UNION {HeldUnits(o) : o \in Held}
=============================================================================
