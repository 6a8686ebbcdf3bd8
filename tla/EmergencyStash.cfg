CONSTANTS
  t1 = t1
  t2 = t2
  Deep = 4
  Shallow = 2
  Threads <- MCThreads
  MaxDepth <- MCMaxDepth
  Ptrs = {p1}
  MaxExc = 3
  RethrowInFlight = FALSE
  Owners <- Exc
  HeapUnits = 6
  ThrownSize = 5
SPECIFICATION StashSpec
INVARIANTS
  NoUseAfterFree
  RefCountExact
  HandlerCountExact
  UncaughtExact
  CurrentIsInnermost
  ResumesOwnException
  
  
CHECK_DEADLOCK FALSE
