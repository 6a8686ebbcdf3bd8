CONSTANTS
  t1 = t1
  t2 = t2
  t3 = t3
  g1 = g1
  g2 = g2
  Threads <- MCThreads
  Guards <- MCGuards
  Uses <- MCUses
  ArrayGuard = g1
  MaxCalls = 4
  Width = 4
  Counts = {0, 2}
  Sizes = {3}
  Paddings = {0, 2}
SPECIFICATION StaticSpec
INVARIANTS
  OneInitialiser
  LockHeld
  ElementsOnce
  
  
PROPERTIES
  InitialisedOnce
  PassesToBuiltArray
  CallsReturn
CHECK_DEADLOCK FALSE
