CONSTANTS
  MaxClasses = 5
  MaxBases = 2
  MaxMixed = 4
SPECIFICATION Spec
INVARIANTS
  DownCastAsPromised
  CrossCastAsPromised
  CatchesByTheRule
CHECK_DEADLOCK FALSE
