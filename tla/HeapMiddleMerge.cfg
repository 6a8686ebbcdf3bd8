CONSTANTS
  HeapUnits = 12
  Owners = {o1, o2, o3, o4, o5}
  Requests = {5}
SPECIFICATION HeapSpec
INVARIANT HandedOutOnce
CHECK_DEADLOCK FALSE
