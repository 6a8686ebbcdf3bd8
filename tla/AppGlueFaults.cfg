CONSTANTS
  NULL = NULL
  Windows = {w1, w2}
  InputQueues = {q1}
  Configs = {c1, c2}
  Blocks = {b1, b2}
  PipeCap = 2
  Backlog = 3
  IOMayFail = TRUE
  ExitEarly = TRUE
SPECIFICATION Spec
CHECK_DEADLOCK FALSE
SYMMETRY Symmetry
INVARIANTS
  IInv
  HandedOver
  SavedStateOwned
  SavedStateFresh
  NoUseAfterFree
PROPERTY Handoffs
