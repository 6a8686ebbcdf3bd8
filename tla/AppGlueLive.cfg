CONSTANTS
  NULL = NULL
  Windows = {w1, w2}
  InputQueues = {q1}
  Configs = {c1, c2}
  Blocks = {b1, b2}
  PipeCap = 3
  Backlog = 1
  IOMayFail = FALSE
  ExitEarly = FALSE
SPECIFICATION FairSpec
INVARIANTS
  ConfigFollowsDevice
  WriteNeverBlocks
PROPERTY CallbackReturns
