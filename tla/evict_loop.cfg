SPECIFICATION Spec
CONSTANTS
  Keys = {1, 2, 3, 4, 5}
  Values = {"v"}
  Timestamps = {1}
  BlockSize = 2
  LevelRatio = 2
  NotFound = NotFound
  MaxBlocks = 3
INVARIANTS
  TopUpInBounds
  ComputesEviction
PROPERTIES
  SelectionReturns
CHECK_DEADLOCK FALSE
