SPECIFICATION Spec
CONSTANTS
  Keys = {0, 1, 2}
  Values = {"v", "w"}
  Timestamps = {1, 2}
  BlockSize = 2
  LevelRatio = 2
  NotFound = NotFound
INVARIANTS
  PointersInBounds
  ComputesMerge
PROPERTIES
  MergeReturns
CHECK_DEADLOCK FALSE
