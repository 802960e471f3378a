SPECIFICATION Spec
CONSTANTS
  Keys = {1, 2, 3}
  Values = {"v"}
  Timestamps = {1, 2}
  BlockSize = 1
  LevelRatio = 2
  NotFound = NotFound
  Callers = {c1, c2}
  Locks = {l1, l2, l3, l4, l5}
  NoOne = NoOne
INVARIANTS
  SizeBound
  HeldIsReleased
  WaitsOnSameKey
CHECK_DEADLOCK FALSE
