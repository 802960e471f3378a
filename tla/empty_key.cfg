SPECIFICATION Spec
CONSTANTS
  Keys = {0, 1, 2}
  Values = {"v"}
  Timestamps = {1}
  BlockSize = 2
  LevelRatio = 2
  NotFound = NotFound
INVARIANTS
  EmptyKeyFound
