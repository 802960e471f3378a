SPECIFICATION Spec
CONSTANTS
  Keys <- ManyKeys
  Values = {"v"}
  Timestamps = {1}
  BlockSize = 1
  LevelRatio = 2
  NotFound = NotFound
INVARIANTS
  EvictionInBounds
  LevelsSorted
  LevelBound
  StoredIsFound
