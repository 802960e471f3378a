SPECIFICATION FairOrderedSpec
CONSTANTS
  Keys <- MCKeys
  Values = {"v"}
  Timestamps = {1, 2}
  BlockSize = 1
  LevelRatio = 2
  NotFound = NotFound
INVARIANTS
  NewestOnTop
PROPERTIES
  ImplementsKVStore
  CompactionPreservesReads
  PutReturns
CHECK_DEADLOCK FALSE
