SPECIFICATION Spec
CONSTANTS
  Keys = {0, 1}
  Values = {"v"}
  Timestamps = {1}
  BlockSize = 2
  LevelRatio = 2
  NotFound = NotFound
  Levels = {0, 1}
  MaxCounter = 2
  Untyped = {"v"}
  Torn = Torn
  Throws = Throws
INVARIANTS
  ReadsBack
PROPERTIES
  ImplementsBlockStore
