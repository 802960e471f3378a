SPECIFICATION Spec
CONSTANTS
  Keys <- KeysFromEmpty
  Values = {"v"}
  Timestamps = {1, 2}
  BlockSize = 2
  LevelRatio = 2
  NotFound = NotFound
INVARIANTS
  TypeOK
  LocklstSync
  MemtableBound
  SingleL0Block
  LevelConsistent
PROPERTIES
  LatestNeverLost
