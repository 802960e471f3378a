SPECIFICATION FairServerSpec
CONSTANTS
  Keys = {1, 2}
  Values = {"v"}
  Timestamps = {1, 2}
  BlockSize = 1
  LevelRatio = 2
  NotFound = NotFound
  Clients = {c1, c2, c3}
  MaxPeers = 1
INVARIANTS
  ReadsOwnPut
PROPERTIES
  TestEnds
CHECK_DEADLOCK FALSE
