SPECIFICATION FairServerSpec
CONSTANTS
  Keys = {1, 2}
  Values = {"v"}
  Timestamps = {1, 2}
  BlockSize = 1
  LevelRatio = 2
  NotFound = NotFound
  Clients = {c1, c2}
  MaxPeers = 2
PROPERTIES
  TestEnds
CHECK_DEADLOCK FALSE
