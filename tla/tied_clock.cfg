SPECIFICATION TiedSpec
CONSTANTS
  Keys <- TiedKeys
  Values = {"v", "w"}
  Timestamps = {1}
  BlockSize = 1
  LevelRatio = 3
  NotFound = NotFound
PROPERTIES
  CompactionPreservesReads
