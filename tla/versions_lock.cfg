CONSTANTS
  Cores <- Two
  Keys <- One
  Programs <- OnlyWriteX
  ReadOnlyEpochMultiplier = 2
  CoreSpan = 4
  NumSpan = 8
  KeepHistory = FALSE
  Deletes <- All
  MaxTick = 6
  MaxTxns = 3
SPECIFICATION VersionsSpec
PROPERTIES
  RemovesTombstones
CHECK_DEADLOCK FALSE
