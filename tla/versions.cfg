CONSTANTS
  Cores <- Two
  Keys <- One
  Programs <- WriteX
  ReadOnlyEpochMultiplier = 2
  CoreSpan = 4
  NumSpan = 8
  KeepHistory = FALSE
  Deletes <- All
  MaxTick = 6
  MaxTxns = 3
SPECIFICATION UncontendedSpec
INVARIANTS
  VersionsTypeOK
  NoUseAfterFree
  SnapshotIsStable
  EachVersionInOnePlace
PROPERTIES
  RemovesTombstones
CHECK_DEADLOCK FALSE
