CONSTANTS
  Cores <- Three
  Keys <- KeySet
  Programs <- ReadAndWrite
  ReadOnlyEpochMultiplier = 2
  CoreSpan = 4
  NumSpan = 8
  KeepHistory = TRUE
  Deletes <- Never
  MaxTick = 2
  MaxTxns = 3
SPECIFICATION VersionsSpec
INVARIANTS
  SnapshotsSerializable
CHECK_DEADLOCK FALSE
