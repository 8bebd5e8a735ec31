CONSTANTS
  Readers = {r1}
  Writers = {w1, w2}
  VersionBits = 2
  TickSpan = 2
  MaxTid = 5
  MaxLocks = 2
SPECIFICATION FairSpec
INVARIANTS
  TypeOK
  CleanReadsAreCurrent
  SnapshotReadsNewest
  CurrentInTree
PROPERTIES
  ValidatedIsCurrent
  ReadsEnd
CHECK_DEADLOCK FALSE
