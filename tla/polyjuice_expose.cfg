CONSTANTS
  Txns <- Two
  Keys <- KeySet
  Programs <- ExposePrograms
  AccessModes <- Mixed
  Waits <- AllWaits
  PieceEnds <- Both
  UserAborts = TRUE
  MaxRuns <- Once
  MaxTick = 1
SPECIFICATION FairSpec
INVARIANTS
  Serializable
  TypeOK
  NoDanglingEntries
  LockDiscipline
PROPERTIES
  EveryTxnEnds
