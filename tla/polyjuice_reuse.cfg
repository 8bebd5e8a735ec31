CONSTANTS
  Txns <- Two
  Keys <- KeySet
  Programs <- ReusePrograms
  AccessModes <- Dirty
  Waits <- NoWaits
  PieceEnds <- Both
  UserAborts = FALSE
  MaxRuns <- Reused
  MaxTick = 2
SPECIFICATION Spec
INVARIANTS
  ReadsRecoverable
  TestsSuffice
PROPERTIES
  VersionsIncrease
