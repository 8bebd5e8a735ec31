CONSTANTS
  Txns <- Three
  Keys <- KeySet
  Programs <- RacePrograms
  AccessModes <- Dirty
  Waits <- NoWaits
  PieceEnds <- Both
  UserAborts = FALSE
  MaxRuns <- Once
  MaxTick = 1
SPECIFICATION Spec
INVARIANTS
  Serializable
