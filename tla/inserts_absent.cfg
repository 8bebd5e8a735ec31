CONSTANTS
  Txns <- Two
  Keys <- KeySet
  Loaded <- OnlyY
  Programs <- AbsentPrograms
  UserAborts = FALSE
SPECIFICATION Spec
INVARIANTS
  Serializable
CHECK_DEADLOCK FALSE
