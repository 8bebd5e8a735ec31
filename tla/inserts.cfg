CONSTANTS
  Txns <- Three
  Keys <- KeySet
  Loaded <- OnlyY
  Programs <- MixPrograms
  UserAborts = TRUE
SPECIFICATION FairSpec
INVARIANTS
  InsertsTypeOK
  CommittedIsFound
  ReadsCommitted
PROPERTIES
  AbsentReadsValidated
  TransactionsEnd
CHECK_DEADLOCK FALSE
