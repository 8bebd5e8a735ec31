CONSTANTS
  NumCores = 2
  MaxDepth = 2
  MaxTick = 4
  Objects = {"o1","o2"}
  EpochTimeMultiplier = 2
SPECIFICATION RcuFairSpec
INVARIANTS
  TypeOK
  RegionsAreNotOver
  CoresLagAtMostOne
  ComputedBoundIsNoLower
  RcuTypeOK
  NoUseAfterFree
  EachObjectInOnePlace
  QueuesInOrder
PROPERTIES
  ImplementsEpochs
  TicksEnd
