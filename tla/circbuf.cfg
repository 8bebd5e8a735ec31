CONSTANTS
  Capacity = 3
  Enqueuers = {"e1"}
  MaxItems = 5
SPECIFICATION Spec
INVARIANTS
  PeekAllIsPrefix
  PeekIsTimely
PROPERTIES
  ImplementsFifo
