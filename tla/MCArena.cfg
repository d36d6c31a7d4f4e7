SPECIFICATION Spec
CONSTANTS
  MemBlockCapacity = 12
  ByteAlignment = 4
  RequestSizes = {0, 1, 3, 4, 7, 12, 13}
  NumAllocations = 5
INVARIANTS
  TypeOK
  InBounds
  Disjoint
  Aligned
PROPERTIES
  PointersStayValid
CHECK_DEADLOCK FALSE
