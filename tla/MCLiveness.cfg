SPECIFICATION MCSpec
CONSTANTS
  Operands = {x, s}
  Opaque = {s}
  MaxBlocks = 3
INVARIANTS
  TypeOK
  BelowSolutions
  OpaqueUseDiverges
PROPERTIES
  NeverShrinks
  Terminates
  DeliversLiveVariables
CHECK_DEADLOCK FALSE
