SPECIFICATION MCSpec
CONSTANTS
  x = x
  y = y
  z = z
  r1 = r1
  r2 = r2
  r3 = r3
  Operands = {x, y, z, r1, r2, r3}
  NumRegisters = 3
  ArgOffset = 1
  NumArgs = 2
  MaxBundles = 3
INVARIANTS
  TypeOK
  NoShareWithEarlier
  MutualNeverShare
  RestrictionsKept
  FrameOnlyWhenForced
  EveryBundlePlaced
  ArgumentRegisters
PROPERTIES
  PlacesAreFinal
CHECK_DEADLOCK FALSE
