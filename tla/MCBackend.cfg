SPECIFICATION MCSpec
CONSTANTS
  p = p
  a = a
  y = y
  x = x
  t = t
  l = l
  None = None
  Ret = Ret
  Operands = {p, a, y, x, t, l, Ret}
  Opaque = {}
  NumRegisters = 3
  ArgOffset = 1
  NumArgs = 1
  Rdx = 2
INVARIANTS
  LiveSetsSound
  ReadsIntact
PROPERTIES
  StepsAlongEdges
CHECK_DEADLOCK FALSE
