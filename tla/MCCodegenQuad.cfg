SPECIFICATION MCQuadSpec
CONSTANTS
  p = p
  q = q
  a = a
  b = b
  t = t
  u = u
  x = x
  y = y
  l = l
  None = None
  Ret = Ret
  Operands = {p, q, a, b, t, u, x, y, l, Ret}
  NumRegisters = 6
  ArgOffset = 2
  NumArgs = 2
  Rdx = 4
INVARIANT
  BranchesFollowConditions
CHECK_DEADLOCK FALSE
