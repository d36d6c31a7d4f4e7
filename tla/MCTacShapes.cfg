SPECIFICATION MCSpec
CONSTANTS
  None = None
  Undefined = Undefined
  Declared = {"main", "f", "g", "x", "y", "a"}
  Arrays = {"a"}
  ArrayLength = 2
  WordSize = 3
  Nodes <- MCNodes
  ExpressionCode <- BuiltExpression
  StatementCode <- BuiltStatement
  AllShapes = TRUE
INVARIANT JumpsAreDefined
CHECK_DEADLOCK FALSE
