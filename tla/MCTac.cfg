SPECIFICATION MCSpec
CONSTANTS
  None = None
  Undefined = Undefined
  Declared = {"main", "f", "g", "x", "y", "a"}
  Arrays = {"a"}
  ArrayLength = 2
  WordSize = 3
  Nodes <- MCNodes
  ExpressionCode <- BuiltExpression
  StatementCode <- BuiltStatement
  AllShapes = FALSE
INVARIANTS
  TypeOK
  FollowsSource
  JumpsAreDefined
  ContextsBalanced
CHECK_DEADLOCK FALSE
