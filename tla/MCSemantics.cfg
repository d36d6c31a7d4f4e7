SPECIFICATION MCSpec
CONSTANTS
  f = f
  g = g
  x = x
  y = y
  z = z
  main = main
  long = long
  longer = longer
  Null = Null
  HashOf <- MCHashOf
  TableCapacity = 3
  Nodes <- MCNodes
  Ids <- MCIds
  TypeOf <- TypeOfNode
  FollowsNull <- FollowsNullFrom
INVARIANTS TypeOK TablesComplete ResolvesInnermost VerdictIsTyping
