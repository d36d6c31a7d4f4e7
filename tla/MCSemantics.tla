------------------------------- MODULE MCSemantics -------------------------------
(* Programs of two functions and a global: every pair of statements, then a  *)
(* return, over shadowing, nesting, wrong types and missing names.           *)
EXTENDS Scoping

CONSTANTS f, g, x, y, z, main, long, longer

(* With three buckets f, x and y share one at first; long and longer are     *)
(* names whose hash overflows, to -1 and to -2.                              *)
MCHashOf == (f :> 3) @@ (g :> 4) @@ (x :> 6) @@ (y :> 9) @@ (z :> 8) @@ (main :> 7)
              @@ (long :> -4) @@ (longer :> -5)

MCIds == 1..40

IntType == <<"INTEGER">>
BoolType == <<"BOOL">>
Literal(kind) == [type |-> kind]
Name(id, name) == [type |-> "NAME", id |-> id, name |-> name, t |-> NoType, left |-> Null]
Var(id, name, t) == [type |-> "NAME", id |-> id, name |-> name, t |-> t, left |-> Null]
Binary(op, left, right) == [type |-> op, left |-> left, right |-> right]
Unary(op, operand) == [type |-> op, left |-> operand, right |-> operand]
Call(id, name, params) == [type |-> "CALL", left |-> Name(id, name), params |-> params]
Let(id, name, t, value) ==
  [type |-> "ASSIGNMENT", left |-> [type |-> "DEF", left |-> Var(id, name, t)], right |-> value]
Set(target, value) == [type |-> "ASSIGNMENT", left |-> [type |-> "AUG", left |-> target], right |-> value]
Block(stmts) == [type |-> "BLOCK", right |-> stmts]
Cond(type, condition, stmts) == [type |-> type, left |-> condition, right |-> Block(stmts)]
For(initial, condition, update, stmts) ==
  [type |-> "FOR", left |-> initial, condition |-> condition, update |-> update, right |-> Block(stmts)]
Return(value) == [type |-> "RETURN", right |-> value]
Plain(type) == [type |-> type]
Function(id, name, params, returns, stmts) ==
  [type |-> "NAME", id |-> id, name |-> name, t |-> <<"FUNCTION", returns>>,
   left |-> Null, params |-> params, right |-> Block(stmts)]

One == Literal("INTEGER")
True == Literal("BOOL")

(* Statements whose nodes are numbered from n. *)
Statements(n) ==
  {Let(n, x, IntType, One), Let(n, x, BoolType, True), Let(n, y, IntType, Name(n + 1, y)),
   Let(n, f, IntType, One),
   Set(Name(n, x), Name(n + 1, y)),
   Cond("IF", Binary("LESS", Name(n, y), One), <<Let(n + 1, x, BoolType, True), Return(Name(n + 2, x))>>),
   Cond("IF", Name(n, x), <<Return(Name(n + 1, z))>>),
   Cond("ELSE_IF", Binary("LOGICAL_AND", True, Unary("NOT", Name(n, x))), <<Return(One)>>),
   [type |-> "ELSE", right |-> Block(<<Let(n, y, BoolType, True), Let(n + 1, x, IntType, One), Return(Name(n + 2, x))>>)],
   Cond("WHILE", True, <<Let(n, x, IntType, One), Cond("IF", True, <<Let(n + 1, x, BoolType, True), Set(Name(n + 2, x), Name(n + 3, y))>>),
                         Plain("BREAK"), Set(Name(n + 4, x), One)>>),
   For(Let(n, x, IntType, One), Binary("EQUAL", Name(n + 1, x), One), Unary("INCREMENT", Name(n + 2, x)),
       <<Let(n + 3, x, BoolType, True), Return(Name(n + 4, y))>>),
   Call(n, g, <<Name(n + 1, x)>>), Unary("DECREMENT", Name(n, y)), Plain("DECL"),
   Let(n, x, <<"ARRAY", "INTEGER">>, [type |-> "ARRAY_LIST", right |-> <<One, Name(n + 1, y)>>])}

(* What the function ends with. *)
Ends(n) ==
  {Return(e) : e \in
    {One, True, Name(n, x), Binary("ADD", Name(n, x), Name(n + 1, y)),
     Call(n, g, <<Name(n + 1, y)>>), Call(n, g, <<>>), Call(n, z, <<>>), Call(n, main, <<>>),
     Unary("UNARY_SUB", Name(n, x)), Unary("INCREMENT", Name(n, z)),
     Binary("EQUAL", Call(n, g, <<True>>), One),
     Binary("SUBSCRIPT", Name(n, x), Name(n + 1, y)), Null}}

F(returns, stmts) == Function(1, f, <<Var(2, y, IntType)>>, returns, stmts)
G == Function(3, g, <<Var(4, x, IntType)>>, "INTEGER", <<Return(Name(5, x))>>)

Pairs == {<<F("INTEGER", <<s, t, e>>), G>> : s \in Statements(10), t \in Statements(20), e \in Ends(30)}

(* More names in one scope than buckets; names that overflow; functions of   *)
(* one name; globals; values returned by void functions.                     *)
Special ==
  {<<Function(1, f, <<Var(2, y, IntType), Var(3, z, IntType)>>, "INTEGER",
      <<Let(10, x, IntType, One), Let(11, main, IntType, One), Let(12, v, IntType, One), Return(Name(13, u))>>)>> :
     v \in {g, x}, u \in {f, g, x, y, z, main}}
  \cup {<<Function(1, n, <<Var(2, p, IntType)>>, "INTEGER", <<Let(10, q, IntType, One), Return(Name(11, q))>>), G>> :
          n \in {f, long, longer, g, main}, p \in {y, long}, q \in {x, longer}}
  \cup {<<Function(1, v, <<>>, "INTEGER", <<Return(One)>>), Function(2, w, <<>>, "INTEGER", <<Return(One)>>),
          Function(3, x, <<>>, "BOOL", <<Return(Call(4, y, <<>>))>>),
          Function(5, y, <<>>, "BOOL", <<Return(Call(6, x, <<>>))>>)>> : v \in {f, z}, w \in {g, f}}
  \cup {<<[type |-> "ASSIGNMENT", left |-> Var(1, n, IntType), right |-> e],
          Function(2, f, <<>>, "INTEGER", <<Return(Name(3, x))>>)>> :
          n \in {x, z}, e \in {One, Call(4, f, <<>>)}}
  \cup {<<Function(1, f, <<>>, "VOID", <<Return(e)>>), Function(2, g, <<>>, "VOID", <<Return(Null)>>)>> :
          e \in {One, Call(3, g, <<>>)}}

Programs == Pairs \cup Special

(* Every node of a tree, a function's parameters and a callee's name included. *)
RECURSIVE NodesOf(_)
NodesOf(node) ==
  LET parts == CASE IsFunction(node)    -> <<node.right>> \o node.params
                 [] node.type = "CALL"  -> <<node.left>> \o node.params
                 [] OTHER               -> Parts(node)
  IN  {node} \cup UNION {NodesOf(part) : part \in ToSet(parts)}

MCNodes ==
  {p[1] : p \in Pairs} \cup {p[1].right : p \in Pairs}
    \cup UNION {NodesOf(n) : n \in Statements(10) \cup Statements(20) \cup Ends(30)
                                 \cup {F("INTEGER", <<Return(Null)>>), G}}
    \cup UNION {UNION {NodesOf(n) : n \in ToSet(p)} : p \in Special}

MCInit == program \in Programs /\ Init

MCSpec == MCInit /\ [][Next]_vars

==============================================================================
