---------------------------------- MODULE Types ----------------------------------
(***************************************************************************)
(* typecheck_expression (Semantics/typechecker.c): the type of an          *)
(* expression, and whether its evaluation follows a symbol that is not     *)
(* there.  An operand whose type does not fit makes its node's unknown.    *)
(***************************************************************************)
EXTENDS Typecheck

Agree(a, b) == TRUE \in type_equals(a, b)

If2(condition, type) == IF condition THEN type ELSE Unknown

RECURSIVE TypeOfNode(_, _)
TypeOfNode(node, bound) ==
  CASE node.type \in Scalars -> <<node.type>>
    [] node.type \in Relational ->
         LET lt == TypeOfNode(node.left, bound)
             rt == TypeOfNode(node.right, bound)
         IN  If2(/\ NoType \notin {lt, rt} /\ Kind(lt) \in {"INTEGER", "CHAR"},
                 IF Kind(rt) \in {"INTEGER", "CHAR"} THEN <<"BOOL">> ELSE NoType)
    [] node.type \in Arithmetic ->
         If2({TypeOfNode(node.left, bound), TypeOfNode(node.right, bound)} = {<<"INTEGER">>}, <<"INTEGER">>)
    [] node.type \in Logical ->
         If2({TypeOfNode(node.left, bound), TypeOfNode(node.right, bound)} = {<<"BOOL">>}, <<"BOOL">>)
    [] node.type = "UNARY_SUB" -> If2(TypeOfNode(node.right, bound) = <<"INTEGER">>, <<"INTEGER">>)
    [] node.type = "NOT"       -> If2(TypeOfNode(node.right, bound) = <<"BOOL">>, <<"BOOL">>)
    [] node.type = "INCREMENT" ->
         If2(TypeOfNode(node.left, bound) \in {NoType, <<"INTEGER">>}, <<"INTEGER">>)
    [] node.type = "CALL" ->
         LET symbol == bound[node.left.id]
             params == symbol.params
         IN  If2(/\ Len(params) = Len(node.params)
                 /\ \A n \in DOMAIN params :
                      Agree(TypeOfNode(node.params[n], bound), bound[params[n].id].type),
                 SubType(symbol.type))
    [] node.type = "NAME" ->
         IF bound[node.id] = Null THEN NoType
         ELSE If2(bound[node.id].type # NoType, bound[node.id].type)
    [] node.type \in {"DEF", "AUG"} -> TypeOfNode(node.left, bound)
    [] node.type = "SUBSCRIPT" ->
         LET array == TypeOfNode(node.left, bound)
             index == TypeOfNode(node.right, bound)
         IN  If2(/\ NoType \notin {array, index}
                 /\ Kind(array) = "ARRAY" /\ Kind(index) = "INTEGER", <<array[2]>>)

(* The nodes typecheck_expression evaluates from a node. *)
Operands(node) ==
  CASE node.type \in Operators \cup {"SUBSCRIPT"} -> <<node.left, node.right>>
    [] node.type \in {"UNARY_SUB", "NOT"} -> <<node.right>>
    [] node.type \in {"INCREMENT", "DEF", "AUG"} -> <<node.left>>
    [] node.type = "CALL" -> node.params
    [] node.type \in Scalars \cup {"NAME", "ARRAY_LIST"} -> <<>>

(* A call whose callee was not found, or a parameter that was not bound: a  *)
(* NULL symbol is followed.  Arguments are evaluated up to a wrong one.     *)
RECURSIVE FollowsNullFrom(_, _)
FollowsNullFrom(node, bound) ==
  \/ /\ node.type # "CALL"
     /\ \E n \in DOMAIN Operands(node) : FollowsNullFrom(Operands(node)[n], bound)
  \/ /\ node.type = "CALL"
     /\ \/ bound[node.left.id] = Null
        \/ LET params == bound[node.left.id].params
               fits(n) == Agree(TypeOfNode(node.params[n], bound), bound[params[n].id].type)
           IN  \E n \in DOMAIN params \cap DOMAIN node.params :
                 /\ \A m \in 1..(n - 1) : fits(m)
                 /\ FollowsNullFrom(node.params[n], bound) \/ bound[params[n].id] = Null
==============================================================================
