------------------------------ MODULE Expressions ------------------------------
(***************************************************************************)
(* build_tac_from_expression_dag (IR/tac.c) and the statements that do no  *)
(* more than compute: what they add to the table, and the instruction each *)
(* returns, whose result is the operand the caller goes on with.           *)
(*                                                                         *)
(* Nodes have the fields of the parser's: left, right, params, name, value,*)
(* and body and elements for what right begins a list of.                  *)
(***************************************************************************)
EXTENDS Instructions, SequencesExt

(* Both operands have been built, also when the first yields nothing. *)
Binary(left, right, type) ==
  IF \/ type \in ArithmeticNodes /\ HasResult(left) /\ HasResult(right)
     \/ type \in BooleanNodes /\ Returns(left) /\ Returns(right)
  THEN Compute(right, type, left.tac.result, right.tac.result)
  ELSE Nothing(right)

Unary(operand, type) ==
  IF Returns(operand) THEN Compute(operand, type, operand.tac.result, None) ELSE operand

NameOf(b, name) ==
  [b EXCEPT !.tac = Ins("NAME", IF name \in Declared THEN Symbol(name) ELSE None, None, None)]

(* x++ is an addition, and an assignment whose result is the symbol. *)
Sum(node) ==
  [type |-> IF node.type = "INCREMENT" THEN "ADD" ELSE "SUB", left |-> node.left,
   right |-> [type |-> "INTEGER", value |-> 1]]

AssignSum(sum, name) ==
  IF HasResult(sum) THEN Add(sum, Ins("ASSIGNMENT", Symbol(name), None, sum.tac.result)) ELSE Nothing(sum)

(* The element's address: array + index * size. *)
AddOffset(offset, array) == Compute(offset, "ADD", array.tac.result, offset.tac.result)
Address(b, array, index) ==
  AddOffset(Compute(b, "MUL", index.tac.result, ElementSize), array)

Dereference(address) == Compute(address, "DEREFERENCE", address.tac.result, None)
Element(array, index) ==
  IF Returns(array) /\ Returns(index) THEN Dereference(Address(index, array, index)) ELSE Nothing(index)

(***************************************************************************)
(* A call's arguments are kept aside while they are built, so that those   *)
(* of a call among them come before it and are not taken for its own.      *)
(***************************************************************************)
(* Mutant: an argument enters the table when it is built. *)
MutantPassAtOnce(kept, value) ==
  IF HasResult(value) THEN [b |-> Add(value, Ins("ARG", None, value.tac.result, None)), args |-> <<>>]
  ELSE [b |-> value, args |-> kept.args]

Pass(kept, value) ==
  [b |-> value,
   args |-> IF HasResult(value) THEN Append(kept.args, Ins("ARG", None, value.tac.result, None))
            ELSE kept.args]

CallWith(kept, name) ==
  Compute(Add([kept.b EXCEPT !.table = @ \o kept.args],
              Ins("CALL", NameOf(kept.b, name).tac.result, None, None)),
          "ASSIGNMENT", None, ReturnOperand)

RECURSIVE Build(_, _), BuildRight(_, _), BuildIndex(_, _)
BuildRight(left, node) == Binary(left, Build(left, node.right), node.type)
BuildIndex(array, node) == Element(array, Build(array, node.right))
Build(b, node) ==
  CASE node.type \in ArithmeticNodes \cup BooleanNodes -> BuildRight(Build(b, node.left), node)
    [] node.type \in UnaryNodes   -> Unary(Build(b, node.right), node.type)
    [] node.type \in LiteralNodes -> Compute(b, node.type, Literal(node.value), None)
    [] node.type \in StepNodes    -> AssignSum(Build(generate_label(b), Sum(node)), node.left.name)
    [] node.type = "NAME"         -> NameOf(b, node.name)
    [] node.type = "CALL"         ->
         CallWith(FoldLeft(LAMBDA kept, arg : Pass(kept, Build(kept.b, arg)),
                           [b |-> b, args |-> <<>>], node.params), node.left.name)
    [] node.type = "SUBSCRIPT"    -> BuildIndex(Build(b, node.left), node)

------------------------------------------------------------------------------
(* Statements.                                                               *)

Target(node) == node.left.left

AssignTo(left, right) ==
  IF Returns(right) THEN Add(right, Ins("ASSIGNMENT", left.tac.result, None, right.tac.result)) ELSE right

(* An element is assigned after its value, its array and its index are built. *)
Store(address, value) ==
  Add(address, Ins("DEREFERENCE_AND_ASSIGN", address.tac.result,
                   IF Returns(value) THEN value.tac.result ELSE None, None))
StoreAt(value, array, index) ==
  IF Returns(index) THEN Store(Address(index, array, index), value) ELSE index
StoreIn(value, array, node) == StoreAt(value, array, Build(array, Target(node).right))
StoreValue(value, node)     == StoreIn(value, Build(value, Target(node).left), node)

(* build_tac_from_array_dagnode: an element is stored as the number of its node. *)
StoreElement(address, element) ==
  Add(address, Ins("STORE", address.tac.result, Literal(element.value), None))
StoreElements(array, elements) ==
  FoldLeftDomain(LAMBDA b, n : StoreElement(
                   AddOffset(Compute(b, "MUL", Literal(n - 1), ElementSize), array), elements[n]),
                 array, elements)

(* A call's arguments are looked for in right, where the parser has none. *)
Assignment(b, node) ==
  CASE node.right.type = "ARRAY_LIST" -> StoreElements(Build(b, Target(node)), node.right.elements)
    [] node.right.type # "ARRAY_LIST" /\ Target(node).type = "SUBSCRIPT" ->
         StoreValue(Build(b, node.right), node)
    [] OTHER -> AssignTo(Build(b, Target(node)), Build(b, node.right))

BuildReturn(value) ==
  Add(generate_label(value), Ins("RETURN", Temporary(value.temporaries),
                                 IF Returns(value) THEN value.tac.result ELSE None, None))

BuildStatement(b, node) ==
  CASE node.type = "ASSIGNMENT"   -> Assignment(b, node)
    [] node.type = "CALL"         -> Add(b, Ins("CALL", NameOf(b, node.left.name).tac.result, None, None))
    [] node.type \in StepNodes    -> AssignSum(Build(b, Sum(node)), node.left.name)
    [] node.type = "RETURN"       ->
         IF node.right = None THEN Add(b, Ins("RETURN", None, None, None))
         ELSE BuildReturn(Build(b, node.right))
    [] OTHER                      -> b
==============================================================================
