-------------------------------- MODULE Meaning --------------------------------
(***************************************************************************)
(* What the nodes of Expressions mean, as the reference for Tac: from left *)
(* to right, each name read when it is come to.  A scalar x lies at the    *)
(* place <<x, 0>>, the elements of an array a at <<a, 0>>, <<a, 1>>...     *)
(* What happens to variables, and between functions, is an event.          *)
(***************************************************************************)
EXTENDS Expressions, FiniteSets

CONSTANT WordSize

Truth(p) == IF p THEN 1 ELSE 0

(* A unary operator has its operand in b. *)
Apply(type, a, b) ==
  CASE type = "ADD"           -> (a + b) % WordSize
    [] type = "SUB"           -> (a - b) % WordSize
    [] type = "MUL"           -> (a * b) % WordSize
    [] type = "DIV"           -> IF b = 0 THEN 0 ELSE a \div b
    [] type = "MODULO"        -> IF b = 0 THEN 0 ELSE a % b
    [] type = "LESS"          -> Truth(a < b)
    [] type = "GREATER"       -> Truth(a > b)
    [] type = "LESS_EQUAL"    -> Truth(a <= b)
    [] type = "GREATER_EQUAL" -> Truth(a >= b)
    [] type = "EQUAL"         -> Truth(a = b)
    [] type = "NOT_EQUAL"     -> Truth(a # b)
    [] type = "LOGICAL_AND"   -> Truth(a # 0 /\ b # 0)
    [] type = "LOGICAL_OR"    -> Truth(a # 0 \/ b # 0)
    [] type = "NOT"           -> Truth(b = 0)
    [] type = "UNARY_SUB"     -> (-b) % WordSize
    [] type = "UNARY_ADD"     -> b

(* A called function's answer: whether it is 0 is up to the function. *)
Answers == {0, 1}
Reply(answer, args) == answer * (1 + FoldLeft(+, 0, args))

------------------------------------------------------------------------------
(* An evaluation: the memory, the events so far and the value come to.       *)

Evaluation(memory) == [memory |-> memory, events |-> <<>>, value |-> 0]

Event(e, event)   == [e EXCEPT !.events = Append(@, event)]
Set(e, place, v)  == Event([e EXCEPT !.memory[place] = v, !.value = v], <<"SET", place, v>>)
ReadAt(e, place)  == [e EXCEPT !.value = IF place \in DOMAIN e.memory THEN e.memory[place] ELSE 0]
Operate(type, left, right) == [right EXCEPT !.value = Apply(type, left.value, @)]

Answered(kept, function, answer) ==
  [Event(kept.e, <<"CALL", function, kept.args, Reply(answer, kept.args)>>)
     EXCEPT !.value = Reply(answer, kept.args)]

RECURSIVE Eval(_, _, _), EvalRight(_, _, _)
EvalRight(left, node, answer) == Operate(node.type, left, Eval(left, node.right, answer))
EvalArgs(e, args, answer) ==
  FoldLeft(LAMBDA kept, arg : LET value == Eval(kept.e, arg, answer)
                              IN  [e |-> value, args |-> Append(kept.args, value.value)],
           [e |-> e, args |-> <<>>], args)
Eval(e, node, answer) ==
  CASE node.type \in LiteralNodes -> [e EXCEPT !.value = node.value]
    [] node.type = "NAME"      -> ReadAt(e, <<node.name, 0>>)
    [] node.type \in UnaryNodes -> EvalRight(e, node, answer)
    [] node.type = "INCREMENT" ->
         Set(e, <<node.left.name, 0>>, Apply("ADD", e.memory[<<node.left.name, 0>>], 1))
    [] node.type = "DECREMENT" ->
         Set(e, <<node.left.name, 0>>, Apply("SUB", e.memory[<<node.left.name, 0>>], 1))
    [] node.type = "CALL"      -> Answered(EvalArgs(e, node.params, answer), node.left.name, answer)
    [] node.type = "SUBSCRIPT" ->
         LET index == Eval(e, node.right, answer) IN ReadAt(index, <<node.left.name, index.value>>)
    [] OTHER                   -> EvalRight(Eval(e, node.left, answer), node, answer)

(* A statement: an element gets its value before its index is come to. *)
SetElements(e, name, elements) ==
  FoldLeftDomain(LAMBDA f, n : Set(f, <<name, n - 1>>, elements[n].value), e, elements)

SetTarget(value, target, answer) ==
  IF target.type = "NAME" THEN Set(value, <<target.name, 0>>, value.value)
  ELSE LET index == Eval(value, target.right, answer)
       IN  Set(index, <<target.left.name, index.value>>, value.value)

Execute(e, node, answer) ==
  CASE node.type = "ASSIGNMENT" ->
         IF node.right.type = "ARRAY_LIST"
         THEN SetElements(e, node.left.left.name, node.right.elements)
         ELSE SetTarget(Eval(e, node.right, answer), node.left.left, answer)
    [] node.type = "RETURN" ->
         IF node.right = None THEN Event(e, <<"RETURN", None>>)
         ELSE LET value == Eval(e, node.right, answer) IN Event(value, <<"RETURN", value.value>>)
    [] node.type = "DECL" -> e
    [] OTHER -> Eval(e, node, answer)

------------------------------------------------------------------------------
(* The expressions the order of evaluation makes no difference to.           *)

RECURSIVE Within(_), WithinAll(_)
WithinAll(nodes) == UNION {Within(nodes[n]) : n \in DOMAIN nodes}
Within(node) ==    \* the expressions of an expression
  {node} \cup
  CASE node.type \in {"NAME"} \cup LiteralNodes -> {}
    [] node.type \in UnaryNodes -> Within(node.right)
    [] node.type \in StepNodes  -> Within(node.left)
    [] node.type = "CALL"       -> WithinAll(node.params)
    [] node.type = "ARRAY_LIST" -> {}
    [] OTHER                    -> Within(node.left) \cup Within(node.right)

Steps(node) == {n.left.name : n \in {n \in Within(node) : n.type \in StepNodes}}

(* A name stands for itself until its value is needed, which is after what   *)
(* comes behind it has changed it.                                           *)
ReadLate(first, then) ==
  CASE first.type = "NAME"     -> first.name \in Steps(then)
    [] first.type \in StepNodes -> first.left.name \in Steps(then)
    [] OTHER                   -> FALSE

InOrder(node) ==
  CASE node.type \in ArithmeticNodes \cup BooleanNodes -> ~ReadLate(node.left, node.right)
    [] node.type = "CALL" ->
         \A m, n \in DOMAIN node.params : m < n => ~ReadLate(node.params[m], node.params[n])
    [] OTHER -> TRUE

Known(node) == node.type = "NAME" => node.name \in Declared
==============================================================================
