----------------------------- MODULE Instructions -----------------------------
(***************************************************************************)
(* Three-address code (IR/tac.h): operands, instructions, and the builder  *)
(* that adds them to the table, with the kinds of the nodes they are for.  *)
(*                                                                         *)
(* An operand is what it stands for: two made for one symbol are one here. *)
(***************************************************************************)
EXTENDS Integers, Sequences

CONSTANTS
  None,        \* NULL
  Declared     \* the names that have a symbol with a type

Symbol(name)  == <<"symbol", name>>
Temporary(n)  == <<"temporary", n>>
Literal(v)    == <<"literal", v>>
ElementSize   == <<"size", 1>>       \* "SIZEOF_INT" and its like
ReturnOperand == <<"_RET", 0>>

Ins(kind, result, op1, op2) == [kind |-> kind, result |-> result, op1 |-> op1, op2 |-> op2]

(* A builder: the table, the number of the next temporary, and the          *)
(* instruction the last call returned.                                      *)
Builder(table, temporaries) == [table |-> table, temporaries |-> temporaries, tac |-> None]

Nothing(b)  == [b EXCEPT !.tac = None]
Add(b, ins) == [b EXCEPT !.table = Append(@, ins), !.tac = ins]

generate_label(b) == [b EXCEPT !.temporaries = @ + 1]

(* An instruction whose result is a new temporary. *)
Compute(b, kind, op1, op2) ==
  Add(generate_label(b), Ins(kind, Temporary(b.temporaries), op1, op2))

Returns(b)   == b.tac # None
HasResult(b) == Returns(b) /\ b.tac.result # None

------------------------------------------------------------------------------
ArithmeticNodes == {"ADD", "SUB", "MUL", "DIV", "MODULO"}
BooleanNodes    == {"LESS", "GREATER", "LESS_EQUAL", "GREATER_EQUAL", "EQUAL", "NOT_EQUAL",
                    "LOGICAL_OR", "LOGICAL_AND"}
UnaryNodes      == {"UNARY_ADD", "UNARY_SUB", "NOT"}
LiteralNodes    == {"CHAR", "BOOL", "INTEGER"}
StepNodes       == {"INCREMENT", "DECREMENT"}
==============================================================================
