------------------------------ MODULE MCBackend ------------------------------
(***************************************************************************)
(* Backend on families of small functions of the shapes IR/tac.c emits: a  *)
(* straight line, an if with and without else and return, a while loop, a  *)
(* call.  Every operand read is written before on every path, as the name  *)
(* resolver ensures of variables and the builder of temporaries, and no    *)
(* instruction stands between a jump and the next label.                   *)
(* Three registers: 0 is rax, 1 is the argument register, 2 is rdx.        *)
(***************************************************************************)
EXTENDS Backend

CONSTANTS p, a, y, x, t, l

Ins(kind, result, op1, op2) ==
  [kind |-> kind, result |-> result, op1 |-> op1, op2 |-> op2]

CONST(res)        == Ins("CONST", res, None, None)
ASSIGN(res, op)   == Ins("ASSIGN", res, None, op)
ADD(res, u, v)    == Ins("ADD", res, u, v)
DIV(res, u, v)    == Ins("DIV", res, u, v)
LESS(res, u, v)   == Ins("LESS", res, u, v)
NOT(res, u)       == Ins("NOT", res, u, None)
IF_FALSE(c, to)   == Ins("IF_FALSE", None, c, to)
GOTO(to)          == Ins("GOTO", to, None, None)
LABEL(name)       == Ins("LABEL", name, None, None)
PARAM(op)         == Ins("PARAM", l, op, None)
ARG(op)           == Ins("ARG", l, op, None)
CALL              == Ins("CALL", "f", None, None)
RETURN(op)        == Ins("RETURN", l, op, None)

(* The ways to compute res from the operands in avail. *)
Compute(res, avail) ==
  {CONST(res)} \cup {ASSIGN(res, u) : u \in avail}
  \cup {ADD(res, u, v) : u \in avail, v \in avail}
  \cup {DIV(res, w[1], w[2]) : w \in {w \in avail \X avail : w[1] # w[2]}}

Straight ==
  {<<PARAM(p), f, g, h, RETURN(r)>> :
     f \in {CONST(a), ADD(a, p, p)}, g \in Compute(y, {p, a}),
     h \in Compute(x, {p, a, y}), r \in {p, a, x}}

(* What ends the first branch of an if: it falls through, jumps or returns. *)
BranchEnd(op) == {<<>>, <<GOTO("L2")>>, <<RETURN(op), GOTO("L2")>>}

If ==
  {<<PARAM(p), CONST(a), c, IF_FALSE(t, "L1"), f>> \o end
      \o <<LABEL("L1"), g, LABEL("L2"), RETURN(r)>> :
     c \in {LESS(t, p, a), NOT(t, p)},
     f \in Compute(y, {p, a}) \cup {CONST(a), ADD(a, p, a)},
     end \in BranchEnd(p), g \in Compute(a, {p, a}), r \in {p, a}}

(* if, else if, else: the two first branches jump to one end. *)
Chain ==
  {<<PARAM(p), CONST(a), LESS(t, p, a), IF_FALSE(t, "L1"), f, GOTO("L2"), LABEL("L1"),
     NOT(x, p), IF_FALSE(x, "L3"), g, GOTO("L2"), LABEL("L3"), CONST(y), LABEL("L2"), RETURN(r)>> :
     f \in {CONST(y), ASSIGN(y, a)}, g \in Compute(y, {p, a}), r \in {a, y}}

While ==
  {<<PARAM(p), f, LABEL("L0"), LESS(t, p, a), IF_FALSE(t, "L1"), g>> \o step
      \o <<GOTO("L0"), LABEL("L1"), h, RETURN(r)>> :
     f \in {CONST(a), ASSIGN(a, p)}, g \in Compute(y, {p, a}), step \in {<<>>, <<ASSIGN(a, y)>>},
     h \in Compute(x, {p, a}), r \in {p, a, x}}

Call ==
  {<<f, ARG(a), CALL, ASSIGN(y, Ret), g, RETURN(r)>> :
     f \in {CONST(a)}, g \in Compute(x, {a, y}), r \in {a, y, x}}

(* let a = 1; let y = 2; a = 3; return a + y, with its temporaries merged. *)
Reassigned ==
  {<<CONST(a), f, g, ADD(x, a, y), RETURN(x)>> : f \in {CONST(y), ADD(y, a, a)},
                                                  g \in {CONST(a), ASSIGN(a, y)}}

Functions == Straight \cup If \cup Chain \cup While \cup Call \cup Reassigned

(* They are all of the builder's shape. *)
ASSUME FunctionsAreWellBuilt == \A c \in Functions : WellBuilt(c)

MCInit == code \in Functions /\ Start

MCSpec == MCInit /\ [][Next]_vars
==============================================================================
