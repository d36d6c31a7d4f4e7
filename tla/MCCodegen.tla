------------------------------ MODULE MCCodegen ------------------------------
(***************************************************************************)
(* Codegen on functions of the shapes of tests/*.z and some more, with     *)
(* live sets from the least solution that Liveness delivers, and places as *)
(* RegAlloc promises them: some operands in the frame, the others in the   *)
(* first register that no interfering operand has, as if the registers in  *)
(* reserved were taken.  Registers: rax, rbx, rdi, rsi, rdx, rcx.           *)
(***************************************************************************)
EXTENDS Codegen

CONSTANTS p, q, a, b, t, u, x, y, l

Ins(kind, op, res, first, second, val) ==
  [kind |-> kind, op |-> op, result |-> res, op1 |-> first, op2 |-> second, val |-> val]

CONST(res, n)        == Ins("CONST", "const", res, None, None, n)
ASSIGN(res, v)       == Ins("ASSIGN", "assign", res, None, v, 0)
ADD(op, res, v, w)   == Ins("ADD", op, res, v, w, 0)
DIV(op, res, v, w)   == Ins("DIV", op, res, v, w, 0)
LESS(op, res, v, w)  == Ins("LESS", op, res, v, w, 0)
NOT(op, res, v)      == Ins("NOT", op, res, v, None, 0)
IF_FALSE(c, to)      == Ins("IF_FALSE", "jump", None, c, to, 0)
GOTO(to)             == Ins("GOTO", "jump", to, None, None, 0)
LABEL(name)          == Ins("LABEL", "label", name, None, None, 0)
PARAM(op)            == Ins("PARAM", "param", l, op, None, 0)
ARG(op)              == Ins("ARG", "arg", l, op, None, 0)
CALL                 == Ins("CALL", "call", "f", None, None, 0)
RETURN(op)           == Ins("RETURN", "return", l, op, None, 0)

Arithmetic  == {"add", "sub", "mul"}

(* let x = p op 3; return x op' 3. *)
Straight ==
  {<<PARAM(p), CONST(a, 3), ADD(o, t, p, a), ASSIGN(x, t), ADD("sub", u, x, v), RETURN(w)>> :
     o \in Arithmetic, v \in {a, x}, w \in {u, p}}

Negated ==
  {<<PARAM(p), NOT(o, t, p), ASSIGN(x, t), ADD("add", u, x, v), RETURN(u)>> :
     o \in {"neg", "plus"}, v \in {p, x}}

(* if (p op 2) return 1; return 2 *)
Branch ==
  {<<PARAM(p), CONST(a, 2), LESS(o, t, p, a), IF_FALSE(t, "L1"), CONST(x, 1), RETURN(x),
     LABEL("L1"), ADD("add", u, a, p), RETURN(u)>> : o \in {"<", "<=", ">", "=="}}

(* let x: bool = p op 2; if (x op' !x) ... *)
Stored ==
  {<<PARAM(p), CONST(a, 2), LESS(o, t, p, a), ASSIGN(x, t), c, IF_FALSE(u, "L1"),
     CONST(y, 1), GOTO("L2"), LABEL("L1"), CONST(y, 2), LABEL("L2"), RETURN(v)>> :
     o \in {"<=", ">=", "!="}, c \in {NOT("not", u, x)}, v \in {x, y}}

Logic ==
  {<<PARAM(p), CONST(a, 2), LESS("!=", t, p, a), LESS(">", x, p, a), ADD(o, u, t, x)>> \o rest :
     o \in {"and", "or"},
     rest \in {<<IF_FALSE(u, "L1"), RETURN(a), LABEL("L1"), RETURN(p)>>,
               <<ASSIGN(y, u), RETURN(y)>>, <<NOT("not", y, u), ASSIGN(b, y), RETURN(b)>>}}

(* factorial: if (p == 0) return 1; return p * f(p - 1) *)
Factorial ==
  {<<PARAM(p), CONST(a, 0), LESS("==", t, p, a), IF_FALSE(t, "L1"), CONST(x, 1), RETURN(x),
     LABEL("L1"), CONST(b, 1), ADD("sub", u, p, b), ARG(u), CALL, ASSIGN(y, Ret),
     ADD("mul", q, v, w), RETURN(q)>> : v \in {p, y}, w \in {p, y}}

(* gcd: if (q == 0) return p; return gcd(q, p % q) *)
Gcd ==
  {<<PARAM(p), PARAM(q), CONST(a, 0), LESS("==", t, q, a), IF_FALSE(t, "L1"), RETURN(p),
     LABEL("L1"), DIV("mod", u, p, q), ARG(v), ARG(w), CALL, ASSIGN(y, Ret), RETURN(y)>> :
     v \in {q, u}, w \in {p, u}}

Loop ==
  {<<PARAM(p), CONST(x, 0), CONST(y, 0), LABEL("L0"), LESS("<", t, x, p), IF_FALSE(t, "L1"),
     ADD("add", u, y, v), ASSIGN(y, u), CONST(a, 1), ADD("add", b, x, a), ASSIGN(x, b), GOTO("L0"),
     LABEL("L1"), RETURN(y)>> : v \in {x, p}}

Divide ==
  {<<PARAM(p), PARAM(q), CONST(a, 3), DIV(o, t, p, q), ADD("add", u, t, v), ASSIGN(x, u),
     ADD("add", y, x, w), RETURN(y)>> :
     o \in {"div", "mod"}, v \in {a, p}, w \in {a, q}}

Calls ==
  {<<PARAM(p), CONST(a, 3), ADD("add", t, v, a), ASSIGN(x, t), ARG(x), CALL, ASSIGN(y, Ret),
     ADD("sub", u, d, w), RETURN(u)>> : v \in {p, a}, d \in {y, p}, w \in {a, x, p}}

(* let y = f(p op 3); if (y < 3) return p; return y *)
CallsThenBranches ==
  {<<PARAM(p), CONST(a, 3), ADD("sub", t, v, a), ARG(t), CALL, ASSIGN(y, Ret),
     CONST(b, 3), LESS("<", u, y, b), IF_FALSE(u, "L1"), RETURN(w), LABEL("L1"), RETURN(y)>> :
     v \in {p, a}, w \in {p, y}}

Functions == Straight \cup Negated \cup Branch \cup Stored \cup Logic \cup Factorial \cup Gcd
             \cup Loop \cup Divide \cup Calls \cup CallsThenBranches

------------------------------------------------------------------------------
LeastOut(c, bs) ==
  LET succ == link_function_cfgs(c, bs)
      n    == Len(c)
      solve[r \in 0..n] ==
        IF r = 0 THEN [k \in DOMAIN bs |-> {}]
        ELSE LET out == solve[r - 1]
                 in(k) == Uses(c, bs[k]) \cup (out[k] \ Defs(c, bs[k]))
             IN  [k \in DOMAIN bs |-> UNION {in(m) : m \in succ[k]}]
  IN  solve[n]

Frameable == Operands \ {l, Ret}

Places(c, live, spilled, reserved) ==
  LET graph == populate_interference_graph(c, live)
      forbidden == Restrictions(c, Operands)
      params_ == InOrder({k \in Indices(c) : c[k].kind = "PARAM"})
      first == [op \in Operands |->
                  IF \E n \in DOMAIN params_ : c[params_[n]].op1 = op
                  THEN ArgOffset + (CHOOSE n \in DOMAIN params_ : c[params_[n]].op1 = op) - 1
                  ELSE Unassigned]
      place[n \in 0..Len(graph)] ==
        IF n = 0 THEN first
        ELSE LET before == place[n - 1]
                 op     == graph[n].operand
                 free   == Registers \ (reserved \cup forbidden[op]
                                        \cup {before[o] : o \in graph[n].interferes_with})
             IN  IF \/ before[op] # Unassigned \/ op \in spilled \/ free = {}
                    \/ \E m \in 1..(n - 1) : graph[m].operand = op
                 THEN before
                 ELSE [before EXCEPT ![op] = FirstOf(free)]
  IN  place[Len(graph)]

Written(c) == UNION {Writes(c[k]) : k \in Indices(c)}

Allocated(functions, arguments) ==
  /\ code \in functions
  /\ params \in {<<v, 2>> : v \in arguments}
  /\ is_main = FALSE
  /\ blocks = make_function_cfgs(code)
  /\ LET out == LeastOut(code, blocks)
     IN  /\ live_out = compute_instruction_live_out(code, blocks, out)
         /\ next_use = [op \in Operands |-> determine_next_use(code, blocks, out, op)]
  /\ \E spilled \in {S \in SUBSET Written(code) : Cardinality(S) <= 1}, reserved \in {{}, {0, 1, 3}} :
       assigned_register = Places(code, live_out, spilled, reserved)
  /\ permanent_frame_position =
       [op \in Operands |->
          assigned_register[op] = Unassigned
            /\ LET graph == populate_interference_graph(code, live_out)
               IN  \E n \in DOMAIN graph : graph[n].operand = op]
  /\ Start
  /\ StartEmitting
  /\ StartRunning

MCSpec == Allocated(Functions, {0, 2, 7}) /\ Steps

(* quad_or_triple of tests/arithmetic.z, with numbers that fit three bits:  *)
(* if (a >= 3) return a * 3; return a * 2, called with 3.                    *)
QuadOrTriple ==
  {<<PARAM(p), CONST(a, 3), LESS(">=", t, p, a), IF_FALSE(t, "L1"), CONST(x, 3), ADD("mul", u, p, x),
     RETURN(u), LABEL("L1"), CONST(y, 2), ADD("mul", b, p, y), RETURN(b)>>}

MCQuadSpec == Allocated(QuadOrTriple, {3}) /\ Steps
==============================================================================
