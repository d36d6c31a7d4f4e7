-------------------------------- MODULE MCTac --------------------------------
(***************************************************************************)
(* Functions for TLC: every if chain, loop and nesting of the two up to    *)
(* the depth below, with an assignment, a return, a break or a continue in *)
(* the innermost bodies, and expressions of every kind in short functions. *)
(* What a statement assigns, and what a condition asks, has its own number.*)
(*                                                                         *)
(* Two shapes are translated to a jump whose label no one emits, and are   *)
(* left out unless AllShapes: an if with neither an else nor a statement   *)
(* after it, and a chain that ends in an else if and has one after it.     *)
(***************************************************************************)
EXTENDS TacRun

CONSTANT AllShapes

Num(v)           == [type |-> "INTEGER", value |-> v]
Name(x)          == [type |-> "NAME", name |-> x]
Op(type, l, r)   == [type |-> type, left |-> l, right |-> r]
Op1(type, r)     == [type |-> type, right |-> r]
Step(type, x)    == [type |-> type, left |-> Name(x)]
Call(f, args)    == [type |-> "CALL", left |-> Name(f), params |-> args]
Sub(index)       == Op("SUBSCRIPT", Name("a"), index)
Assign(l, r)     == [type |-> "ASSIGNMENT", left |-> [type |-> "AUG", left |-> l], right |-> r]
Return(e)        == [type |-> "RETURN", right |-> e]

Guarded(type, id, body) == [type |-> type, left |-> Call("g", <<Num(id)>>), body |-> body]
OrElse(body)       == [type |-> "ELSE", body |-> body]
Loop(type, id, body) ==
  IF type = "WHILE" THEN Guarded(type, id, body)
  ELSE [type |-> "FOR", left |-> Assign(Name("x"), Num(0)), condition |-> Call("g", <<Num(id)>>),
        update |-> Step("INCREMENT", "x"), body |-> body]

Value(id) == <<Assign(Name("y"), Num(id))>>

(* A body of the innermost level. *)
Innermost(id, in_loop) ==
  {<<>>, Value(id), <<Return(Num(id))>>}
  \cup (IF in_loop THEN {<<[type |-> "BREAK"]>>, <<[type |-> "CONTINUE"]>>} ELSE {})

Rest(id) == {<<>>, Value(id)}

(* Chains of one to three branches, the first with a body of First; a third assigns. *)
Chains(id, First, Others, After) ==
  LET if(b)   == <<Guarded("IF", id, b)>>
      elif(b) == <<Guarded("ELSE_IF", id + 1, b)>>
      else(b) == <<OrElse(b)>>
      whole(a) == AllShapes \/ a # <<>>
  IN  {if(b) \o a : b \in First, a \in {a \in After : whole(a)}}
      \cup {if(b) \o else(c) \o a : b \in First, c \in Others, a \in After}
      \cup {if(b) \o elif(c) \o a : b \in First, c \in Others,
                                    a \in {a \in After : AllShapes \/ a = <<>>}}
      \cup {if(b) \o elif(c) \o else(Value(id + 2)) \o a : b \in First, c \in Others, a \in After}

Loops1(id, In, After) ==
  {<<Loop(type, id, b)>> \o a : type \in {"WHILE", "FOR"}, b \in In, a \in After}

Shallow(in_loop) == Chains(10, Innermost(13, in_loop), Innermost(14, in_loop), Rest(15))

Controls ==
  Shallow(FALSE)
  \cup {<<[type |-> jump]>> \o Value(2) : jump \in {"BREAK", "CONTINUE"}}
  \cup Loops1(1, Shallow(TRUE), Rest(2))
  \cup Loops1(1, {Value(3) \o b : b \in Shallow(TRUE)}, {Value(2)})
  \cup Chains(20, Shallow(FALSE), {Value(23)}, Rest(24))
  \cup Chains(20, Loops1(1, Innermost(3, TRUE), Rest(2)), {Value(23)}, Rest(24))
  \cup Loops1(4, Loops1(1, Innermost(3, TRUE), Innermost(2, TRUE)), Rest(5))
  \cup Loops1(4, Chains(20, Loops1(1, Innermost(3, TRUE), Innermost(2, TRUE)),
                        {Value(23), <<[type |-> "CONTINUE"]>>}, {Value(24)}), {Value(5)})

------------------------------------------------------------------------------
(* Expressions.  a has two elements, x and y are below two; u is no symbol.  *)
Atoms == {Name("x"), Name("y"), Num(1)}
Small == {Step("INCREMENT", "x"), Step("DECREMENT", "y"), Call("f", <<>>), Sub(Name("x")), Sub(Num(1)),
          Op1("NOT", Name("x")), Op1("UNARY_SUB", Name("y")), Op("LESS", Name("x"), Name("y")),
          Op("SUB", Name("x"), Num(3)), [type |-> "BOOL", value |-> 1], Name("u"), Op("ADD", Name("u"), Num(1))}
Simple == Atoms \cup Small
Deep ==
  {Op("SUB", l, r) : l \in Simple, r \in Simple}
  \cup {Op(type, l, Name("y")) : type \in ArithmeticNodes \cup BooleanNodes, l \in Simple}
  \cup {Op1(type, e) : type \in UnaryNodes, e \in Simple}
  \cup {Call("f", <<d, e>>) : d \in Simple, e \in Simple \cup {Call("g", <<Name("x"), Num(7)>>)}}
  \cup {Call("f", <<Call("g", <<d>>), Call("g", <<e>>)>>) : d \in Atoms, e \in Small}

Uses ==
  {<<Assign(Name("y"), e), Return(Name("y"))>> : e \in Simple \cup Deep}
  \cup {<<Assign(Sub(i), e), Return(Sub(Num(0)))>> : e \in Simple, i \in {Name("x"), Num(1), Call("f", <<>>)}}
  \cup {<<Assign(Sub(Step("INCREMENT", "x")), e), Return(Sub(Num(0)))>> : e \in Atoms}
  \cup {<<Guarded("IF", 3, Value(2)), Assign(Name("a"), [type |-> "ARRAY_LIST", elements |-> <<Num(4), Num(5)>>]),
          s, Return(None)>> : s \in {Call("f", <<>>), Call("f", <<Name("x")>>), Step("DECREMENT", "x"),
                                     [type |-> "DECL"]}}
  \cup {<<[type |-> type, left |-> e, body |-> <<Return(e)>>], Return(Num(6))>> :
          type \in {"IF", "WHILE"}, e \in Simple}

Function(body, arguments_) ==
  [name |-> "main", params |-> <<"x", "y">>, arguments |-> arguments_, body |-> body]

Programs ==
  {Function(body, <<0, 0>>) : body \in Controls}
    \cup {Function(body, <<0, y>>) : body \in Uses, y \in {0, 1}}

MCNodes == UNION {StatementsIn(p.body) : p \in Programs}

(* What the theorems about Tac suppose. *)
ASSUME CodeIsPlain(0..3)
ASSUME AllShapes \/ (BlocksEnd /\ \A p \in Programs : ChainsEnd(p.body))

MCInit == program \in Programs /\ Start /\ RunStart
MCSpec == MCInit /\ [][Next]_<<translated, running>>
==============================================================================
