-------------------------------- MODULE MCFrontend -------------------------------
(* Programs written down from trees, those with a form the parser spoils    *)
(* among them, and damaged ones: a word taken out, doubled or replaced.     *)
EXTENDS Frontend

Lit(n) == Leaf("INTEGER", <<n>>, <<>>)
A == Name(<<"a">>)
B == Name(<<"b", "_", "1">>)
One == Lit("1")

Atoms == {A, One}
Factors ==
  {Node("CALL", <<A>>), Node("CALL", <<B, A, One>>), Node("SUBSCRIPT", <<A, One>>), Node("++", <<A>>),
   Node("--", <<B>>), Leaf("BOOL", <<"true">>, <<>>), Leaf("CHAR", <<"if">>, <<>>)}

Operators2 == {"*", "%", "-", "+", "<", "==", "&&", "||"}
UnaryTypes == {"NOT", "UNARY_SUB", "UNARY_ADD"}

Over(left, right, ops) == {Node(op, <<l, r>>) : op \in ops, l \in left, r \in right}
UnaryOver(kids) == {Node(op, <<k>>) : op \in UnaryTypes, k \in kids}

Simple == Over({A}, {One}, Operators2)
Deep ==
  Over(Simple, {B}, Operators2) \cup Over({B}, Simple, Operators2)
    \cup Over(UnaryOver({A}), UnaryOver({One}), {"-", "+"})
    \cup UnaryOver(UnaryOver(Atoms) \cup Factors)
    \cup Over(Factors, {One}, {"<="}) \cup Over({One}, Factors, {"/"})
    \cup {Node("CALL", <<A, n, m>>) : n \in Simple, m \in {One, Node("CALL", <<B>>)}}
    \cup {Node("SUBSCRIPT", <<A, n>>) : n \in Simple}

(* An operator that assigns, alone, over every other and under some. *)
Assigns ==
  Over({A, Node("SUBSCRIPT", <<A, One>>)}, {One} \cup Simple \cup UnaryOver({B}), Assigning)
    \cup Over({A}, Over({B}, {One}, Assigning), Assigning)
    \cup Over(Over({A}, {One}, Assigning), {B}, {"-", "*", "<"})

(* What a program has in place of an expression and the parser spoils. *)
Stepped == Node("++", <<Node("SUBSCRIPT", <<A, One>>)>>)

FunctionOf(t, params, stmts) ==
  [Leaf("NAME", <<"b", "_", "1">>, <<"FUNCTION", t>>) EXCEPT !.kids = Append(params, Node("BLOCK", stmts))]
Param(name, t) == Leaf("NAME", name, <<t>>)
Function(stmts) == FunctionOf("INTEGER", <<Param(<<"a">>, "INTEGER")>>, stmts)
Ret(e) == Node("RETURN", <<e>>)
Set(target, e) == Node("ASSIGNMENT", <<Node("AUG", <<target>>), e>>)
Let(e) == Node("ASSIGNMENT", <<Define(<<"a">>, <<"BOOL">>, <<>>), e>>)
Block1(stmts) == Node("BLOCK", stmts)
Loop(stmts) ==
  Node("FOR", <<Node("ASSIGNMENT", <<Define(<<"a">>, <<"INTEGER">>, <<>>), One>>),
                Node("<", <<A, B>>), Node("++", <<A>>), Block1(stmts)>>)
ArrayOf(elements) ==
  Node("ASSIGNMENT", <<Define(<<"a">>, <<"ARRAY", "CHAR">>, <<One>>), Node("ARRAY_LIST", elements)>>)

Stmts1 ==
  {Set(A, One), Set(Node("SUBSCRIPT", <<A, B>>), A), Let(A), Decl(<<"a">>, "BOOL"), Node("++", <<A>>),
   Node("CALL", <<A, One>>), Node("BREAK", <<>>), Node("CONTINUE", <<>>), Node("RETURN", <<>>),
   ArrayOf(<<One, A>>)}
Blocks1(stmts) ==
  {Node("IF", <<A, Block1(stmts)>>), Node("WHILE", <<A, Block1(stmts)>>), Loop(stmts)}
Nested == UNION {Blocks1(<<s>>) : s \in Stmts1 \cup Blocks1(<<>>)}
Chain(s, t) == <<Node("IF", <<A, Block1(<<s>>)>>), Node("ELSE_IF", <<B, Block1(<<>>)>>),
                 Node("ELSE", <<Block1(<<t>>)>>)>>

Bodies ==
  {<<Ret(e)>> : e \in Deep} \cup {<<s, t>> : s \in Stmts1, t \in Stmts1} \cup {<<s>> : s \in Nested}
    \cup {Chain(s, t) : s \in Stmts1, t \in {Node("IF", <<A, Block1(<<>>)>>), Ret(A)}}
    \cup {<<Ret(e)>> : e \in Assigns}
    \cup {<<ArrayOf(list)>> : list \in {<<>>, <<A>>, <<Node("+", <<A, One>>), Node("--", <<B>>)>>,
                                      <<One, Node("CALL", <<B, A>>)>>}}

(* A loop by its initializer, condition and update. *)
LoopOf(initial, condition, update) ==
  Node("FOR", <<initial, condition, update, Block1(<<Node("CONTINUE", <<>>)>>)>>)
Loops ==
  {LoopOf(initial, condition, update) :
     initial \in {Set(A, One), Let(One)},
     condition \in {A, Node("<", <<A, B>>), Node("NOT", <<A>>), Node("CALL", <<A>>)},
     update \in {A, Node("++", <<A>>), Node("+=", <<A, One>>), Set(A, Node("+", <<A, One>>))}}

(* Statements with a form the parser spoils, all but some of Loops. *)
Spoilt ==
  Loops
    \cup {Ret(Stepped), Stepped, Set(A, Stepped)}
    \cup {Node("DECL", <<[Leaf("NAME", <<"a">>, <<"ARRAY", "CHAR">>) EXCEPT !.kids = <<One>>]>>)}
    \cup {ArrayOf(Append(first, last)) :
            first \in {<<>>, <<One>>},
            last \in {Node("+", <<A, One>>), Node("NOT", <<A>>), Node("SUBSCRIPT", <<A, One>>),
                      Node("+=", <<A, One>>)}}
    \cup {A, One, Node("+", <<A, One>>), Node("+=", <<A, One>>), Node("NOT", <<A>>),
          Node("<", <<Node("SUBSCRIPT", <<A, One>>), B>>), Node("-", <<A, Node("CALL", <<B>>)>>)}

SpoiltBodies ==
  {<<s>> : s \in Spoilt} \cup UNION {{<<s, t>>, <<t, s>>} : s \in Spoilt, t \in {Set(A, One), Ret(A)}}
    \cup {<<b>> : b \in UNION {Blocks1(<<s>>) : s \in Spoilt}}

Variable == Leaf("NAME", <<"a">>, <<"CHAR">>)
Struct == [Leaf("STRUCT_DEF", <<"a">>, <<"STRUCT">>) EXCEPT !.kids = <<Block1(<<Decl(<<"a">>, "INTEGER"), Decl(<<"x">>, "CHAR")>>)>>]
Enum == [Leaf("ENUM", <<"a">>, <<>>) EXCEPT !.kids = <<A, B>>]
Array == [Leaf("NAME", <<"a">>, <<"ARRAY", "INTEGER">>) EXCEPT !.kids = <<One>>]
Globals1 == {Variable, Node("ASSIGNMENT", <<Variable, One>>), Struct, Enum, Array, Function(<<Ret(A)>>),
             FunctionOf("VOID", <<>>, <<Node("CALL", <<B>>)>>),
             FunctionOf("BOOL", <<Param(<<"a">>, "BOOL"), Param(<<"x">>, "CHAR")>>, <<>>)}
Listed ==
  {Node("ASSIGNMENT", <<Array>> \o elements) : elements \in {<<>>, <<One>>, <<One, Node("+", <<A, One>>)>>}}

Trees ==
  {<<Function(body)>> : body \in Bodies \cup SpoiltBodies} \cup {<<g, h>> : g \in Globals1, h \in Globals1}
    \cup {<<l>> : l \in Listed} \cup UNION {{<<g, l>>, <<l, g>>} : g \in Globals1, l \in Listed}

------------------------------------------------------------------------------
Good == {<<2, TRUE>>}
Calls == {<<1, TRUE>>, <<2, FALSE>>, <<2, TRUE>>}

Source(tree, words, gaps) == [ast |-> tree, words |-> words, gaps |-> gaps, calls |-> Good]
Meant ==
  {Source(t, Program(t, "let"), gaps) : t \in Trees, gaps \in {"tight", "spaced"}}
    \cup {Source(t, Program(t, "typed"), "tight") : t \in {<<Function(<<s>>)>> : s \in Nested}}
    \cup {[Source(t, Program(t, "let"), "commented") EXCEPT !.calls = Calls] :
            t \in {<<g, h>> : g \in Globals1, h \in Globals1}}

(* One word of a program taken out, doubled or replaced. *)
Bases ==
  {<<Function(<<Set(Node("SUBSCRIPT", <<A, B>>), Node("CALL", <<A, One, B>>)), Node("CALL", <<A, One>>)>>)>>,
   <<Function(Chain(Let(A), Ret(Node("-", <<A, One>>)))), Variable>>,
   <<Function(<<Loop(<<Node("BREAK", <<>>)>>), Node("WHILE", <<A, Block1(<<>>)>>)>>)>>,
   <<Struct, Enum, Array, Node("ASSIGNMENT", <<Variable, Leaf("CHAR", <<"x">>, <<>>)>>)>>}

Others == {<<";">>, <<"}">>, <<"{">>, <<")">>, <<"(">>, <<",">>, <<"else">>, <<"let">>, <<"a">>, <<"1">>,
           <<"'">>, <<"\"">>, <<"|">>, <<".">>, <<"str">>, <<"function">>, <<"struct">>}

Damage(words) ==
  {RemoveAt(words, n) : n \in DOMAIN words}
    \cup {InsertAt(words, n, words[n]) : n \in DOMAIN words}
    \cup {ReplaceAt(words, n, other) : n \in DOMAIN words, other \in Others}

Damaged == {Source(Null, words, "tight") : words \in UNION {Damage(Program(t, "let")) : t \in Bases}}
Sources == Meant \cup Damaged

MCInit == Compile(Sources)
MCSpec == MCInit /\ [][Next]_vars
==============================================================================
