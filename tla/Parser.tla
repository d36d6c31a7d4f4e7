---------------------------------- MODULE Parser ---------------------------------
(***************************************************************************)
(* The parser (Parser/parser.c) of the lexer's tokens, the last of them    *)
(* EOF.  Each of its functions is an operator from the parser before to    *)
(* the parser after a call; parse itself is ParserLoop's.                  *)
(***************************************************************************)
EXTENDS ParserLoop

------------------------------------------------------------------------------
(* Parsers.                                                                  *)

PeekNext(p) == IF p.at = Len(p.tokens) THEN "EOF" ELSE p.tokens[p.at + 1].type
Value(p) == p.tokens[p.at].value

Stop(p, status) == IF Runs(p) THEN [p EXCEPT !.status = status] ELSE p
advance_parser(p) ==
  CASE ~Runs(p) -> p
    [] Runs(p) /\ p.at = Len(p.tokens) -> Stop(p, "overruns")
    [] Runs(p) /\ p.at < Len(p.tokens) -> [p EXCEPT !.at = @ + 1]

log_error(p, type) == IF Runs(p) THEN [p EXCEPT !.errors = Append(@, [type |-> type, at |-> p.at])] ELSE p

(* An error is logged for a token that is not one of these, and no more. *)
Expect(p, types, error) == IF Peek(p) \in types THEN p ELSE log_error(p, error)
(* ... and whatever is there is passed over. *)
Pass(p, types, error) == advance_parser(Expect(p, types, error))

(* strlen of a value that is not a string. *)
HasString(type) == type \notin {"INTEGER", "CHAR_LITERAL", "EOF", "(", ")", "{", "}", "[", "]",
                                 ";", ":", ",", "+", "-", "*", "/", "%", "<", ">", "!", "=", "&"}
CopyName(p) == IF HasString(Peek(p)) THEN p ELSE Stop(p, "crashes")

(* What a call that returned no node does not go on to. *)
IfNode(p, Rest(_)) == IF Runs(p) /\ p.node # Null THEN Rest(p) ELSE ReturnNull(p)

Node(type, kids) == [type |-> type, name |-> <<>>, t |-> <<>>, kids |-> kids]
Leaf(type, name, t) == [type |-> type, name |-> name, t |-> t, kids |-> <<>>]
Name(name) == Leaf("NAME", name, <<>>)

DataTypes == {"int", "char", "bool"}
get_type(type) ==
  CASE type = "int" -> "INTEGER" [] type = "char" -> "CHAR" [] type = "bool" -> "BOOL"
    [] type = "struct" -> "STRUCT" [] type = "void" -> "VOID" [] OTHER -> "UNKNOWN"

------------------------------------------------------------------------------
(* Expressions.  The levels bind from the first to the last.                 *)

(* Mutant: the relational operators and && bind alike. *)
MutantLevels == <<{"*", "/", "*=", "/=", "%"}, {"+", "-", "+=", "-="},
                  {"<", ">", "<=", ">=", "==", "!=", "&&"}, {"&&"}, {"||"}>>

Levels == <<{"*", "/", "*=", "/=", "%"}, {"+", "-", "+=", "-="},
            {"<", ">", "<=", ">=", "==", "!="}, {"&&"}, {"||"}>>
LogicalOr == 5

Unary == [t \in {"!", "+", "-"} |->
            CASE t = "!" -> "NOT" [] t = "+" -> "UNARY_ADD" [] t = "-" -> "UNARY_SUB"]

ParseLiteral(p) ==
  LET type == CASE Peek(p) \in {"true", "false"} -> "BOOL" [] Peek(p) = "CHAR_LITERAL" -> "CHAR"
                [] OTHER -> "INTEGER"
  IN  Return(advance_parser(p), Leaf(type, Value(p), <<>>))

RECURSIVE Binary(_, _), Climb(_, _), UnaryOperators(_, _), Args(_, _), NextArg(_, _, _)

Combine(p, right) == Return(right, Node(Peek(p), <<p.node, right.node>>))

(* One operator node for each operator of the level, to the left, unless     *)
(* there is no left operand; a right one that is not there is not missed.    *)
Climb(level, p) ==
  IF ~Runs(p) \/ p.node = Null \/ Peek(p) \notin Levels[level] THEN p
  ELSE Climb(level, Combine(p, Binary(level - 1, advance_parser(p))))

parse_logical_or(p) == Binary(LogicalOr, p)

(* In parentheses or brackets. *)
Enclosed(p, close, error) ==
  IfNode(parse_logical_or(advance_parser(p)),
         LAMBDA q : Return(Pass(q, {close}, error), q.node))

(* An argument that is no expression is not passed over. *)
Args(p, args) ==
  IF ~Runs(p) \/ Peek(p) = ")" THEN Return(p, args)
  ELSE NextArg(p, parse_logical_or(p), args)
NextArg(p, q, args) ==
  LET here == IF q.node = Null /\ q.at = p.at /\ Peek(q) \notin {",", ")"}
              THEN Stop(q, "hangs") ELSE q
  IN  Args(IF Runs(here) /\ Peek(here) = "," THEN advance_parser(here) ELSE here,
           Append(args, q.node))
parse_args(p) == Args(p, <<>>)
CallOf(name, args) == Return(args, Node("CALL", <<name>> \o args.node))

ParseName(p) ==
  LET name == Name(Value(p))
      q == advance_parser(p)
  IN  CASE Peek(q) = "(" ->
             Pass(CallOf(name, parse_args(advance_parser(q))), {")"}, "EXPECTED_RIGHT_PARENTHESES")
        [] Peek(q) = "[" ->
             IfNode(Enclosed(q, "]", "EXPECTED_RIGHT_BRACKET"),
                    LAMBDA r : Return(r, Node("SUBSCRIPT", <<name, r.node>>)))
        [] Peek(q) \in {"++", "--"} -> Return(advance_parser(q), Node(Peek(q), <<name>>))
        [] OTHER -> Return(q, name)

parse_factor(p) ==
  CASE Peek(p) = "ID" -> ParseName(p)
    [] Peek(p) \in {"INTEGER", "CHAR_LITERAL", "true", "false"} -> ParseLiteral(p)
    [] Peek(p) = "(" -> Enclosed(p, ")", "EXPECTED_RIGHT_PARENTHESES")
    [] Peek(p) = "[" -> Enclosed(p, "]", "EXPECTED_RIGHT_BRACKET")
    [] OTHER -> ReturnNull(p)

Apply(operators, p) ==
  Return(p, FoldRight(LAMBDA operator, node : Node(operator, <<node>>), operators, p.node))

(* Behind an operator an operand that is not there is not missed. *)
UnaryOperators(p, operators) ==
  IF Runs(p) /\ Peek(p) \in DOMAIN Unary
  THEN UnaryOperators(advance_parser(p), Append(operators, Unary[Peek(p)]))
  ELSE Apply(operators, parse_factor(p))
parse_unary(p) == UnaryOperators(p, <<>>)

(* parse_multiplicative, parse_additive, parse_relational, parse_logical_and,*)
(* parse_logical_or.                                                         *)
Binary(level, p) ==
  IF level = 0 THEN parse_unary(p)
  ELSE Climb(level, Binary(level - 1, p))

------------------------------------------------------------------------------
(* Statements.  One that has no case, or a case that makes no node, is       *)
(* Nothing; a return of NULL from within a case skips the statement's end.   *)

Nothing == Leaf("NOTHING", <<>>, <<>>)
BlockTypes == {"IF", "ELSE_IF", "ELSE", "FOR", "WHILE"}

(* have_valid_statement and what parse_statement does after it. *)
EndOfStatement(p) ==
  CASE p.node = Null -> p
    [] p.node = Nothing -> ReturnNull(advance_parser(p))
    [] p.node \notin {Null, Nothing} /\ p.node.type \in BlockTypes -> p
    [] OTHER -> LET q == Pass(p, {";"}, "EXPECTED_SEMICOLON")
                IN  IF Peek(p) = ";" THEN q ELSE ReturnNull(q)

(* The last element loses its right operand: current->right for ->next. *)
CutRight(node) ==
  IF node.kids = <<>> \/ node.type \in {"CALL", "++", "--"} THEN node
  ELSE [node EXCEPT !.kids[Len(node.kids)] = Null]

RECURSIVE ArrayElements(_, _), Block(_, _), NextStatement(_, _), parse_statement(_)

ArrayElements(p, elements) ==
  IF ~Runs(p) \/ Peek(p) = "}"
  THEN Return(advance_parser(p),
              IF elements = <<>> THEN <<>>
              ELSE Append(Front(elements), CutRight(Last(elements))))
  ELSE IfNode(parse_logical_or(p),
              LAMBDA q : ArrayElements(IF Peek(q) = "," THEN advance_parser(q) ELSE q,
                                       Append(elements, q.node)))
parse_array_list(p) == ArrayElements(advance_parser(p), <<>>)

(* A stray else ends the block where it stands, with a message only. *)
Block(p, stmts) ==
  IF ~Runs(p) \/ Peek(p) = "}" THEN Return(advance_parser(p), Node("BLOCK", stmts))
  ELSE NextStatement(parse_statement(p), stmts)
NextStatement(p, stmts) ==
  CASE p.node = Null -> Block(p, stmts)
    [] /\ p.node # Null /\ p.node.type \in {"ELSE", "ELSE_IF"}
       /\ stmts = <<>> \/ Last(stmts).type \notin {"IF", "ELSE_IF"} -> ReturnNull(p)
    [] OTHER -> Block(p, Append(stmts, p.node))
parse_block(p) == Block(p, <<>>)

Define(name, t, kids) == Node("DEF", <<[Leaf("NAME", name, t) EXCEPT !.kids = kids]>>)
Decl(name, t) == Node("DECL", <<Leaf("NAME", name, <<t>>)>>)

LetElements(p, array) ==
  Expect(Return(p, Node("ASSIGNMENT",
                        <<array, Node("ARRAY_LIST", IF p.node = Null THEN <<>> ELSE p.node)>>)),
         {";"}, "EXPECTED_SEMICOLON")

(* The node of an array's declaration is made without the array. *)
LetArray(p, name, t) ==
  IfNode(Enclosed(p, "]", "EXPECTED_RIGHT_BRACKET"), LAMBDA q :
    CASE Peek(q) = ";" -> Return(q, Node("DECL", <<>>))
      [] Peek(q) = "=" ->
           LetElements(parse_array_list(advance_parser(q)), Define(name, <<"ARRAY", t>>, <<q.node>>))
      [] OTHER -> Return(q, Nothing))

LetTyped(p, name, t) ==
  CASE Peek(p) = "[" -> LetArray(p, name, t)
    [] Peek(p) = ";" -> Return(p, Decl(name, t))
    [] Peek(p) = "=" ->
         IfNode(parse_logical_or(advance_parser(p)), LAMBDA q :
           Return(q, Node("ASSIGNMENT", <<Define(name, <<t>>, <<>>), q.node>>)))
    [] OTHER -> Return(p, Nothing)

LetStatement(p) ==
  LET name  == advance_parser(p)
      colon == advance_parser(name)
      type  == advance_parser(colon)
  IN  CASE Peek(name) # "ID" -> ReturnNull(log_error(name, "EXPECTED_IDENTIFIER"))
        [] Peek(name) = "ID" /\ Peek(colon) # ":" -> ReturnNull(log_error(colon, "EXPECTED_COLON"))
        [] OTHER ->
             IF Peek(type) \notin DataTypes \cup {"str", "struct"}
             THEN ReturnNull(log_error(type, "EXPECTED_DATATYPE"))
             ELSE LetTyped(advance_parser(type), Value(name), get_type(Peek(type)))

ReturnStatement(p) ==
  LET q == advance_parser(p)
  IN  IF Peek(q) = ";" THEN Return(q, Node("RETURN", <<>>))
      ELSE IfNode(parse_logical_or(q), LAMBDA r : Return(r, Node("RETURN", <<r.node>>)))

JumpStatement(p) ==
  Return(Expect(advance_parser(p), {";"}, "EXPECTED_SEMICOLON"),
         Node(IF Peek(p) = "break" THEN "BREAK" ELSE "CONTINUE", <<>>))

(* A condition and the block after it; the opening brace is passed over. *)
Guarded(p, type) ==
  LET body == parse_block(Pass(p, {"{"}, "EXPECTED_LEFT_BRACE"))
  IN  Return(body, Node(type, <<p.node, body.node>>))

Condition(p) == parse_logical_or(Expect(advance_parser(p), {"("}, "EXPECTED_LEFT_PARENTHESES"))

IfStatement(p) == IfNode(Condition(p), LAMBDA q : Guarded(q, "IF"))
WhileStatement(p) == IfNode(Condition(p), LAMBDA q : Guarded(q, "WHILE"))

(* The condition of an else if may be missing. *)
ElseStatement(p) ==
  LET q == advance_parser(p)
  IN  CASE Peek(q) = "if" -> Guarded(Condition(q), "ELSE_IF")
        [] Peek(q) = "{" ->
             IfNode(parse_block(advance_parser(q)), LAMBDA r : Return(r, Node("ELSE", <<r.node>>)))
        [] OTHER -> Return(log_error(q, "EXPECTED_LEFT_BRACE"), Nothing)

(* What all three forms of for end with. *)
ForBody(p, heads) ==
  LET body == parse_block(Pass(Pass(p, {")"}, "EXPECTED_RIGHT_PARENTHESES"),
                               {"{"}, "EXPECTED_LEFT_BRACE"))
  IN  Return(body, Node("FOR", Append(heads, body.node)))

ForLet(p) ==
  IfNode(parse_statement(p), LAMBDA initializer :
    IfNode(parse_logical_or(initializer), LAMBDA condition :
      IfNode(parse_logical_or(Pass(condition, {";"}, "EXPECTED_SEMICOLON")), LAMBDA update :
        ForBody(update, <<initializer.node, condition.node, update.node>>))))

(* The initializer's statement has passed its semicolon, and one more token  *)
(* is passed over.                                                           *)
ForName(p) ==
  IfNode(parse_statement(p), LAMBDA initializer :
    IfNode(parse_logical_or(advance_parser(initializer)), LAMBDA condition :
      IF Peek(condition) # ";" THEN ReturnNull(log_error(condition, "EXPECTED_SEMICOLON"))
      ELSE IfNode(parse_logical_or(advance_parser(condition)), LAMBDA update :
             ForBody(update, <<initializer.node, condition.node, update.node>>))))

(* An update without a condition is linked to NULL. *)
TypedUpdate(p, heads) ==
  ForBody(IF Last(heads) = Null /\ p.node # Null THEN Stop(p, "crashes") ELSE p,
          Append(heads, p.node))
TypedCondition(p, initial) ==
  TypedUpdate(parse_logical_or(advance_parser(p)), <<initial, p.node>>)

ForTyped(p) ==
  LET type == advance_parser(advance_parser(p))
      value == Pass(advance_parser(Expect(type, {"int"}, "EXPECTED_INT_KEYWORD")),
                    {"="}, "EXPECTED_ASSIGNMENT")
      variable == Define(Value(p), <<get_type(Peek(type))>>, <<>>)
  IN  IfNode(parse_logical_or(value), LAMBDA initial :
        TypedCondition(parse_logical_or(Pass(initial, {";"}, "EXPECTED_SEMICOLON")),
                       Node("ASSIGNMENT", <<variable, initial.node>>)))

ForStatement(p) ==
  LET q == Pass(advance_parser(p), {"("}, "EXPECTED_LEFT_PARENTHESES")
  IN  CASE Peek(q) = "let" -> ForLet(q)
        [] Peek(q) = "ID" -> IF PeekNext(q) = ":" THEN ForTyped(q) ELSE ForName(q)
        [] OTHER -> Return(q, Nothing)

Augment(p, target) ==
  IfNode(parse_logical_or(p), LAMBDA q :
    Return(q, Node("ASSIGNMENT", <<Node("AUG", <<target>>), q.node>>)))

(* The parenthesis that closes a call is passed over, whatever it is. *)
NameStatement(p) ==
  LET name == Name(Value(p))
      q == advance_parser(p)
  IN  CASE Peek(q) = "[" ->
             IfNode(parse_logical_or(q), LAMBDA index :
               Augment(Pass(index, {"="}, "EXPECTED_ASSIGNMENT"),
                       Node("SUBSCRIPT", <<name, index.node>>)))
        [] Peek(q) = "(" ->
             advance_parser(CallOf(name, parse_args(advance_parser(q))))
        [] Peek(q) = "=" -> Augment(advance_parser(q), name)
        [] Peek(q) = ":" ->
             LET type == Expect(advance_parser(q), DataTypes, "EXPECTED_DATATYPE")
             IN  Return(Expect(advance_parser(type), {";"}, "EXPECTED_SEMICOLON"),
                        Decl(name.name, get_type(Peek(type))))
        [] Peek(q) \in {"++", "--"} -> Return(advance_parser(q), Node(Peek(q), <<name>>))
        [] OTHER -> Return(q, Nothing)

parse_statement(p) ==
  EndOfStatement(
    CASE ~Runs(p) -> p
      [] Peek(p) = "let" -> LetStatement(p)
      [] Peek(p) = "return" -> ReturnStatement(p)
      [] Peek(p) \in {"break", "continue"} -> JumpStatement(p)
      [] Peek(p) = "if" -> IfStatement(p)
      [] Peek(p) = "else" -> ElseStatement(p)
      [] Peek(p) = "for" -> ForStatement(p)
      [] Peek(p) = "while" -> WhileStatement(p)
      [] Peek(p) = "ID" -> NameStatement(p)
      [] OTHER -> Return(p, Nothing))

------------------------------------------------------------------------------
(* Globals.                                                                  *)

RECURSIVE Parameters(_, _), EnumNames(_, _)

Parameters(p, params) ==
  IF ~Runs(p) \/ Peek(p) = ")" THEN Return(p, params)
  ELSE LET name == CopyName(Expect(p, {"ID"}, "EXPECTED_IDENTIFIER"))
           type == Expect(Pass(advance_parser(name), {":"}, "EXPECTED_COLON"),
                          DataTypes, "EXPECTED_DATATYPE")
           q == advance_parser(type)
       IN  Parameters(IF Peek(q) = "," THEN advance_parser(q) ELSE q,
                      Append(params, Leaf("NAME", Value(p), <<get_type(Peek(type))>>)))
parse_parameters(p) == Parameters(p, <<>>)

(* A function without a name is passed over, up to the first brace that      *)
(* closes, or the first parenthesis if one was opened inside another.        *)
SkipFunction(p) ==
  LET close(q, t) == synchronize(q, {t})
      Reach(q, t) == IF Peek(close(q, t)) = "EOF" THEN Stop(close(q, t), "overruns") ELSE close(q, t)
      Nested(from, to, open) == \E n \in (from.at + 1)..to.at : p.tokens[n].type = open
      paren == Reach(p, ")")
      brace == Reach(paren, "{")
      after == Reach(brace, "}")
  IN  CASE Peek(p) # "(" -> ReturnNull(advance_parser(p))
        [] Peek(p) = "(" /\ Nested(p, paren, "(") -> ReturnNull(paren)
        [] Peek(p) = "(" /\ ~Nested(p, paren, "(") /\ Nested(brace, after, "{") -> ReturnNull(after)
        [] OTHER -> ReturnNull(advance_parser(after))

ReturnTypes == {"int", "char", "bool", "struct", "str", "void"}

FunctionBody(p, name, params) ==
  LET typed == Peek(p) \in ReturnTypes
      type == IF typed THEN <<"FUNCTION", get_type(Peek(p))>> ELSE <<>>
      q == IF typed THEN advance_parser(p)
           ELSE synchronize(log_error(p, "EXPECTED_DATATYPE"), {"{"})
      body == IF Peek(q) = "{" THEN advance_parser(q)
              ELSE synchronize(log_error(q, "EXPECTED_LEFT_BRACE"),
                               {"let", "ID", "struct", "enum", "for", "while", "if"})
  IN  IfNode(parse_block(body), LAMBDA r :
        Return(r, [Leaf("NAME", name, type) EXCEPT !.kids = Append(params, r.node)]))

parse_function(p) ==
  LET name == advance_parser(p)
      opened == advance_parser(name)
      first == IF Peek(opened) = "(" THEN advance_parser(opened)
               ELSE synchronize(log_error(opened, "EXPECTED_LEFT_PARENTHESES"), {"ID"})
      params == parse_parameters(first)
      arrow == advance_parser(params)
      type == IF Peek(arrow) = "->" THEN arrow
              ELSE synchronize(log_error(arrow, "EXPECTED_ARROW"),
                               {"int", "char", "bool", "struct", "void"})
  IN  IF Peek(name) # "ID" THEN SkipFunction(log_error(name, "EXPECTED_IDENTIFIER"))
      ELSE FunctionBody(advance_parser(type), Value(name), params.node)

(* After an array's elements one token more is passed over. *)
GlobalElements(p, array) ==
  IF p.node \in {Null, <<>>} THEN ReturnNull(p)
  ELSE Pass(Return(advance_parser(p), Node("ASSIGNMENT", <<array>> \o p.node)),
            {";"}, "EXPECTED_SEMICOLON")

GlobalArray(p, name, t) ==
  IfNode(Enclosed(p, "]", "EXPECTED_RIGHT_BRACKET"), LAMBDA q :
    LET array == [Leaf("NAME", name, <<"ARRAY", t>>) EXCEPT !.kids = <<q.node>>]
    IN  CASE Peek(q) = ";" -> Return(advance_parser(q), array)
          [] Peek(q) = "=" ->
               GlobalElements(parse_array_list(advance_parser(q)), array)
          [] OTHER -> ReturnNull(q))

parse_let(p) ==
  LET name == CopyName(Expect(advance_parser(p), {"ID"}, "EXPECTED_IDENTIFIER"))
      type == Expect(Pass(advance_parser(name), {":"}, "EXPECTED_COLON"),
                     DataTypes, "EXPECTED_DATATYPE")
      t == get_type(Peek(type))
      q == advance_parser(type)
      variable == Leaf("NAME", Value(name), <<t>>)
  IN  CASE Peek(q) = "[" -> GlobalArray(q, Value(name), t)
        [] Peek(q) = ";" -> Return(advance_parser(q), variable)
        [] Peek(q) = "=" ->
             IfNode(parse_logical_or(advance_parser(q)), LAMBDA r :
               Return(Pass(r, {";"}, "EXPECTED_SEMICOLON"),
                      Node("ASSIGNMENT", <<variable, r.node>>)))
        [] OTHER -> ReturnNull(q)

EnumNames(p, names) ==
  IF ~Runs(p) \/ Peek(p) = "}" THEN Return(advance_parser(p), names)
  ELSE LET name == advance_parser(CopyName(Expect(p, {"ID"}, "EXPECTED_IDENTIFIER")))
       IN  EnumNames(IF Peek(name) = "," THEN advance_parser(name) ELSE name,
                     Append(names, Name(Value(p))))

(* The head of an enum or a struct, to behind its opening brace. *)
Named(p) ==
  LET name == CopyName(Expect(advance_parser(p), {"ID"}, "EXPECTED_IDENTIFIER"))
  IN  Pass(advance_parser(name), {"{"}, "EXPECTED_LEFT_BRACE")

parse_enum(p) ==
  LET q == EnumNames(Named(p), <<>>)
  IN  IF q.node = <<>> THEN ReturnNull(q)
      ELSE Return(Pass(q, {";"}, "EXPECTED_SEMICOLON"),
                  [Leaf("ENUM", Value(advance_parser(p)), <<>>) EXCEPT !.kids = q.node])

parse_struct(p) ==
  IfNode(parse_block(Named(p)), LAMBDA q :
    Return(Pass(q, {";"}, "EXPECTED_SEMICOLON"),
           [Leaf("STRUCT_DEF", Value(advance_parser(p)), <<"STRUCT">>) EXCEPT !.kids = <<q.node>>]))

(* What parse calls for a global. *)
parse_global_at(p) ==
  CASE Peek(p) = "function" -> parse_function(p)
    [] Peek(p) = "let"      -> parse_let(p)
    [] Peek(p) = "struct"   -> parse_struct(p)
    [] Peek(p) = "enum"     -> parse_enum(p)
==============================================================================
