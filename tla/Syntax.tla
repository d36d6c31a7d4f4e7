---------------------------------- MODULE Syntax ---------------------------------
(***************************************************************************)
(* The language the parser is to read, as the reference for its            *)
(* properties: the words (Words) a tree of the parser's nodes is written   *)
(* with.                                                                   *)
(***************************************************************************)
EXTENDS Parser

W(symbol) == << <<symbol>> >>

------------------------------------------------------------------------------
(* Expressions, with the parentheses precedence asks for and no others.      *)

Arithmetic == {"+", "-"}
Relational == {"<", ">", "<=", ">=", "==", "!="}

Assigning == {"+=", "-=", "*=", "/="}

(* How tightly a node binds: 0 for what needs no parentheses, and an         *)
(* operator that assigns least of all.                                       *)
Binding(type) ==
  CASE type \in {"*", "/", "%"} -> 1
    [] type \in Arithmetic      -> 2
    [] type \in Relational      -> 3
    [] type = "&&"              -> 4
    [] type = "||"              -> 5
    [] type \in Assigning       -> 6
    [] OTHER                    -> 0

(* The word of an operator. *)
Operator(type) ==
  CASE type = "NOT" -> W("!") [] type = "UNARY_SUB" -> W("-") [] type = "UNARY_ADD" -> W("+")
    [] OTHER -> IF \E c \in Compound : CompoundType[c] = type
                THEN << CHOOSE c \in Compound : CompoundType[c] = type >> ELSE W(type)

Separated(parts) ==
  FlattenSeq([i \in DOMAIN parts |-> IF i = 1 THEN parts[i] ELSE W(",") \o parts[i]])

RECURSIVE Expression(_, _)
Expression(node, most) ==
  LET kid(i, m) == Expression(node.kids[i], m)
      binding   == Binding(node.type)
      within(words) == IF binding <= most THEN words ELSE W("(") \o words \o W(")")
  IN  CASE binding > 0 ->
             within(kid(1, binding) \o Operator(node.type) \o kid(2, binding - 1))
        [] node.type \in {"NOT", "UNARY_SUB", "UNARY_ADD"} -> Operator(node.type) \o kid(1, 0)
        [] node.type = "CALL" ->
             kid(1, 0) \o W("(")
               \o Separated([i \in 1..(Len(node.kids) - 1) |-> kid(i + 1, 5)]) \o W(")")
        [] node.type = "SUBSCRIPT" -> kid(1, 0) \o W("[") \o kid(2, 5) \o W("]")
        [] node.type \in {"++", "--"} -> kid(1, 0) \o Operator(node.type)
        [] node.type = "CHAR" -> << <<"'">> \o node.name \o <<"'">> >>
        [] OTHER -> <<node.name>>

Whole(node) == Expression(node, 6)

------------------------------------------------------------------------------
(* Statements and globals.  A loop that defines its variable is written with *)
(* a let, or without.                                                        *)

Keyword == [INTEGER |-> W("int"), CHAR |-> W("char"), BOOL |-> W("bool"), VOID |-> W("void")]

(* What is defined, with its type. *)
Definition(node) ==
  <<node.name>> \o W(":") \o Keyword[Last(node.t)]
    \o IF node.kids = <<>> THEN <<>> ELSE W("[") \o Whole(node.kids[1]) \o W("]")

List(elements) == W("{") \o Separated([i \in DOMAIN elements |-> Whole(elements[i])]) \o W("}")

Assigned(node) ==
  W("=") \o IF node.kids[2].type = "ARRAY_LIST" THEN List(node.kids[2].kids) ELSE Whole(node.kids[2])

(* An assignment, without its semicolon. *)
Assignment(node, let) ==
  LET target == node.kids[1]
  IN  IF target.type = "DEF" THEN let \o Definition(target.kids[1]) \o Assigned(node)
      ELSE Whole(target.kids[1]) \o Assigned(node)

RECURSIVE Statement(_, _)
Statement(node, loops) ==
  LET block(b) == W("{") \o FlattenSeq([i \in DOMAIN b.kids |-> Statement(b.kids[i], loops)]) \o W("}")
      guard    == W("(") \o Whole(node.kids[1]) \o W(")")
      define   == IF loops = "let" THEN W("let") ELSE <<>>
  IN  CASE node.type = "ASSIGNMENT" ->
             Assignment(node, W("let")) \o W(";")
        [] node.type = "DECL"    -> W("let") \o Definition(node.kids[1]) \o W(";")
        [] node.type = "RETURN"  ->
             W("return") \o (IF node.kids = <<>> THEN <<>> ELSE Whole(node.kids[1])) \o W(";")
        [] node.type = "BREAK"    -> W("break") \o W(";")
        [] node.type = "CONTINUE" -> W("continue") \o W(";")
        [] node.type = "IF"       -> W("if") \o guard \o block(node.kids[2])
        [] node.type = "ELSE_IF"  -> W("else") \o W("if") \o guard \o block(node.kids[2])
        [] node.type = "ELSE"     -> W("else") \o block(node.kids[1])
        [] node.type = "WHILE"    -> W("while") \o guard \o block(node.kids[2])
        [] node.type = "FOR"      ->
             W("for") \o W("(") \o Assignment(node.kids[1], define) \o W(";")
               \o Whole(node.kids[2]) \o W(";")
               \o (IF node.kids[3].type = "ASSIGNMENT" THEN Assignment(node.kids[3], <<>>)
                   ELSE Whole(node.kids[3])) \o W(")") \o block(node.kids[4])
        [] OTHER -> Whole(node) \o W(";")

Fields(block) ==
  FlattenSeq([i \in DOMAIN block.kids |-> Definition(block.kids[i].kids[1]) \o W(";")])

HasType(node, kind) == node.type = "NAME" /\ node.t # <<>> /\ node.t[1] = kind
IsFunction(node) == HasType(node, "FUNCTION")

(* A global array's elements are kids of its assignment. *)
GlobalAssigned(node) ==
  IF HasType(node.kids[1], "ARRAY") THEN W("=") \o List(Tail(node.kids)) ELSE Assigned(node)

Global(node, loops) ==
  CASE IsFunction(node) ->
         W("function") \o <<node.name>> \o W("(")
           \o Separated([i \in 1..(Len(node.kids) - 1) |-> Definition(node.kids[i])])
           \o W(")") \o Operator("->") \o Keyword[node.t[2]]
           \o W("{") \o FlattenSeq([i \in DOMAIN Last(node.kids).kids |->
                                      Statement(Last(node.kids).kids[i], loops)]) \o W("}")
    [] node.type = "NAME" /\ ~IsFunction(node) -> W("let") \o Definition(node) \o W(";")
    [] node.type = "ASSIGNMENT" -> W("let") \o Definition(node.kids[1]) \o GlobalAssigned(node) \o W(";")
    [] node.type = "ENUM" ->
         W("enum") \o <<node.name>> \o List(node.kids) \o W(";")
    [] node.type = "STRUCT_DEF" ->
         W("struct") \o <<node.name>> \o W("{") \o Fields(node.kids[1]) \o W("}") \o W(";")

Program(globals, loops) == FlattenSeq([i \in DOMAIN globals |-> Global(globals[i], loops)])

==============================================================================
