--------------------------------- MODULE Frontend --------------------------------
(***************************************************************************)
(* The driver with the parser and, beside them, the language they are to   *)
(* read: what comes of a program that was written down from its tree.      *)
(***************************************************************************)
EXTENDS Words, Parser, Syntax

------------------------------------------------------------------------------
(* The forms of a well-written program that this parser does not read as     *)
(* they are written.  Each is a condition on one node of the tree.           *)

RECURSIVE NodesOf(_)
NodesOf(node) == {node} \cup UNION {NodesOf(node.kids[i]) : i \in DOMAIN node.kids}

(* for (i = 0; ..): behind the initializer's statement, which has passed its *)
(* semicolon, one token more is passed over (parser.c:1182).                 *)
ForOfName(node) == node.type = "FOR" /\ node.kids[1].kids[1].type = "AUG"

(* for (..; i = i + 1): the update is read by parse_logical_or, which knows  *)
(* no assignment (parser.c:995, 1135, 1204).                                 *)
UpdateAssigns(node) == node.type = "FOR" /\ node.kids[3].type = "ASSIGNMENT"

(* let a: int[2] = {1, 2}; of a global: parse_array_list has passed the      *)
(* brace, and the semicolon is passed over before it is looked for           *)
(* (parser.c:2075); an array without elements is dropped (2070).             *)
GlobalArrayListed(node) == node.type = "ASSIGNMENT" /\ HasType(node.kids[1], "ARRAY")

(* let a: int[2] = {1, 2 + 3}; the last element loses its right operand      *)
(* (parser.c:1870).                                                          *)
ListEndsInOperator(node) ==
  /\ node.type = "ARRAY_LIST" /\ node.kids # <<>>
  /\ Last(node.kids).kids # <<>> /\ Last(node.kids).type \notin {"CALL", "++", "--"}

(* let a: int[2]; of a local: the declaration is made without the array      *)
(* (parser.c:703).                                                           *)
ArrayDeclared(node) == node.type = "DECL" /\ HasType(node.kids[1], "ARRAY")

(* a[1]++: an element is not stepped, neither in an expression               *)
(* (parser.c:283-310) nor as a statement (1316-1336).                        *)
ElementStepped(node) == node.type \in {"++", "--"} /\ node.kids[1].type = "SUBSCRIPT"

(* a + 1; or a += 1; of its own: no case of parse_statement (parser.c:1434), *)
(* so what does not begin a statement is passed over word by word.           *)
StatementTypes ==
  {"ASSIGNMENT", "DECL", "RETURN", "BREAK", "CONTINUE", "IF", "ELSE_IF", "ELSE", "WHILE", "FOR",
   "CALL", "++", "--"}
ExpressionAlone(node) ==
  node.type = "BLOCK" /\ \E i \in DOMAIN node.kids : node.kids[i].type \notin StatementTypes

(* a += b - 1 and a *= b - 1: += binds as + does, and *= as *                *)
(* (parser.c:511-512, 529-530): what is added is b, and 1 is taken from the   *)
(* sum.                                                                      *)
AssignsTightly(node) ==
  /\ node.type \in Assigning
  /\ Binding(node.kids[2].type) \in (IF node.type \in {"+=", "-="} THEN 2 ELSE 1)..5

Spoiled(globals) ==
  \E g \in DOMAIN globals : \E node \in NodesOf(globals[g]) :
    \/ ForOfName(node) \/ UpdateAssigns(node) \/ GlobalArrayListed(node) \/ ListEndsInOperator(node)
    \/ ArrayDeclared(node) \/ ElementStepped(node) \/ ExpressionAlone(node) \/ AssignsTightly(node)

(* A program without a spoiled form is parsed to the tree that was written,  *)
(* by precedence, to the left, with each block's statements in it, and       *)
(* without an error; one with a spoiled form never is.                       *)
TreeFollowsSource ==
  source.ast # Null =>
    /\ ~Spoiled(source.ast) => (lexer_errors = <<>> /\ parser.errors = <<>> /\ Runs(parser))
    /\ main \in {"return"} \cup Range(Phases) => (ast = source.ast <=> ~Spoiled(source.ast))
==============================================================================
