------------------------------- MODULE ParserLoop -------------------------------
(***************************************************************************)
(* parse (Parser/parser.c): one turn of its loop for each global, whatever *)
(* the function for the global makes of it (Parser).                       *)
(*                                                                         *)
(* A parser has the lexer's tokens and the place of the next of them, the  *)
(* errors it has logged, the node its last call returned, and a status: a  *)
(* call that advances past the end of the tokens, follows a token's value  *)
(* that is no string, or loops where it stands does not return.            *)
(***************************************************************************)
EXTENDS Lexer

CONSTANTS
  Null,
  parse_global(_)  \* the parser after the function for the global it is at

VARIABLES
  parser,          \* as above
  ast              \* the globals linked so far

Fresh(read) == [tokens |-> read, at |-> 1, errors |-> <<>>, node |-> Null, status |-> "runs"]

Runs(p) == p.status = "runs"
Peek(p) == p.tokens[p.at].type

Return(p, node) == [p EXCEPT !.node = node]
ReturnNull(p) == Return(p, Null)

synchronize(p, types) ==
  LET stops == {n \in p.at..Len(p.tokens) : p.tokens[n].type \in types \cup {"EOF"}}
  IN  IF Runs(p) THEN [p EXCEPT !.at = CHOOSE n \in stops : \A m \in stops : n <= m] ELSE p

------------------------------------------------------------------------------
Errors == {"EXPECTED_SINGLE_QUOTE", "EXPECTED_DOUBLE_QUOTE", "EXPECTED_IDENTIFIER", "EXPECTED_COLON",
           "EXPECTED_DATATYPE", "EXPECTED_SEMICOLON", "EXPECTED_ARROW", "EXPECTED_ASSIGNMENT",
           "EXPECTED_INT_KEYWORD", "EXPECTED_LEFT_PARENTHESES", "EXPECTED_RIGHT_PARENTHESES",
           "EXPECTED_LEFT_BRACE", "EXPECTED_RIGHT_BRACKET"}

(* The kind of value parse_global has: a list of errors, one of four ends. *)
IsParser(p) ==
  p \in [tokens : {p.tokens}, at : {p.at}, node : {p.node}, errors : Seq([type : Errors, at : Nat]),
          status : {"runs", "overruns", "hangs", "crashes"}]

(* What parse relies on from it: it reads on from the token it is at and     *)
(* stays on the tokens, and so do its errors.                                *)
ReadsOn(p) ==
  /\ IsParser(p) /\ p.tokens = parser.tokens
  /\ p.at \in (parser.at + 1)..Len(p.tokens)
  /\ \A n \in DOMAIN p.errors : p.errors[n].at \in DOMAIN p.tokens

Globals == {"function", "let", "struct", "enum"}

AtGlobal(types) == Runs(parser) /\ Peek(parser) \in types

(* Mutant: nothing is passed over. *)
MutantLink(p) ==
  IF p.node # Null /\ Runs(p) THEN parser' = ReturnNull(p) /\ ast' = Append(ast, p.node)
  ELSE parser' = ReturnNull(p) /\ UNCHANGED ast

(* A global that made no node is made up for by going to the next one. *)
Link(p) ==
  IF p.node # Null /\ Runs(p) THEN parser' = ReturnNull(p) /\ ast' = Append(ast, p.node)
  ELSE parser' = ReturnNull(synchronize(p, Globals)) /\ UNCHANGED ast

ParseDefinition ==
  /\ AtGlobal(Globals)
  /\ LET p == parse_global(parser) IN ReadsOn(p) /\ Link(p)

ParseNothing ==
  /\ Runs(parser) /\ Peek(parser) \notin Globals \cup {"EOF"}
  /\ Link(ReturnNull(parser))

ParseGlobal == ParseDefinition \/ ParseNothing

Parsed == Runs(parser) /\ Peek(parser) = "EOF"
==============================================================================
