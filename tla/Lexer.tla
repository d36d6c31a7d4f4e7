---------------------------------- MODULE Lexer ----------------------------------
(***************************************************************************)
(* The lexer (Lexer/lexer.c): one token for each turn of the loop of lex,  *)
(* with the compound operators, the comments and the quotes.               *)
(*                                                                         *)
(* The text is a sequence of symbols: a run of letters or of digits is one *)
(* symbol, every other character is one of its own.  A symbol beside a     *)
(* quote stands for one character.                                         *)
(***************************************************************************)
EXTENDS Naturals, Sequences, FiniteSets, SequencesExt

CONSTANTS
  Letters,           \* runs of letters that are not keywords
  Digits             \* runs of digits

VARIABLES
  text,            \* info->contents
  end,             \* lexer->end: the next symbol to read
  tokens,          \* lexer->tokens
  lexer_errors     \* the error table of PHASE_LEXER

lexer == <<end, tokens, lexer_errors>>

keywords == {"function", "let", "int", "char", "bool", "void", "struct", "enum", "if", "else",
             "for", "while", "continue", "break", "return", "switch", "case", "true", "false", "str"}

Spaces     == {" ", "\n"}
Operators  == {"=", "+", "-", "*", "/", "<", "!", "&", ">", "|", "%"}
Delimiters == {"'", ":", "(", ")", "[", "]", "{", "}", ",", "\"", ";"}
Alpha      == keywords \cup Letters
Alnum      == Alpha \cup Digits \cup {"_"}

(* The compound operators: two characters and their token. *)
Compounds ==
  {<<"+", "=", "+=">>, <<"+", "+", "++">>, <<"-", "=", "-=">>, <<"-", "-", "--">>, <<"-", ">", "->">>,
   <<"*", "=", "*=">>, <<"/", "=", "/=">>, <<"<", "=", "<=">>, <<">", "=", ">=">>, <<"!", "=", "!=">>,
   <<"=", "=", "==">>, <<"&", "&", "&&">>, <<"|", "|", "||">>}

Compound == {<<c[1], c[2]>> : c \in Compounds}
CompoundType ==
  [pair \in Compound |-> (CHOOSE c \in Compounds : c[1] = pair[1] /\ c[2] = pair[2])[3]]

(* A run is of letters or of digits, and neither a keyword nor a character   *)
(* with a meaning of its own.                                                *)
ASSUME SymbolsAssumption ==
  /\ Letters \cap Digits = {}
  /\ (Letters \cup Digits) \cap (keywords \cup Spaces \cup Operators \cup Delimiters \cup {"", "_"}) = {}

------------------------------------------------------------------------------
lexer_at_end(n) == n > Len(text)

(* The end of the text is the character '\0'. *)
peek_lexer(n) == IF lexer_at_end(n) THEN "" ELSE text[n]

(* Past the symbols from n that are in a set. *)
Past(n, symbols) ==
  LET stops == {m \in n..Len(text) : text[m] \notin symbols}
  IN  IF stops = {} THEN Len(text) + 1 ELSE CHOOSE m \in stops : \A k \in stops : m <= k

skip_lexer_whitespace(n) == Past(n, Spaces)
skip_lexer_comment(n) ==
  LET ends == {m \in n..Len(text) : text[m] = "\n"}
  IN  IF ends = {} THEN Len(text) + 1 ELSE CHOOSE m \in ends : \A k \in ends : m <= k

(* Mutant: the end of the text is not looked for. *)
MutantAdvance(n) == n + 1

advance_lexer(n) == IF lexer_at_end(n) THEN n ELSE n + 1

Between(m, n) == SubSeq(text, m, n - 1)

(* A token has the symbols it was made of for its value. *)
Token(type, value) == [type |-> type, value |-> value]
add_token(token) == tokens' = Append(tokens, token)
log_lexer_error(type) == lexer_errors' = Append(lexer_errors, type)

Eof == Token("EOF", <<>>)

------------------------------------------------------------------------------
(* Where the token of this turn starts. *)
Start == skip_lexer_whitespace(end)
StartsWith(symbols) == ~lexer_at_end(end) /\ peek_lexer(Start) \in symbols

(* str is a keyword without a token of its own. *)
KeywordType(keyword) == IF keyword = "str" THEN "UNKNOWN" ELSE keyword

get_identifier ==
  /\ StartsWith(Alpha)
  /\ LET after == Past(Start, Alnum)
         name  == Between(Start, after)
     IN  /\ end' = after
         /\ add_token(IF Len(name) = 1 /\ name[1] \in keywords
                      THEN Token(KeywordType(name[1]), name) ELSE Token("ID", name))
  /\ UNCHANGED lexer_errors

get_number ==
  /\ StartsWith(Digits)
  /\ end' = Past(Start, Digits)
  /\ add_token(Token("INTEGER", Between(Start, end')))
  /\ UNCHANGED lexer_errors

(* Mutant: an equals sign is not matched after another character. *)
MutantIsCompound(n) == <<peek_lexer(n), peek_lexer(n + 1)>> \in Compound \ {<<"=", "=">>, <<"!", "=">>}

IsCompound(n) == <<peek_lexer(n), peek_lexer(n + 1)>> \in Compound
IsComment(n)  == <<peek_lexer(n), peek_lexer(n + 1)>> = <<"/", "/">>

CompoundOperator ==
  /\ StartsWith(Operators) /\ IsCompound(Start)
  /\ end' = Start + 2
  /\ add_token(Token(CompoundType[<<text[Start], text[Start + 1]>>], Between(Start, end')))
  /\ UNCHANGED lexer_errors

Comment ==
  /\ StartsWith(Operators) /\ IsComment(Start)
  /\ end' = skip_lexer_comment(Start + 2)
  /\ UNCHANGED <<tokens, lexer_errors>>

(* A lone bar is passed over. *)
SimpleOperator ==
  /\ StartsWith(Operators) /\ ~IsCompound(Start) /\ ~IsComment(Start)
  /\ end' = Start + 1
  /\ IF text[Start] = "|" THEN UNCHANGED tokens ELSE add_token(Token(text[Start], <<text[Start]>>))
  /\ UNCHANGED lexer_errors

CharLiteral ==
  /\ StartsWith({"'"})
  /\ LET closing == advance_lexer(Start + 1)
     IN  /\ add_token(Token("CHAR_LITERAL", <<peek_lexer(Start + 1)>>))
         /\ IF peek_lexer(closing) = "'"
            THEN end' = closing + 1 /\ UNCHANGED lexer_errors
            ELSE end' = closing /\ log_lexer_error("EXPECTED_SINGLE_QUOTE")

(* The first character is passed over and the closing quote is left, to     *)
(* open the next literal.                                                   *)
StringLiteral ==
  /\ StartsWith({"\""})
  /\ LET closing == Past(advance_lexer(Start + 1), Alnum)
     IN  /\ end' = closing
         /\ IF peek_lexer(closing) = "\""
            THEN add_token(Token("STR_LITERAL", Between(Start, closing))) /\ UNCHANGED lexer_errors
            ELSE log_lexer_error("EXPECTED_DOUBLE_QUOTE") /\ UNCHANGED tokens

Delimiter ==
  /\ StartsWith(Delimiters \ {"'", "\""})
  /\ end' = Start + 1
  /\ add_token(Token(text[Start], <<text[Start]>>))
  /\ UNCHANGED lexer_errors

(* Any other character is passed over, and so is what follows the last one. *)
PassOver ==
  /\ ~lexer_at_end(end)
  /\ peek_lexer(Start) \notin Alpha \cup Digits \cup Operators \cup Delimiters
  /\ end' = advance_lexer(Start)
  /\ UNCHANGED <<tokens, lexer_errors>>

LexToken ==
  \/ get_identifier \/ get_number \/ CompoundOperator \/ Comment \/ SimpleOperator
  \/ CharLiteral \/ StringLiteral \/ Delimiter \/ PassOver
==============================================================================
