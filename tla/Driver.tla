---------------------------------- MODULE Driver ---------------------------------
(***************************************************************************)
(* main (main.c) with the compiler context and the error tables: the       *)
(* arguments, the context's arenas, the lexer and the parser step by step, *)
(* what is shown of their errors, and the phases behind them, each as one  *)
(* step that may end the compiler by an assertion.                         *)
(***************************************************************************)
EXTENDS ParserLoop

VARIABLES
  source,          \* what the file is to say: its tree (or Null) and its words
  argc,            \* the number of arguments
  readable,        \* the file can be opened
  main,            \* what main does next
  turns,           \* how often the loop of lex, then of parse, has gone round
  phase,           \* ctx->phase
  live,            \* what is allocated of the context
  ran,             \* the phases behind the parser that were called
  shown,           \* the errors that were displayed
  exit             \* the compiler's status, or how else it ended

ASSUME NullAssumption == Null \notin {"success", "failure"}

input == <<source, argc, readable, text>>
front == <<end, tokens, lexer_errors, parser, ast>>
context == <<phase, live>>
vars == <<input, front, context, main, turns, ran, shown, exit>>

------------------------------------------------------------------------------
(* The context: the structure, its arenas and what is kept in one of them.   *)

Stages == <<"context", "lexer_arena", "ast_arena", "type_arena", "symbol_arena", "global_table",
            "symbol_stack", "ir_arena", "error_arena", "error_tables", "codegen_arena">>
Tables == {"global_table", "symbol_stack", "error_tables"}

Allocated(n) == {Stages[i] : i \in 1..n} \ Tables

(* Mutant: one list is without the arena that holds the error tables. *)
MutantFreedAfter(n) ==
  {Stages[i] : i \in 1..(n - 1)} \ (Tables \cup IF n = 11 THEN {"error_arena"} ELSE {})

(* What is freed when stage n cannot be made: a list of its own for each.    *)
WithSymbols == {"symbol_arena", "type_arena", "ast_arena", "lexer_arena", "context"}
FreedAfter(n) ==
  CASE n = 1 -> {}
    [] n = 2 -> {"context"}
    [] n = 3 -> {"lexer_arena", "context"}
    [] n = 4 -> {"ast_arena", "lexer_arena", "context"}
    [] n = 5 -> {"type_arena", "ast_arena", "lexer_arena", "context"}
    [] n = 6 -> WithSymbols
    [] n = 7 -> WithSymbols
    [] n = 8 -> WithSymbols
    [] n = 9 -> {"ir_arena"} \cup WithSymbols
    [] n = 10 -> {"error_arena", "ir_arena"} \cup WithSymbols
    [] n = 11 -> {"error_arena", "ir_arena"} \cup WithSymbols

free_compiler_context == live' = live \ Allocated(Len(Stages))

------------------------------------------------------------------------------
(* The error tables: each phase has one, log_error appends to that of        *)
(* ctx->phase.                                                               *)

Logged == CASE phase = "LEXER" -> lexer_errors [] phase = "PARSER" -> parser.errors [] OTHER -> <<>>

(* Mutant: a single error is missed. *)
MutantPhaseErrors == Len(Logged) > 1

phase_accumulated_errors == Logged # <<>>

(* The lexer's errors are indexed by their table, the first. *)
emit_errors ==
  shown' = [j \in DOMAIN Logged |-> IF phase = "LEXER" THEN Logged[1] ELSE Logged[j]]

------------------------------------------------------------------------------
(* main.                                                                     *)

Ends(status) == main' = "ended" /\ exit' = status

(* What main does behind the lexer and the parser. *)
CheckPhase(next) ==
  IF phase_accumulated_errors
  THEN emit_errors /\ free_compiler_context /\ Ends("failure")
  ELSE main' = next /\ UNCHANGED <<shown, live, exit>>

RejectArguments ==
  /\ main = "start" /\ argc # 2
  /\ Ends("failure")
  /\ UNCHANGED <<input, front, context, ran, shown, turns>>

create_compiler_context ==
  /\ main = "start" /\ argc = 2
  /\ live' = Allocated(Len(Stages))
  /\ main' = "lex"
  /\ UNCHANGED <<input, front, phase, ran, shown, exit, turns>>

(* An allocation fails, and those before it are freed. *)
ContextFails ==
  /\ main = "start" /\ argc = 2
  /\ \E n \in DOMAIN Stages : live' = Allocated(n - 1) \ FreedAfter(n)
  /\ Ends("failure")
  /\ UNCHANGED <<input, front, phase, ran, shown, turns>>

(* The lexer is set up from what the file says, also when there is no file. *)
StartLexer ==
  /\ main = "lex"
  /\ phase' = "LEXER"
  /\ IF readable THEN main' = "lexing" /\ UNCHANGED exit ELSE Ends("crashes")
  /\ UNCHANGED <<input, front, live, ran, shown, turns>>

Lex ==
  /\ main = "lexing"
  /\ LexToken
  /\ turns' = turns + 1
  /\ UNCHANGED <<input, parser, ast, context, main, ran, shown, exit>>

lex ==
  /\ main = "lexing" /\ lexer_at_end(end)
  /\ add_token(Eof)
  /\ CheckPhase("parse")
  /\ UNCHANGED <<input, end, lexer_errors, parser, ast, phase, ran, turns>>

StartParser ==
  /\ main = "parse"
  /\ phase' = "PARSER"
  /\ parser' = Fresh(tokens)
  /\ main' = "parsing"
  /\ turns' = 0
  /\ UNCHANGED <<input, lexer, ast, live, ran, shown, exit>>

Parse ==
  /\ main = "parsing"
  /\ ParseGlobal
  /\ turns' = turns + 1
  /\ UNCHANGED <<input, end, tokens, lexer_errors, context, main, ran, shown, exit>>

parse ==
  /\ main = "parsing" /\ Parsed
  /\ CheckPhase("resolve_tree")
  /\ UNCHANGED <<input, front, phase, ran, turns>>

(* A call of the parser that does not return. *)
ParserFails ==
  /\ main = "parsing" /\ ~Runs(parser)
  /\ Ends(parser.status)
  /\ UNCHANGED <<input, front, context, ran, shown, turns>>

(* No phase behind the parser sets ctx->phase, nor logs an error: what main   *)
(* checks behind the first two of them are the parser's errors again.        *)
Phases == <<"resolve_tree", "typecheck_tree", "build_tacs", "build_cfg", "reg_alloc", "codegen">>

RunPhase ==
  \E n \in DOMAIN Phases :
    /\ main = Phases[n]
    /\ ran' = Append(ran, Phases[n])
    /\ IF n <= 2 THEN CheckPhase(Phases[n + 1])
       ELSE /\ main' = IF n = Len(Phases) THEN "return" ELSE Phases[n + 1]
            /\ UNCHANGED <<shown, live, exit>>
    /\ UNCHANGED <<input, front, phase, turns>>

PhaseAborts ==
  /\ main \in Range(Phases)
  /\ ran' = Append(ran, main)
  /\ Ends("aborts")
  /\ UNCHANGED <<input, front, context, shown, turns>>

ReturnFromMain ==
  /\ main = "return"
  /\ free_compiler_context
  /\ Ends("success")
  /\ UNCHANGED <<input, front, phase, ran, shown, turns>>

Ended == main = "ended" /\ UNCHANGED vars

Next ==
  \/ RejectArguments \/ create_compiler_context \/ ContextFails
  \/ StartLexer \/ Lex \/ lex \/ StartParser \/ Parse \/ parse \/ ParserFails
  \/ RunPhase \/ PhaseAborts \/ ReturnFromMain \/ Ended

Init ==
  /\ text \in Seq(STRING) /\ argc \in Nat /\ readable \in BOOLEAN
  /\ end = 1 /\ tokens = <<>> /\ lexer_errors = <<>>
  /\ parser = Fresh(<<>>) /\ ast = <<>>
  /\ main = "start" /\ turns = 0 /\ phase = "LEXER" /\ live = {} /\ ran = <<>> /\ shown = <<>> /\ exit = Null

Spec == Init /\ [][Next]_vars

------------------------------------------------------------------------------
(* Properties.                                                               *)

(* The lexer stays in its text and the parser on the lexer's tokens, whose   *)
(* last is EOF once there is a parser; every error is of a token that is.    *)
TypeOK ==
  /\ end \in 1..(Len(text) + 1)
  /\ main \in {"parsing", "return"} \cup Range(Phases)
       => /\ parser.at \in DOMAIN tokens
          /\ {n \in DOMAIN tokens : tokens[n].type = "EOF"} = {Len(tokens)}
  /\ parser.status \in {"runs", "overruns", "hangs", "crashes"}
  /\ \A n \in DOMAIN parser.errors : /\ parser.errors[n].type \in Errors
                                     /\ parser.errors[n].at \in DOMAIN tokens
  /\ exit \in {Null, "success", "failure", "crashes", "hangs", "overruns", "aborts"}

(* A phase behind the parser runs for a program without errors only; the     *)
(* compiler reports failure exactly when there were some, and shows as many  *)
(* as were logged.                                                           *)
ErrorsEndCompilation ==
  LET errors == Len(lexer_errors) + Len(parser.errors)
  IN  /\ ran # <<>> => errors = 0
      /\ exit = "success" => ran = Phases
      /\ exit = "failure" /\ tokens # <<>> => errors > 0 /\ Len(shown) = errors

(* The context is whole while a phase runs, and nothing of it is left when   *)
(* main returns, by whichever return.                                        *)
ContextIsFreed ==
  /\ main \notin {"start", "ended"} => live = Allocated(Len(Stages))
  /\ exit \in {"success", "failure"} => live = {}

(* Each turn of the loops of lex and of parse reads on, so that neither goes *)
(* round for ever: not at a symbol nobody knows, a comment without an end or *)
(* a global that made no node.                                               *)
LexReadsOn   == main = "lexing"  => turns < end
ParseReadsOn == main = "parsing" => turns < parser.at

TurnsReadOn == LexReadsOn /\ ParseReadsOn
==============================================================================
