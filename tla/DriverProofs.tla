------------------------------ MODULE DriverProofs -----------------------------
(***************************************************************************)
(* Proofs about main, for every text, every call of the compiler and       *)
(* whatever the parser makes of the tokens: no phase runs on a program     *)
(* with errors, the status says whether there were some, the context is    *)
(* freed on every way out, and each turn of the loops of lex and of parse  *)
(* reads on.  And about lex: what it makes of a text that was set down     *)
(* word by word is the words.                                              *)
(***************************************************************************)
EXTENDS Words, FiniteSetTheorems, SequenceTheorems, WellFoundedInduction, TLAPS

------------------------------------------------------------------------------
(* The lexer.                                                                *)

(* A set of numbers has a least one. *)
LEMMA Least ==
  ASSUME NEW T \in SUBSET Nat, T # {}
  PROVE  \E n \in T : \A m \in T : n <= m
<1> DEFINE U == {1..n : n \in T}
<1>1. U \subseteq FiniteSubsetsOf(Nat)
  <2>1. \A n \in T : IsFiniteSet(1..n) /\ 1..n \in SUBSET Nat
    BY FS_Interval
  <2> QED
    BY <2>1 DEF FiniteSubsetsOf
<1>2. U # {}
  OBVIOUS
<1>3. \E s \in U : \A t \in U : <<t, s>> \notin StrictSubsetOrdering(Nat)
  <2> HIDE DEF U
  <2> QED
    BY <1>1, <1>2, FS_StrictSubsetOrderingWellFounded, WFMin
<1>4. PICK n \in T : \A m \in T : <<1..m, 1..n>> \notin StrictSubsetOrdering(Nat)
  BY <1>3
<1>5. ASSUME NEW m \in T, m < n
      PROVE  FALSE
  <2>1. 1..m \subseteq 1..n /\ n \in 1..n /\ n \notin 1..m
    BY <1>5
  <2>2. 1..m \in SUBSET Nat /\ 1..n \in SUBSET Nat
    OBVIOUS
  <2> QED
    BY <1>4, <2>1, <2>2 DEF StrictSubsetOrdering
<1> QED
  BY <1>5

(* Past goes to a symbol of the text or to its end, and on from a symbol it *)
(* passes.                                                                  *)
LEMMA PastReadsOn ==
  ASSUME text \in Seq(STRING), NEW n \in 1..(Len(text) + 1), NEW S
  PROVE  /\ Past(n, S) \in n..(Len(text) + 1)
         /\ n <= Len(text) /\ text[n] \in S => Past(n, S) > n
<1> DEFINE stops == {m \in n..Len(text) : text[m] \notin S}
<1>1. Len(text) \in Nat
  OBVIOUS
<1>2. Past(n, S) = IF stops = {} THEN Len(text) + 1
                   ELSE CHOOSE m \in stops : \A k \in stops : m <= k
  BY DEF Past
<1>3. CASE stops = {}
  BY <1>1, <1>2, <1>3
<1>4. CASE stops # {}
  <2>1. stops \in SUBSET Nat
    BY <1>1
  <2>2. \E m \in stops : \A k \in stops : m <= k
    BY <1>4, <2>1, Least
  <2>3. Past(n, S) \in stops
    BY <1>2, <1>4, <2>2
  <2> QED
    BY <1>1, <2>3
<1> QED
  BY <1>3, <1>4

LEMMA CommentReadsOn ==
  ASSUME text \in Seq(STRING), NEW n \in Nat \ {0}
  PROVE  /\ skip_lexer_comment(n) \in 1..(Len(text) + 1)
         /\ n <= Len(text) + 1 => skip_lexer_comment(n) >= n
<1> DEFINE stops == {m \in n..Len(text) : text[m] = "\n"}
<1>1. Len(text) \in Nat
  OBVIOUS
<1>2. skip_lexer_comment(n) = IF stops = {} THEN Len(text) + 1
                              ELSE CHOOSE m \in stops : \A k \in stops : m <= k
  BY DEF skip_lexer_comment
<1>3. CASE stops = {}
  BY <1>1, <1>2, <1>3
<1>4. CASE stops # {}
  <2>1. stops \in SUBSET Nat
    BY <1>1
  <2>2. \E m \in stops : \A k \in stops : m <= k
    BY <1>4, <2>1, Least
  <2>3. skip_lexer_comment(n) \in stops
    BY <1>2, <1>4, <2>2
  <2> QED
    BY <1>1, <2>3
<1> QED
  BY <1>3, <1>4

(* The compound operators, and what is a token of one. *)
LEMMA Pairs ==
  Compound = {<<"+", "=">>, <<"+", "+">>, <<"-", "=">>, <<"-", "-">>, <<"-", ">">>, <<"*", "=">>,
              <<"/", "=">>, <<"<", "=">>, <<">", "=">>, <<"!", "=">>, <<"=", "=">>, <<"&", "&">>, <<"|", "|">>}
BY DEF Compound, Compounds

LEMMA CompoundToken ==
  ASSUME NEW c \in Compound
  PROVE  CompoundType[c] \in {"+=", "++", "-=", "--", "->", "*=", "/=", "<=", ">=", "!=", "==", "&&", "||"}
<1>1. PICK d \in Compounds : c[1] = d[1] /\ c[2] = d[2]
  BY DEF Compound
<1>2. CompoundType[c] \in {e[3] : e \in Compounds}
  BY <1>1 DEF CompoundType
<1> QED
  BY <1>2 DEF Compounds

(* Whatever is at the next symbol, one token reads on and stays in the text. *)
LEMMA TokenReadsOn ==
  ASSUME text \in Seq(STRING), end \in 1..(Len(text) + 1), lexer_errors \in Seq(Errors), LexToken
  PROVE  /\ end' \in 1..(Len(text) + 1) /\ end' > end
         /\ lexer_errors' \in Seq(Errors)
<1> DEFINE End == Len(text) + 1
<1>1. Len(text) \in Nat /\ \A n \in 1..Len(text) : text[n] \in STRING
  OBVIOUS
<1>2. end <= Len(text)
  <2>1. ~lexer_at_end(end)
    BY Zenon DEF LexToken, get_identifier, get_number, CompoundOperator, Comment, SimpleOperator,
                 CharLiteral, StringLiteral, Delimiter, PassOver, StartsWith
  <2> QED
    BY <1>1, <2>1 DEF lexer_at_end
<1>3. Start \in end..End
  BY <1>2, PastReadsOn DEF Start, skip_lexer_whitespace
<1>P. ASSUME NEW n \in Nat, peek_lexer(n) # ""
      PROVE  n <= Len(text) /\ peek_lexer(n) = text[n]
  <2>1. ~lexer_at_end(n)
    BY <1>P, Zenon DEF peek_lexer
  <2>2. peek_lexer(n) = text[n]
    BY <2>1, Zenon DEF peek_lexer
  <2> QED
    BY <1>1, <2>1, <2>2 DEF lexer_at_end
<1>4. ASSUME NEW S, StartsWith(S), "" \notin S
      PROVE  Start <= Len(text) /\ text[Start] \in S
  <2>1. peek_lexer(Start) \in S
    BY <1>4, Zenon DEF StartsWith
  <2>2. peek_lexer(Start) # ""
    BY <1>4, <2>1, Zenon
  <2>3. Start \in Nat
    BY <1>1, <1>3
  <2>4. Start <= Len(text) /\ peek_lexer(Start) = text[Start]
    BY <1>P, <2>2, <2>3, Zenon
  <2> QED
    BY <2>1, <2>4, Zenon
<1>5. "" \notin Alpha /\ "" \notin Digits /\ "" \notin Operators /\ "" \notin Delimiters
  BY SymbolsAssumption DEF Alpha, keywords, Operators, Delimiters
<1>6. ASSUME NEW error \in Errors, log_lexer_error(error)
      PROVE  lexer_errors' \in Seq(Errors)
  BY <1>6, AppendProperties, Zenon DEF log_lexer_error
<1>7. CASE get_identifier
  <2>1. Start <= Len(text) /\ text[Start] \in Alpha
    BY <1>4, <1>5, <1>7 DEF get_identifier
  <2>2. Start \in 1..End
    BY <1>1, <1>3
  <2>4. text[Start] \in Alnum
    BY <2>1, Zenon DEF Alnum
  <2>3. end' = Past(Start, Alnum) /\ lexer_errors' = lexer_errors
    BY <1>7 DEF get_identifier
  <2> QED
    BY <1>1, <1>3, <2>1, <2>2, <2>3, <2>4, PastReadsOn
<1>8. CASE get_number
  <2>1. Start <= Len(text) /\ text[Start] \in Digits
    BY <1>4, <1>5, <1>8 DEF get_number
  <2>2. end' = Past(Start, Digits) /\ lexer_errors' = lexer_errors
    BY <1>8 DEF get_number
  <2> QED
    BY <1>1, <1>3, <2>1, <2>2, PastReadsOn
<1>9. CASE CompoundOperator
  <2>1. end' = Start + 2 /\ lexer_errors' = lexer_errors
    BY <1>9 DEF CompoundOperator
  <2>2. peek_lexer(Start + 1) # ""
    BY <1>9, Pairs DEF CompoundOperator, IsCompound
  <2>3. Start + 1 <= Len(text)
    <3>1. Start + 1 \in Nat
      BY <1>1, <1>3
    <3> QED
      BY <1>P, <2>2, <3>1, Zenon
  <2> QED
    BY <1>1, <1>3, <2>1, <2>3
<1>10. CASE Comment
  <2>1. end' = skip_lexer_comment(Start + 2) /\ lexer_errors' = lexer_errors
    BY <1>10 DEF Comment
  <2>2. peek_lexer(Start + 1) # ""
    BY <1>10 DEF Comment, IsComment
  <2>3. Start + 1 <= Len(text)
    <3>1. Start + 1 \in Nat
      BY <1>1, <1>3
    <3> QED
      BY <1>P, <2>2, <3>1, Zenon
  <2>4. Start + 2 \in Nat \ {0} /\ Start + 2 <= End /\ Start + 2 > end
    BY <1>1, <1>3, <2>3
  <2>5. skip_lexer_comment(Start + 2) \in 1..End /\ skip_lexer_comment(Start + 2) >= Start + 2
    BY <2>4, CommentReadsOn
  <2> QED
    BY <1>1, <1>3, <2>1, <2>4, <2>5
<1>11. CASE SimpleOperator
  <2>1. Start <= Len(text)
    BY <1>4, <1>5, <1>11 DEF SimpleOperator
  <2>2. end' = Start + 1 /\ lexer_errors' = lexer_errors
    BY <1>11 DEF SimpleOperator
  <2> QED
    BY <1>1, <1>3, <2>1, <2>2
<1>12. CASE CharLiteral
  <2> DEFINE closing == advance_lexer(Start + 1)
  <2>1. Start <= Len(text)
    BY <1>4, <1>12 DEF CharLiteral
  <2>2. closing \in 1..End /\ closing > end
    BY <1>1, <1>3, <2>1 DEF advance_lexer, lexer_at_end
  <2>3. CASE peek_lexer(closing) = "'"
    <3>1. closing <= Len(text)
      BY <1>1, <2>2, <2>3 DEF peek_lexer, lexer_at_end
    <3>2. end' = closing + 1 /\ lexer_errors' = lexer_errors
      BY <1>12, <2>3 DEF CharLiteral
    <3> QED
      BY <1>1, <1>3, <2>2, <3>1, <3>2
  <2>4. CASE peek_lexer(closing) # "'"
    <3>1. end' = closing /\ log_lexer_error("EXPECTED_SINGLE_QUOTE")
      BY <1>12, <2>4 DEF CharLiteral
    <3>2. "EXPECTED_SINGLE_QUOTE" \in Errors
      BY DEF Errors
    <3>3. lexer_errors' \in Seq(Errors)
      BY <1>6, <3>1, <3>2, Zenon
    <3> QED
      BY <2>2, <3>1, <3>3
  <2> QED
    BY <2>3, <2>4
<1>13. CASE StringLiteral
  <2> DEFINE closing == Past(advance_lexer(Start + 1), Alnum)
  <2>1. Start <= Len(text)
    BY <1>4, <1>13 DEF StringLiteral
  <2>2. advance_lexer(Start + 1) \in 1..End /\ advance_lexer(Start + 1) > end
    BY <1>1, <1>3, <2>1 DEF advance_lexer, lexer_at_end
  <2>3. closing \in advance_lexer(Start + 1)..End
    BY <2>2, PastReadsOn
  <2>4. end' = closing
    BY <1>13 DEF StringLiteral
  <2>5. lexer_errors' = lexer_errors \/ log_lexer_error("EXPECTED_DOUBLE_QUOTE")
    BY <1>13 DEF StringLiteral
  <2>6. lexer_errors' \in Seq(Errors)
    <3>1. "EXPECTED_DOUBLE_QUOTE" \in Errors
      BY DEF Errors
    <3>2. lexer_errors' = lexer_errors => lexer_errors' \in Seq(Errors)
      OBVIOUS
    <3> QED
      BY <1>6, <2>5, <3>1, <3>2, Zenon
  <2> HIDE DEF closing
  <2> QED
    BY <1>1, <1>3, <2>2, <2>3, <2>4, <2>6
<1>14. CASE Delimiter
  <2>1. Start <= Len(text)
    BY <1>4, <1>5, <1>14 DEF Delimiter
  <2>2. end' = Start + 1 /\ lexer_errors' = lexer_errors
    BY <1>14 DEF Delimiter
  <2> QED
    BY <1>1, <1>3, <2>1, <2>2
<1>15. CASE PassOver
  <2>1. end' = advance_lexer(Start) /\ lexer_errors' = lexer_errors
    BY <1>15 DEF PassOver
  <2> QED
    BY <1>1, <1>2, <1>3, <2>1 DEF advance_lexer, lexer_at_end
<1> QED
  BY <1>7, <1>8, <1>9, <1>10, <1>11, <1>12, <1>13, <1>14, <1>15 DEF LexToken

------------------------------------------------------------------------------
(* Where main stands, and what is true there.                                *)

Whole == Allocated(Len(Stages))

NoErrors == lexer_errors = <<>> /\ parser.errors = <<>>
Goes     == exit = Null /\ live = Whole

AtStart ==
  /\ main = "start" /\ end = 1 /\ turns = 0 /\ tokens = <<>> /\ NoErrors /\ phase = "LEXER"
  /\ ran = <<>> /\ live = {} /\ exit = Null

BeforeLexer == main = "lex" /\ end = 1 /\ turns = 0 /\ NoErrors /\ ran = <<>> /\ Goes

InLexer ==
  main = "lexing" /\ turns < end /\ phase = "LEXER" /\ parser.errors = <<>> /\ ran = <<>> /\ Goes

BeforeParser == main = "parse" /\ NoErrors /\ ran = <<>> /\ Goes
InParser     == main = "parsing" /\ phase = "PARSER" /\ lexer_errors = <<>> /\ ran = <<>> /\ Goes

(* Before phase n of those behind the parser, or behind the last. *)
Before(n) ==
  /\ main = IF n <= Len(Phases) THEN Phases[n] ELSE "return"
  /\ phase = "PARSER" /\ NoErrors /\ ran = SubSeq(Phases, 1, n - 1) /\ Goes

BehindParser == \E n \in 1..(Len(Phases) + 1) : Before(n)

Over ==
  /\ main = "ended"
  /\ ErrorsEndCompilation
  /\ exit \in {"success", "failure"} => live = {}

Types ==
  /\ text \in Seq(STRING) /\ end \in 1..(Len(text) + 1) /\ turns \in Nat
  /\ lexer_errors \in Seq(Errors)
  /\ IsParser(parser)

Inv ==
  /\ Types
  /\ \/ AtStart \/ BeforeLexer \/ InLexer \/ BeforeParser \/ InParser \/ BehindParser \/ Over

(* Phases and what was run of them, place by place. *)
LEMMA PhasesInOrder ==
  /\ Len(Phases) = 6 /\ DOMAIN Phases = 1..6
  /\ Phases[1] = "resolve_tree" /\ Phases[2] = "typecheck_tree" /\ Phases[3] = "build_tacs"
  /\ Phases[4] = "build_cfg" /\ Phases[5] = "reg_alloc" /\ Phases[6] = "codegen"
  /\ SubSeq(Phases, 1, 0) = <<>> /\ SubSeq(Phases, 1, 6) = Phases
  /\ \A n \in 1..6 : SubSeq(Phases, 1, n) = Append(SubSeq(Phases, 1, n - 1), Phases[n])
<1>1. /\ Len(Phases) = 6 /\ DOMAIN Phases = 1..6
      /\ Phases[1] = "resolve_tree" /\ Phases[2] = "typecheck_tree" /\ Phases[3] = "build_tacs"
      /\ Phases[4] = "build_cfg" /\ Phases[5] = "reg_alloc" /\ Phases[6] = "codegen"
  BY DEF Phases
<1>2. Phases \in Seq({"resolve_tree", "typecheck_tree", "build_tacs", "build_cfg", "reg_alloc", "codegen"})
  BY DEF Phases
<1>3. SubSeq(Phases, 1, 0) = <<>>
  BY <1>1
<1>4. SubSeq(Phases, 1, 6) = Phases
  BY <1>1, <1>2, SubSeqProperties
<1>5. ASSUME NEW n \in 1..6
      PROVE  SubSeq(Phases, 1, n) = Append(SubSeq(Phases, 1, n - 1), Phases[n])
  BY <1>1, <1>2, <1>5
<1>6. QED
  BY <1>1, <1>3, <1>4, <1>5

LEMMA Linked ==
  ASSUME NEW p, IsParser(p), Link(p)
  PROVE  IsParser(parser')
<1>1. IsParser(ReturnNull(p))
  BY DEF IsParser, ReturnNull, Return
<1>2. IsParser(ReturnNull(synchronize(p, Globals)))
  BY DEF IsParser, ReturnNull, Return, synchronize
<1>3. QED
  BY <1>1, <1>2, Zenon DEF Link

LEMMA TurnKeepsParser ==
  ASSUME IsParser(parser), ParseGlobal
  PROVE  IsParser(parser')
<1>1. CASE ParseDefinition
  BY <1>1, Linked DEF ParseDefinition, ReadsOn
<1>2. CASE ParseNothing
  <2>1. IsParser(ReturnNull(parser))
    BY DEF IsParser, ReturnNull, Return
  <2> QED
    BY <1>2, <2>1, Linked DEF ParseNothing
<1> QED
  BY <1>1, <1>2 DEF ParseGlobal

(* As many errors are shown as were logged. *)
LEMMA AllAreShown ==
  ASSUME NEW S, Logged \in Seq(S), emit_errors
  PROVE  Len(shown') = Len(Logged)
<1>1. shown' = [j \in 1..Len(Logged) |-> IF phase = "LEXER" THEN Logged[1] ELSE Logged[j]]
  BY DEF emit_errors
<1> HIDE DEF Logged
<1> QED
  BY <1>1

LEMMA Freed ==
  ASSUME live = Whole, free_compiler_context
  PROVE  live' = {}
  BY DEF Whole, free_compiler_context

------------------------------------------------------------------------------
(* Each action goes from one place to the next, or ends.                     *)

LEMMA Phased ==
  ASSUME BehindParser
  PROVE  main \in {Phases[n] : n \in 1..6} \cup {"return"}
  BY PhasesInOrder DEF BehindParser, Before

(* Where main stands says which disjunct of the invariant holds. *)
LEMMA Place ==
  ASSUME Inv
  PROVE  /\ main = "start"   => AtStart
         /\ main = "lex"     => BeforeLexer
         /\ main = "lexing"  => InLexer
         /\ main = "parse"   => BeforeParser
         /\ main = "parsing" => InParser
         /\ main \in {Phases[n] : n \in 1..6} \cup {"return"} => BehindParser
<1>1. \A n \in 1..6 : Phases[n] \notin {"start", "lex", "lexing", "parse", "parsing", "return", "ended"}
  BY PhasesInOrder
<1>2. BehindParser => main \notin {"start", "lex", "lexing", "parse", "parsing", "ended"}
  BY <1>1, Phased
<1> QED
  BY <1>1, <1>2 DEF Inv, AtStart, BeforeLexer, InLexer, BeforeParser, InParser, Over

(* Each of the lists written out for a stage that cannot be made has all     *)
(* that was made before it.                                                  *)
LEMMA ListsAreComplete ==
  ASSUME NEW n \in DOMAIN Stages
  PROVE  Allocated(n - 1) \subseteq FreedAfter(n)
<1>1. n \in 1..11
  BY DEF Stages
<1>2. SUFFICES ASSUME NEW i \in 1..(n - 1), Stages[i] \notin Tables
               PROVE  Stages[i] \in FreedAfter(n)
  BY DEF Allocated
<1>3. i \in 1..10 /\ i < n
  BY <1>1
<1> QED
  BY <1>1, <1>2, <1>3 DEF FreedAfter, WithSymbols, Stages, Tables

LEMMA Starting ==
  ASSUME Inv, RejectArguments \/ create_compiler_context \/ ContextFails
  PROVE  Inv'
<1>1. AtStart
  BY Place DEF RejectArguments, create_compiler_context, ContextFails
<1>2. Types'
  BY DEF Inv, Types, RejectArguments, create_compiler_context, ContextFails, input, front, IsParser
<1>3. CASE RejectArguments
  <2>1. Over'
    BY <1>1, <1>3 DEF AtStart, RejectArguments, Ends, input, front, context, Over, NoErrors, ErrorsEndCompilation
  <2> QED
    BY <1>2, <2>1 DEF Inv
<1>4. CASE create_compiler_context
  <2>1. BeforeLexer'
    BY <1>1, <1>4 DEF AtStart, create_compiler_context, front, BeforeLexer, NoErrors, Goes, Whole
  <2> QED
    BY <1>2, <2>1 DEF Inv
<1>5. CASE ContextFails
  <2>1. live' = {}
    <3>1. PICK n \in DOMAIN Stages : live' = Allocated(n - 1) \ FreedAfter(n)
      BY <1>5 DEF ContextFails
    <3> QED
      BY <3>1, ListsAreComplete
  <2>2. Over'
    BY <1>1, <1>5, <2>1 DEF AtStart, ContextFails, Ends, input, front, Over, NoErrors, ErrorsEndCompilation
  <2> QED
    BY <1>2, <2>2 DEF Inv
<1> QED
  BY <1>3, <1>4, <1>5

LEMMA Lexing ==
  ASSUME Inv, StartLexer \/ Lex \/ lex
  PROVE  Inv'
<1>1. CASE StartLexer
  <2>1. BeforeLexer
    BY <1>1, Place DEF StartLexer
  <2>2. Types'
    BY <1>1 DEF Inv, Types, StartLexer, input, front, IsParser
  <2>3. CASE readable
    <3>1. InLexer'
      BY <1>1, <2>1, <2>3 DEF StartLexer, BeforeLexer, InLexer, front, NoErrors, Goes
    <3> QED
      BY <2>2, <3>1 DEF Inv
  <2>4. CASE ~readable
    <3>1. Over'
      BY <1>1, <2>1, <2>4 DEF StartLexer, Ends, BeforeLexer, Over, front, NoErrors, ErrorsEndCompilation
    <3> QED
      BY <2>2, <3>1 DEF Inv
  <2> QED
    BY <2>3, <2>4
<1>2. CASE Lex
  <2>1. InLexer
    BY <1>2, Place DEF Lex
  <2>2. end' \in 1..(Len(text) + 1) /\ end' > end /\ lexer_errors' \in Seq(Errors)
    BY <1>2, TokenReadsOn DEF Lex, Inv, Types
  <2>3. Types'
    BY <1>2, <2>2 DEF Inv, Types, Lex, input, IsParser
  <2>4. turns' < end'
    BY <1>2, <2>1, <2>2 DEF Inv, Types, Lex, InLexer
  <2>5. InLexer'
    BY <1>2, <2>1, <2>4 DEF Lex, InLexer, context, Goes
  <2> QED
    BY <2>3, <2>5 DEF Inv
<1>3. CASE lex
  <2>1. InLexer
    BY <1>3, Place DEF lex
  <2>2. Types'
    BY <1>3 DEF Inv, Types, lex, input, IsParser
  <2>3. Logged = lexer_errors
    BY <2>1 DEF InLexer, Logged
  <2>4. CASE phase_accumulated_errors
    <3>1. emit_errors /\ free_compiler_context /\ Ends("failure")
      BY <1>3, <2>4 DEF lex, CheckPhase
    <3>2. Len(shown') = Len(lexer_errors) /\ Len(lexer_errors) > 0
      BY <2>3, <2>4, <3>1, AllAreShown DEF Inv, Types, phase_accumulated_errors
    <3>3. live' = {}
      BY <2>1, <3>1, Freed DEF InLexer, Goes
    <3>4. Len(<<>>) = 0
      OBVIOUS
    <3>5. Over'
      BY <1>3, <2>1, <3>1, <3>2, <3>3, <3>4 DEF lex, InLexer, Ends, Over, ErrorsEndCompilation, Inv, Types
    <3> QED
      BY <2>2, <3>5 DEF Inv
  <2>5. CASE ~phase_accumulated_errors
    <3>1. BeforeParser'
      BY <1>3, <2>1, <2>3, <2>5 DEF lex, InLexer, CheckPhase, BeforeParser, NoErrors, Goes, phase_accumulated_errors
    <3> QED
      BY <2>2, <3>1 DEF Inv
  <2> QED
    BY <2>4, <2>5
<1> QED
  BY <1>1, <1>2, <1>3

LEMMA Parsing ==
  ASSUME Inv, StartParser \/ Parse \/ parse \/ ParserFails
  PROVE  Inv'
<1>1. CASE StartParser
  <2>1. BeforeParser
    BY <1>1, Place DEF StartParser
  <2>2. IsParser(parser') /\ parser'.errors = <<>>
    BY <1>1 DEF StartParser, Fresh, IsParser
  <2>3. Types'
    BY <1>1, <2>2 DEF Inv, Types, StartParser, input, lexer, IsParser
  <2>4. InParser'
    BY <1>1, <2>1, <2>2 DEF StartParser, BeforeParser, InParser, lexer, NoErrors, Goes
  <2> QED
    BY <2>3, <2>4 DEF Inv
<1>2. CASE Parse
  <2>1. InParser
    BY <1>2, Place DEF Parse
  <2>2. IsParser(parser')
    BY <1>2, TurnKeepsParser DEF Parse, Inv, Types
  <2>3. Types'
    BY <1>2, <2>2 DEF Inv, Types, Parse, input, IsParser
  <2>4. InParser'
    BY <1>2, <2>1 DEF Parse, InParser, context, Goes
  <2> QED
    BY <2>3, <2>4 DEF Inv
<1>3. CASE parse
  <2>1. InParser
    BY <1>3, Place DEF parse
  <2>2. Types'
    BY <1>3 DEF Inv, Types, parse, input, front, IsParser
  <2>3. Logged = parser.errors
    BY <2>1 DEF InParser, Logged
  <2>4. parser.errors \in Seq([type : Errors, at : Nat])
    BY DEF Inv, Types, IsParser
  <2>5. CASE phase_accumulated_errors
    <3>1. emit_errors /\ free_compiler_context /\ Ends("failure")
      BY <1>3, <2>5 DEF parse, CheckPhase
    <3>2. Len(shown') = Len(parser.errors) /\ Len(parser.errors) > 0
      BY <2>3, <2>4, <2>5, <3>1, AllAreShown DEF phase_accumulated_errors
    <3>3. live' = {}
      BY <2>1, <3>1, Freed DEF InParser, Goes
    <3>4. Len(<<>>) = 0
      OBVIOUS
    <3>5. Over'
      BY <1>3, <2>1, <2>4, <3>1, <3>2, <3>3, <3>4 DEF parse, front, InParser, Ends, Over, ErrorsEndCompilation
    <3> QED
      BY <2>2, <3>5 DEF Inv
  <2>6. CASE ~phase_accumulated_errors
    <3>1. Before(1)'
      BY <1>3, <2>1, <2>3, <2>6, PhasesInOrder
      DEF parse, front, InParser, CheckPhase, Before, NoErrors, Goes, phase_accumulated_errors
    <3> QED
      BY <2>2, <3>1, PhasesInOrder DEF Inv, BehindParser
  <2> QED
    BY <2>5, <2>6
<1>4. CASE ParserFails
  <2>1. InParser
    BY <1>4, Place DEF ParserFails
  <2>2. Types'
    BY <1>4 DEF Inv, Types, ParserFails, input, front, IsParser
  <2>3. exit' \in {"overruns", "hangs", "crashes"}
    BY <1>4 DEF Inv, Types, IsParser, ParserFails, Runs, Ends
  <2>4. Over'
    BY <1>4, <2>1, <2>3 DEF ParserFails, InParser, Ends, Over, ErrorsEndCompilation
  <2> QED
    BY <2>2, <2>4 DEF Inv
<1> QED
  BY <1>1, <1>2, <1>3, <1>4

(* Neither of the two checks behind the parser can find an error. *)
LEMMA Phasing ==
  ASSUME Inv, RunPhase \/ PhaseAborts \/ ReturnFromMain
  PROVE  Inv'
<1>1. Types'
  BY DEF Inv, Types, RunPhase, PhaseAborts, ReturnFromMain, input, front, IsParser
<1>2. BehindParser
  <2>1. Range(Phases) = {Phases[n] : n \in 1..6}
    BY PhasesInOrder DEF Range
  <2> QED
    BY <2>1, PhasesInOrder, Place DEF RunPhase, PhaseAborts, ReturnFromMain
<1>3. PICK n \in 1..7 : Before(n)
  BY <1>2, PhasesInOrder DEF BehindParser
<1>4. ASSUME NEW m \in 1..6, main = Phases[m]
      PROVE  n = m
  BY <1>3, <1>4, PhasesInOrder DEF Before
<1>5. Len(<<>>) = 0
  OBVIOUS
<1>6. CASE RunPhase
  <2>1. PICK m \in 1..6 :
          /\ main = Phases[m]
          /\ ran' = Append(ran, Phases[m])
          /\ IF m <= 2 THEN CheckPhase(Phases[m + 1])
             ELSE /\ main' = IF m = Len(Phases) THEN "return" ELSE Phases[m + 1]
                  /\ UNCHANGED <<shown, live, exit>>
          /\ UNCHANGED <<input, front, phase, turns>>
    BY <1>6, PhasesInOrder DEF RunPhase
  <2>2. n = m
    BY <1>4, <2>1
  <2>3. ~phase_accumulated_errors
    BY <1>3 DEF Before, NoErrors, phase_accumulated_errors, Logged
  <2>4. /\ main' = IF m = 6 THEN "return" ELSE Phases[m + 1]
        /\ UNCHANGED <<live, exit>>
    BY <2>1, <2>3, PhasesInOrder DEF CheckPhase
  <2>5. ran' = SubSeq(Phases, 1, m)
    BY <1>3, <2>1, <2>2, PhasesInOrder DEF Before
  <2>6. NoErrors' /\ phase' = "PARSER"
    BY <1>3, <2>1 DEF Before, NoErrors, front
  <2>7. Before(m + 1)'
    BY <1>3, <2>2, <2>4, <2>5, <2>6, PhasesInOrder DEF Before, Goes
  <2>8. BehindParser'
    BY <2>7, PhasesInOrder DEF BehindParser
  <2> QED
    BY <1>1, <2>8 DEF Inv
<1>7. CASE PhaseAborts
  <2>1. NoErrors'
    BY <1>3, <1>7 DEF PhaseAborts, Before, NoErrors, front
  <2>2. Over'
    BY <1>5, <1>7, <2>1 DEF PhaseAborts, Ends, Over, ErrorsEndCompilation, NoErrors
  <2> QED
    BY <1>1, <2>2 DEF Inv
<1>8. CASE ReturnFromMain
  <2>1. n = 7
    BY <1>3, <1>8, PhasesInOrder DEF Before, ReturnFromMain
  <2>2. ran' = Phases /\ NoErrors'
    BY <1>3, <1>8, <2>1, PhasesInOrder DEF Before, NoErrors, ReturnFromMain, front
  <2>3. live' = {}
    BY <1>3, <1>8, Freed DEF ReturnFromMain, Before, Goes
  <2>4. Over'
    BY <1>5, <1>8, <2>2, <2>3 DEF ReturnFromMain, Ends, Over, ErrorsEndCompilation, NoErrors
  <2> QED
    BY <1>1, <2>4 DEF Inv
<1> QED
  BY <1>6, <1>7, <1>8

------------------------------------------------------------------------------
LEMMA Initial ==
  ASSUME Init
  PROVE  Inv
<1>1. IsParser(parser)
  BY DEF Init, Fresh, IsParser
<1>2. Types
  BY <1>1 DEF Init, Types
<1>3. AtStart
  BY DEF Init, AtStart, NoErrors, Fresh
<1> QED
  BY <1>2, <1>3 DEF Inv

LEMMA Stuttering ==
  ASSUME Inv, UNCHANGED vars
  PROVE  Inv'
<1> USE DEF vars, input, front, context
<1>1. Types'
  BY DEF Inv, Types, IsParser
<1>2. Logged' = Logged /\ Whole' = Whole
  BY DEF Logged, Whole
<1>3. BehindParser => BehindParser'
  BY DEF BehindParser, Before, NoErrors, Goes, Whole
<1> QED
  BY <1>1, <1>3 DEF Inv, AtStart, BeforeLexer, InLexer, BeforeParser, InParser, Over, NoErrors, Goes, Whole,
                    ErrorsEndCompilation

LEMMA Inductive == Inv /\ [Next]_vars => Inv'
<1> SUFFICES ASSUME Inv, [Next]_vars
             PROVE  Inv'
  OBVIOUS
<1>1. CASE UNCHANGED vars
  BY <1>1, Stuttering
<1>2. CASE Next
  BY <1>2, Starting, Lexing, Parsing, Phasing, Stuttering DEF Next, Ended
<1> QED
  BY <1>1, <1>2

(* The invariant: where main stands, what has been read, run, logged and     *)
(* allocated, for every text and every call of the compiler.                 *)
THEOREM Standing == Spec => []Inv
<1>1. Init => Inv
  BY Initial
<1> QED
  BY <1>1, Inductive, PTL DEF Spec

(* A phase behind the parser runs for a program without errors only, success *)
(* means that all of them ran, and failure that there were errors, each of   *)
(* them shown, for every text and whatever the parser makes of its tokens.   *)
THEOREM ErrorsAreFinal == Spec => []ErrorsEndCompilation
<1>1. Inv => ErrorsEndCompilation
  <2> SUFFICES ASSUME Inv
               PROVE  ErrorsEndCompilation
    OBVIOUS
  <2>1. Len(<<>>) = 0
    OBVIOUS
  <2>2. CASE Over
    BY <2>2 DEF Over
  <2>3. CASE ~Over
    <3>1. exit = Null /\ (ran # <<>> => NoErrors)
      BY <2>3 DEF Inv, AtStart, BeforeLexer, InLexer, BeforeParser, InParser, BehindParser, Before, Goes
    <3> QED
      BY <2>1, <3>1, NullAssumption DEF ErrorsEndCompilation, NoErrors
  <2> QED
    BY <2>2, <2>3
<1> QED
  BY <1>1, Standing, PTL

(* The context is whole while a phase runs and gone when main returns, for   *)
(* every call of the compiler and every allocation that fails.               *)
THEOREM NothingIsLeft == Spec => []ContextIsFreed
<1>1. Inv => ContextIsFreed
  BY NullAssumption
  DEF Inv, AtStart, BeforeLexer, InLexer, BeforeParser, InParser, BehindParser, Before, Goes, Over, Whole,
         ContextIsFreed
<1> QED
  BY <1>1, Standing, PTL

(* Each turn of the loop of lex reads on in its text, for every text: there  *)
(* are no more turns than symbols.                                           *)
THEOREM LexerReadsOn == Spec => [](LexReadsOn /\ end \in 1..(Len(text) + 1))
<1>1. Inv => LexReadsOn /\ end \in 1..(Len(text) + 1)
  <2> SUFFICES ASSUME Inv
               PROVE  LexReadsOn /\ end \in 1..(Len(text) + 1)
    OBVIOUS
  <2>1. main = "lexing" => InLexer
    BY Place
  <2> QED
    BY <2>1 DEF LexReadsOn, InLexer, Inv, Types
<1> QED
  BY <1>1, Standing, PTL

------------------------------------------------------------------------------
(* The tokens, their end and where the parser is on them.                    *)

TokenTypes ==
  {CompoundType[c] : c \in Compound} \cup (keywords \ {"str"}) \cup Operators \cup Delimiters
    \cup {"UNKNOWN", "ID", "INTEGER", "CHAR_LITERAL", "STR_LITERAL"}

Symbol == STRING \cup {""}
AToken == [type : TokenTypes \cup {"EOF"}, value : Seq(Symbol)]

LEMMA NoTokenEnds == "EOF" \notin TokenTypes
BY CompoundToken DEF TokenTypes, keywords, Operators, Delimiters

LEMMA Widened ==
  ASSUME NEW S, NEW T, S \subseteq T, NEW q \in Seq(S)
  PROVE  q \in Seq(T)
OBVIOUS

LEMMA Elements ==
  ASSUME NEW S, NEW q \in Seq(S)
  PROVE  \A n \in DOMAIN q : q[n] \in S
OBVIOUS

LEMMA Single ==
  ASSUME NEW S, NEW e \in S
  PROVE  <<e>> \in Seq(S) /\ Len(<<e>>) = 1 /\ <<e>>[1] = e
OBVIOUS

LEMMA Appended ==
  ASSUME NEW S, NEW q \in Seq(S), NEW e \in S
  PROVE  /\ Append(q, e) \in Seq(S) /\ Len(Append(q, e)) = Len(q) + 1
         /\ DOMAIN q = 1..Len(q) /\ DOMAIN Append(q, e) = 1..(Len(q) + 1)
         /\ Append(q, e)[Len(q) + 1] = e /\ \A n \in 1..Len(q) : Append(q, e)[n] = q[n]
BY AppendProperties, LenProperties

(* A turn of lex makes one token that is none of the end, or none at all. *)
LEMMA TokenMade ==
  ASSUME text \in Seq(STRING), end \in 1..(Len(text) + 1), LexToken
  PROVE  \/ tokens' = tokens
         \/ \E token \in AToken : token.type \in TokenTypes /\ tokens' = Append(tokens, token)
<1> DEFINE made == \E token \in AToken : token.type \in TokenTypes /\ tokens' = Append(tokens, token)
           Text == Seq(Symbol)
<1>0. Len(text) \in Nat
  OBVIOUS
<1>1. Len(text) \in Nat /\ \A n \in 1..Len(text) : text[n] \in STRING
  OBVIOUS
<1>2. ASSUME NEW type \in TokenTypes, NEW value \in Text, add_token(Token(type, value))
      PROVE  made
  <2>1. Token(type, value) \in AToken /\ Token(type, value).type = type
    BY DEF Token, AToken
  <2> QED
    BY <1>2, <2>1 DEF add_token
<1>3. \A m, n \in Nat \ {0} : n <= Len(text) + 1 => Between(m, n) \in Text
  <2> SUFFICES ASSUME NEW m \in Nat \ {0}, NEW n \in Nat \ {0}, n <= Len(text) + 1
               PROVE  Between(m, n) \in Text
    OBVIOUS
  <2>1. /\ SubSeq(text, m, n - 1) \in Seq(STRING)
    BY <1>1
  <2>2. STRING \subseteq Symbol
    BY DEF Symbol
  <2>3. SubSeq(text, m, n - 1) \in Text
    BY <2>1, <2>2, Widened, Zenon
  <2> QED
    BY <2>3 DEF Between
<1>4. Start \in end..(Len(text) + 1)
  <2>1. Start = Past(end, Spaces)
    BY DEF Start, skip_lexer_whitespace
  <2> QED
    BY <2>1, PastReadsOn
<1>N. \A n \in Nat : ~lexer_at_end(n) => n <= Len(text)
  BY <1>0 DEF lexer_at_end
<1>5. \A n \in Nat : peek_lexer(n) # "" => n <= Len(text) /\ peek_lexer(n) = text[n]
  <2> SUFFICES ASSUME NEW n \in Nat, peek_lexer(n) # ""
               PROVE  n <= Len(text) /\ peek_lexer(n) = text[n]
    OBVIOUS
  <2>1. ~lexer_at_end(n)
    BY Zenon DEF peek_lexer
  <2>2. peek_lexer(n) = text[n]
    BY <2>1, Zenon DEF peek_lexer
  <2> QED
    BY <1>N, <2>1, <2>2, Zenon
<1>6. ASSUME NEW S, StartsWith(S), "" \notin S
      PROVE  Start <= Len(text) /\ text[Start] \in S
  <2>1. peek_lexer(Start) \in S
    BY <1>6, Zenon DEF StartsWith
  <2>2. peek_lexer(Start) # ""
    BY <1>6, <2>1, Zenon
  <2>3. Start \in Nat
    BY <1>1, <1>4
  <2> QED
    BY <1>5, <2>1, <2>2, <2>3, Zenon
<1>7. "" \notin Alpha /\ "" \notin Digits /\ "" \notin Operators /\ "" \notin Delimiters
  BY SymbolsAssumption DEF Alpha, keywords, Operators, Delimiters
<1>8. Start \in Nat \ {0} /\ \A n \in Nat : n > Start => n \in Nat \ {0}
  BY <1>1, <1>4
<1>9. CASE get_identifier
  <2> DEFINE after == Past(Start, Alnum)
             name  == Between(Start, after)
  <2>1. after \in Nat \ {0} /\ after <= Len(text) + 1
    BY <1>1, <1>4, PastReadsOn
  <2>2. name \in Text
    BY <1>3, <1>8, <2>1
  <2>3. add_token(IF Len(name) = 1 /\ name[1] \in keywords
                  THEN Token(KeywordType(name[1]), name) ELSE Token("ID", name))
    BY <1>9 DEF get_identifier
  <2>4. name[1] \in keywords => KeywordType(name[1]) \in TokenTypes
    BY DEF KeywordType, TokenTypes
  <2>5. "ID" \in TokenTypes
    BY DEF TokenTypes
  <2>6. \/ add_token(Token(KeywordType(name[1]), name)) /\ name[1] \in keywords
        \/ add_token(Token("ID", name))
    BY <2>3, Zenon
  <2> HIDE DEF name, made
  <2>7. made
    BY <1>2, <2>2, <2>4, <2>5, <2>6, Zenon
  <2> QED
    BY <2>7 DEF made
<1>10. CASE get_number
  <2>1. end' \in Nat \ {0} /\ end' <= Len(text) + 1
    BY <1>1, <1>4, <1>10, PastReadsOn DEF get_number
  <2>2. Between(Start, end') \in Text
    BY <1>3, <1>8, <2>1
  <2>3. "INTEGER" \in TokenTypes
    BY DEF TokenTypes
  <2> QED
    BY <1>2, <1>10, <2>2, <2>3 DEF get_number
<1>11. CASE CompoundOperator
  <2> DEFINE pair == <<text[Start], text[Start + 1]>>
  <2>1. <<peek_lexer(Start), peek_lexer(Start + 1)>> \in Compound
    BY <1>11 DEF CompoundOperator, IsCompound
  <2>2. peek_lexer(Start) # "" /\ peek_lexer(Start + 1) # ""
    BY <2>1, Pairs
  <2>3. /\ peek_lexer(Start) = text[Start] /\ peek_lexer(Start + 1) = text[Start + 1]
        /\ Start + 1 <= Len(text)
    <3>1. Start \in Nat /\ Start + 1 \in Nat
      BY <1>8
    <3> QED
      BY <1>5, <2>2, <3>1, Zenon
  <2>4. pair \in Compound
    BY <2>1, <2>3, Zenon
  <2>5. CompoundType[pair] \in TokenTypes
    BY <2>4 DEF TokenTypes
  <2>6. end' = Start + 2
    BY <1>11 DEF CompoundOperator
  <2>7. end' \in Nat \ {0} /\ end' <= Len(text) + 1
    BY <1>1, <1>8, <2>3, <2>6
  <2>8. Between(Start, end') \in Text
    BY <1>3, <1>8, <2>7
  <2>9. add_token(Token(CompoundType[pair], Between(Start, end')))
    BY <1>11 DEF CompoundOperator
  <2> HIDE DEF made
  <2>10. made
    BY <1>2, <2>5, <2>8, <2>9, Zenon
  <2> QED
    BY <2>10 DEF made
<1>12. CASE Comment
  BY <1>12 DEF Comment
<1>S. ASSUME NEW S \in SUBSET TokenTypes, StartsWith(S), "" \notin S, add_token(Token(text[Start], <<text[Start]>>))
      PROVE  made
  <2>1. text[Start] \in S /\ Start <= Len(text)
    BY <1>6, <1>S, Zenon
  <2>2. text[Start] \in Symbol
    <3>1. Start \in 1..Len(text)
      BY <1>0, <1>8, <2>1
    <3> QED
      BY <1>1, <3>1, Zenon DEF Symbol
  <2>3. <<text[Start]>> \in Text
    BY <2>2, Single
  <2>4. text[Start] \in TokenTypes
    BY <1>S, <2>1
  <2> QED
    BY <1>2, <1>S, <2>3, <2>4, Zenon
<1>13. CASE SimpleOperator
  <2>1. Operators \in SUBSET TokenTypes
    BY DEF TokenTypes
  <2> QED
    BY <1>7, <1>13, <1>S, <2>1 DEF SimpleOperator
<1>14. CASE CharLiteral
  <2>1. "CHAR_LITERAL" \in TokenTypes
    BY DEF TokenTypes
  <2>2. peek_lexer(Start + 1) \in Symbol
    <3>1. Start + 1 \in Nat
      BY <1>8
    <3>2. CASE peek_lexer(Start + 1) = ""
      BY <3>2 DEF Symbol
    <3>3. CASE peek_lexer(Start + 1) # ""
      <4>1. Start + 1 <= Len(text) /\ peek_lexer(Start + 1) = text[Start + 1]
        BY <1>5, <3>1, <3>3, Zenon
      <4>2. text[Start + 1] \in STRING
        BY <1>1, <1>8, <4>1
      <4> QED
        BY <4>1, <4>2, Zenon DEF Symbol
    <3> QED
      BY <3>2, <3>3
  <2>3. <<peek_lexer(Start + 1)>> \in Text
    BY <2>2, Single
  <2> QED
    BY <1>2, <1>14, <2>1, <2>3 DEF CharLiteral
<1>15. CASE StringLiteral
  <2> DEFINE closing == Past(advance_lexer(Start + 1), Alnum)
  <2>1. "STR_LITERAL" \in TokenTypes
    BY DEF TokenTypes
  <2>2. Start <= Len(text)
    <3>1. StartsWith({"\""})
      BY <1>15 DEF StringLiteral
    <3> QED
      BY <1>6, <3>1
  <2>3. advance_lexer(Start + 1) \in 1..(Len(text) + 1)
    BY <1>1, <1>8, <2>2 DEF advance_lexer, lexer_at_end
  <2>4. closing \in Nat \ {0} /\ closing <= Len(text) + 1
    <3>1. closing \in advance_lexer(Start + 1)..(Len(text) + 1)
      BY <2>3, PastReadsOn
    <3> QED
      BY <1>1, <2>3, <3>1
  <2>5. Between(Start, closing) \in Text
    BY <1>3, <1>8, <2>4
  <2>6. \/ add_token(Token("STR_LITERAL", Between(Start, closing)))
        \/ UNCHANGED tokens
    BY <1>15 DEF StringLiteral
  <2> HIDE DEF closing, made
  <2>7. made \/ tokens' = tokens
    BY <1>2, <2>1, <2>5, <2>6, Zenon
  <2> QED
    BY <2>7 DEF made
<1>16. CASE Delimiter
  <2>1. Delimiters \ {"'", "\""} \in SUBSET TokenTypes
    BY DEF TokenTypes
  <2> QED
    BY <1>7, <1>16, <1>S, <2>1 DEF Delimiter
<1>17. CASE PassOver
  BY <1>17 DEF PassOver
<1> QED
  BY <1>9, <1>10, <1>11, <1>12, <1>13, <1>14, <1>15, <1>16, <1>17 DEF LexToken

(* From the parser's first token to its last. *)
Exits    == {Null, "success", "failure", "crashes", "hangs", "overruns", "aborts"}
EndsOnce == {n \in DOMAIN tokens : tokens[n].type = "EOF"} = {Len(tokens)}

Reading ==
  /\ tokens \in Seq(AToken) /\ exit \in Exits
  /\ main \in {"start", "lex", "lexing"} => \A n \in DOMAIN tokens : tokens[n].type # "EOF"
  /\ main \notin {"start", "lex", "lexing", "ended"} => EndsOnce
  /\ main \notin {"start", "lex", "lexing", "parse", "ended"}
       => parser.tokens = tokens /\ parser.at \in 1..Len(tokens)
  /\ main = "parsing" => turns < parser.at
  /\ \A n \in DOMAIN parser.errors : parser.errors[n].at \in 1..Len(tokens)

(* The next token of a kind is found before the end at the latest, and not   *)
(* where the search begins if what is there is of another kind.              *)
LEMMA Synchronized ==
  ASSUME tokens \in Seq(AToken), EndsOnce,
         NEW p, IsParser(p), p.tokens = tokens, p.at \in 1..Len(tokens)
  PROVE  LET q == synchronize(p, Globals)
         IN  /\ q.tokens = tokens /\ q.errors = p.errors /\ q.at \in p.at..Len(tokens)
             /\ Runs(p) /\ Peek(p) \notin Globals \cup {"EOF"} => q.at > p.at
<1> DEFINE stops == {n \in p.at..Len(tokens) : tokens[n].type \in Globals \cup {"EOF"}}
           q == synchronize(p, Globals)
<1>1. Len(tokens) \in Nat /\ DOMAIN tokens = 1..Len(tokens)
  BY LenProperties
<1>2. CASE ~Runs(p)
  BY <1>1, <1>2 DEF synchronize
<1>3. CASE Runs(p)
  <2>1. Len(tokens) \in stops
    BY <1>1 DEF EndsOnce
  <2>2. stops \in SUBSET Nat
    BY <1>1
  <2>3. (CHOOSE n \in stops : \A m \in stops : n <= m) \in stops
    <3> HIDE DEF stops
    <3>1. \E n \in stops : \A m \in stops : n <= m
      BY <2>1, <2>2, Least
    <3> QED
      BY <3>1
  <2>4. q = [p EXCEPT !.at = CHOOSE n \in stops : \A m \in stops : n <= m]
    BY <1>3 DEF synchronize
  <2>5. q.at \in stops /\ q.tokens = p.tokens /\ q.errors = p.errors
    <3> HIDE DEF stops, q
    <3> QED
      BY <2>3, <2>4 DEF IsParser
  <2>6. Peek(p) \notin Globals \cup {"EOF"} => p.at \notin stops
    BY DEF Peek
  <2> HIDE DEF q
  <2>7. q.at \in p.at..Len(tokens)
    BY <2>5
  <2>8. Peek(p) \notin Globals \cup {"EOF"} => q.at # p.at
    <3> HIDE DEF stops
    <3> QED
      BY <2>5, <2>6
  <2> QED
    BY <1>1, <2>5, <2>7, <2>8 DEF q
<1> QED
  BY <1>2, <1>3

(* Each turn of the loop of parse reads on and stays on the tokens. *)
LEMMA GlobalReadsOn ==
  ASSUME IsParser(parser), tokens \in Seq(AToken), EndsOnce,
         parser.tokens = tokens, parser.at \in 1..Len(tokens),
         \A n \in DOMAIN parser.errors : parser.errors[n].at \in 1..Len(tokens), ParseGlobal
  PROVE  /\ parser'.tokens = tokens /\ parser'.at \in 1..Len(tokens) /\ parser'.at > parser.at
         /\ \A n \in DOMAIN parser'.errors : parser'.errors[n].at \in 1..Len(tokens)
<1>1. Len(tokens) \in Nat /\ DOMAIN tokens = 1..Len(tokens)
  BY LenProperties
<1>2. ASSUME NEW p, IsParser(p)
      PROVE  /\ IsParser(ReturnNull(p)) /\ ReturnNull(p).tokens = p.tokens /\ ReturnNull(p).at = p.at
             /\ ReturnNull(p).errors = p.errors /\ Runs(ReturnNull(p)) = Runs(p) /\ Peek(ReturnNull(p)) = Peek(p)
             /\ ReturnNull(p).node = Null
  BY <1>2 DEF IsParser, ReturnNull, Return, Runs, Peek
<1>3. ASSUME NEW p, IsParser(p)
      PROVE  IsParser(synchronize(p, Globals))
  BY <1>3 DEF IsParser, synchronize
<1>4. CASE ParseDefinition
  <2> DEFINE p == parse_global(parser)
             q == synchronize(p, Globals)
  <2>1. /\ IsParser(p) /\ p.tokens = tokens /\ p.at \in (parser.at + 1)..Len(tokens) /\ Link(p)
        /\ \A n \in DOMAIN p.errors : p.errors[n].at \in 1..Len(tokens)
    BY <1>1, <1>4 DEF ParseDefinition, ReadsOn
  <2> HIDE DEF p
  <2>2. p.at \in 1..Len(tokens) /\ p.at > parser.at
    BY <1>1, <2>1
  <2>3. q.tokens = tokens /\ q.errors = p.errors /\ q.at \in p.at..Len(tokens) /\ IsParser(q)
    BY <1>3, <2>1, <2>2, Synchronized
  <2> HIDE DEF q
  <2>4. parser' = ReturnNull(p) \/ parser' = ReturnNull(q)
    BY <2>1 DEF Link, q
  <2>5. q.at \in 1..Len(tokens) /\ q.at > parser.at
    BY <1>1, <2>2, <2>3
  <2> QED
    BY <1>2, <2>1, <2>2, <2>3, <2>4, <2>5
<1>5. CASE ParseNothing
  <2> DEFINE p == ReturnNull(parser)
             q == synchronize(p, Globals)
  <2>1. Runs(parser) /\ Peek(parser) \notin Globals \cup {"EOF"} /\ Link(p)
    BY <1>5 DEF ParseNothing
  <2>2. /\ IsParser(p) /\ p.tokens = tokens /\ p.at = parser.at /\ p.errors = parser.errors
        /\ Runs(p) /\ Peek(p) \notin Globals \cup {"EOF"} /\ p.node = Null
    BY <1>2, <2>1
  <2> HIDE DEF p
  <2>3. /\ q.tokens = tokens /\ q.errors = parser.errors /\ q.at \in parser.at..Len(tokens) /\ IsParser(q)
        /\ q.at > parser.at
    BY <1>3, <2>2, Synchronized
  <2> HIDE DEF q
  <2>4. parser' = ReturnNull(q)
    BY <2>1, <2>2 DEF Link, q
  <2>5. q.at \in 1..Len(tokens)
    BY <1>1, <2>3
  <2> QED
    BY <1>2, <2>3, <2>4, <2>5
<1> QED
  BY <1>4, <1>5 DEF ParseGlobal

LEMMA ReadingLexed ==
  ASSUME Inv, Reading, StartLexer \/ Lex \/ lex
  PROVE  Reading'
<1>1. DOMAIN tokens = 1..Len(tokens) /\ Len(tokens) \in Nat
  BY LenProperties DEF Reading
<1>2. CASE StartLexer
  <2>1. tokens' = tokens /\ parser' = parser /\ main = "lex" /\ main' \in {"lexing", "ended"} /\ exit' \in Exits
    BY <1>2 DEF StartLexer, front, Ends, Exits, Reading
  <2> QED
    BY <2>1 DEF Reading
<1>3. CASE Lex
  <2>1. /\ InLexer /\ main' = "lexing" /\ main = "lexing" /\ parser' = parser /\ exit' = exit
        /\ parser.errors = <<>>
    <3>1. main = "lexing" /\ main' = main /\ parser' = parser /\ exit' = exit
      BY <1>3 DEF Lex
    <3> QED
      BY <3>1, Place DEF InLexer
  <2>2. \/ tokens' = tokens
        \/ \E token \in AToken : token.type \in TokenTypes /\ tokens' = Append(tokens, token)
    BY <1>3, TokenMade DEF Lex, Inv, Types
  <2>3. tokens' \in Seq(AToken) /\ \A n \in DOMAIN tokens' : tokens'[n].type # "EOF"
    <3>1. CASE tokens' = tokens
      BY <2>1, <3>1 DEF Reading
    <3>2. CASE \E token \in AToken : token.type \in TokenTypes /\ tokens' = Append(tokens, token)
      <4>1. PICK token \in AToken : token.type \in TokenTypes /\ tokens' = Append(tokens, token)
        BY <3>2
      <4>2. /\ tokens' \in Seq(AToken) /\ DOMAIN tokens' = 1..(Len(tokens) + 1)
            /\ tokens'[Len(tokens) + 1] = token /\ \A n \in 1..Len(tokens) : tokens'[n] = tokens[n]
        BY <4>1, Appended DEF Reading
      <4>3. \A n \in 1..Len(tokens) : tokens[n].type # "EOF"
        BY <1>1, <2>1 DEF Reading
      <4>4. token.type # "EOF"
        BY <4>1, NoTokenEnds
      <4>5. \A n \in 1..(Len(tokens) + 1) : n = Len(tokens) + 1 \/ n \in 1..Len(tokens)
        BY <1>1
      <4> QED
        BY <4>2, <4>3, <4>4, <4>5
    <3> QED
      BY <2>2, <3>1, <3>2
  <2>4. DOMAIN parser'.errors = {}
    BY <2>1
  <2> QED
    BY <2>1, <2>3, <2>4 DEF Reading
<1>4. CASE lex
  <2>1. main = "lexing" /\ parser' = parser /\ tokens' = Append(tokens, Eof) /\ CheckPhase("parse")
    BY <1>4 DEF lex, add_token
  <2>2. DOMAIN parser'.errors = {}
    BY <2>1, Place DEF InLexer
  <2>3. main' \in {"parse", "ended"} /\ exit' \in Exits
    BY <2>1 DEF CheckPhase, Ends, Exits, Reading
  <2>4. Eof \in AToken /\ Eof.type = "EOF"
    BY DEF Eof, Token, AToken
  <2>5. /\ tokens' \in Seq(AToken) /\ DOMAIN tokens' = 1..(Len(tokens) + 1) /\ Len(tokens') = Len(tokens) + 1
        /\ tokens'[Len(tokens) + 1] = Eof /\ \A n \in 1..Len(tokens) : tokens'[n] = tokens[n]
    BY <2>1, <2>4, Appended DEF Reading
  <2>6. \A n \in 1..Len(tokens) : tokens[n].type # "EOF"
    BY <1>1, <2>1 DEF Reading
  <2>7. \A n \in 1..(Len(tokens) + 1) : n = Len(tokens) + 1 \/ n \in 1..Len(tokens)
    BY <1>1
  <2>8. EndsOnce'
    <3>1. Len(tokens) + 1 \in 1..(Len(tokens) + 1)
      BY <1>1
    <3> QED
      BY <2>4, <2>5, <2>6, <2>7, <3>1 DEF EndsOnce
  <2> QED
    BY <2>2, <2>3, <2>5, <2>8 DEF Reading
<1> QED
  BY <1>2, <1>3, <1>4

LEMMA ReadingParsed ==
  ASSUME Inv, Reading, StartParser \/ Parse \/ parse \/ ParserFails
  PROVE  Reading'
<1>1. DOMAIN tokens = 1..Len(tokens) /\ Len(tokens) \in Nat
  BY LenProperties DEF Reading
<1>2. CASE StartParser
  <2>1. main = "parse" /\ main' = "parsing" /\ parser' = Fresh(tokens) /\ turns' = 0 /\ tokens' = tokens /\ exit' = exit
    BY <1>2 DEF StartParser, lexer
  <2>2. EndsOnce /\ EndsOnce'
    BY <2>1 DEF Reading, EndsOnce
  <2>3. 1 \in 1..Len(tokens)
    BY <1>1, <2>2 DEF EndsOnce
  <2>4. parser'.tokens = tokens /\ parser'.at = 1 /\ DOMAIN parser'.errors = {}
    BY <2>1 DEF Fresh
  <2> QED
    BY <2>1, <2>2, <2>3, <2>4 DEF Reading
<1>3. CASE Parse
  <2>1. main = "parsing" /\ main' = main /\ ParseGlobal /\ turns' = turns + 1 /\ tokens' = tokens /\ exit' = exit
    BY <1>3 DEF Parse
  <2>2. /\ IsParser(parser) /\ tokens \in Seq(AToken) /\ EndsOnce /\ parser.tokens = tokens
        /\ parser.at \in 1..Len(tokens) /\ turns < parser.at /\ turns \in Nat
        /\ \A n \in DOMAIN parser.errors : parser.errors[n].at \in 1..Len(tokens)
    BY <2>1 DEF Inv, Types, Reading
  <2>3. /\ parser'.tokens = tokens /\ parser'.at \in 1..Len(tokens) /\ parser'.at > parser.at
        /\ \A n \in DOMAIN parser'.errors : parser'.errors[n].at \in 1..Len(tokens)
    BY <2>1, <2>2, GlobalReadsOn
  <2>4. turns' < parser'.at
    BY <1>1, <2>1, <2>2, <2>3
  <2>5. EndsOnce'
    BY <2>1, <2>2 DEF EndsOnce
  <2> QED
    BY <2>1, <2>2, <2>3, <2>4, <2>5 DEF Reading
<1>4. CASE parse
  <2>1. /\ main = "parsing" /\ tokens' = tokens /\ parser' = parser /\ main' \in {"resolve_tree", "ended"}
        /\ exit' \in Exits
    BY <1>4 DEF parse, front, CheckPhase, Ends, Exits, Reading
  <2>2. EndsOnce'
    BY <2>1 DEF Reading, EndsOnce
  <2> QED
    BY <2>1, <2>2 DEF Reading
<1>5. CASE ParserFails
  <2>1. tokens' = tokens /\ parser' = parser /\ main' = "ended" /\ exit' = parser.status
    BY <1>5 DEF ParserFails, front, Ends
  <2>2. parser.status \in {"overruns", "hangs", "crashes"}
    BY <1>5 DEF Inv, Types, IsParser, ParserFails, Runs
  <2>3. exit' \in Exits
    BY <2>1, <2>2 DEF Exits
  <2> QED
    BY <2>1, <2>3 DEF Reading
<1> QED
  BY <1>2, <1>3, <1>4, <1>5

LEMMA ReadingKept ==
  ASSUME Inv, Reading, Next
  PROVE  Reading'
<1>1. CASE RejectArguments \/ create_compiler_context \/ ContextFails
  <2>1. /\ main = "start" /\ tokens' = tokens /\ parser' = parser
        /\ main' \in {"lex", "ended"} /\ exit' \in Exits
    BY <1>1 DEF RejectArguments, create_compiler_context, ContextFails, front, Ends, Exits, Reading
  <2> QED
    BY <2>1 DEF Reading
<1>2. CASE RunPhase \/ PhaseAborts \/ ReturnFromMain
  <2>1. BehindParser
    <3>1. Range(Phases) = {Phases[n] : n \in 1..6}
      BY PhasesInOrder DEF Range
    <3> QED
      BY <1>2, <3>1, PhasesInOrder, Place DEF RunPhase, PhaseAborts, ReturnFromMain
  <2>2. main \notin {"start", "lex", "lexing", "parse", "parsing", "ended"}
    BY <2>1, Phased, PhasesInOrder
  <2>3. tokens' = tokens /\ parser' = parser /\ exit' \in Exits
    BY <1>2 DEF RunPhase, PhaseAborts, ReturnFromMain, front, CheckPhase, Ends, Exits, Reading
  <2>4. main' \in {Phases[n] : n \in 1..6} \cup {"return", "ended"}
    BY <1>2, PhasesInOrder DEF RunPhase, PhaseAborts, ReturnFromMain, CheckPhase, Ends
  <2>5. main' \notin {"start", "lex", "lexing", "parse", "parsing"}
    BY <2>4, PhasesInOrder
  <2>6. EndsOnce /\ EndsOnce'
    BY <2>2, <2>3 DEF Reading, EndsOnce
  <2> QED
    BY <2>2, <2>3, <2>5, <2>6 DEF Reading
<1>3. CASE Ended
  BY <1>3 DEF Ended, vars, front, Reading, EndsOnce
<1> QED
  BY <1>1, <1>2, <1>3, ReadingLexed, ReadingParsed DEF Next

LEMMA ReadingStands == Spec => []Reading
<1>1. Init => Reading
  <2> SUFFICES ASSUME Init
               PROVE  Reading
    OBVIOUS
  <2>1. /\ tokens = <<>> /\ parser = Fresh(<<>>) /\ main = "start" /\ exit = Null
    BY DEF Init
  <2>2. DOMAIN parser.errors = {} /\ DOMAIN tokens = {} /\ tokens \in Seq(AToken)
    BY <2>1 DEF Fresh
  <2> QED
    BY <2>1, <2>2 DEF Reading, Exits
<1>2. Inv /\ Reading /\ UNCHANGED vars => Reading'
  BY DEF vars, front, Reading, EndsOnce
<1>3. Inv /\ Reading /\ [Next]_vars => Reading'
  BY <1>2, ReadingKept
<1> QED
  BY <1>1, <1>3, Standing, PTL DEF Spec

(* The lexer stays in its text and the parser on its tokens, of which the    *)
(* last and no other is EOF, and every error is of one of them.              *)
THEOREM TypeCorrect == Spec => []TypeOK
<1>1. Inv /\ Reading => TypeOK
  <2> SUFFICES ASSUME Inv, Reading
               PROVE  TypeOK
    OBVIOUS
  <2>1. DOMAIN tokens = 1..Len(tokens)
    BY LenProperties DEF Reading
  <2>2. Range(Phases) = {Phases[n] : n \in 1..6}
    BY PhasesInOrder DEF Range
  <2>3. main \in {"parsing", "return"} \cup Range(Phases) => main \notin {"start", "lex", "lexing", "parse", "ended"}
    BY <2>2, PhasesInOrder
  <2>4. /\ parser.status \in {"runs", "overruns", "hangs", "crashes"}
        /\ parser.errors \in Seq([type : Errors, at : Nat])
    BY DEF Inv, Types, IsParser
  <2>5. \A n \in DOMAIN parser.errors : parser.errors[n].type \in Errors
    <3> DEFINE e == parser.errors
    <3>1. e \in Seq([type : Errors, at : Nat])
      BY <2>4
    <3> HIDE DEF e
    <3>2. \A n \in DOMAIN e : e[n] \in [type : Errors, at : Nat]
      BY <3>1, Elements
    <3> QED
      BY <3>2 DEF e
  <2> QED
    BY <2>1, <2>3, <2>4, <2>5 DEF TypeOK, Reading, EndsOnce, Exits, Inv, Types
<1> QED
  BY <1>1, Standing, ReadingStands, PTL

(* Neither the loop of lex nor that of parse goes round for ever: each turn  *)
(* reads on, for every text and whatever functions for the globals there are *)
(* that read on themselves.                                                  *)
THEOREM LoopsReadOn == Spec => []TurnsReadOn
<1>1. Reading => ParseReadsOn
  BY DEF Reading, ParseReadsOn
<1>2. LexReadsOn /\ ParseReadsOn => TurnsReadOn
  BY DEF TurnsReadOn
<1> QED
  BY <1>1, <1>2, LexerReadsOn, ReadingStands, PTL

------------------------------------------------------------------------------
(* Words set down one after the other, and their places in the text.         *)

(* What holds of 0, and of a number because it holds of the one before. *)
LEMMA UpTo ==
  ASSUME NEW N \in Nat, NEW T, 0 \in T,
         \A n \in 1..N : n - 1 \in T => n \in T
  PROVE  \A n \in 0..N : n \in T
<1> DEFINE U == {n \in 0..N : n \notin T}
<1> SUFFICES ASSUME U # {} PROVE FALSE
  OBVIOUS
<1>1. PICK n \in U : \A m \in U : n <= m
  <2>1. U \in SUBSET Nat
    OBVIOUS
  <2> QED
    BY <2>1, Least
<1>2. n \in 1..N /\ n - 1 \in 0..N /\ n - 1 \notin U
  BY <1>1
<1> QED
  BY <1>1, <1>2

(* The sequences up to each of q, one behind the other. *)
JoinedUpTo(g, q) == g[0] = <<>> /\ \A n \in 1..Len(q) : g[n] = g[n - 1] \o q[n]

LEMMA PrefixesExist ==
  ASSUME NEW S, NEW q \in Seq(Seq(S))
  PROVE  \E g \in [0..Len(q) -> Seq(S)] : JoinedUpTo(g, q)
<1> DEFINE N == Len(q)
           upto(f, k) == f[0] = <<>> /\ \A n \in 1..k : f[n] = f[n - 1] \o q[n]
           T == {k \in 0..N : \E f \in [0..k -> Seq(S)] : upto(f, k)}
<1>1. N \in Nat /\ \A n \in 1..N : q[n] \in Seq(S)
  BY LenProperties, ElementOfSeq
<1>2. 0 \in T
  <2>1. 0..0 = {0} /\ <<>> \in Seq(S)
    BY EmptySeq
  <2>2. [n \in 0..0 |-> <<>>] \in [0..0 -> Seq(S)]
    BY <2>1
  <2>3. upto([n \in 0..0 |-> <<>>], 0)
    BY <2>1
  <2>4. \E f \in [0..0 -> Seq(S)] : upto(f, 0)
    <3> HIDE DEF upto
    <3> QED
      BY <2>2, <2>3
  <2>5. 0 \in 0..N
    BY <1>1
  <2> HIDE DEF upto, N
  <2> QED
    BY <2>4, <2>5
<1>3. ASSUME NEW k \in 1..N, k - 1 \in T
      PROVE  k \in T
  <2>1. PICK f \in [0..(k - 1) -> Seq(S)] : upto(f, k - 1)
    BY <1>3
  <2> DEFINE g == [n \in 0..k |-> IF n = k THEN f[k - 1] \o q[k] ELSE f[n]]
  <2>2. k - 1 \in 0..(k - 1) /\ 0..k = 0..(k - 1) \cup {k}
    OBVIOUS
  <2>3. f[k - 1] \o q[k] \in Seq(S)
    BY <1>1, <2>2, ConcatProperties
  <2>4. g \in [0..k -> Seq(S)]
    BY <2>2, <2>3
  <2>5. g[0] = <<>>
    BY <2>1, <2>2
  <2>6. \A n \in 1..k : g[n] = g[n - 1] \o q[n]
    <3> TAKE n \in 1..k
    <3>1. CASE n = k
      <4>1. k \in 0..k /\ k - 1 \in 0..k /\ k - 1 # k
        BY <2>2
      <4>2. g[k] = f[k - 1] \o q[k] /\ g[k - 1] = f[k - 1]
        BY <4>1
      <4> QED
        BY <3>1, <4>2
    <3>2. CASE n # k
      <4>1. n \in 1..(k - 1)
        BY <3>2
      <4>2. f[n] = f[n - 1] \o q[n]
        BY <2>1, <4>1
      <4>3. n - 1 \in 0..k /\ n - 1 # k /\ n \in 0..k
        BY <4>1
      <4> QED
        BY <3>2, <4>2, <4>3
    <3> QED
      BY <3>1, <3>2
  <2>7. upto(g, k)
    BY <2>5, <2>6
  <2> HIDE DEF upto, g
  <2> QED
    BY <1>1, <2>4, <2>7
<1>4. N \in T
  <2> HIDE DEF T
  <2>1. \A k \in 1..N : k - 1 \in T => k \in T
    BY <1>3
  <2>2. \A k \in 0..N : k \in T
    BY <1>1, <1>2, <2>1, UpTo
  <2> QED
    BY <1>1, <2>2
<1> QED
  BY <1>4 DEF JoinedUpTo

(* A list of sequences is flattened to the last of its prefixes. *)
LEMMA FlattenedTo ==
  ASSUME NEW S, NEW q \in Seq(Seq(S)), NEW g \in [0..Len(q) -> Seq(S)], JoinedUpTo(g, q)
  PROVE  FlattenSeq(q) = g[Len(q)]
<1> DEFINE N == Len(q)
           step(f, n) == IF n = 1 THEN q[n] ELSE f[n - 1] \o q[n]
<1>1. N \in Nat /\ DOMAIN q = 1..N /\ \A n \in 1..N : q[n] \in Seq(S)
  BY LenProperties, ElementOfSeq
<1>2. CASE N = 0
  <2>1. q = <<>>
    BY <1>2, EmptySeq
  <2>2. FlattenSeq(q) = <<>>
    BY <1>2, <2>1 DEF FlattenSeq
  <2> QED
    BY <1>2, <2>2 DEF JoinedUpTo
<1>3. CASE N # 0
  <2>1. 1 \in 1..N /\ 1 - 1 = 0
    BY <1>1, <1>3
  <2>2. g[1] = q[1]
    <3>1. g[1] = <<>> \o q[1]
      BY <2>1 DEF JoinedUpTo
    <3> QED
      BY <1>1, <2>1, <3>1, ConcatEmptySeq
  <2> DEFINE e == [n \in 1..N |-> g[n]]
  <2>3. e = [n \in 1..N |-> step(e, n)]
    <3>1. \A n \in 1..N : n # 1 => n - 1 \in 1..N
      BY <1>1
    <3> QED
      BY <2>2, <3>1 DEF JoinedUpTo
  <2>4. PICK f : f = [n \in 1..N |-> step(f, n)] /\ FlattenSeq(q) = f[N]
    <3> DEFINE h == CHOOSE f : f = [n \in 1..N |-> step(f, n)]
    <3> HIDE DEF e
    <3>1. h = [n \in 1..N |-> step(h, n)]
      BY <2>3
    <3>2. FlattenSeq(q) = h[N]
      BY <1>3 DEF FlattenSeq
    <3> HIDE DEF h, step
    <3> QED
      BY <3>1, <3>2
  <2>5. f[1] = q[1] /\ \A n \in 1..N : n # 1 => f[n] = f[n - 1] \o q[n]
    BY <2>1, <2>4
  <2> DEFINE T == {0} \cup {n \in 1..N : f[n] = g[n]}
  <2>6. ASSUME NEW n \in 1..N, n - 1 \in T
        PROVE  n \in T
    <3>1. CASE n = 1
      BY <2>2, <2>5, <3>1
    <3>2. CASE n # 1
      <4>1. f[n - 1] = g[n - 1]
        BY <2>6, <3>2
      <4> QED
        BY <2>5, <3>2, <4>1 DEF JoinedUpTo
    <3> QED
      BY <3>1, <3>2
  <2>7. N \in T
    <3>1. 0 \in T
      OBVIOUS
    <3> HIDE DEF T, N
    <3>2. \A n \in 0..N : n \in T
      BY <1>1, <2>6, <3>1, UpTo
    <3> QED
      BY <1>1, <3>2
  <2> QED
    BY <1>3, <2>4, <2>7
<1> QED
  BY <1>2, <1>3

(* Where each of the sequences is in what they are flattened to. *)
PlacedAt(at, q, flat) ==
  /\ at \in [1..(Len(q) + 1) -> Nat \ {0}]
  /\ at[1] = 1 /\ at[Len(q) + 1] = Len(flat) + 1
  /\ \A n \in 1..Len(q) : /\ at[n + 1] = at[n] + Len(q[n])
                          /\ at[n + 1] <= Len(flat) + 1
                          /\ \A j \in 1..Len(q[n]) : flat[at[n] + j - 1] = q[n][j]

LEMMA Places ==
  ASSUME NEW S, NEW q \in Seq(Seq(S))
  PROVE  \E at : PlacedAt(at, q, FlattenSeq(q))
<1> DEFINE N == Len(q)
<1>1. N \in Nat /\ \A n \in 1..N : q[n] \in Seq(S) /\ Len(q[n]) \in Nat
  BY LenProperties, ElementOfSeq
<1>2. PICK g \in [0..N -> Seq(S)] : JoinedUpTo(g, q)
  BY PrefixesExist
<1>3. \A n \in 0..N : g[n] \in Seq(S) /\ Len(g[n]) \in Nat
  BY <1>2, LenProperties
<1>4. FlattenSeq(q) = g[N]
  BY <1>2, FlattenedTo
<1>5. \A n \in 1..N : /\ Len(g[n]) = Len(g[n - 1]) + Len(q[n])
                      /\ \A i \in 1..Len(g[n - 1]) : g[n][i] = g[n - 1][i]
                      /\ \A j \in 1..Len(q[n]) : g[n][Len(g[n - 1]) + j] = q[n][j]
  <2> SUFFICES ASSUME NEW n \in 1..N
               PROVE  /\ Len(g[n]) = Len(g[n - 1]) + Len(q[n])
                      /\ \A i \in 1..Len(g[n - 1]) : g[n][i] = g[n - 1][i]
                      /\ \A j \in 1..Len(q[n]) : g[n][Len(g[n - 1]) + j] = q[n][j]
    OBVIOUS
  <2> DEFINE a == g[n - 1]
             b == q[n]
  <2>1. n - 1 \in 0..N
    BY <1>1
  <2>2. a \in Seq(S) /\ b \in Seq(S) /\ Len(a) \in Nat /\ Len(b) \in Nat
    BY <1>1, <1>3, <2>1
  <2>3. g[n] = a \o b
    BY <1>2 DEF JoinedUpTo
  <2> HIDE DEF a, b
  <2>4. /\ Len(a \o b) = Len(a) + Len(b)
        /\ \A i \in 1..(Len(a) + Len(b)) : (a \o b)[i] = IF i <= Len(a) THEN a[i] ELSE b[i - Len(a)]
    BY <2>2, ConcatProperties
  <2>5. \A i \in 1..Len(a) : (a \o b)[i] = a[i]
    BY <2>2, <2>4
  <2>6. \A j \in 1..Len(b) : (a \o b)[Len(a) + j] = b[j]
    <3> TAKE j \in 1..Len(b)
    <3>1. Len(a) + j \in 1..(Len(a) + Len(b)) /\ ~(Len(a) + j <= Len(a)) /\ Len(a) + j - Len(a) = j
      BY <2>2
    <3> QED
      BY <2>4, <3>1
  <2> QED
    BY <2>3, <2>4, <2>5, <2>6 DEF a, b
<1>6. ASSUME NEW n \in 0..N
      PROVE  Len(g[n]) <= Len(g[N]) /\ \A i \in 1..Len(g[n]) : g[N][i] = g[n][i]
  <2> DEFINE T == {m \in 0..N : n <= m => Len(g[n]) <= Len(g[m])
                                          /\ \A i \in 1..Len(g[n]) : g[m][i] = g[n][i]}
  <2>1. 0 \in T
    <3>1. 0 \in 0..N /\ (n <= 0 => n = 0)
      BY <1>1
    <3> QED
      BY <1>3, <3>1
  <2>2. ASSUME NEW m \in 1..N, m - 1 \in T
        PROVE  m \in T
    <3>1. m \in 0..N /\ m - 1 \in 0..N /\ Len(g[m]) \in Nat /\ Len(g[m - 1]) \in Nat /\ Len(g[n]) \in Nat
      BY <1>1, <1>3
    <3>2. CASE n = m
      BY <3>1, <3>2
    <3>3. CASE n < m
      <4>1. /\ Len(g[n]) <= Len(g[m - 1])
            /\ \A i \in 1..Len(g[n]) : g[m - 1][i] = g[n][i]
        BY <1>6, <2>2, <3>3
      <4>2. /\ Len(g[m]) = Len(g[m - 1]) + Len(q[m])
            /\ \A i \in 1..Len(g[m - 1]) : g[m][i] = g[m - 1][i]
        BY <1>5
      <4>3. Len(g[n]) <= Len(g[m])
        <5> DEFINE a == Len(g[n])
                   b == Len(g[m - 1])
                   c == Len(g[m])
                   d == Len(q[m])
        <5>1. d \in Nat
          BY <1>1
        <5>2. a \in Nat /\ b \in Nat /\ c \in Nat /\ a <= b /\ c = b + d
          BY <3>1, <4>1, <4>2
        <5> HIDE DEF a, b, c, d
        <5>3. a <= c
          BY <5>1, <5>2
        <5> QED
          BY <5>3 DEF a, c
      <4>4. \A i \in 1..Len(g[n]) : i \in 1..Len(g[m - 1])
        BY <3>1, <4>1
      <4> QED
        BY <3>1, <4>1, <4>2, <4>3, <4>4
    <3>4. CASE m < n
      BY <3>1, <3>4
    <3> QED
      BY <3>2, <3>3, <3>4
  <2>3. N \in T
    <3> HIDE DEF T
    <3>1. \A m \in 0..N : m \in T
      BY <1>1, <2>1, <2>2, UpTo
    <3> QED
      BY <1>1, <3>1
  <2> QED
    BY <2>3
<1> DEFINE at == [n \in 1..(N + 1) |-> Len(g[n - 1]) + 1]
<1>7. \A n \in 1..(N + 1) : n - 1 \in 0..N /\ at[n] = Len(g[n - 1]) + 1 /\ at[n] \in Nat \ {0}
  BY <1>1, <1>3
<1>8. at \in [1..(N + 1) -> Nat \ {0}]
  BY <1>7
<1>9. at[1] = 1 /\ at[N + 1] = Len(g[N]) + 1
  <2>1. 1 \in 1..(N + 1) /\ N + 1 \in 1..(N + 1) /\ 1 - 1 = 0 /\ N + 1 - 1 = N
    BY <1>1
  <2>2. Len(g[0]) = 0
    BY <1>2 DEF JoinedUpTo
  <2>3. at[1] = Len(g[1 - 1]) + 1 /\ at[N + 1] = Len(g[N + 1 - 1]) + 1
    BY <2>1
  <2> HIDE DEF N, at
  <2> QED
    BY <2>1, <2>2, <2>3
<1>10. ASSUME NEW n \in 1..N
       PROVE  /\ at[n + 1] = at[n] + Len(q[n])
              /\ at[n + 1] <= Len(g[N]) + 1
              /\ \A j \in 1..Len(q[n]) : g[N][at[n] + j - 1] = q[n][j]
  <2>1. n \in 1..(N + 1) /\ n + 1 \in 1..(N + 1) /\ n - 1 \in 0..N /\ n \in 0..N /\ n + 1 - 1 = n /\ N \in 0..N
    BY <1>1
  <2>2. at[n] = Len(g[n - 1]) + 1 /\ at[n + 1] = Len(g[n]) + 1
    BY <2>1
  <2>3. Len(g[n - 1]) \in Nat /\ Len(g[n]) \in Nat /\ Len(g[N]) \in Nat /\ Len(q[n]) \in Nat
    BY <1>1, <1>3, <2>1
  <2>4. Len(g[n]) = Len(g[n - 1]) + Len(q[n]) /\ Len(g[n]) <= Len(g[N])
    BY <1>5, <1>6, <2>1
  <2> HIDE DEF at
  <2> DEFINE a == Len(g[n - 1])
             b == Len(g[n])
             c == Len(g[N])
             d == Len(q[n])
  <2>5. a \in Nat /\ b \in Nat /\ c \in Nat /\ d \in Nat /\ b = a + d /\ b <= c
    BY <2>3, <2>4
  <2>6. at[n + 1] = at[n] + Len(q[n]) /\ at[n + 1] <= Len(g[N]) + 1
    <3>1. at[n] = a + 1 /\ at[n + 1] = b + 1
      BY <2>2
    <3> HIDE DEF a, b, c, d
    <3>2. at[n + 1] = at[n] + d /\ at[n + 1] <= c + 1
      BY <2>5, <3>1
    <3> QED
      BY <3>2 DEF c, d
  <2>7. ASSUME NEW j \in 1..Len(q[n])
        PROVE  g[N][at[n] + j - 1] = q[n][j]
    <3>1. at[n] + j - 1 = Len(g[n - 1]) + j /\ Len(g[n - 1]) + j \in 1..Len(g[n])
      <4>1. at[n] = a + 1 /\ j \in 1..d
        BY <2>2
      <4> HIDE DEF a, b, c, d
      <4>2. at[n] + j - 1 = a + j /\ a + j \in 1..b
        BY <2>5, <4>1
      <4> QED
        BY <4>2 DEF a, b
    <3>2. g[n][Len(g[n - 1]) + j] = q[n][j]
      BY <1>5
    <3>3. g[N][Len(g[n - 1]) + j] = g[n][Len(g[n - 1]) + j]
      BY <1>6, <2>1, <3>1
    <3> QED
      BY <3>1, <3>2, <3>3
  <2> QED
    BY <2>6, <2>7
<1> HIDE DEF at
<1>11. PlacedAt(at, q, g[N])
  BY <1>8, <1>9, <1>10 DEF PlacedAt
<1> QED
  BY <1>4, <1>11

(* The source's words, what stands behind each of them, and where they are.  *)
Sourced(Symbols) == source.words \in Seq(Seq(Symbols)) /\ source.gaps \in Gaps

Count    == Len(source.words)
Word(n)  == source.words[n]
GapOf(n) == IF n = Count THEN <<>> ELSE Gap(Word(n), Word(n + 1), source.gaps)

LaidOut(at) ==
  /\ at \in [1..(Count + 1) -> Nat \ {0}] /\ at[1] = 1 /\ at[Count + 1] = Len(text) + 1
  /\ \A n \in 1..Count :
       /\ at[n + 1] = at[n] + Len(Word(n)) + Len(GapOf(n)) /\ at[n + 1] <= Len(text) + 1
       /\ \A j \in 1..Len(Word(n)) : text[at[n] + j - 1] = Word(n)[j]
       /\ \A j \in 1..Len(GapOf(n)) : text[at[n] + Len(Word(n)) + j - 1] = GapOf(n)[j]

Blanks  == {<<" ">>, <<"\n">>}
Remark  == <<" ", "/", "/", "=", "\n">>

LEMMA GapKinds ==
  ASSUME NEW n, source.gaps \in Gaps, n # Count
  PROVE  /\ GapOf(n) \in {<<>>, Remark} \cup Blanks
         /\ GapOf(n) = <<>> => ~Fuse(Word(n), Word(n + 1))
<1>1. GapOf(n) = Gap(Word(n), Word(n + 1), source.gaps)
  BY DEF GapOf
<1>2. CASE source.gaps = "spaced"
  <2>1. GapOf(n) = <<" ">>
    BY <1>1, <1>2 DEF Gap
  <2>2. <<" ">> # <<>>
    OBVIOUS
  <2> QED
    BY <2>1, <2>2, Zenon DEF Blanks
<1>3. CASE source.gaps = "commented"
  <2>1. GapOf(n) = Remark
    BY <1>1, <1>3 DEF Gap, Remark
  <2>2. Remark # <<>>
    BY DEF Remark
  <2> QED
    BY <2>1, <2>2
<1>4. CASE source.gaps = "tight"
  <2>1. GapOf(n) = IF Fuse(Word(n), Word(n + 1)) THEN <<"\n">> ELSE <<>>
    BY <1>1, <1>4 DEF Gap
  <2>2. <<"\n">> # <<>>
    OBVIOUS
  <2> QED
    BY <2>1, <2>2 DEF Blanks
<1> QED
  BY <1>2, <1>3, <1>4 DEF Gaps

LEMMA WrittenOut ==
  ASSUME NEW Symbols, Sourced(Symbols), text = Written(source.words, source.gaps)
  PROVE  \E at : LaidOut(at)
<1> DEFINE T == Symbols \cup {" ", "/", "=", "\n"}
           q == [i \in 1..Count |-> Word(i) \o GapOf(i)]
<1>1. /\ Count \in Nat /\ DOMAIN source.words = 1..Count
      /\ \A n \in 1..Count : Word(n) \in Seq(Symbols)
  BY LenProperties, ElementOfSeq DEF Sourced, Count, Word
<1>2. text = FlattenSeq(q)
  <2>1. q = [i \in DOMAIN source.words |->
               source.words[i] \o IF i = Len(source.words) THEN <<>>
                                  ELSE Gap(source.words[i], source.words[i + 1], source.gaps)]
    BY <1>1 DEF Word, GapOf, Count
  <2> HIDE DEF q
  <2> QED
    BY <2>1 DEF Written
<1>3. \A n \in 1..Count : Word(n) \in Seq(T) /\ GapOf(n) \in Seq(T)
  <2> SUFFICES ASSUME NEW n \in 1..Count
               PROVE  Word(n) \in Seq(T) /\ GapOf(n) \in Seq(T)
    OBVIOUS
  <2>1. Symbols \subseteq T
    OBVIOUS
  <2>2. Word(n) \in Seq(Symbols)
    BY <1>1
  <2>3. GapOf(n) \in {<<>>, Remark} \cup Blanks
    <3>1. n = Count => GapOf(n) = <<>>
      BY DEF GapOf
    <3> QED
      BY <3>1, GapKinds DEF Sourced
  <2>4. {<<>>, Remark} \cup Blanks \subseteq Seq(T)
    BY DEF Remark, Blanks
  <2>5. Word(n) \in Seq(T)
    <3> HIDE DEF T
    <3> QED
      BY <2>1, <2>2, Widened
  <2> QED
    BY <2>3, <2>4, <2>5
<1>4. q \in Seq(Seq(T)) /\ Len(q) = Count /\ \A n \in 1..Count : q[n] = Word(n) \o GapOf(n)
  <2> HIDE DEF T
  <2>1. \A n \in 1..Count : Word(n) \o GapOf(n) \in Seq(T)
    BY <1>3, ConcatProperties
  <2>2. q \in [1..Count -> Seq(T)]
    BY <2>1
  <2>3. q \in Seq(Seq(T)) /\ DOMAIN q = 1..Count
    BY <1>1, <2>2
  <2> QED
    BY <1>1, <2>3
<1>P. PICK at : PlacedAt(at, q, text)
  <2> HIDE DEF q, T
  <2> QED
    BY <1>2, <1>4, Places
<1>5. /\ at \in [1..(Count + 1) -> Nat \ {0}]
      /\ at[1] = 1 /\ at[Count + 1] = Len(text) + 1
      /\ \A n \in 1..Count : /\ at[n + 1] = at[n] + Len(q[n])
                             /\ at[n + 1] <= Len(text) + 1
                             /\ \A j \in 1..Len(q[n]) : text[at[n] + j - 1] = q[n][j]
  <2> HIDE DEF q, T
  <2>1. Len(q) = Count
    BY <1>4
  <2> QED
    BY <1>P, <2>1, Zenon DEF PlacedAt
<1>6. ASSUME NEW n \in 1..Count
      PROVE  /\ at[n + 1] = at[n] + Len(Word(n)) + Len(GapOf(n)) /\ at[n + 1] <= Len(text) + 1
             /\ \A j \in 1..Len(Word(n)) : text[at[n] + j - 1] = Word(n)[j]
             /\ \A j \in 1..Len(GapOf(n)) : text[at[n] + Len(Word(n)) + j - 1] = GapOf(n)[j]
  <2> DEFINE a == Word(n)
             b == GapOf(n)
             k == at[n]
  <2>1. a \in Seq(T) /\ b \in Seq(T)
    BY <1>3
  <2>2. k \in Nat
    BY <1>1, <1>5
  <2>3. /\ at[n + 1] = k + Len(a \o b) /\ at[n + 1] <= Len(text) + 1
        /\ \A j \in 1..Len(a \o b) : text[k + j - 1] = (a \o b)[j]
    BY <1>4, <1>5
  <2> HIDE DEF a, b, k, T
  <2>4. /\ Len(a) \in Nat /\ Len(b) \in Nat /\ Len(a \o b) = Len(a) + Len(b)
        /\ \A j \in 1..(Len(a) + Len(b)) : (a \o b)[j] = IF j <= Len(a) THEN a[j] ELSE b[j - Len(a)]
    BY <2>1, ConcatProperties, LenProperties
  <2>5. at[n + 1] = k + Len(a) + Len(b)
    BY <2>2, <2>3, <2>4
  <2>6. \A j \in 1..Len(a) : text[k + j - 1] = a[j]
    BY <2>3, <2>4
  <2>7. \A j \in 1..Len(b) : text[k + Len(a) + j - 1] = b[j]
    <3> TAKE j \in 1..Len(b)
    <3>1. /\ Len(a) + j \in 1..(Len(a) + Len(b)) /\ ~(Len(a) + j <= Len(a)) /\ Len(a) + j - Len(a) = j
          /\ k + (Len(a) + j) - 1 = k + Len(a) + j - 1
      BY <2>2, <2>4
    <3>2. (a \o b)[Len(a) + j] = b[j]
      BY <2>4, <3>1
    <3>3. text[k + (Len(a) + j) - 1] = (a \o b)[Len(a) + j]
      BY <2>3, <2>4, <3>1
    <3> QED
      BY <3>1, <3>2, <3>3
  <2> QED
    BY <2>3, <2>5, <2>6, <2>7 DEF a, b, k
<1>7. LaidOut(at)
  BY <1>5, <1>6, Zenon DEF LaidOut
<1> QED
  BY <1>7

------------------------------------------------------------------------------
(* A word is read as the token it is.                                        *)

(* The search for the end of a run ends where the run does. *)
LEMMA PastTo ==
  ASSUME text \in Seq(STRING), NEW n \in Nat \ {0}, NEW S, NEW k \in n..(Len(text) + 1),
         \A i \in n..(k - 1) : text[i] \in S, k <= Len(text) => text[k] \notin S
  PROVE  Past(n, S) = k
<1> DEFINE stops == {m \in n..Len(text) : text[m] \notin S}
<1>1. Len(text) \in Nat
  OBVIOUS
<1>2. Past(n, S) = IF stops = {} THEN Len(text) + 1
                   ELSE CHOOSE m \in stops : \A j \in stops : m <= j
  BY DEF Past
<1>3. \A m \in stops : k <= m
  BY <1>1
<1>4. CASE k = Len(text) + 1
  <2>1. stops = {}
    BY <1>1, <1>3, <1>4
  <2> QED
    BY <1>2, <1>4, <2>1
<1>5. CASE k # Len(text) + 1
  <2>1. k \in stops
    BY <1>1, <1>5
  <2>2. stops \subseteq Nat
    BY <1>1
  <2> HIDE DEF stops
  <2>3. \A m \in stops : (\A j \in stops : m <= j) => m = k
    BY <1>1, <1>3, <2>1, <2>2
  <2>4. (CHOOSE m \in stops : \A j \in stops : m <= j) = k
    BY <1>3, <2>1, <2>3
  <2> QED
    BY <1>2, <2>1, <2>4
<1> QED
  BY <1>4, <1>5

LEMMA CommentTo ==
  ASSUME text \in Seq(STRING), NEW n \in Nat \ {0}, NEW k \in n..Len(text),
         \A i \in n..(k - 1) : text[i] # "\n", text[k] = "\n"
  PROVE  skip_lexer_comment(n) = k
<1> DEFINE ends == {m \in n..Len(text) : text[m] = "\n"}
<1>1. Len(text) \in Nat
  OBVIOUS
<1>2. skip_lexer_comment(n) = IF ends = {} THEN Len(text) + 1
                              ELSE CHOOSE m \in ends : \A j \in ends : m <= j
  BY DEF skip_lexer_comment
<1>3. \A m \in ends : k <= m
  BY <1>1
<1>4. k \in ends /\ ends \subseteq Nat
  BY <1>1
<1> HIDE DEF ends
<1>5. \A m \in ends : (\A j \in ends : m <= j) => m = k
  BY <1>1, <1>3, <1>4
<1>6. (CHOOSE m \in ends : \A j \in ends : m <= j) = k
  BY <1>3, <1>4, <1>5
<1> QED
  BY <1>2, <1>4, <1>6

(* The kinds of symbols are apart from each other. *)
LEMMA KindsApart ==
  /\ Alpha \cap Digits = {} /\ Digits \subseteq Alnum /\ Alpha \subseteq Alnum
  /\ Alnum \cap (Operators \cup Delimiters \cup Spaces \cup {""}) = {}
  /\ Operators \cap (Delimiters \cup Spaces \cup {""}) = {}
  /\ Delimiters \cap (Spaces \cup {""}) = {}
BY SymbolsAssumption DEF Alpha, Alnum, keywords, Operators, Delimiters, Spaces

LEMMA Peeked ==
  ASSUME text \in Seq(STRING), NEW n \in Nat \ {0}
  PROVE  /\ n <= Len(text) => peek_lexer(n) = text[n] /\ ~lexer_at_end(n)
         /\ n > Len(text) => peek_lexer(n) = "" /\ lexer_at_end(n)
<1>1. Len(text) \in Nat
  OBVIOUS
<1>2. n <= Len(text) => ~lexer_at_end(n)
  BY <1>1 DEF lexer_at_end
<1>3. n > Len(text) => lexer_at_end(n)
  BY <1>1 DEF lexer_at_end
<1> QED
  BY <1>2, <1>3, Zenon DEF peek_lexer

(* What the symbol is that a token starts with says how it is read. *)
LEMMA Leads ==
  ASSUME text \in Seq(STRING), Start \in 1..Len(text), LexToken
  PROVE  /\ text[Start] \in Alpha  => get_identifier
         /\ text[Start] \in Digits => get_number
         /\ text[Start] \in Operators => CompoundOperator \/ Comment \/ SimpleOperator
         /\ text[Start] = "'" => CharLiteral
         /\ text[Start] \in Delimiters \ {"'", "\""} => Delimiter
<1> DEFINE s == text[Start]
<1>1. peek_lexer(Start) = s
  <2>1. Start \in Nat \ {0} /\ Start <= Len(text)
    OBVIOUS
  <2> QED
    BY <2>1, Peeked
<1>2. \A S : StartsWith(S) => s \in S
  BY <1>1 DEF StartsWith
<1> HIDE DEF s
<1>3. get_identifier => s \in Alpha
  BY <1>2, Zenon DEF get_identifier
<1>4. get_number => s \in Digits
  BY <1>2, Zenon DEF get_number
<1>5. CompoundOperator \/ Comment \/ SimpleOperator => s \in Operators
  BY <1>2, Zenon DEF CompoundOperator, Comment, SimpleOperator
<1>6. CharLiteral => s = "'"
  <2>1. CharLiteral => s \in {"'"}
    BY <1>2, Zenon DEF CharLiteral
  <2> QED
    BY <2>1
<1>7. StringLiteral => s = "\""
  <2>1. StringLiteral => s \in {"\""}
    BY <1>2, Zenon DEF StringLiteral
  <2> QED
    BY <2>1
<1>8. Delimiter => s \in Delimiters \ {"'", "\""}
  BY <1>2, Zenon DEF Delimiter
<1>9. PassOver => s \notin Alpha \cup Digits \cup Operators \cup Delimiters
  BY <1>1, Zenon DEF PassOver
<1>10. "'" \in Delimiters /\ "\"" \in Delimiters
  BY DEF Delimiters
<1>11. s \in Alpha => s \notin Digits \cup Operators \cup Delimiters
  BY KindsApart
<1>12. s \in Digits => s \notin Alpha \cup Operators \cup Delimiters
  BY KindsApart
<1>13. s \in Operators => s \notin Alpha \cup Digits \cup Delimiters
  BY KindsApart
<1>14. s \in Delimiters => s \notin Alpha \cup Digits \cup Operators
  BY KindsApart
<1>15. s \in Alpha => get_identifier
  BY <1>4, <1>5, <1>6, <1>7, <1>8, <1>9, <1>10, <1>11 DEF LexToken
<1>16. s \in Digits => get_number
  BY <1>3, <1>5, <1>6, <1>7, <1>8, <1>9, <1>10, <1>12 DEF LexToken
<1>17. s \in Operators => CompoundOperator \/ Comment \/ SimpleOperator
  BY <1>3, <1>4, <1>6, <1>7, <1>8, <1>9, <1>10, <1>13 DEF LexToken
<1>18. s = "'" => CharLiteral
  <2>1. "'" # "\""
    OBVIOUS
  <2> QED
    BY <1>3, <1>4, <1>5, <1>7, <1>8, <1>9, <1>10, <1>14, <2>1 DEF LexToken
<1>19. s \in Delimiters \ {"'", "\""} => Delimiter
  BY <1>3, <1>4, <1>5, <1>6, <1>7, <1>9, <1>14 DEF LexToken
<1> QED
  BY <1>15, <1>16, <1>17, <1>18, <1>19 DEF s

(* A part of the text that is a word, symbol for symbol. *)
Reads(k, w) == \A j \in 1..Len(w) : text[k + j - 1] = w[j]

LEMMA Segment ==
  ASSUME text \in Seq(STRING), NEW Symbols, NEW w \in Seq(Symbols), NEW k \in Nat \ {0},
         k + Len(w) <= Len(text) + 1, Len(w) > 0, Reads(k, w)
  PROVE  Between(k, k + Len(w)) = w
<1> DEFINE m == k + Len(w) - 1
           part == SubSeq(text, k, m)
<1>1. Len(text) \in Nat /\ Len(w) \in Nat
  BY LenProperties
<1>2. m \in k..Len(text) /\ k \in 1..Len(text) /\ m - k + 1 = Len(w) /\ m >= k
  BY <1>1
<1>3. /\ part \in Seq(STRING) /\ Len(part) = Len(w)
      /\ \A j \in 1..Len(w) : part[j] = text[k + j - 1]
  <2> HIDE DEF m
  <2>1. k \in 1..(Len(text) + 1) /\ m \in (k - 1)..Len(text)
    BY <1>1, <1>2
  <2> QED
    BY <1>1, <1>2, <2>1, SubSeqProperties
<1>4. \A j \in 1..Len(w) : part[j] = w[j]
  BY <1>3 DEF Reads
<1>5. part = w
  <2> HIDE DEF part
  <2> QED
    BY <1>1, <1>3, <1>4, SeqEqual
<1> QED
  BY <1>5 DEF Between

(* The token a word is, by its kind. *)
LEMMA WordTokens ==
  ASSUME NEW w
  PROVE  /\ IsQuoted(w) => WordToken(w) = Token("CHAR_LITERAL", <<w[2]>>)
         /\ IsIdentifier(w) => WordToken(w) = Token("ID", w)
         /\ w \in Compound => WordToken(w) = Token(CompoundType[w], w)
         /\ \A s \in Digits : w = <<s>> => WordToken(w) = Token("INTEGER", w)
         /\ \A s \in Plain \ Digits : w = <<s>> => WordToken(w) = Token(s, w)
<1>1. IsQuoted(w) => w[1] = "'" /\ Len(w) = 3
  BY DEF IsQuoted
<1>2. IsIdentifier(w) => w[1] \in Alpha /\ \A s \in keywords : w # <<s>>
  BY DEF IsIdentifier
<1>3. w \in Compound => w[1] \in Operators /\ Len(w) = 2
  BY Pairs DEF Operators
<1>4. \A s : w = <<s>> => w[1] = s /\ Len(w) = 1
  OBVIOUS
<1>5. "'" \in Delimiters
  BY DEF Delimiters
<1>6. IsQuoted(w) => ~IsIdentifier(w)
  BY <1>1, <1>2, <1>5, KindsApart
<1>7. w \in Compound => ~IsQuoted(w) /\ ~IsIdentifier(w)
  <2>1. w \in Compound => ~IsQuoted(w)
    BY <1>1, <1>3
  <2>2. w[1] \in Operators => w[1] \notin Alpha
    BY KindsApart
  <2> QED
    BY <1>2, <1>3, <2>1, <2>2, Zenon
<1>8. \A s : w = <<s>> => ~IsQuoted(w) /\ w \notin Compound
  BY <1>1, <1>3, <1>4
<1>9. \A s \in Digits : w = <<s>> => ~IsIdentifier(w)
  BY <1>2, <1>4, KindsApart
<1>10. \A s \in Plain : w = <<s>> => ~IsIdentifier(w)
  BY <1>2, <1>4, <1>9, KindsApart DEF Plain
<1>11. \A s : w = <<s>> => (w \in {<<symbol>> : symbol \in Digits} <=> s \in Digits)
  BY <1>4
<1>S. w \in {<<symbol>> : symbol \in Digits} => ~IsQuoted(w) /\ ~IsIdentifier(w) /\ w \notin Compound
  BY <1>8, <1>9
<1>12. IsQuoted(w) => WordType(w) = "CHAR_LITERAL"
  BY <1>6, <1>7, <1>S, Zenon DEF WordType
<1>13. IsIdentifier(w) => WordType(w) = "ID"
  BY <1>6, <1>7, <1>S, Zenon DEF WordType
<1>14. w \in Compound => WordType(w) = CompoundType[w]
  BY <1>7, <1>S, Zenon DEF WordType
<1>15. \A s \in Digits : w = <<s>> => WordType(w) = "INTEGER"
  BY <1>8, <1>9, <1>11 DEF WordType
<1>16. \A s \in Plain \ Digits : w = <<s>> => WordType(w) = s
  BY <1>4, <1>8, <1>10, <1>11, Zenon DEF WordType
<1> QED
  BY <1>6, <1>7, <1>8, <1>10, <1>12, <1>13, <1>14, <1>15, <1>16 DEF WordToken, Plain

(* What follows a word keeps it from being read as another. *)
Apart(w, follower) ==
  /\ ~(Last(w) \in Alnum /\ follower \in Alnum)
  /\ <<Last(w), follower>> \notin Compound \cup {<<"/", "/">>}

(* The next token starts at a word. *)
AtWord(k, w) ==
  /\ k \in Nat \ {0} /\ Start = k /\ k + Len(w) <= Len(text) + 1
  /\ Reads(k, w) /\ Apart(w, peek_lexer(k + Len(w)))

LEMMA FirstSymbol ==
  ASSUME text \in Seq(STRING), NEW Symbols, NEW w \in Seq(Symbols), NEW k, AtWord(k, w), Len(w) > 0
  PROVE  /\ Len(w) \in Nat /\ k \in 1..Len(text) /\ Start = k /\ text[k] = w[1]
         /\ \A j \in 1..Len(w) : peek_lexer(k + j - 1) = w[j] /\ text[k + j - 1] = w[j]
         /\ Between(k, k + Len(w)) = w
<1>1. Len(w) \in Nat /\ Len(text) \in Nat /\ k \in Nat \ {0} /\ k + Len(w) <= Len(text) + 1 /\ Start = k
  BY LenProperties DEF AtWord
<1>2. \A j \in 1..Len(w) : k + j - 1 \in 1..Len(text)
  BY <1>1
<1>3. \A j \in 1..Len(w) : text[k + j - 1] = w[j]
  BY DEF AtWord, Reads
<1>4. 1 \in 1..Len(w) /\ k + 1 - 1 = k
  BY <1>1
<1>5. \A j \in 1..Len(w) : peek_lexer(k + j - 1) = text[k + j - 1]
  <2> TAKE j \in 1..Len(w)
  <2>1. k + j - 1 \in Nat \ {0} /\ k + j - 1 <= Len(text)
    BY <1>1, <1>2
  <2> QED
    BY <2>1, Peeked
<1>6. Between(k, k + Len(w)) = w
  BY <1>1, Segment DEF AtWord
<1>7. k \in 1..Len(text) /\ text[k] = w[1]
  BY <1>1, <1>2, <1>3, <1>4
<1> QED
  BY <1>1, <1>3, <1>5, <1>6, <1>7

LEMMA Alone ==
  ASSUME NEW s, NEW w, w = <<s>>
  PROVE  Len(w) = 1 /\ Len(w) > 0 /\ w[1] = s
OBVIOUS

(* A run of symbols of one set, and behind it none, is passed to its end. *)
LEMMA RunRead ==
  ASSUME text \in Seq(STRING), NEW Symbols, NEW w \in Seq(Symbols), NEW k, AtWord(k, w), Len(w) > 0,
         NEW S, \A j \in 1..Len(w) : w[j] \in S, peek_lexer(k + Len(w)) \notin S
  PROVE  Past(k, S) = k + Len(w)
<1> DEFINE N == Len(w)
<1>1. N \in Nat /\ Len(text) \in Nat /\ k \in Nat \ {0} /\ k + N <= Len(text) + 1
  BY LenProperties DEF AtWord
<1>2. \A j \in 1..N : text[k + j - 1] = w[j]
  BY DEF AtWord, Reads
<1>H. \A j \in 1..N : w[j] \in S
  OBVIOUS
<1>P. peek_lexer(k + N) \notin S
  OBVIOUS
<1> HIDE DEF N
<1>3. \A i \in k..((k + N) - 1) : text[i] \in S
  <2> TAKE i \in k..((k + N) - 1)
  <2>1. i - k + 1 \in 1..N /\ k + (i - k + 1) - 1 = i
    BY <1>1
  <2> QED
    BY <1>2, <1>H, <2>1
<1>4. k + N <= Len(text) => text[k + N] \notin S
  <2> HAVE k + N <= Len(text)
  <2>1. k + N \in Nat \ {0}
    BY <1>1
  <2> QED
    BY <1>P, <2>1, Peeked
<1>5. k + N \in k..(Len(text) + 1) /\ k + N \in Nat
  BY <1>1
<1>6. Past(k, S) = k + N
  <2> DEFINE m == k + N
  <2>1. /\ m \in k..(Len(text) + 1) /\ \A i \in k..(m - 1) : text[i] \in S
        /\ m <= Len(text) => text[m] \notin S
    BY <1>3, <1>4, <1>5, Zenon
  <2> HIDE DEF m
  <2>2. Past(k, S) = m
    BY <1>1, <2>1, PastTo
  <2> QED
    BY <2>2 DEF m
<1> QED
  BY <1>6 DEF N

LEMMA LastSymbol ==
  ASSUME NEW Symbols, NEW w \in Seq(Symbols), Len(w) > 0
  PROVE  Last(w) = w[Len(w)] /\ Len(w) \in 1..Len(w)
<1>1. Len(w) \in Nat
  BY LenProperties
<1> QED
  BY <1>1 DEF Last

LEMMA IdentifierRead ==
  ASSUME text \in Seq(STRING), NEW Symbols, NEW w \in Seq(Symbols), NEW k, AtWord(k, w), IsIdentifier(w), LexToken
  PROVE  tokens' = Append(tokens, WordToken(w)) /\ end' = k + Len(w)
<1>1. w \in Seq(Alnum) /\ w # <<>> /\ w[1] \in Alpha /\ \A s \in keywords : w # <<s>>
  BY DEF IsIdentifier
<1>2. Len(w) \in Nat /\ Len(w) > 0
  BY <1>1, EmptySeq, LenProperties
<1>3. /\ k \in 1..Len(text) /\ Start = k /\ text[k] = w[1]
      /\ Between(k, k + Len(w)) = w
  BY <1>2, FirstSymbol
<1>4. get_identifier
  BY <1>1, <1>3, Leads
<1>5. \A j \in 1..Len(w) : w[j] \in Alnum
  BY <1>1, Elements
<1>6. peek_lexer(k + Len(w)) \notin Alnum
  BY <1>2, <1>5, LastSymbol DEF AtWord, Apart
<1>7. Past(k, Alnum) = k + Len(w)
  BY <1>2, <1>5, <1>6, RunRead
<1>8. ~(Len(w) = 1 /\ w[1] \in keywords)
  BY <1>1
<1>9. end' = k + Len(w) /\ add_token(Token("ID", w))
  BY <1>3, <1>4, <1>7, <1>8 DEF get_identifier
<1> QED
  BY <1>9, WordTokens DEF add_token

LEMMA KeywordRead ==
  ASSUME text \in Seq(STRING), NEW Symbols, NEW w \in Seq(Symbols), NEW k, AtWord(k, w), LexToken,
         NEW s \in keywords \ {"str"}, w = <<s>>
  PROVE  tokens' = Append(tokens, WordToken(w)) /\ end' = k + Len(w)
<1>1. Len(w) = 1 /\ Len(w) > 0 /\ w[1] = s
  BY Alone
<1>2. /\ k \in 1..Len(text) /\ Start = k /\ text[k] = w[1]
      /\ Between(k, k + Len(w)) = w
  BY <1>1, FirstSymbol
<1>3. s \in Alpha /\ s \in Alnum /\ s \notin Digits
  BY KindsApart DEF Alpha
<1>4. get_identifier
  BY <1>1, <1>2, <1>3, Leads
<1>5. Last(w) = s
  BY <1>1, LastSymbol
<1>6. peek_lexer(k + Len(w)) \notin Alnum
  BY <1>3, <1>5 DEF AtWord, Apart
<1>7. \A j \in 1..Len(w) : w[j] \in Alnum
  BY <1>1, <1>3
<1>8. Past(k, Alnum) = k + Len(w)
  BY <1>1, <1>6, <1>7, RunRead
<1>9. KeywordType(s) = s
  BY DEF KeywordType
<1>10. end' = k + Len(w) /\ add_token(Token(s, w))
  BY <1>1, <1>2, <1>4, <1>8, <1>9 DEF get_identifier
<1> QED
  BY <1>3, <1>10, WordTokens DEF add_token, Plain

LEMMA NumberRead ==
  ASSUME text \in Seq(STRING), NEW Symbols, NEW w \in Seq(Symbols), NEW k, AtWord(k, w), LexToken,
         NEW s \in Digits, w = <<s>>
  PROVE  tokens' = Append(tokens, WordToken(w)) /\ end' = k + Len(w)
<1>1. Len(w) = 1 /\ Len(w) > 0 /\ w[1] = s
  BY Alone
<1>2. /\ k \in 1..Len(text) /\ Start = k /\ text[k] = w[1]
      /\ Between(k, k + Len(w)) = w
  BY <1>1, FirstSymbol
<1>3. s \in Alnum
  BY KindsApart
<1>4. get_number
  BY <1>1, <1>2, Leads
<1>5. Last(w) = s
  BY <1>1, LastSymbol
<1>6. peek_lexer(k + Len(w)) \notin Digits
  BY <1>3, <1>5, KindsApart DEF AtWord, Apart
<1>7. \A j \in 1..Len(w) : w[j] \in Digits
  BY <1>1
<1>8. Past(k, Digits) = k + Len(w)
  BY <1>1, <1>6, <1>7, RunRead
<1>9. end' = k + Len(w) /\ add_token(Token("INTEGER", w))
  BY <1>2, <1>4, <1>8 DEF get_number
<1> QED
  BY <1>9, WordTokens DEF add_token

LEMMA OperatorRead ==
  ASSUME text \in Seq(STRING), NEW Symbols, NEW w \in Seq(Symbols), NEW k, AtWord(k, w), LexToken,
         NEW s \in Operators \ {"|"}, w = <<s>>
  PROVE  tokens' = Append(tokens, WordToken(w)) /\ end' = k + Len(w)
<1>1. Len(w) = 1 /\ Len(w) > 0 /\ w[1] = s
  BY Alone
<1>2. /\ k \in 1..Len(text) /\ Start = k /\ text[k] = s /\ peek_lexer(k) = s
  <2>1. /\ k \in 1..Len(text) /\ Start = k /\ text[k] = w[1]
        /\ \A j \in 1..Len(w) : peek_lexer(k + j - 1) = w[j]
    BY <1>1, FirstSymbol
  <2>2. 1 \in 1..Len(w) /\ k + 1 - 1 = k
    BY <1>1, <2>1
  <2> QED
    BY <1>1, <2>1, <2>2
<1>3. CompoundOperator \/ Comment \/ SimpleOperator
  BY <1>1, <1>2, Leads
<1>4. Last(w) = s
  BY <1>1, LastSymbol
<1>5. <<s, peek_lexer(k + 1)>> \notin Compound \cup {<<"/", "/">>}
  BY <1>1, <1>4 DEF AtWord, Apart
<1>6. ~IsCompound(Start) /\ ~IsComment(Start)
  BY <1>2, <1>5, Zenon DEF IsCompound, IsComment
<1>7. SimpleOperator
  BY <1>3, <1>6 DEF CompoundOperator, Comment
<1>8. end' = k + 1 /\ add_token(Token(s, <<s>>))
  BY <1>2, <1>7, Zenon DEF SimpleOperator
<1>9. s \notin Digits
  BY KindsApart
<1>10. WordToken(w) = Token(s, <<s>>)
  BY <1>9, WordTokens DEF Plain
<1> QED
  BY <1>1, <1>8, <1>10 DEF add_token

LEMMA DelimiterRead ==
  ASSUME text \in Seq(STRING), NEW Symbols, NEW w \in Seq(Symbols), NEW k, AtWord(k, w), LexToken,
         NEW s \in Delimiters \ {"'", "\""}, w = <<s>>
  PROVE  tokens' = Append(tokens, WordToken(w)) /\ end' = k + Len(w)
<1>1. Len(w) = 1 /\ Len(w) > 0 /\ w[1] = s
  BY Alone
<1>2. k \in 1..Len(text) /\ Start = k /\ text[k] = s
  BY <1>1, FirstSymbol
<1>3. Delimiter
  BY <1>2, Leads
<1>4. end' = k + 1 /\ add_token(Token(s, <<s>>))
  BY <1>2, <1>3, Zenon DEF Delimiter
<1>5. s \notin Digits
  BY KindsApart
<1>6. WordToken(w) = Token(s, <<s>>)
  BY <1>5, WordTokens DEF Plain
<1> QED
  BY <1>1, <1>4, <1>6 DEF add_token

LEMMA CompoundRead ==
  ASSUME text \in Seq(STRING), NEW Symbols, NEW w \in Seq(Symbols), NEW k, AtWord(k, w), LexToken,
         w \in Compound
  PROVE  tokens' = Append(tokens, WordToken(w)) /\ end' = k + Len(w)
<1>1. Len(w) = 2 /\ Len(w) > 0 /\ w = <<w[1], w[2]>> /\ w[1] \in Operators /\ w # <<"/", "/">>
  BY Pairs DEF Operators
<1>2. /\ k \in 1..Len(text) /\ Start = k /\ text[k] = w[1] /\ Between(k, k + Len(w)) = w
      /\ \A j \in 1..Len(w) : peek_lexer(k + j - 1) = w[j] /\ text[k + j - 1] = w[j]
  BY <1>1, FirstSymbol
<1>3. peek_lexer(k) = w[1] /\ peek_lexer(k + 1) = w[2] /\ text[k + 1] = w[2]
  <2>1. 1 \in 1..Len(w) /\ 2 \in 1..Len(w) /\ k + 1 - 1 = k /\ k + 2 - 1 = k + 1
    BY <1>1, <1>2
  <2> QED
    BY <1>2, <2>1
<1>4. CompoundOperator \/ Comment \/ SimpleOperator
  BY <1>1, <1>2, Leads
<1>5. IsCompound(Start) /\ ~IsComment(Start)
  BY <1>1, <1>2, <1>3, Zenon DEF IsCompound, IsComment
<1>6. CompoundOperator
  BY <1>4, <1>5 DEF Comment, SimpleOperator
<1>7. end' = k + 2 /\ add_token(Token(CompoundType[<<text[k], text[k + 1]>>], Between(k, end')))
  BY <1>2, <1>6, Zenon DEF CompoundOperator
<1>8. <<text[k], text[k + 1]>> = w
  BY <1>1, <1>2, <1>3, Zenon
<1>9. k + Len(w) = k + 2
  BY <1>1
<1>10. add_token(Token(CompoundType[w], w))
  BY <1>2, <1>7, <1>8, <1>9, Zenon
<1> QED
  BY <1>7, <1>9, <1>10, WordTokens DEF add_token

LEMMA QuotedRead ==
  ASSUME text \in Seq(STRING), NEW Symbols, NEW w \in Seq(Symbols), NEW k, AtWord(k, w), LexToken,
         IsQuoted(w)
  PROVE  tokens' = Append(tokens, WordToken(w)) /\ end' = k + Len(w)
<1>1. Len(w) = 3 /\ Len(w) > 0 /\ w[1] = "'" /\ w[3] = "'"
  BY DEF IsQuoted
<1>2. /\ k \in 1..Len(text) /\ Start = k /\ text[k] = w[1]
      /\ \A j \in 1..Len(w) : peek_lexer(k + j - 1) = w[j] /\ text[k + j - 1] = w[j]
  BY <1>1, FirstSymbol
<1>3. k \in Nat \ {0} /\ Len(text) \in Nat /\ k + 3 <= Len(text) + 1
  BY <1>1, <1>2 DEF AtWord
<1>4. peek_lexer(k + 1) = w[2] /\ peek_lexer(k + 2) = "'"
  <2>1. 2 \in 1..Len(w) /\ 3 \in 1..Len(w) /\ k + 2 - 1 = k + 1 /\ k + 3 - 1 = k + 2
    BY <1>1, <1>3
  <2> QED
    BY <1>1, <1>2, <2>1
<1>5. CharLiteral
  BY <1>1, <1>2, Leads
<1>6. advance_lexer(k + 1) = k + 2
  BY <1>3 DEF advance_lexer, lexer_at_end
<1>7. end' = (k + 2) + 1 /\ add_token(Token("CHAR_LITERAL", <<w[2]>>))
  BY <1>2, <1>4, <1>5, <1>6, Zenon DEF CharLiteral
<1>8. end' = k + Len(w)
  BY <1>1, <1>3, <1>7
<1> QED
  BY <1>7, <1>8, WordTokens DEF add_token

(* A word that is next in the text is read as its token, and no further. *)
LEMMA WordRead ==
  ASSUME text \in Seq(STRING), NEW Symbols, NEW w \in Seq(Symbols), NEW k, AtWord(k, w), IsWord(w), LexToken
  PROVE  tokens' = Append(tokens, WordToken(w)) /\ end' = k + Len(w)
<1>1. \/ \E s \in keywords \ {"str"} : w = <<s>>
      \/ \E s \in Digits : w = <<s>>
      \/ \E s \in Operators \ {"|"} : w = <<s>>
      \/ \E s \in Delimiters \ {"'", "\""} : w = <<s>>
      \/ w \in Compound \/ IsIdentifier(w) \/ IsQuoted(w)
  BY Zenon DEF IsWord, Plain
<1> QED
  BY <1>1, KeywordRead, NumberRead, OperatorRead, DelimiterRead, CompoundRead, IdentifierRead, QuotedRead, Zenon

(* A word has a symbol, and starts with one that is not passed over. *)
LEMMA WordStarts ==
  ASSUME NEW Symbols, NEW w \in Seq(Symbols), IsWord(w)
  PROVE  Len(w) \in Nat /\ Len(w) > 0 /\ w[1] \notin Spaces
<1>1. Len(w) \in Nat
  BY LenProperties
<1>2. \A s : w = <<s>> => Len(w) > 0 /\ w[1] = s
  BY Alone
<1>3. IsIdentifier(w) => Len(w) > 0 /\ w[1] \in Alpha
  <2>1. w # <<>> => Len(w) > 0
    BY <1>1, EmptySeq
  <2> QED
    BY <2>1 DEF IsIdentifier
<1>4. IsQuoted(w) => Len(w) > 0 /\ w[1] = "'"
  BY DEF IsQuoted
<1>5. w \in Compound => Len(w) > 0 /\ w[1] \in Operators
  <2>1. w \in Compound => Len(w) = 2 /\ w[1] \in Operators
    BY Pairs DEF Operators
  <2> QED
    BY <2>1
<1>6. "'" \notin Spaces /\ \A s \in Alpha \cup Operators \cup Digits \cup Delimiters : s \notin Spaces
  <2>1. "'" \notin Spaces
    BY DEF Spaces
  <2>2. Alpha \cap Spaces = {} /\ Operators \cap Spaces = {} /\ Digits \cap Spaces = {} /\ Delimiters \cap Spaces = {}
    BY KindsApart
  <2> QED
    BY <2>1, <2>2
<1>7. Plain \subseteq Alpha \cup Operators \cup Digits \cup Delimiters
  BY DEF Plain, Alpha
<1>8. \/ \E s \in Plain : w = <<s>>
      \/ w \in Compound \/ IsIdentifier(w) \/ IsQuoted(w)
  BY Zenon DEF IsWord
<1>9. \A s \in Plain : w = <<s>> => Len(w) > 0 /\ w[1] \notin Spaces
  BY <1>2, <1>6, <1>7
<1>10. IsIdentifier(w) \/ IsQuoted(w) \/ w \in Compound => Len(w) > 0 /\ w[1] \notin Spaces
  BY <1>3, <1>4, <1>5, <1>6, Zenon
<1> QED
  BY <1>1, <1>8, <1>9, <1>10, Zenon

(* A token starts at the first symbol that is no space. *)
LEMMA StartAt ==
  ASSUME text \in Seq(STRING), end \in 1..(Len(text) + 1), NEW k \in end..Len(text),
         \A i \in end..(k - 1) : text[i] \in Spaces, text[k] \notin Spaces
  PROVE  Start = k
<1>1. Len(text) \in Nat
  OBVIOUS
<1>2. end \in Nat \ {0} /\ k \in end..(Len(text) + 1)
  BY <1>1
<1>3. Past(end, Spaces) = k
  BY <1>1, <1>2, PastTo
<1> QED
  BY <1>3 DEF Start, skip_lexer_whitespace

(* A blank, like the end, keeps a word from being read as another. *)
LEMMA BlankApart ==
  ASSUME NEW w, NEW f \in {"", " ", "\n"}
  PROVE  Apart(w, f)
<1>1. f \notin Alnum
  BY KindsApart DEF Spaces
<1>2. <<Last(w), f>> \notin Compound
  <2> DEFINE l == Last(w)
  <2> HIDE DEF l
  <2>1. <<l, f>> \notin Compound
    BY Pairs
  <2> QED
    BY <2>1 DEF l
<1>3. <<Last(w), f>> # <<"/", "/">>
  <2> DEFINE l == Last(w)
  <2> HIDE DEF l
  <2>1. <<l, f>> # <<"/", "/">>
    OBVIOUS
  <2> QED
    BY <2>1 DEF l
<1> QED
  BY <1>1, <1>2, <1>3, Zenon DEF Apart

------------------------------------------------------------------------------
(* The text from word to word.                                               *)

AllWords == \A n \in 1..Count : IsWord(Word(n))

(* Behind the first n words. *)
Behind(at, n) == IF n = 0 THEN 1 ELSE at[n] + Len(Word(n))

LexedTo(at, n) ==
  /\ n \in 0..Count
  /\ tokens = [i \in 1..n |-> WordToken(Word(i))]
  /\ \/ end = Behind(at, n)
     \/ n \in 1..(Count - 1) /\ GapOf(n) = Remark /\ end = Behind(at, n) + 4

AsWritten(Symbols, at) ==
  text \in Seq(STRING) /\ Sourced(Symbols) /\ LaidOut(at) /\ AllWords

LEMMA WordPlaces ==
  ASSUME NEW Symbols, NEW at, AsWritten(Symbols, at), NEW n \in 1..Count
  PROVE  /\ Count \in Nat /\ Len(text) \in Nat
         /\ Word(n) \in Seq(Symbols) /\ IsWord(Word(n)) /\ Len(Word(n)) \in Nat \ {0}
         /\ at[n] \in 1..Len(text) /\ at[n + 1] \in Nat \ {0} /\ at[n] + Len(Word(n)) <= Len(text) + 1
         /\ Reads(at[n], Word(n)) /\ text[at[n]] \notin Spaces
<1> DEFINE w == Word(n)
<1>1. /\ Count \in Nat /\ w \in Seq(Symbols)
  BY LenProperties, ElementOfSeq DEF AsWritten, Sourced, Count, Word
<1>2. Len(text) \in Nat /\ IsWord(w) /\ LaidOut(at)
  BY DEF AsWritten, AllWords
<1>3. Len(w) \in Nat /\ Len(w) > 0 /\ w[1] \notin Spaces
  BY <1>1, <1>2, WordStarts
<1>4. /\ at[n] \in Nat \ {0} /\ at[n + 1] \in Nat \ {0} /\ at[n + 1] <= Len(text) + 1
      /\ at[n + 1] = at[n] + Len(w) + Len(GapOf(n))
      /\ \A j \in 1..Len(w) : text[at[n] + j - 1] = w[j]
  <2>1. n \in 1..(Count + 1) /\ n + 1 \in 1..(Count + 1)
    BY <1>1
  <2> QED
    BY <1>2, <2>1 DEF LaidOut
<1>5. Len(GapOf(n)) \in Nat
  <2>1. GapOf(n) \in {<<>>, Remark} \cup Blanks
    <3>1. n = Count => GapOf(n) = <<>>
      BY DEF GapOf
    <3> QED
      BY <3>1, GapKinds DEF AsWritten, Sourced
  <2>2. {<<>>, Remark} \cup Blanks \subseteq Seq({" ", "/", "=", "\n"})
    BY DEF Remark, Blanks
  <2> QED
    BY <2>1, <2>2, LenProperties
<1> DEFINE g == Len(GapOf(n))
<1> HIDE DEF w, g
<1>6. at[n + 1] = at[n] + Len(w) + g /\ g \in Nat
  BY <1>4, <1>5 DEF g
<1>7. at[n] \in 1..Len(text) /\ at[n] + Len(w) <= Len(text) + 1
  BY <1>2, <1>3, <1>4, <1>6
<1>8. text[at[n]] = w[1]
  <2>1. 1 \in 1..Len(w) /\ at[n] + 1 - 1 = at[n]
    BY <1>3, <1>4
  <2> QED
    BY <1>4, <2>1
<1>9. Reads(at[n], w)
  BY <1>4 DEF Reads
<1> QED
  BY <1>1, <1>2, <1>3, <1>4, <1>7, <1>8, <1>9 DEF w

RemarkAt(k) ==
  text[k] = " " /\ text[k + 1] = "/" /\ text[k + 2] = "/" /\ text[k + 3] = "=" /\ text[k + 4] = "\n"

(* What is between a word and the next. *)
LEMMA BehindWord ==
  ASSUME NEW Symbols, NEW at, AsWritten(Symbols, at), NEW n \in 1..Count
  PROVE  /\ Behind(at, n) = at[n] + Len(Word(n)) /\ Behind(at, n) \in Nat \ {0}
         /\ n = Count => Behind(at, n) = Len(text) + 1
         /\ n # Count => GapOf(n) \in {<<>>, Remark} \cup Blanks
         /\ n # Count /\ GapOf(n) = <<>> => at[n + 1] = Behind(at, n) /\ ~Fuse(Word(n), Word(n + 1))
         /\ GapOf(n) \in Blanks => at[n + 1] = Behind(at, n) + 1 /\ text[Behind(at, n)] \in Spaces
         /\ GapOf(n) = Remark => at[n + 1] = Behind(at, n) + 5 /\ RemarkAt(Behind(at, n))
<1> DEFINE b == Behind(at, n)
           g == GapOf(n)
<1>1. n # 0
  OBVIOUS
<1>2. b = at[n] + Len(Word(n))
  BY <1>1 DEF Behind
<1>3. b \in Nat \ {0}
  <2>1. Len(Word(n)) \in Nat \ {0} /\ at[n] \in 1..Len(text)
    BY WordPlaces
  <2> DEFINE l == Len(Word(n))
  <2>2. l \in Nat /\ at[n] \in Nat /\ at[n] # 0 /\ b = at[n] + l
    BY <1>2, <2>1
  <2> HIDE DEF b, l
  <2> QED
    BY <2>2
<1>4. /\ at[n + 1] = b + Len(g) /\ at[Count + 1] = Len(text) + 1
      /\ \A j \in 1..Len(g) : text[b + j - 1] = g[j]
  <2>1. LaidOut(at)
    BY DEF AsWritten
  <2> HIDE DEF b
  <2> QED
    BY <1>2, <2>1 DEF LaidOut
<1>5. n = Count => g = <<>> /\ b = Len(text) + 1
  <2>1. n = Count => g = <<>> /\ at[n + 1] = Len(text) + 1
    BY <1>4 DEF GapOf
  <2> HIDE DEF b, g
  <2> QED
    BY <1>3, <1>4, <2>1
<1>6. n # Count => g \in {<<>>, Remark} \cup Blanks /\ (g = <<>> => ~Fuse(Word(n), Word(n + 1)))
  BY GapKinds DEF AsWritten, Sourced
<1> HIDE DEF b, g
<1>7. g = <<>> => at[n + 1] = b
  BY <1>3, <1>4
<1>8. ASSUME g \in Blanks
      PROVE  at[n + 1] = b + 1 /\ text[b] \in Spaces
  <2>1. Len(g) = 1 /\ g[1] \in Spaces
    <3>1. PICK s \in Spaces : g = <<s>>
      BY <1>8 DEF Blanks, Spaces
    <3> QED
      BY <3>1, Alone
  <2>2. 1 \in 1..Len(g) /\ b + 1 - 1 = b
    BY <1>3, <2>1
  <2> QED
    BY <1>4, <2>1, <2>2
<1>9. ASSUME g = Remark
      PROVE  at[n + 1] = b + 5 /\ RemarkAt(b)
  <2>1. Len(g) = 5
    BY <1>9 DEF Remark
  <2>2. at[n + 1] = b + 5
    BY <1>4, <2>1
  <2>3. \A j \in 1..5 : text[b + j - 1] = g[j]
    BY <1>4, <2>1
  <2>4. b + 1 - 1 = b /\ b + 2 - 1 = b + 1 /\ b + 3 - 1 = b + 2 /\ b + 4 - 1 = b + 3 /\ b + 5 - 1 = b + 4
    BY <1>3
  <2>5. /\ text[b] = g[1] /\ text[b + 1] = g[2] /\ text[b + 2] = g[3] /\ text[b + 3] = g[4] /\ text[b + 4] = g[5]
    <3>1. 1 \in 1..5 /\ 2 \in 1..5 /\ 3 \in 1..5 /\ 4 \in 1..5 /\ 5 \in 1..5
      OBVIOUS
    <3> QED
      BY <2>3, <2>4, <3>1
  <2>6. g[1] = " " /\ g[2] = "/" /\ g[3] = "/" /\ g[4] = "=" /\ g[5] = "\n"
    BY <1>9 DEF Remark
  <2> QED
    BY <2>2, <2>5, <2>6 DEF RemarkAt
<1> QED
  BY <1>2, <1>3, <1>5, <1>6, <1>7, <1>8, <1>9, Zenon DEF b, g

(* Nothing that follows a word makes another of it. *)
LEMMA Following ==
  ASSUME NEW Symbols, NEW at, AsWritten(Symbols, at), NEW n \in 1..Count
  PROVE  Apart(Word(n), peek_lexer(at[n] + Len(Word(n))))
<1> DEFINE b == Behind(at, n)
<1>1. b = at[n] + Len(Word(n)) /\ b \in Nat \ {0}
  BY BehindWord
<1>2. text \in Seq(STRING) /\ Len(text) \in Nat
  BY DEF AsWritten
<1> HIDE DEF b
<1>3. CASE n = Count
  <2>1. b = Len(text) + 1
    BY <1>3, BehindWord DEF b
  <2>2. b > Len(text)
    BY <1>2, <2>1
  <2>3. peek_lexer(b) = ""
    BY <1>1, <1>2, <2>2, Peeked
  <2>4. Apart(Word(n), peek_lexer(b))
    BY <2>3, BlankApart
  <2> QED
    BY <1>1, <2>4
<1>4. CASE n # Count
  <2>1. n + 1 \in 1..Count
    <3>1. Count \in Nat
      BY WordPlaces
    <3> QED
      BY <1>4, <3>1
  <2>2. /\ at[n + 1] \in 1..Len(text) /\ Reads(at[n + 1], Word(n + 1)) /\ Len(Word(n + 1)) \in Nat \ {0}
    BY <2>1, WordPlaces
  <2>3. b <= at[n + 1]
    <3>1. at[n + 1] = b \/ at[n + 1] = b + 1 \/ at[n + 1] = b + 5
      <4>1. GapOf(n) = <<>> \/ GapOf(n) = Remark \/ GapOf(n) \in Blanks
        <5>1. GapOf(n) \in {<<>>, Remark} \cup Blanks
          BY <1>4, BehindWord
        <5> QED
          BY <5>1
      <4>2. GapOf(n) = <<>> => at[n + 1] = b /\ ~Fuse(Word(n), Word(n + 1))
        BY <1>4, BehindWord DEF b
      <4>3. GapOf(n) = Remark => at[n + 1] = b + 5
        BY BehindWord DEF b
      <4>4. GapOf(n) \in Blanks => at[n + 1] = b + 1
        BY BehindWord DEF b
      <4> QED
        BY <4>1, <4>2, <4>3, <4>4
    <3> QED
      BY <1>1, <3>1
  <2>4. b <= Len(text) /\ peek_lexer(b) = text[b]
    <3>1. b <= Len(text)
      BY <1>1, <1>2, <2>2, <2>3
    <3> QED
      BY <1>1, <1>2, <3>1, Peeked
  <2>5. CASE GapOf(n) = <<>>
    <3>1. at[n + 1] = b /\ ~Fuse(Word(n), Word(n + 1))
      BY <1>4, <2>5, BehindWord DEF b
    <3>2. text[b] = Word(n + 1)[1]
      <4> DEFINE w == Word(n + 1)
      <4>1. Reads(b, w) /\ Len(w) \in Nat \ {0}
        BY <2>2, <3>1
      <4> HIDE DEF w
      <4>2. 1 \in 1..Len(w) /\ b + 1 - 1 = b
        BY <1>1, <4>1
      <4>3. text[b] = w[1]
        BY <4>1, <4>2 DEF Reads
      <4> QED
        BY <4>3 DEF w
    <3>3. peek_lexer(b) = Word(n + 1)[1]
      BY <2>4, <3>2
    <3>4. Apart(Word(n), peek_lexer(b))
      BY <3>1, <3>3, Zenon DEF Apart, Fuse
    <3> QED
      BY <1>1, <3>4
  <2>6. CASE GapOf(n) # <<>>
    <3>1. text[b] \in Spaces \/ text[b] = " "
      BY <1>4, <2>6, BehindWord DEF b, RemarkAt
    <3>2. peek_lexer(b) \in {"", " ", "\n"}
      BY <2>4, <3>1 DEF Spaces
    <3>3. Apart(Word(n), peek_lexer(b))
      BY <3>2, BlankApart
    <3> QED
      BY <1>1, <3>3
  <2> QED
    BY <2>5, <2>6
<1> QED
  BY <1>3, <1>4

(* From behind one word a turn of lex goes behind the next, or past the      *)
(* remark between them.                                                      *)
LEMMA NextWord ==
  ASSUME NEW Symbols, NEW at, AsWritten(Symbols, at), NEW n \in 0..(Count - 1),
         tokens = [i \in 1..n |-> WordToken(Word(i))], Start = at[n + 1], LexToken
  PROVE  /\ tokens' = [i \in 1..(n + 1) |-> WordToken(Word(i))]
         /\ end' = Behind(at, n + 1)
<1> DEFINE w == Word(n + 1)
           k == at[n + 1]
<1>1. n \in Nat /\ n + 1 \in 1..Count /\ n + 1 # 0
  <2>1. Count \in Nat
    BY LenProperties DEF AsWritten, Sourced, Count
  <2> QED
    BY <2>1
<1>2. /\ w \in Seq(Symbols) /\ IsWord(w) /\ Reads(k, w) /\ k \in 1..Len(text) /\ k + Len(w) <= Len(text) + 1
      /\ Len(text) \in Nat
  BY <1>1, WordPlaces
<1>3. Apart(w, peek_lexer(k + Len(w)))
  BY <1>1, Following
<1>4. text \in Seq(STRING) /\ Start = k
  BY DEF AsWritten
<1> HIDE DEF w, k
<1>5. AtWord(k, w)
  BY <1>2, <1>3, <1>4 DEF AtWord
<1>6. tokens' = Append(tokens, WordToken(w)) /\ end' = k + Len(w)
  BY <1>2, <1>4, <1>5, WordRead
<1>7. end' = Behind(at, n + 1)
  BY <1>1, <1>6 DEF Behind, k, w
<1>8. tokens' = [i \in 1..(n + 1) |-> WordToken(Word(i))]
  <2> DEFINE token(i) == WordToken(Word(i))
             T == {token(i) : i \in 1..(n + 1)}
             q == [i \in 1..n |-> token(i)]
             r == [i \in 1..(n + 1) |-> token(i)]
  <2>1. tokens = q /\ tokens' = Append(q, token(n + 1))
    BY <1>6 DEF w
  <2>2. q \in Seq(T) /\ Len(q) = n /\ DOMAIN q = 1..n
    <3> HIDE DEF token
    <3>1. \A i \in 1..n : token(i) \in T
      BY <1>1
    <3>2. q \in [1..n -> T]
      BY <3>1
    <3>3. q \in Seq(T) /\ DOMAIN q = 1..n
      BY <1>1, <3>2
    <3> QED
      BY <1>1, <3>3
  <2>3. token(n + 1) \in T
    <3> HIDE DEF token
    <3> QED
      BY <1>1
  <2> HIDE DEF token, T
  <2>4. r = Append(q, token(n + 1))
    <3>1. /\ Append(q, token(n + 1)) \in Seq(T) /\ Len(Append(q, token(n + 1))) = n + 1
          /\ Append(q, token(n + 1))[n + 1] = token(n + 1)
          /\ \A i \in 1..n : Append(q, token(n + 1))[i] = q[i]
      BY <2>2, <2>3, Appended
    <3> DEFINE a == Append(q, token(n + 1))
    <3>2. a \in Seq(T) /\ Len(a) = n + 1 /\ a[n + 1] = token(n + 1) /\ \A i \in 1..n : a[i] = token(i)
      BY <3>1
    <3> HIDE DEF a, q
    <3>3. a \in [1..(n + 1) -> T]
      BY <1>1, <3>2
    <3>4. \A i \in 1..(n + 1) : a[i] = token(i)
      <4>1. \A i \in 1..(n + 1) : i \in 1..n \/ i = n + 1
        BY <1>1
      <4> QED
        BY <3>2, <4>1
    <3>5. a = r
      BY <3>3, <3>4
    <3> QED
      BY <3>5 DEF a
  <2> QED
    BY <2>1, <2>4 DEF token
<1> QED
  BY <1>7, <1>8

(* A remark is passed over. *)
LEMMA RemarkPassed ==
  ASSUME text \in Seq(STRING), end \in 1..(Len(text) + 1), end + 4 <= Len(text),
         RemarkAt(end), LexToken
  PROVE  end' = end + 4 /\ tokens' = tokens
<1>1. Len(text) \in Nat /\ end \in Nat \ {0}
  OBVIOUS
<1>2. Start = end + 1
  <2> DEFINE k == end + 1
  <2>1. k \in end..Len(text) /\ \A i \in end..(k - 1) : i = end
    BY <1>1
  <2>2. text[end] \in Spaces /\ text[k] = "/" /\ "/" \notin Spaces
    BY DEF Spaces, RemarkAt
  <2>3. text[k] \notin Spaces /\ \A i \in end..(k - 1) : text[i] \in Spaces
    BY <2>1, <2>2
  <2> HIDE DEF k
  <2>4. Start = k
    BY <2>1, <2>3, StartAt
  <2> QED
    BY <2>4 DEF k
<1>3. "/" \in Operators /\ <<"/", "/">> \notin Compound
  BY Pairs DEF Operators
<1>4. peek_lexer(Start) = "/" /\ peek_lexer(Start + 1) = "/" /\ text[Start] = "/" /\ Start \in 1..Len(text)
  <2>1. end + 1 \in Nat \ {0} /\ end + 1 <= Len(text) /\ end + 2 \in Nat \ {0} /\ end + 2 <= Len(text) /\ Start + 1 = end + 2
    BY <1>1, <1>2
  <2>2. peek_lexer(end + 1) = text[end + 1] /\ peek_lexer(end + 2) = text[end + 2]
    BY <2>1, Peeked
  <2>3. text[end + 1] = "/" /\ text[end + 2] = "/"
    BY DEF RemarkAt
  <2>4. Start \in 1..Len(text)
    BY <1>1, <1>2, <2>1
  <2> QED
    BY <1>2, <2>1, <2>2, <2>3, <2>4, Zenon
<1>5. CompoundOperator \/ Comment \/ SimpleOperator
  BY <1>3, <1>4, Leads
<1>6. IsComment(Start) /\ ~IsCompound(Start)
  BY <1>3, <1>4, Zenon DEF IsCompound, IsComment
<1>7. Comment
  BY <1>5, <1>6 DEF CompoundOperator, SimpleOperator
<1>8. Start + 2 = end + 3
  BY <1>1, <1>2
<1>9. skip_lexer_comment(end + 3) = end + 4
  <2> DEFINE m == end + 3
             k == end + 4
  <2>1. m \in Nat \ {0} /\ k \in m..Len(text) /\ \A i \in m..(k - 1) : i = m
    BY <1>1
  <2>2. text[m] # "\n" /\ text[k] = "\n"
    BY DEF RemarkAt
  <2> HIDE DEF m, k
  <2>3. skip_lexer_comment(m) = k
    BY <2>1, <2>2, CommentTo
  <2> QED
    BY <2>3 DEF m, k
<1> QED
  BY <1>7, <1>8, <1>9 DEF Comment

(* The places in the text before the last word is read. *)
LEMMA ReadFrom ==
  ASSUME NEW Symbols, NEW at, AsWritten(Symbols, at), NEW n \in 0..(Count - 1), LexedTo(at, n),
         end \in 1..(Len(text) + 1)
  PROVE  /\ at[n + 1] \in 1..Len(text) /\ end \in 1..at[n + 1]
         /\ \/ Start = at[n + 1]
            \/ /\ n # 0 /\ GapOf(n) = Remark /\ end = Behind(at, n) /\ end + 4 <= Len(text)
               /\ RemarkAt(end)
<1> DEFINE k == at[n + 1]
<1>1. n \in Nat /\ n + 1 \in 1..Count /\ Count \in Nat
  <2>1. Count \in Nat
    BY LenProperties DEF AsWritten, Sourced, Count
  <2> QED
    BY <2>1
<1>2. k \in 1..Len(text) /\ text[k] \notin Spaces /\ Len(text) \in Nat
  BY <1>1, WordPlaces
<1>3. text \in Seq(STRING)
  BY DEF AsWritten
<1> HIDE DEF k
<1>4. ASSUME k >= end, \A i \in end..(k - 1) : text[i] \in Spaces
      PROVE  end \in 1..k /\ Start = k
  <2>1. k \in end..Len(text) /\ end \in 1..k
    BY <1>2, <1>4
  <2> QED
    BY <1>2, <1>3, <1>4, <2>1, StartAt
<1>5. CASE n = 0
  <2>1. end = 1
    <3>1. n \notin 1..(Count - 1)
      BY <1>5
    <3> QED
      BY <1>5, <3>1 DEF LexedTo, Behind
  <2>2. k = 1
    BY <1>5 DEF k, AsWritten, LaidOut
  <2>3. k >= end /\ end..(k - 1) = {}
    BY <2>1, <2>2
  <2> QED
    BY <1>2, <1>4, <2>3 DEF k
<1>6. CASE n # 0
  <2> DEFINE b == Behind(at, n)
  <2>1. n \in 1..Count /\ n # Count
    BY <1>1, <1>6
  <2>2. b \in Nat \ {0}
    BY <2>1, BehindWord
  <2>3. end = b \/ (GapOf(n) = Remark /\ end = b + 4)
    BY DEF LexedTo
  <2>4. GapOf(n) = <<>> => k = b /\ ~Fuse(Word(n), Word(n + 1))
    BY <2>1, BehindWord DEF k
  <2>5. GapOf(n) \in Blanks => k = b + 1 /\ text[b] \in Spaces
    BY <2>1, BehindWord DEF k
  <2>6. GapOf(n) = Remark => k = b + 5 /\ RemarkAt(b)
    BY <2>1, BehindWord DEF k
  <2>7. GapOf(n) = <<>> \/ GapOf(n) = Remark \/ GapOf(n) \in Blanks
    <3>1. GapOf(n) \in {<<>>, Remark} \cup Blanks
      BY <2>1, BehindWord
    <3> QED
      BY <3>1
  <2> HIDE DEF b
  <2>8. Remark # <<>> /\ Remark \notin Blanks
    <3>1. Len(Remark) = 5 /\ Len(<<>>) = 0
      BY DEF Remark
    <3>2. ASSUME Remark \in Blanks PROVE FALSE
      <4>1. PICK s : Remark = <<s>>
        BY <3>2 DEF Blanks
      <4>2. Len(Remark) = 1
        BY <4>1, Alone
      <4> QED
        BY <3>1, <4>2
    <3> QED
      BY <3>1, <3>2
  <2>9. CASE GapOf(n) = <<>>
    <3>1. end = b /\ k = b
      BY <2>3, <2>4, <2>8, <2>9
    <3>2. k >= end /\ end..(k - 1) = {}
      BY <2>2, <3>1
    <3> QED
      BY <1>2, <1>4, <3>2 DEF k
  <2>10. CASE GapOf(n) \in Blanks
    <3>1. end = b /\ k = b + 1 /\ text[b] \in Spaces
      BY <2>3, <2>5, <2>8, <2>10
    <3>2. k >= end /\ \A i \in end..(k - 1) : i = b
      BY <2>2, <3>1
    <3> QED
      BY <1>2, <1>4, <3>1, <3>2 DEF k
  <2>11. CASE GapOf(n) = Remark /\ end = b
    <3>1. k = b + 5 /\ RemarkAt(b)
      BY <2>6, <2>11
    <3>2. end + 4 <= Len(text) /\ end \in 1..k
      BY <1>2, <2>2, <2>11, <3>1
    <3> QED
      BY <1>2, <1>6, <2>11, <3>1, <3>2 DEF k, b
  <2>12. CASE GapOf(n) = Remark /\ end = b + 4
    <3>1. k = b + 5 /\ text[b + 4] \in Spaces
      BY <2>6, <2>12 DEF Spaces, RemarkAt
    <3>2. k >= end /\ \A i \in end..(k - 1) : i = b + 4
      BY <2>2, <2>12, <3>1
    <3> QED
      BY <1>2, <1>4, <3>1, <3>2 DEF k
  <2> QED
    BY <2>3, <2>7, <2>9, <2>10, <2>11, <2>12
<1> QED
  BY <1>5, <1>6

(* Behind the last word the text ends. *)
LEMMA ReadAll ==
  ASSUME NEW Symbols, NEW at, AsWritten(Symbols, at), LexedTo(at, Count)
  PROVE  end = Len(text) + 1
<1>1. Count \in Nat /\ Count \notin 1..(Count - 1)
  <2>1. Count \in Nat
    BY LenProperties DEF AsWritten, Sourced, Count
  <2> QED
    BY <2>1
<1>2. end = Behind(at, Count)
  BY <1>1 DEF LexedTo
<1>3. CASE Count = 0
  <2>1. at[1] = 1 /\ at[Count + 1] = Len(text) + 1
    BY DEF AsWritten, LaidOut
  <2> QED
    BY <1>2, <1>3, <2>1 DEF Behind
<1>4. CASE Count # 0
  <2>1. Count \in 1..Count
    BY <1>1, <1>4
  <2> QED
    BY <1>2, <2>1, BehindWord
<1> QED
  BY <1>3, <1>4

LEMMA TurnLexes ==
  ASSUME NEW Symbols, NEW at, AsWritten(Symbols, at), NEW n, LexedTo(at, n), LexToken,
         end \in 1..(Len(text) + 1), lexer_errors \in Seq(Errors), UNCHANGED <<source, text>>
  PROVE  \E m : LexedTo(at, m)'
<1>1. Count \in Nat /\ n \in 0..Count
  BY LenProperties DEF AsWritten, Sourced, Count, LexedTo
<1>2. text \in Seq(STRING) /\ Len(text) \in Nat
  BY DEF AsWritten
<1>3. n # Count
  <2> SUFFICES ASSUME n = Count PROVE FALSE
    OBVIOUS
  <2>1. end = Len(text) + 1
    BY ReadAll
  <2>2. end' \in 1..(Len(text) + 1) /\ end' > end
    BY <1>2, TokenReadsOn
  <2> QED
    BY <1>2, <2>1, <2>2
<1>4. n \in 0..(Count - 1) /\ n + 1 \in 0..Count
  BY <1>1, <1>3
<1>5. Count' = Count /\ \A m : Word(m)' = Word(m) /\ GapOf(m)' = GapOf(m) /\ Behind(at, m)' = Behind(at, m)
  BY DEF Count, Word, GapOf, Behind
<1>6. tokens = [i \in 1..n |-> WordToken(Word(i))]
  BY DEF LexedTo
<1>7. CASE Start = at[n + 1]
  <2>1. tokens' = [i \in 1..(n + 1) |-> WordToken(Word(i))] /\ end' = Behind(at, n + 1)
    BY <1>4, <1>6, <1>7, NextWord
  <2>2. LexedTo(at, n + 1)'
    BY <1>4, <1>5, <2>1 DEF LexedTo
  <2> QED
    BY <2>2
<1>8. CASE n # 0 /\ GapOf(n) = Remark /\ end = Behind(at, n) /\ end + 4 <= Len(text) /\ RemarkAt(end)
  <2>1. end' = end + 4 /\ tokens' = tokens
    BY <1>2, <1>8, RemarkPassed
  <2>2. n \in 1..(Count - 1)
    BY <1>4, <1>8
  <2>3. LexedTo(at, n)'
    BY <1>1, <1>5, <1>6, <1>8, <2>1, <2>2 DEF LexedTo
  <2> QED
    BY <2>3
<1> QED
  BY <1>4, <1>7, <1>8, ReadFrom

LEMMA EndLexes ==
  ASSUME NEW Symbols, NEW at, AsWritten(Symbols, at), NEW n, LexedTo(at, n),
         end \in 1..(Len(text) + 1), lexer_at_end(end)
  PROVE  n = Count
<1>1. Count \in Nat /\ n \in 0..Count
  BY LenProperties DEF AsWritten, Sourced, Count, LexedTo
<1>2. Len(text) \in Nat /\ end > Len(text)
  BY DEF AsWritten, lexer_at_end
<1> SUFFICES ASSUME n # Count PROVE FALSE
  OBVIOUS
<1>3. n \in 0..(Count - 1)
  BY <1>1
<1>4. at[n + 1] \in 1..Len(text) /\ end \in 1..at[n + 1]
  BY <1>3, ReadFrom
<1> QED
  BY <1>2, <1>4

------------------------------------------------------------------------------
(* What was lexed so far, in every state.                                    *)
Lexed(Symbols) ==
  /\ Sourced(Symbols)
  /\ main \in {"start", "lex"} => end = 1 /\ tokens = <<>>
  /\ \E at : LaidOut(at) /\ (main = "lexing" /\ AllWords => \E n : LexedTo(at, n))
  /\ TokensFollowText

LEMMA LaidOutKept ==
  ASSUME NEW at, LaidOut(at), UNCHANGED <<source, text>>
  PROVE  LaidOut(at)'
BY DEF LaidOut, Count, Word, GapOf

(* A step that keeps the text, away from the lexer. *)
LEMMA LexedElsewhere ==
  ASSUME NEW Symbols, Lexed(Symbols), UNCHANGED <<source, text>>, main' # "lexing",
         \/ UNCHANGED <<end, tokens>> /\ (main' \in {"start", "lex"} => main \in {"start", "lex"})
                                      /\ (main' \in {"parse", "parsing"} => main \in {"parse", "parsing"})
         \/ main' \notin {"start", "lex", "parse", "parsing"}
  PROVE  Lexed(Symbols)'
<1>1. Sourced(Symbols)'
  BY DEF Lexed, Sourced
<1>2. PICK at : LaidOut(at)
  BY DEF Lexed
<1>3. LaidOut(at)'
  BY <1>2, LaidOutKept
<1>4. main' \in {"start", "lex"} => end' = 1 /\ tokens' = <<>>
  BY DEF Lexed
<1>5. TokensFollowText'
  BY DEF Lexed, TokensFollowText
<1> QED
  BY <1>1, <1>3, <1>4, <1>5 DEF Lexed

LEMMA LexedKept ==
  ASSUME NEW Symbols, Inv, Lexed(Symbols), Next
  PROVE  Lexed(Symbols)'
<1>1. text \in Seq(STRING) /\ end \in 1..(Len(text) + 1) /\ lexer_errors \in Seq(Errors)
  BY DEF Inv, Types
<1>2. UNCHANGED <<source, text>>
  BY DEF Next, RejectArguments, create_compiler_context, ContextFails, StartLexer, Lex, lex, StartParser, Parse,
         parse, ParserFails, RunPhase, PhaseAborts, ReturnFromMain, Ended, vars, input
<1>3. Sourced(Symbols)'
  BY <1>2 DEF Lexed, Sourced
<1>4. CASE RejectArguments \/ create_compiler_context \/ ContextFails
  <2>1. /\ main = "start" /\ main' \in {"lex", "ended"} /\ end' = end /\ tokens' = tokens
    BY <1>4 DEF RejectArguments, create_compiler_context, ContextFails, Ends, front
  <2> QED
    BY <1>2, <2>1, LexedElsewhere
<1>5. CASE StartLexer
  <2>1. main = "lex" /\ main' \in {"lexing", "ended"} /\ end' = end /\ tokens' = tokens
    BY <1>5 DEF StartLexer, Ends, front
  <2>2. CASE main' = "ended"
    BY <1>2, <2>1, <2>2, LexedElsewhere
  <2>3. CASE main' = "lexing"
    <3>1. PICK at : LaidOut(at)
      BY DEF Lexed
    <3>2. LaidOut(at)'
      BY <1>2, <3>1, LaidOutKept
    <3>3. LexedTo(at, 0)'
      <4>1. tokens' = <<>> /\ end' = 1
        BY <2>1 DEF Lexed
      <4>2. 0 \in 0..Count'
        <5>1. Count' \in Nat
          BY <1>3, LenProperties DEF Sourced, Count
        <5> QED
          BY <5>1
      <4>3. Behind(at, 0)' = 1
        BY DEF Behind
      <4>4. \A q : q = [i \in 1..0 |-> WordToken(Word(i))'] => q = <<>>
        OBVIOUS
      <4> QED
        BY <4>1, <4>2, <4>3, <4>4 DEF LexedTo
    <3>4. TokensFollowText'
      BY <2>3 DEF TokensFollowText
    <3> QED
      BY <1>3, <2>3, <3>2, <3>3, <3>4 DEF Lexed
  <2> QED
    BY <2>1, <2>2, <2>3
<1>6. CASE Lex
  <2>1. main = "lexing" /\ main' = "lexing" /\ LexToken
    BY <1>6 DEF Lex
  <2>2. PICK at : LaidOut(at) /\ (AllWords => \E n : LexedTo(at, n))
    BY <2>1 DEF Lexed
  <2>3. LaidOut(at)'
    BY <1>2, <2>2, LaidOutKept
  <2>4. AllWords' => \E m : LexedTo(at, m)'
    <3> HAVE AllWords'
    <3>1. AllWords
      BY <1>2 DEF AllWords, Count, Word
    <3>2. PICK n : LexedTo(at, n)
      BY <2>2, <3>1
    <3>3. AsWritten(Symbols, at)
      BY <1>1, <2>2, <3>1 DEF AsWritten, Lexed
    <3> QED
      BY <1>1, <1>2, <2>1, <3>2, <3>3, TurnLexes
  <2>5. TokensFollowText'
    BY <2>1 DEF TokensFollowText
  <2> QED
    BY <1>3, <2>1, <2>3, <2>4, <2>5 DEF Lexed
<1>7. CASE lex
  <2>1. main = "lexing" /\ lexer_at_end(end) /\ tokens' = Append(tokens, Eof) /\ main' \in {"parse", "ended"}
    BY <1>7 DEF lex, add_token, CheckPhase, Ends
  <2>2. PICK at : LaidOut(at) /\ (AllWords => \E n : LexedTo(at, n))
    BY <2>1 DEF Lexed
  <2>3. LaidOut(at)'
    BY <1>2, <2>2, LaidOutKept
  <2>4. DOMAIN source.words = 1..Count
    BY LenProperties DEF Lexed, Sourced, Count
  <2>5. TokensFollowText'
    <3> SUFFICES ASSUME \A n \in DOMAIN source.words : IsWord(source.words[n])
                 PROVE  tokens' = Append([n \in DOMAIN source.words |-> WordToken(source.words[n])], Eof)
      BY <1>2 DEF TokensFollowText
    <3>1. AllWords
      BY <2>4 DEF AllWords, Word
    <3>2. PICK n : LexedTo(at, n)
      BY <2>2, <3>1
    <3>3. AsWritten(Symbols, at)
      BY <1>1, <2>2, <3>1 DEF AsWritten, Lexed
    <3>4. n = Count
      BY <1>1, <2>1, <3>2, <3>3, EndLexes
    <3>5. tokens = [i \in 1..Count |-> WordToken(Word(i))]
      BY <3>2, <3>4 DEF LexedTo
    <3> QED
      BY <2>1, <2>4, <3>5 DEF Word
  <2> QED
    BY <1>3, <2>1, <2>3, <2>5 DEF Lexed
<1>8. CASE StartParser \/ Parse
  <2>1. /\ main \in {"parse", "parsing"} /\ main' = "parsing" /\ UNCHANGED <<end, tokens>>
    BY <1>8 DEF StartParser, Parse, lexer
  <2> QED
    BY <1>2, <2>1, LexedElsewhere
<1>9. CASE parse \/ ParserFails
  <2>1. main' \in {"resolve_tree", "ended"}
    BY <1>9 DEF parse, ParserFails, CheckPhase, Ends
  <2> QED
    BY <1>2, <2>1, LexedElsewhere
<1>10. CASE RunPhase \/ PhaseAborts \/ ReturnFromMain
  <2>1. main' \in {Phases[n] : n \in 1..6} \cup {"return", "ended"}
    BY <1>10, PhasesInOrder DEF RunPhase, PhaseAborts, ReturnFromMain, CheckPhase, Ends
  <2>2. main' \notin {"start", "lex", "lexing", "parse", "parsing"}
    BY <2>1, PhasesInOrder
  <2> QED
    BY <1>2, <2>2, LexedElsewhere
<1>11. CASE Ended
  <2>1. main = "ended" /\ main' = "ended"
    BY <1>11 DEF Ended, vars
  <2> QED
    BY <1>2, <2>1, LexedElsewhere
<1> QED
  BY <1>4, <1>5, <1>6, <1>7, <1>8, <1>9, <1>10, <1>11 DEF Next

LEMMA LexedStutters ==
  ASSUME NEW Symbols, Lexed(Symbols), UNCHANGED vars
  PROVE  Lexed(Symbols)'
<1>1. UNCHANGED <<source, text, main, end, tokens>>
  BY DEF vars, input, front
<1>2. PICK at : LaidOut(at) /\ (main = "lexing" /\ AllWords => \E n : LexedTo(at, n))
  BY DEF Lexed
<1>3. LaidOut(at)'
  BY <1>1, <1>2, LaidOutKept
<1>4. AllWords' = AllWords /\ \A n : LexedTo(at, n) => LexedTo(at, n)'
  BY <1>1 DEF AllWords, LexedTo, Behind, Count, Word, GapOf
<1>5. main' = "lexing" /\ AllWords' => \E n : LexedTo(at, n)'
  BY <1>1, <1>2, <1>4
<1>6. Sourced(Symbols)' /\ TokensFollowText' /\ (main' \in {"start", "lex"} => end' = 1 /\ tokens' = <<>>)
  BY <1>1 DEF Lexed, Sourced, TokensFollowText
<1> QED
  BY <1>3, <1>5, <1>6 DEF Lexed

(* What was lexed is what was written, for every text that is made of words, *)
(* whatever they are and whatever stands between them.                       *)
THEOREM LexerInvertsWriting ==
  ASSUME NEW Symbols, NEW sources, \A s \in sources : s.words \in Seq(Seq(Symbols)) /\ s.gaps \in Gaps
  PROVE  Compile(sources) /\ [][Next]_vars => []TokensFollowText
<1>1. Compile(sources) => Init /\ Lexed(Symbols)
  <2> SUFFICES ASSUME Compile(sources)
               PROVE  Init /\ Lexed(Symbols)
    OBVIOUS
  <2>1. Init /\ Sourced(Symbols) /\ text = Written(source.words, source.gaps)
    BY DEF Compile, Sourced
  <2>2. main = "start" /\ end = 1 /\ tokens = <<>>
    BY <2>1 DEF Init
  <2>3. \E at : LaidOut(at)
    BY <2>1, WrittenOut
  <2> QED
    BY <2>1, <2>2, <2>3 DEF Lexed, TokensFollowText
<1>2. Inv /\ Lexed(Symbols) /\ [Next]_vars => Lexed(Symbols)'
  BY LexedKept, LexedStutters
<1>3. Lexed(Symbols) => TokensFollowText
  BY DEF Lexed
<1>4. Compile(sources) /\ [][Next]_vars => Spec
  BY <1>1, PTL DEF Spec
<1> QED
  BY <1>1, <1>2, <1>3, <1>4, Standing, PTL
==============================================================================
