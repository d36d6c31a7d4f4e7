-------------------------------- MODULE TacRun --------------------------------
(***************************************************************************)
(* The table Tac builds, run beside its source, which says what event the  *)
(* table is to come to next.  The code of expressions is that of           *)
(* Expressions, their meaning that of Meaning.                             *)
(***************************************************************************)
EXTENDS Tac, Meaning, TLC

CONSTANTS Undefined, Arrays, ArrayLength

VARIABLES
  pc,      \* next instruction of the table, or Undefined
  store,   \* what the table's run has computed
  rest,    \* the source statements still to be run, in order
  source   \* the source's evaluation, with the events to come

running    == <<pc, store, rest, source>>
translated == vars

------------------------------------------------------------------------------
(* Running the table.                                                        *)

GoTo(label) == IF Defines(label) = {} THEN {Undefined} ELSE Defines(label)

AtInstruction == stage = "run" /\ pc # Undefined /\ pc <= Len(table)
Changes       == {"STORE", "DEREFERENCE_AND_ASSIGN", "ASSIGNMENT"}
IsEvent(ins)  == \/ ins.kind \in {"CALL", "IF_FALSE", "RETURN"}
                 \/ ins.kind \in Changes /\ ~(ins.kind = "ASSIGNMENT" /\ ins.result[1] = "temporary")
Silent        == AtInstruction /\ ~IsEvent(table[pc])

IsArray(operand) == operand[1] = "symbol" /\ operand[2] \in Arrays

ValueOf(operand) ==
  IF operand = None THEN 0 ELSE
  CASE operand[1] = "symbol"    -> store.memory[<<operand[2], 0>>]
    [] operand[1] = "temporary" -> store.temporaries[operand[2]]
    [] operand[1] = "_RET"      -> store.returned
    [] OTHER                    -> operand[2]

(* The value of an instruction; of an address, the place. *)
ResultOf(ins) ==
  CASE ins.kind \in LiteralNodes -> ValueOf(ins.op1)
    [] ins.kind = "ASSIGNMENT"   -> ValueOf(ins.op2)
    [] ins.kind = "ADD" /\ IsArray(ins.op1) -> <<ins.op1[2], ValueOf(ins.op2)>>
    [] ins.kind = "DEREFERENCE"  -> store.memory[ValueOf(ins.op1)]
    [] ins.kind \in UnaryNodes   -> Apply(ins.kind, 0, ValueOf(ins.op1))
    [] OTHER                     -> Apply(ins.kind, ValueOf(ins.op1), ValueOf(ins.op2))

PassedIn == program.arguments[Cardinality({k \in 1..pc : table[k].kind = "PARAM"})]

StepTable ==
  /\ Silent
  /\ LET ins == table[pc]
     IN  /\ pc' \in IF ins.kind = "GOTO" THEN GoTo(ins.result) ELSE {pc + 1}
         /\ store' =
              CASE ins.kind \in {"GOTO", "LABEL", "NAME"} -> store
                [] ins.kind = "PARAM" -> [store EXCEPT !.memory[<<ins.op1[2], 0>>] = PassedIn]
                [] ins.kind = "ARG"   -> [store EXCEPT !.passed = Append(@, ValueOf(ins.op1))]
                [] OTHER -> [store EXCEPT !.temporaries = (ins.result[2] :> ResultOf(ins)) @@ @]
  /\ UNCHANGED <<translated, rest, source>>

PlaceOf(ins) == IF ins.kind = "ASSIGNMENT" THEN <<ins.result[2], 0>> ELSE ValueOf(ins.result)
Stored(ins)  == ValueOf(IF ins.kind = "ASSIGNMENT" THEN ins.op2 ELSE ins.op1)

TableEvent ==
  IF pc = Undefined THEN <<"LOST">>
  ELSE IF pc > Len(table) THEN <<"END">>
  ELSE LET ins == table[pc]
       IN  CASE ins.kind = "CALL"     -> <<"CALL", ins.result[2], store.passed>>
             [] ins.kind = "IF_FALSE" -> <<"IF_FALSE", ValueOf(ins.op1)>>
             [] ins.kind = "RETURN"   -> <<"RETURN", IF ins.op1 = None THEN None ELSE ValueOf(ins.op1)>>
             [] OTHER                 -> <<"SET", PlaceOf(ins), Stored(ins)>>

------------------------------------------------------------------------------
(* Running the source: the meaning of the statements, for reference.         *)

(* What is left after an if chain whose branch was taken. *)
AfterChain(s) ==
  LET chain == {n \in 0..Len(s) : \A k \in 1..n : s[k].type \in Conditional}
  IN  SubSeq(s, 1 + (CHOOSE n \in chain : \A m \in chain : m <= n), Len(s))

(* What is left from the innermost loop on; a loop's body is followed by    *)
(* its AGAIN.  Outside a loop a break or a continue does nothing.           *)
FromLoop(s) ==
  LET loops == {n \in 1..Len(s) : s[n].type = "AGAIN"}
  IN  IF loops = {} THEN s
      ELSE SubSeq(s, CHOOSE n \in loops : \A m \in loops : n <= m, Len(s))

Again(s) == [type |-> "AGAIN", loop |-> s]

(* The source is asked when the table has come to an event. *)
SourceTurn == stage = "run" /\ ~Silent /\ source.events = <<>>
AtSource(types) == SourceTurn /\ rest # <<>> /\ Head(rest).type \in types
Evaluated == Evaluation(source.memory)

SourceEnds ==
  /\ SourceTurn /\ rest = <<>>
  /\ source' = Event(Evaluated, <<"END">>)
  /\ UNCHANGED <<translated, pc, store, rest>>

SourceJumps ==
  /\ AtSource({"ELSE", "BREAK", "CONTINUE"})
  /\ rest' = CASE Head(rest).type = "ELSE"     -> Head(rest).body \o Tail(rest)
               [] Head(rest).type = "BREAK"    -> Tail(FromLoop(rest))
               [] Head(rest).type = "CONTINUE" -> FromLoop(Tail(rest))
  /\ UNCHANGED <<translated, pc, store, source>>

(* A statement; the initializer or the update of a for. *)
SourceExecutes ==
  /\ AtSource({"ASSIGNMENT", "CALL", "RETURN", "DECL", "FOR", "AGAIN"} \cup StepNodes)
  /\ LET s == Head(rest)
     IN  \E answer \in Answers :
           /\ source' = CASE s.type = "FOR"   -> Execute(Evaluated, s.left, answer)
                          [] s.type = "AGAIN" -> IF s.loop.type = "FOR"
                                                 THEN Execute(Evaluated, s.loop.update, answer)
                                                 ELSE Evaluated
                          [] OTHER            -> Execute(Evaluated, s, answer)
           /\ rest' = CASE s.type = "RETURN" -> <<>>
                        [] s.type = "FOR"    -> <<[type |-> "TEST", loop |-> s]>> \o Tail(rest)
                        [] s.type = "AGAIN"  -> <<[type |-> "TEST", loop |-> s.loop]>> \o Tail(rest)
                        [] OTHER             -> Tail(rest)
  /\ UNCHANGED <<translated, pc, store>>

ConditionOf(s) ==
  CASE s.type = "TEST" -> IF s.loop.type = "FOR" THEN s.loop.condition ELSE s.loop.left
    [] OTHER           -> s.left

SourceTests ==
  /\ AtSource({"IF", "ELSE_IF", "WHILE", "TEST"})
  /\ \E answer \in Answers :
       LET s     == Head(rest)
           value == Eval(Evaluated, ConditionOf(s), answer)
           loop  == IF s.type = "TEST" THEN s.loop ELSE s
       IN  /\ source' = Event(value, <<"IF_FALSE", value.value>>)
           /\ rest' = IF value.value = 0 THEN Tail(rest)
                      ELSE loop.body
                             \o (IF s.type \in {"IF", "ELSE_IF"} THEN AfterChain(Tail(rest))
                                 ELSE <<Again(loop)>> \o Tail(rest))
  /\ UNCHANGED <<translated, pc, store>>

StepSource == SourceEnds \/ SourceJumps \/ SourceExecutes \/ SourceTests

------------------------------------------------------------------------------
(* Both come to the same event; a call brings what the source had answered,  *)
(* and behind a condition no temporary computed before it is read.           *)

Ready == stage = "run" /\ ~Silent /\ source.events # <<>>
SourceEvent ==
  IF Head(source.events)[1] = "CALL" THEN Front(Head(source.events)) ELSE Head(source.events)

TableAfter ==
  LET ins == table[pc]
  IN  CASE ins.kind = "RETURN" -> {Len(table) + 1}
        [] ins.kind = "IF_FALSE" /\ ValueOf(ins.op1) = 0 -> GoTo(ins.op2)
        [] OTHER -> {pc + 1}

StepBoth ==
  /\ Ready /\ SourceEvent = TableEvent /\ TableEvent # <<"END">>
  /\ source' = [source EXCEPT !.events = Tail(@)]
  /\ pc' \in TableAfter
  /\ store' = CASE TableEvent[1] = "SET"  -> [store EXCEPT !.memory[TableEvent[2]] = TableEvent[3]]
                [] TableEvent[1] = "CALL" -> [store EXCEPT !.passed = <<>>,
                                                           !.returned = Last(Head(source.events))]
                [] OTHER -> [store EXCEPT !.temporaries = <<>>, !.returned = 0]
  /\ UNCHANGED <<translated, rest>>

Run == StepTable \/ StepSource \/ StepBoth

Places == (Declared \X {0}) \cup (Arrays \X (0..(ArrayLength - 1)))

RunStart ==
  /\ pc = 1
  /\ store = [memory |-> [p \in Places |-> 0], temporaries |-> <<>>, passed |-> <<>>, returned |-> 0]
  /\ rest = program.body
  /\ source = Evaluation([p \in Places |->
                 IF \E k \in DOMAIN program.params : p = <<program.params[k], 0>>
                 THEN program.arguments[CHOOSE k \in DOMAIN program.params : p = <<program.params[k], 0>>]
                 ELSE 0])

Next == (Translate /\ UNCHANGED running) \/ Run

(* The parameters of Tac. *)
BuiltExpression(tree, n) == Build(Builder(<<>>, n), tree)
BuiltStatement(tree, n)  == BuildStatement(Builder(<<>>, n), tree)

------------------------------------------------------------------------------
(* What the translation copes with.                                          *)

RECURSIVE StatementsIn(_)
StatementsIn(body) ==
  UNION {{s} \cup CASE s.type \in {"IF", "ELSE_IF", "ELSE", "WHILE"} -> StatementsIn(s.body)
                    [] s.type = "FOR" -> {s.left, s.update} \cup StatementsIn(s.body)
                    [] OTHER -> {} : s \in Range(body)}

IsElement(s) == s.type = "ASSIGNMENT" /\ Target(s).type = "SUBSCRIPT"

ExpressionsOf(s) ==
  CASE s.type \in {"IF", "ELSE_IF", "WHILE"} -> {s.left}
    [] s.type = "FOR"        -> {s.condition}
    [] s.type = "ASSIGNMENT" -> {s.right} \cup IF IsElement(s) THEN {Target(s).right} ELSE {}
    [] s.type = "RETURN"     -> {s.right} \ {None}
    [] s.type \in StepNodes  -> {s}
    [] OTHER                 -> {}

(* Names have symbols, a call that is a statement has no arguments, and no   *)
(* name is read late.                                                        *)
Supported ==
  \A s \in StatementsIn(program.body) :
    /\ \A e \in ExpressionsOf(s) : \A n \in Within(e) : InOrder(n) /\ Known(n)
    /\ s.type = "CALL" => s.params = <<>>
    /\ IsElement(s) => ~ReadLate(s.right, Target(s).right)

------------------------------------------------------------------------------
(***************************************************************************)
(* The table computes the source: it comes to the same calls with the same *)
(* arguments, sets the same variables and elements to the same values,     *)
(* tests the same conditions and returns the same value, in that order and *)
(* whatever the functions it calls answer.                                 *)
(***************************************************************************)
FollowsSource == Ready /\ TableEvent # SourceEvent => ~Supported
==============================================================================
