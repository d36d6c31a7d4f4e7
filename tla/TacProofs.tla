------------------------------- MODULE TacProofs -------------------------------
(***************************************************************************)
(* Proofs about the translation of a function, for every function and      *)
(* whatever code expressions turn into, so long as it has no labels and no *)
(* jumps: the state keeps its shape and no label is made up, one context   *)
(* is on the stack for each statement being translated, and every jump has *)
(* a label to go to.                                                       *)
(***************************************************************************)
EXTENDS Tac, SequenceTheorems, FiniteSetTheorems, TLAPS

Plainly == CodeIsPlain(Nat)

------------------------------------------------------------------------------
(* The shape of the state.                                                   *)

(* What the parser makes, read off the assumption. *)
LEMMA NodeFacts ==
  ASSUME NEW s \in Nodes
  PROVE  /\ s.type # None
         /\ s.type \in Enclosing => s.body \in Seq(Nodes) /\ ElsesFollow(s.body)
         /\ s.type = "FOR" => s.update \in Nodes /\ s.update.type \notin Enclosing \cup Jumps
BY NodesAssumption DEF Blocks

LEMMA StatementsAreItems ==
  ASSUME NEW body \in Seq(Nodes)
  PROVE  /\ Statements(body) \in Seq(StatementItems)
         /\ Len(Statements(body)) = Len(body)
         /\ \A k \in 1..Len(body) :
              /\ Statements(body)[k].do = "statement"
              /\ Statements(body)[k].node = body[k]
              /\ Statements(body)[k].next = Sibling(body, k)
<1>1. Len(body) \in Nat /\ \A k \in 1..Len(body) : body[k] \in Nodes
  BY LenProperties, ElementOfSeq
<1>2. \A k \in 1..Len(body) :
        [do |-> "statement", node |-> body[k], next |-> Sibling(body, k)] \in StatementItems
  <2> TAKE k \in 1..Len(body)
  <2>1. Sibling(body, k) \in {s.type : s \in Nodes} \cup {None}
    <3>1. CASE k < Len(body)
      <4>1. k + 1 \in 1..Len(body)  BY <3>1, <1>1
      <4>2. body[k + 1] \in Nodes  BY <4>1, <1>1
      <4> QED  BY <4>2, <3>1 DEF Sibling
    <3> QED  BY <3>1 DEF Sibling
  <2> QED  BY <1>1, <2>1 DEF StatementItems
<1> QED  BY <1>1, <1>2 DEF Statements

(* Labels once made stay made. *)
LEMMA Grows ==
  ASSUME label_counter \in Nat, label_counter' \in Nat, label_counter <= label_counter'
  PROVE  /\ Generated \subseteq Generated'
         /\ Labels \subseteq Labels'
         /\ Instruction \subseteq Instruction'
         /\ Items \subseteq Items'
<1>1. Generated \subseteq Generated'  BY DEF Generated
<1>2. Labels \subseteq Labels'  BY <1>1 DEF Labels
<1>3. Instruction \subseteq Instruction'  BY <1>2 DEF Instruction
<1>4. Items \subseteq Items'  BY <1>3 DEF Items
<1> QED  BY <1>1, <1>2, <1>3, <1>4

LEMMA Emitted ==
  ASSUME NEW n \in Generated'
  PROVE  /\ Label(n) \in Labels'
         /\ LABEL(n) \in Instruction' /\ GOTO(n) \in Instruction'
         /\ Emit(LABEL(n)) \in Items' /\ Emit(GOTO(n)) \in Items'
         /\ \A o \in Operands : IF_FALSE(o, n) \in Instruction'
<1>1. Label(n) \in Labels'  BY DEF Label, Labels
<1>2. LABEL(n) \in Instruction' /\ GOTO(n) \in Instruction'
  BY <1>1 DEF LABEL, GOTO, Ins, Instruction
<1>3. \A o \in Operands : IF_FALSE(o, n) \in Instruction'
  BY <1>1 DEF IF_FALSE, Ins, Instruction
<1> QED  BY <1>1, <1>2, <1>3 DEF Emit, Items

(* A builder that goes on. *)
LEMMA Continues ==
  ASSUME NEW S, Plain \subseteq S, NEW b, b.table \in Seq(S), NEW code, Adds(code)
  PROVE  /\ Continue(b, code) \in [table : Seq(S), temporaries : Nat, tac : Plain \cup {None}]
         /\ Continue(b, code).table = b.table \o code.table
         /\ Continue(b, code).table \in Seq(S)
         /\ Continue(b, code).temporaries \in Nat
         /\ Continue(b, code).tac \in Plain \cup {None}
         /\ code.table \in Seq(Plain)
<1>1. code \in [table : Seq(Plain), temporaries : Nat, tac : Plain \cup {None}]  BY DEF Adds
<1>2. code.table \in Seq(S)  BY <1>1, SeqMonotonic
<1>3. Continue(b, code) = [code EXCEPT !.table = b.table \o code.table]  BY DEF Continue
<1>4. b.table \o code.table \in Seq(S)  BY <1>2, ConcatProperties
<1>5. Continue(b, code) =
        [table |-> b.table \o code.table, temporaries |-> code.temporaries, tac |-> code.tac]
  BY <1>1, <1>3
<1> QED  BY <1>1, <1>4, <1>5

(* What a step does not touch keeps its type. *)
LEMMA Carried ==
  ASSUME TypeOK, label_counter' \in Nat, label_counter <= label_counter'
  PROVE  /\ table \in Seq(Instruction')
         /\ todo \in Seq(Items')
         /\ todo # <<>> => Head(todo) \in Items' /\ Tail(todo) \in Seq(Items')
         /\ context_stack \in Seq(Contexts')
<1>1. Generated \subseteq Generated' /\ Instruction \subseteq Instruction' /\ Items \subseteq Items'
  BY Grows DEF TypeOK
<1>2. Contexts \subseteq Contexts'  BY <1>1 DEF Contexts
<1>3. table \in Seq(Instruction') /\ todo \in Seq(Items') /\ context_stack \in Seq(Contexts')
  BY <1>1, <1>2, SeqMonotonic DEF TypeOK
<1> QED  BY <1>3, HeadTailProperties

(* The head of the worklist, when it is a statement. *)
LEMMA HeadFacts ==
  ASSUME TypeOK, todo # <<>>
  PROVE  /\ Head(todo) \in Items
         /\ Head(todo).do = "statement" => Head(todo) \in StatementItems /\ node \in Nodes
         /\ Head(todo).do = "emit" => Head(todo).ins \in Instruction
<1>1. Head(todo) \in Items  BY HeadTailProperties DEF TypeOK
<1> QED  BY <1>1 DEF Items, StatementItems, Pop, node

LEMMA BodyItems ==
  ASSUME NEW s \in Nodes, s.type \in Enclosing
  PROVE  Statements(s.body) \in Seq(Items')
<1>1. Statements(s.body) \in Seq(StatementItems)  BY NodeFacts, StatementsAreItems
<1>2. StatementItems \subseteq Items'  BY DEF Items
<1> QED  BY <1>1, <1>2, SeqMonotonic

LEMMA AfterItems ==
  ASSUME NEW m \in Generated', NEW n \in Generated'
  PROVE  /\ AfterIf(m, n) \in Seq(Items')
         /\ AfterElseIf(m, n) \in Seq(Items')
         /\ AfterElse(m, n) \in Seq(Items')
         /\ LoopBack(m, n) \in Seq(Items')
         /\ <<Emit(LABEL(m))>> \in Seq(Items')
<1>1. \A l \in Generated' : Emit(LABEL(l)) \in Items' /\ Emit(GOTO(l)) \in Items'  BY Emitted
<1>2. Pop \in Items'  BY DEF Items
<1>3. AroundNext(n) \in Seq(Items')  BY <1>1 DEF AroundNext
<1>4. <<Pop>> \in Seq(Items') /\ <<>> \in Seq(Items')  BY <1>2
<1>5. AfterIf(m, n) \in Seq(Items')
  BY <1>1, <1>2, <1>3, <1>4, ConcatProperties DEF AfterIf
<1>6. AfterElseIf(m, n) \in Seq(Items')
  BY <1>1, <1>2, <1>3, <1>4, ConcatProperties DEF AfterElseIf
<1>7. AfterElse(m, n) \in Seq(Items')
  BY <1>1, <1>2, <1>3, <1>4, ConcatProperties DEF AfterElse
<1> QED  BY <1>1, <1>2, <1>5, <1>6, <1>7 DEF LoopBack

(* A condition, its jump and what comes behind it. *)
LEMMA GuardType ==
  ASSUME Plainly, todo # <<>>, Tail(todo) \in Seq(Items'), abandoned \in BOOLEAN,
         NEW b, b.table \in Seq(Instruction'), b.temporaries \in Nat,
         NEW condition \in Guards, NEW target \in Generated', NEW items \in Seq(Items'),
         Guard(b, condition, target, items)
  PROVE  /\ table' \in Seq(Instruction')
         /\ tac_variable_index' \in Nat
         /\ todo' \in Seq(Items')
         /\ abandoned' \in BOOLEAN
<1> DEFINE built == Expression(b, condition)
<1>1. Plain \subseteq Instruction'  BY DEF Instruction
<1>2. Adds(ExpressionCode(condition, b.temporaries))  BY DEF Plainly, CodeIsPlain
<1>3. /\ built.table \in Seq(Instruction') /\ built.temporaries \in Nat
      /\ built.tac \in Plain \cup {None}
  BY <1>1, <1>2, Continues DEF Expression
<1>4. Returns(built) => built.tac.result \in Operands  BY <1>3 DEF Returns, Plain
<1>5. Returns(built) => IF_FALSE(built.tac.result, target) \in Instruction'  BY <1>4, Emitted
<1>6. /\ table' = IF Returns(built) THEN Append(built.table, IF_FALSE(built.tac.result, target))
                  ELSE built.table
      /\ tac_variable_index' = built.temporaries
      /\ todo' = (IF Returns(built) THEN items ELSE <<>>) \o Tail(todo)
      /\ abandoned' = (abandoned \/ ~Returns(built))
  BY DEF Guard, Then
<1> HIDE DEF built
<1>7. table' \in Seq(Instruction')  BY <1>3, <1>5, <1>6
<1>8. todo' \in Seq(Items')  BY <1>6, ConcatProperties, EmptySeq
<1> QED  BY <1>3, <1>6, <1>7, <1>8

(* Pushing and replacing contexts. *)
LEMMA ContextTypes ==
  ASSUME context_stack \in Seq(Contexts'), NEW c \in Contexts'
  PROVE  /\ Push(c) \in Seq(Contexts')
         /\ context_stack # <<>> => Replace(c) \in Seq(Contexts')
<1>1. Push(c) \in Seq(Contexts')  BY DEF Push
<1>2. ASSUME context_stack # <<>> PROVE Replace(c) \in Seq(Contexts')
  <2>1. Len(context_stack) \in 1..Len(context_stack)  BY <1>2, EmptySeq, LenProperties
  <2> QED  BY <2>1, ExceptSeq DEF Replace
<1> QED  BY <1>1, <1>2

LEMMA TopFacts ==
  ASSUME TypeOK, context_stack # <<>>
  PROVE  Top \in Contexts
<1>1. Len(context_stack) \in 1..Len(context_stack)  BY EmptySeq, LenProperties DEF TypeOK
<1> QED  BY <1>1, ElementOfSeq DEF Top, TypeOK

LEMMA TypeInit == Start => TypeOK
<1> SUFFICES ASSUME Start PROVE TypeOK
  OBVIOUS
<1>1. program.name \in Declared /\ program.params \in Seq(Declared) /\ program.body \in Seq(Nodes)
  BY DEF Start, Blocks
<1>2. Parameters(program.params) \in Seq(Instruction)
  <2>1. \A k \in 1..Len(program.params) : program.params[k] \in Declared
    BY <1>1, ElementOfSeq
  <2>2. \A k \in 1..Len(program.params) :
          Ins("PARAM", None, Symbol(program.params[k]), None) \in Instruction
    BY <2>1 DEF Ins, Symbol, Instruction, Plain, ComputingKinds, Operands
  <2>3. Len(program.params) \in Nat /\ DOMAIN program.params = 1..Len(program.params)
    BY <1>1, LenProperties
  <2> QED  BY <2>2, <2>3 DEF Parameters
<1>3. Ins("NAME", Symbol(program.name), None, None) \in Instruction
  BY <1>1 DEF Ins, Symbol, Instruction, Plain, ComputingKinds, Operands
<1>4. table \in Seq(Instruction)
  <2>1. <<Ins("NAME", Symbol(program.name), None, None)>> \in Seq(Instruction)  BY <1>3
  <2> QED  BY <1>2, <2>1, ConcatProperties DEF Start
<1>5. todo \in Seq(Items)
  <2>1. Statements(program.body) \in Seq(StatementItems)  BY <1>1, StatementsAreItems
  <2>2. StatementItems \subseteq Items  BY DEF Items
  <2> QED  BY <2>1, <2>2, SeqMonotonic DEF Start
<1>6. context_stack \in Seq(Contexts)  BY EmptySeq DEF Start
<1> QED  BY <1>4, <1>5, <1>6 DEF Start, TypeOK

LEMMA TypeStep ==
  ASSUME Plainly, TypeOK, [Translate]_vars
  PROVE  TypeOK'
<1>1. CASE EmitItem
  <2>1. label_counter' = label_counter /\ label_counter \in Nat  BY <1>1 DEF EmitItem, TypeOK
  <2>2. /\ table \in Seq(Instruction') /\ Tail(todo) \in Seq(Items')
        /\ context_stack \in Seq(Contexts') /\ Head(todo).ins \in Instruction'
    BY <1>1, <2>1, Carried, HeadFacts, Grows DEF EmitItem
  <2>3. todo' = Tail(todo)  BY <1>1, <2>2, ConcatEmptySeq DEF EmitItem, Then
  <2>4. table' \in Seq(Instruction')  BY <1>1, <2>2 DEF EmitItem
  <2> QED  BY <1>1, <2>2, <2>3, <2>4 DEF EmitItem, TypeOK
<1>2. CASE PopContext
  <2>1. label_counter' = label_counter /\ label_counter \in Nat  BY <1>2 DEF PopContext, TypeOK
  <2>2. /\ table \in Seq(Instruction') /\ Tail(todo) \in Seq(Items')
        /\ context_stack \in Seq(Contexts')
    BY <1>2, <2>1, Carried DEF PopContext
  <2>3. todo' = Tail(todo)  BY <1>2, <2>2, ConcatEmptySeq DEF PopContext, Then
  <2>4. context_stack' \in Seq(Contexts')
    <3>1. Len(context_stack) \in Nat /\ \A n \in 1..Len(context_stack) : context_stack[n] \in Contexts'
      BY <2>2, LenProperties, ElementOfSeq
    <3>2. \A n \in 1..(Len(context_stack) - 1) : context_stack[n] \in Contexts'  BY <3>1
    <3>3. SubSeq(context_stack, 1, Len(context_stack) - 1) \in Seq(Contexts')
      BY <3>1, <3>2, SubSeqProperties
    <3> QED  BY <1>2, <3>3 DEF PopContext
  <2> QED  BY <1>2, <2>2, <2>3, <2>4 DEF PopContext, TypeOK
<1>3. CASE Computing
  <2>1. label_counter' = label_counter /\ label_counter \in Nat  BY <1>3 DEF Computing, TypeOK
  <2>2. /\ table \in Seq(Instruction') /\ Tail(todo) \in Seq(Items')
        /\ context_stack \in Seq(Contexts')
    BY <1>3, <2>1, Carried DEF Computing
  <2>3. todo' = Tail(todo)  BY <1>3, <2>2, ConcatEmptySeq DEF Computing, Then
  <2>4. node \in Computes  BY <1>3, HeadFacts DEF Computing, Computes
  <2>5. Adds(StatementCode(node, tac_variable_index))
    BY <2>4 DEF Plainly, CodeIsPlain, TypeOK
  <2> DEFINE b == Builder(table, tac_variable_index)
  <2>6. b.table = table /\ b.temporaries = tac_variable_index  BY DEF Builder
  <2>7. Plain \subseteq Instruction'  BY DEF Instruction
  <2>8. Statement(b, node).table \in Seq(Instruction') /\ Statement(b, node).temporaries \in Nat
    BY <2>2, <2>5, <2>6, <2>7, Continues DEF Statement
  <2>9. table' = Statement(b, node).table /\ tac_variable_index' = Statement(b, node).temporaries
    BY <1>3 DEF Computing
  <2> HIDE DEF b
  <2> QED  BY <1>3, <2>2, <2>3, <2>8, <2>9 DEF Computing, TypeOK
<1>4. CASE If
  <2> DEFINE end   == label_counter
             other == IF has_next_statement THEN label_counter + 1 ELSE None
             c     == Context("IF", IF has_next_conditional THEN other ELSE None, end, None)
             items == Statements(node.body) \o AfterIf(end, other)
             b     == Builder(table, tac_variable_index)
  <2>1. /\ context_stack' = Push(c)
        /\ label_counter' = generate_labels(IF has_next_statement THEN 2 ELSE 1)
        /\ Guard(b, node.left, IF has_next_statement THEN other ELSE end, items)
        /\ stage' = stage /\ todo # <<>> /\ node.type = "IF" /\ Head(todo).do = "statement"
    BY <1>4 DEF If, At, node
  <2>2. node \in Nodes /\ node.type \in Enclosing  BY <2>1, HeadFacts DEF Enclosing
  <2>3. /\ label_counter \in Nat
        /\ label_counter' = label_counter + (IF has_next_statement THEN 2 ELSE 1)
    BY <2>1 DEF generate_labels, TypeOK
  <2>4. end \in Generated' /\ other \in Generated' /\ None \in Generated'
    <3>1. CASE has_next_statement  BY <2>3, <3>1 DEF Generated
    <3>2. CASE ~has_next_statement  BY <2>3, <3>2 DEF Generated
    <3> QED  BY <3>1, <3>2
  <2>5. /\ table \in Seq(Instruction') /\ Tail(todo) \in Seq(Items')
        /\ context_stack \in Seq(Contexts')
    BY <2>1, <2>3, Carried
  <2>6. c \in Contexts'  BY <2>4 DEF Context, Contexts
  <2>7. items \in Seq(Items')  BY <2>2, <2>4, BodyItems, AfterItems, ConcatProperties
  <2>8. node.left \in Guards  BY <2>1, <2>2 DEF Guards
  <2>9. b.table = table /\ b.temporaries = tac_variable_index  BY DEF Builder
  <2> HIDE DEF end, other, c, items, b
  <2>10. /\ table' \in Seq(Instruction') /\ tac_variable_index' \in Nat
         /\ todo' \in Seq(Items') /\ abandoned' \in BOOLEAN
    BY <2>1, <2>4, <2>5, <2>7, <2>8, <2>9, GuardType DEF TypeOK
  <2>11. context_stack' \in Seq(Contexts')  BY <2>1, <2>5, <2>6, ContextTypes
  <2> QED  BY <2>1, <2>3, <2>10, <2>11 DEF TypeOK
<1>5. CASE ElseIf
  <2> DEFINE end   == Top.end_label
             other == IF has_next_statement THEN label_counter ELSE None
             c     == Context("ELSE_IF", IF has_next_conditional THEN other ELSE None, end, None)
             items == Statements(node.body) \o AfterElseIf(end, other)
             b     == Builder(Append(table, LABEL(Top.next_label)), tac_variable_index)
  <2>1. /\ context_stack' = Replace(c) /\ context_stack # <<>>
        /\ label_counter' = generate_labels(IF has_next_statement THEN 1 ELSE 0)
        /\ Guard(b, node.left, IF has_next_statement THEN other ELSE end, items)
        /\ stage' = stage /\ todo # <<>> /\ node.type = "ELSE_IF" /\ Head(todo).do = "statement"
    BY <1>5 DEF ElseIf, At, node
  <2>2. node \in Nodes /\ node.type \in Enclosing  BY <2>1, HeadFacts DEF Enclosing, Conditional
  <2>3. label_counter \in Nat /\ label_counter' \in Nat /\ label_counter <= label_counter'
        /\ (has_next_statement => label_counter < label_counter')
    BY <2>1 DEF generate_labels, TypeOK
  <2>4. /\ end \in Generated' /\ other \in Generated' /\ None \in Generated'
        /\ Top.next_label \in Generated'
    BY <2>1, <2>3, TopFacts, Grows DEF Generated, Contexts
  <2>5. /\ table \in Seq(Instruction') /\ Tail(todo) \in Seq(Items')
        /\ context_stack \in Seq(Contexts')
    BY <2>1, <2>3, Carried
  <2>6. c \in Contexts'  BY <2>4 DEF Context, Contexts
  <2>7. items \in Seq(Items')  BY <2>2, <2>4, BodyItems, AfterItems, ConcatProperties
  <2>8. node.left \in Guards  BY <2>1, <2>2 DEF Guards
  <2>9. b.table = Append(table, LABEL(Top.next_label)) /\ b.temporaries = tac_variable_index
    BY DEF Builder
  <2>10. b.table \in Seq(Instruction')  BY <2>4, <2>5, <2>9, Emitted, AppendProperties
  <2> HIDE DEF end, other, c, items, b
  <2>11. /\ table' \in Seq(Instruction') /\ tac_variable_index' \in Nat
         /\ todo' \in Seq(Items') /\ abandoned' \in BOOLEAN
    BY <2>1, <2>4, <2>5, <2>7, <2>8, <2>9, <2>10, GuardType DEF TypeOK
  <2>12. context_stack' \in Seq(Contexts')  BY <2>1, <2>5, <2>6, ContextTypes
  <2> QED  BY <2>1, <2>3, <2>11, <2>12 DEF TypeOK
<1>6. CASE Else
  <2> DEFINE next_jmp == IF has_next_statement THEN label_counter ELSE None
             c     == Context("ELSE", None, Top.end_label, None)
             items == Statements(node.body) \o AfterElse(Top.end_label, next_jmp)
  <2>1. /\ context_stack' = Replace(c) /\ context_stack # <<>>
        /\ label_counter' = generate_labels(IF has_next_statement THEN 1 ELSE 0)
        /\ table' = Append(table, LABEL(Top.next_label))
        /\ todo' = items \o Tail(todo) /\ tac_variable_index' = tac_variable_index
        /\ stage' = stage /\ todo # <<>> /\ node.type = "ELSE" /\ Head(todo).do = "statement"
        /\ abandoned' = abandoned
    BY <1>6 DEF Else, At, node, Then
  <2>2. node \in Nodes /\ node.type \in Enclosing  BY <2>1, HeadFacts DEF Enclosing, Conditional
  <2>3. label_counter \in Nat /\ label_counter' \in Nat /\ label_counter <= label_counter'
        /\ (has_next_statement => label_counter < label_counter')
    BY <2>1 DEF generate_labels, TypeOK
  <2>4. /\ Top.end_label \in Generated' /\ next_jmp \in Generated' /\ None \in Generated'
        /\ Top.next_label \in Generated'
    BY <2>1, <2>3, TopFacts, Grows DEF Generated, Contexts
  <2>5. /\ table \in Seq(Instruction') /\ Tail(todo) \in Seq(Items')
        /\ context_stack \in Seq(Contexts')
    BY <2>1, <2>3, Carried
  <2>6. c \in Contexts'  BY <2>4 DEF Context, Contexts
  <2>7. items \in Seq(Items')  BY <2>2, <2>4, BodyItems, AfterItems, ConcatProperties
  <2> HIDE DEF next_jmp, c, items
  <2>8. table' \in Seq(Instruction')  BY <2>1, <2>4, <2>5, Emitted, AppendProperties
  <2>9. todo' \in Seq(Items')  BY <2>1, <2>5, <2>7, ConcatProperties
  <2>10. context_stack' \in Seq(Contexts')  BY <2>1, <2>5, <2>6, ContextTypes
  <2> QED  BY <2>1, <2>3, <2>8, <2>9, <2>10 DEF TypeOK
<1>7. CASE While
  <2> DEFINE loop_start == label_counter
             end   == label_counter + 1
             c     == Context("LOOP", None, end, loop_start)
             items == Statements(node.body) \o LoopBack(loop_start, end)
             b     == Builder(Append(table, LABEL(loop_start)), tac_variable_index)
  <2>1. /\ context_stack' = Push(c)
        /\ label_counter' = generate_labels(2)
        /\ Guard(b, node.left, end, items)
        /\ stage' = stage /\ todo # <<>> /\ node.type = "WHILE" /\ Head(todo).do = "statement"
    BY <1>7 DEF While, At, node
  <2>2. node \in Nodes /\ node.type \in Enclosing  BY <2>1, HeadFacts DEF Enclosing
  <2>3. label_counter \in Nat /\ label_counter' = label_counter + 2
    BY <2>1 DEF generate_labels, TypeOK
  <2>4. end \in Generated' /\ loop_start \in Generated' /\ None \in Generated'
    BY <2>3 DEF Generated
  <2>5. /\ table \in Seq(Instruction') /\ Tail(todo) \in Seq(Items')
        /\ context_stack \in Seq(Contexts')
    BY <2>1, <2>3, Carried
  <2>6. c \in Contexts'  BY <2>4 DEF Context, Contexts
  <2>7. items \in Seq(Items')  BY <2>2, <2>4, BodyItems, AfterItems, ConcatProperties
  <2>8. node.left \in Guards  BY <2>1, <2>2 DEF Guards
  <2>9. b.table = Append(table, LABEL(loop_start)) /\ b.temporaries = tac_variable_index
    BY DEF Builder
  <2>10. b.table \in Seq(Instruction')  BY <2>4, <2>5, <2>9, Emitted, AppendProperties
  <2> HIDE DEF loop_start, end, c, items, b
  <2>11. /\ table' \in Seq(Instruction') /\ tac_variable_index' \in Nat
         /\ todo' \in Seq(Items') /\ abandoned' \in BOOLEAN
    BY <2>1, <2>4, <2>5, <2>7, <2>8, <2>9, <2>10, GuardType DEF TypeOK
  <2>12. context_stack' \in Seq(Contexts')  BY <2>1, <2>5, <2>6, ContextTypes
  <2> QED  BY <2>1, <2>3, <2>11, <2>12 DEF TypeOK
<1>8. CASE For
  <2> DEFINE loop_start == label_counter
             update == label_counter + 1
             end   == label_counter + 2
             c     == ForContext(loop_start, update, end)
             items == Statements(node.body) \o <<Emit(LABEL(update))>> \o Statements(<<node.update>>)
                        \o LoopBack(loop_start, end)
             b     == Builder(table, tac_variable_index)
             begun == Add(Statement(b, node.left), LABEL(loop_start))
  <2>1. /\ context_stack' = Push(c)
        /\ label_counter' = generate_labels(3)
        /\ Guard(begun, node.condition, end, items)
        /\ stage' = stage /\ todo # <<>> /\ node.type = "FOR" /\ Head(todo).do = "statement"
    BY <1>8 DEF For, At, node
  <2>2. node \in Nodes /\ node.type \in Enclosing  BY <2>1, HeadFacts DEF Enclosing
  <2>3. label_counter \in Nat /\ label_counter' = label_counter + 3
    BY <2>1 DEF generate_labels, TypeOK
  <2>4. end \in Generated' /\ update \in Generated' /\ loop_start \in Generated' /\ None \in Generated'
    BY <2>3 DEF Generated
  <2>5. /\ table \in Seq(Instruction') /\ Tail(todo) \in Seq(Items')
        /\ context_stack \in Seq(Contexts')
    BY <2>1, <2>3, Carried
  <2>6. c \in Contexts'  BY <2>4 DEF ForContext, Context, Contexts
  <2>7. items \in Seq(Items')
    <3>1. node.update \in Nodes  BY <2>1, <2>2, NodeFacts
    <3>2. <<node.update>> \in Seq(Nodes)  BY <3>1
    <3>3. StatementItems \subseteq Items'  BY DEF Items
    <3>4. Statements(<<node.update>>) \in Seq(Items')  BY <3>2, <3>3, StatementsAreItems, SeqMonotonic
    <3> QED  BY <2>2, <2>4, <3>4, BodyItems, AfterItems, ConcatProperties
  <2>8. node.condition \in Guards /\ node.left \in Computes  BY <2>1, <2>2 DEF Guards, Computes
  <2>9. b.table = table /\ b.temporaries = tac_variable_index  BY DEF Builder
  <2>10. begun.table \in Seq(Instruction') /\ begun.temporaries \in Nat
    <3>1. Adds(StatementCode(node.left, tac_variable_index))
      BY <2>8 DEF Plainly, CodeIsPlain, TypeOK
    <3>2. Plain \subseteq Instruction'  BY DEF Instruction
    <3>3. /\ Statement(b, node.left).table \in Seq(Instruction')
          /\ Statement(b, node.left).temporaries \in Nat
          /\ Statement(b, node.left) \in
               [table : Seq(Instruction'), temporaries : Nat, tac : Plain \cup {None}]
      BY <2>5, <2>9, <3>1, <3>2, Continues DEF Statement
    <3>4. /\ begun.table = Append(Statement(b, node.left).table, LABEL(loop_start))
          /\ begun.temporaries = Statement(b, node.left).temporaries
      BY <3>3 DEF Add
    <3> QED  BY <2>4, <3>3, <3>4, Emitted, AppendProperties
  <2> HIDE DEF loop_start, update, end, c, items, b, begun
  <2>11. /\ table' \in Seq(Instruction') /\ tac_variable_index' \in Nat
         /\ todo' \in Seq(Items') /\ abandoned' \in BOOLEAN
    BY <2>1, <2>4, <2>5, <2>7, <2>8, <2>10, GuardType DEF TypeOK
  <2>12. context_stack' \in Seq(Contexts')  BY <2>1, <2>5, <2>6, ContextTypes
  <2> QED  BY <2>1, <2>3, <2>11, <2>12 DEF TypeOK
<1>9. CASE Jump
  <2>1. label_counter' = label_counter /\ label_counter \in Nat /\ todo # <<>>
    BY <1>9 DEF Jump, At, TypeOK
  <2>2. /\ table \in Seq(Instruction') /\ Tail(todo) \in Seq(Items')
        /\ context_stack \in Seq(Contexts')
    BY <2>1, Carried
  <2>3. todo' = Tail(todo)  BY <1>9, <2>2, ConcatEmptySeq DEF Jump, Then
  <2>4. table' \in Seq(Instruction')
    <3>1. CASE UNCHANGED table  BY <2>2, <3>1
    <3>2. ASSUME NEW n \in Loops,
                 table' = Append(table, GOTO(IF node.type = "BREAK" THEN context_stack[n].end_label
                                             ELSE context_stack[n].update_label))
          PROVE  table' \in Seq(Instruction')
      <4>1. context_stack[n] \in Contexts'  BY <2>2, ElementOfSeq DEF Loops
      <4>2. /\ context_stack[n].end_label \in Generated'
            /\ context_stack[n].update_label \in Generated'
        BY <4>1 DEF Contexts
      <4> QED  BY <2>2, <3>2, <4>2, Emitted, AppendProperties
    <3> QED  BY <1>9, <3>1, <3>2 DEF Jump
  <2> QED  BY <1>9, <2>2, <2>3, <2>4 DEF Jump, TypeOK
<1>10. CASE FinishBuild
  BY <1>10 DEF FinishBuild, building, TypeOK, Instruction, Labels, Generated, Items, Contexts
<1>11. CASE UNCHANGED vars
  BY <1>11 DEF vars, building, TypeOK, Instruction, Labels, Generated, Items, Contexts
<1> QED
  BY <1>1, <1>2, <1>3, <1>4, <1>5, <1>6, <1>7, <1>8, <1>9, <1>10, <1>11 DEF Translate

(* The state has its shape, and every label comes from the counter. *)
THEOREM TypeCorrect ==
  ASSUME CodeIsPlain(Nat)
  PROVE  Spec => []TypeOK
<1>1. Plainly  BY DEF Plainly
<1> QED  BY <1>1, TypeInit, TypeStep, PTL DEF Spec

------------------------------------------------------------------------------
(* What holds a context, counted from the end of the worklist: a step        *)
(* replaces the head, and what is behind it keeps its place.                 *)

StatementAt(s, n) == n \in 1..Len(s) /\ s[n].do = "statement"

HolderAt(s, n) ==
  \/ s[n].do = "pop"
  \/ StatementAt(s, n) /\ s[n].node.type \in Conditional /\ ~StatementAt(s, n - 1)

FromEnd(s) == {m \in 1..Len(s) : HolderAt(s, Len(s) + 1 - m)}

(* Items that hold nothing, or nothing but by a pop at their end. *)
Inner(q)   == \A n \in 1..Len(q) : ~HolderAt(q, n)
OnlyPop(q) == \A n \in 1..Len(q) : HolderAt(q, n) => n = Len(q) /\ q[n].do = "pop"
Closes(q)  == ~StatementAt(q, Len(q))
Pops(q)    == q # <<>> /\ q[Len(q)].do = "pop"

(* An item that holds a context at the head of the worklist. *)
Starts(item) == item.do = "pop" \/ (item.do = "statement" /\ item.node.type \in Conditional)

LEMMA HoldersFromEnd ==
  ASSUME NEW S, todo \in Seq(S)
  PROVE  /\ IsFiniteSet(FromEnd(todo))
         /\ Cardinality(Holders) = Cardinality(FromEnd(todo))
<1> DEFINE L == Len(todo)
           f == [m \in FromEnd(todo) |-> L + 1 - m]
<1>1. L \in Nat  BY LenProperties
<1>2. IsFiniteSet(FromEnd(todo))
  <2>1. FromEnd(todo) \in SUBSET (1..L)  BY DEF FromEnd
  <2>2. IsFiniteSet(1..L)  BY <1>1, FS_Interval
  <2> QED  BY <2>1, <2>2, FS_Subset
<1>3. \A n \in 1..L : n \in Holders <=> HolderAt(todo, n)
  BY DEF Holders, HolderAt, IsStatement, StatementAt
<1>4. f \in Bijection(FromEnd(todo), Holders)
  <2>1. \A m \in FromEnd(todo) : m \in 1..L /\ HolderAt(todo, L + 1 - m) /\ L + 1 - m \in 1..L
    BY <1>1 DEF FromEnd
  <2>2. f \in [FromEnd(todo) -> Holders]  BY <2>1, <1>3
  <2>3. \A m, n \in FromEnd(todo) : f[m] = f[n] => m = n  BY <1>1, <2>1
  <2>4. \A n \in Holders : \E m \in FromEnd(todo) : f[m] = n
    <3> TAKE n \in Holders
    <3>1. n \in 1..L /\ HolderAt(todo, n)  BY <1>3 DEF Holders
    <3>2. L + 1 - n \in 1..L /\ L + 1 - (L + 1 - n) = n  BY <1>1, <3>1
    <3>3. L + 1 - n \in FromEnd(todo)  BY <3>1, <3>2 DEF FromEnd
    <3>4. f[L + 1 - n] = n  BY <3>2, <3>3
    <3> QED  BY <3>3, <3>4
  <2> HIDE DEF f
  <2> QED  BY <2>2, <2>3, <2>4 DEF Bijection, Injection, Surjection, IsInjective
<1> HIDE DEF f
<1>5. ExistsBijection(FromEnd(todo), Holders)  BY <1>4 DEF ExistsBijection
<1> QED  BY <1>2, <1>5, FS_Bijection

LEMMA StatementsHoldNothing ==
  ASSUME NEW body \in Seq(Nodes), ElsesFollow(body)
  PROVE  Inner(Statements(body))
<1> DEFINE s == Statements(body)
<1>1. /\ Len(body) \in Nat /\ Len(s) = Len(body)
      /\ \A k \in 1..Len(body) : s[k].do = "statement" /\ s[k].node = body[k]
  BY StatementsAreItems, LenProperties
<1> HIDE DEF s
<1>2. \A k \in 1..Len(body) : body[k].type \in Conditional => k - 1 \in 1..Len(body)
  BY <1>1 DEF ElsesFollow
<1>3. \A k \in 1..Len(s) : ~HolderAt(s, k)  BY <1>1, <1>2 DEF HolderAt, StatementAt
<1> QED  BY <1>3 DEF Inner, s

LEMMA Joined ==
  ASSUME NEW S, NEW a \in Seq(S), NEW b \in Seq(S), Inner(a)
  PROVE  /\ OnlyPop(b) => OnlyPop(a \o b)
         /\ Inner(b) => Inner(a \o b)
         /\ b # <<>> => (Closes(b) => Closes(a \o b)) /\ (Pops(a \o b) <=> Pops(b))
<1> DEFINE j == a \o b
<1>1. /\ Len(a) \in Nat /\ Len(b) \in Nat /\ Len(j) = Len(a) + Len(b) /\ j \in Seq(S)
      /\ \A n \in 1..Len(a) : j[n] = a[n]
      /\ \A n \in 1..Len(b) : j[Len(a) + n] = b[n]
      /\ b # <<>> => Len(b) > 0
      /\ Len(j) > 0 => j # <<>>
  BY ConcatProperties, LenProperties, EmptySeq
<1> HIDE DEF j
<1>2. \A n \in 1..Len(a) : HolderAt(j, n) => HolderAt(a, n)
  BY <1>1 DEF HolderAt, StatementAt
<1>3. \A n \in 1..Len(b) : HolderAt(j, Len(a) + n) => HolderAt(b, n)
  <2> SUFFICES ASSUME NEW n \in 1..Len(b), HolderAt(j, Len(a) + n) PROVE HolderAt(b, n)
    OBVIOUS
  <2>1. StatementAt(b, n - 1) => StatementAt(j, Len(a) + n - 1)
    <3> SUFFICES ASSUME StatementAt(b, n - 1) PROVE StatementAt(j, Len(a) + n - 1)
      OBVIOUS
    <3>1. n - 1 \in 1..Len(b) /\ b[n - 1].do = "statement"  BY DEF StatementAt
    <3>2. j[Len(a) + (n - 1)] = b[n - 1] /\ Len(a) + n - 1 = Len(a) + (n - 1)  BY <1>1, <3>1
    <3>3. Len(a) + n - 1 \in 1..Len(j)  BY <1>1, <3>1
    <3> QED  BY <3>1, <3>2, <3>3 DEF StatementAt
  <2>2. j[Len(a) + n] = b[n]  BY <1>1
  <2> QED  BY <1>1, <2>1, <2>2 DEF HolderAt, StatementAt
<1>4. \A n \in 1..Len(j) : HolderAt(j, n) => n - Len(a) \in 1..Len(b) /\ HolderAt(b, n - Len(a))
  <2> SUFFICES ASSUME NEW n \in 1..Len(j), HolderAt(j, n)
               PROVE  n - Len(a) \in 1..Len(b) /\ HolderAt(b, n - Len(a))
    OBVIOUS
  <2>1. n \notin 1..Len(a)  BY <1>2 DEF Inner
  <2>2. n - Len(a) \in 1..Len(b) /\ Len(a) + (n - Len(a)) = n  BY <1>1, <2>1
  <2> QED  BY <1>3, <2>2
<1>5. OnlyPop(b) => OnlyPop(j)
  <2> SUFFICES ASSUME OnlyPop(b), NEW n \in 1..Len(j), HolderAt(j, n)
               PROVE  n = Len(j) /\ j[n].do = "pop"
    BY DEF OnlyPop
  <2>1. n - Len(a) \in 1..Len(b) /\ HolderAt(b, n - Len(a))  BY <1>4
  <2>2. n - Len(a) = Len(b) /\ b[n - Len(a)].do = "pop"  BY <2>1 DEF OnlyPop
  <2>3. j[Len(a) + (n - Len(a))] = b[n - Len(a)] /\ Len(a) + (n - Len(a)) = n  BY <1>1, <2>1
  <2> QED  BY <1>1, <2>2, <2>3
<1>6. Inner(b) => Inner(j)  BY <1>4 DEF Inner
<1>7. ASSUME b # <<>> PROVE (Closes(b) => Closes(j)) /\ (Pops(j) <=> Pops(b))
  <2>1. Len(b) \in 1..Len(b) /\ j[Len(j)] = b[Len(b)] /\ Len(j) > 0  BY <1>1, <1>7
  <2> QED  BY <1>1, <1>7, <2>1 DEF Closes, StatementAt, Pops
<1> QED  BY <1>5, <1>6, <1>7 DEF j

(* A step replaces the head of the worklist by q. *)
LEMMA Replacing ==
  ASSUME NEW S, NEW s \in Seq(S), s # <<>>, NEW q \in Seq(S), OnlyPop(q), Closes(q)
  PROVE  LET t == q \o Tail(s)
             L == Len(s)
         IN  /\ Len(t) = Len(q) + L - 1
             /\ \A n \in 1..Len(q) : t[n] = q[n]
             /\ \A m \in 1..(L - 1) : t[Len(t) + 1 - m] = s[L + 1 - m]
             /\ FromEnd(t) = (FromEnd(s) \ {L - 1, L})
                                \cup (IF L > 1 /\ Starts(s[2]) THEN {L - 1} ELSE {})
                                \cup (IF Pops(q) THEN {L} ELSE {})
             /\ L \in FromEnd(s) <=> Starts(s[1])
             /\ L - 1 \in FromEnd(s) <=>
                  L > 1 /\ Starts(s[2]) /\ (s[2].do = "pop" \/ s[1].do # "statement")
<1> DEFINE t == q \o Tail(s)
           L == Len(s)
<1>1. /\ L \in Nat \ {0} /\ Len(q) \in Nat /\ Len(t) = Len(q) + L - 1
      /\ \A n \in 1..Len(q) : t[n] = q[n]
      /\ \A n \in 2..L : t[Len(q) + (n - 1)] = s[n]
      /\ q # <<>> <=> Len(q) > 0
  <2>1. /\ Tail(s) \in Seq(S) /\ Len(Tail(s)) = L - 1 /\ L \in Nat \ {0}
        /\ \A n \in 2..L : Tail(s)[n - 1] = s[n]
    BY HeadTailProperties, LenProperties, EmptySeq
  <2>2. /\ Len(q) \in Nat /\ Len(t) = Len(q) + Len(Tail(s))
        /\ \A n \in 1..Len(q) : t[n] = q[n]
        /\ \A n \in 1..Len(Tail(s)) : t[Len(q) + n] = Tail(s)[n]
    BY <2>1, ConcatProperties, LenProperties
  <2>3. q # <<>> <=> Len(q) > 0  BY EmptySeq
  <2> HIDE DEF t
  <2>4. \A n \in 2..L : t[Len(q) + (n - 1)] = s[n]
    <3> TAKE n \in 2..L
    <3>1. n - 1 \in 1..Len(Tail(s))  BY <2>1
    <3> QED  BY <2>1, <2>2, <3>1
  <2> QED  BY <2>1, <2>2, <2>3, <2>4
<1> HIDE DEF t
<1>2. \A m \in 1..(L - 1) : /\ t[Len(t) + 1 - m] = s[L + 1 - m]
                            /\ L + 1 - m \in 2..L
  <2> TAKE m \in 1..(L - 1)
  <2>1. L + 1 - m \in 2..L /\ Len(q) + (L + 1 - m - 1) = Len(t) + 1 - m  BY <1>1
  <2> QED  BY <1>1, <2>1
(* Behind the head's neighbour nothing changes. *)
<1>3. \A m \in 1..(L - 2) : m \in FromEnd(t) <=> m \in FromEnd(s)
  <2> TAKE m \in 1..(L - 2)
  <2>1. /\ m \in 1..(L - 1) /\ m + 1 \in 1..(L - 1)
        /\ Len(t) + 1 - m \in 1..Len(t) /\ Len(t) + 1 - (m + 1) \in 1..Len(t)
        /\ L + 1 - m \in 1..L /\ L + 1 - (m + 1) \in 1..L
        /\ Len(t) + 1 - m - 1 = Len(t) + 1 - (m + 1) /\ L + 1 - m - 1 = L + 1 - (m + 1)
        /\ m \in 1..Len(t) /\ m \in 1..L
    BY <1>1
  <2>2. /\ t[Len(t) + 1 - m] = s[L + 1 - m]
        /\ t[Len(t) + 1 - (m + 1)] = s[L + 1 - (m + 1)]
    BY <1>2, <2>1
  <2>3. StatementAt(t, Len(t) + 1 - m - 1) <=> StatementAt(s, L + 1 - m - 1)
    BY <2>1, <2>2 DEF StatementAt
  <2>4. StatementAt(t, Len(t) + 1 - m) <=> StatementAt(s, L + 1 - m)
    BY <2>1, <2>2 DEF StatementAt
  <2>5. HolderAt(t, Len(t) + 1 - m) <=> HolderAt(s, L + 1 - m)
    BY <2>2, <2>3, <2>4 DEF HolderAt
  <2> QED  BY <2>1, <2>5 DEF FromEnd
(* The neighbour is now at the head, or behind an item that is no statement. *)
<1>4. ASSUME L > 1 PROVE L - 1 \in FromEnd(t) <=> Starts(s[2])
  <2>1. /\ L - 1 \in 1..(L - 1) /\ L - 1 \in 1..Len(t) /\ L + 1 - (L - 1) = 2
        /\ Len(t) + 1 - (L - 1) = Len(q) + 1 /\ Len(q) + 1 \in 1..Len(t) /\ Len(q) + 1 - 1 = Len(q)
    BY <1>1, <1>4
  <2>2. t[Len(q) + 1] = s[2]  BY <1>2, <2>1
  <2>3. ~StatementAt(t, Len(q))
    BY <1>1 DEF StatementAt, Closes
  <2> QED  BY <2>1, <2>2, <2>3 DEF FromEnd, HolderAt, StatementAt, Starts
(* The new items hold what their last one holds. *)
<1>5. \A m \in L..Len(t) : m \in FromEnd(t) <=> m = L /\ Pops(q)
  <2> TAKE m \in L..Len(t)
  <2>1. Len(t) + 1 - m \in 1..Len(q) /\ Len(t) + 1 - m - 1 < Len(q) /\ m \in 1..Len(t)  BY <1>1
  <2>2. StatementAt(t, Len(t) + 1 - m) <=> StatementAt(q, Len(t) + 1 - m)
    BY <1>1, <2>1 DEF StatementAt
  <2>3. StatementAt(t, Len(t) + 1 - m - 1) <=> StatementAt(q, Len(t) + 1 - m - 1)
    BY <1>1, <2>1 DEF StatementAt
  <2>4. HolderAt(t, Len(t) + 1 - m) <=> HolderAt(q, Len(t) + 1 - m)
    <3>1. t[Len(t) + 1 - m] = q[Len(t) + 1 - m]  BY <1>1, <2>1
    <3> QED  BY <2>2, <2>3, <3>1 DEF HolderAt
  <2>5. HolderAt(q, Len(t) + 1 - m) <=> Len(t) + 1 - m = Len(q) /\ q[Len(q)].do = "pop"
    BY <2>1 DEF OnlyPop, HolderAt
  <2>6. Len(t) + 1 - m = Len(q) <=> m = L
    <3>1. m \in Int /\ L \in Int /\ Len(q) \in Int /\ Len(t) = Len(q) + L - 1  BY <1>1
    <3> HIDE DEF L
    <3> QED  BY <3>1
  <2>7. q # <<>>  BY <1>1, <2>1
  <2> QED  BY <2>1, <2>4, <2>5, <2>6, <2>7 DEF FromEnd, Pops
<1>6. L \in FromEnd(s) <=> Starts(s[1])
  <2>1. L \in 1..L /\ L + 1 - L = 1 /\ 1 \in 1..L /\ 1 - 1 \notin 1..L  BY <1>1
  <2> QED  BY <2>1 DEF FromEnd, HolderAt, StatementAt, Starts
<1>7. L - 1 \in FromEnd(s) <=>
        L > 1 /\ Starts(s[2]) /\ (s[2].do = "pop" \/ s[1].do # "statement")
  <2>1. CASE L > 1
    <3>1. L - 1 \in 1..L /\ L + 1 - (L - 1) = 2 /\ 2 - 1 = 1 /\ 1 \in 1..L /\ 2 \in 1..L
      BY <1>1, <2>1
    <3> QED  BY <2>1, <3>1 DEF FromEnd, HolderAt, StatementAt, Starts
  <2>2. CASE ~(L > 1)
    <3>1. L - 1 \notin 1..L  BY <1>1, <2>2
    <3> QED  BY <2>2, <3>1 DEF FromEnd
  <2> QED  BY <2>1, <2>2
<1>8. FromEnd(t) = (FromEnd(s) \ {L - 1, L})
                     \cup (IF L > 1 /\ Starts(s[2]) THEN {L - 1} ELSE {})
                     \cup (IF Pops(q) THEN {L} ELSE {})
  <2> DEFINE R == (FromEnd(s) \ {L - 1, L})
                     \cup (IF L > 1 /\ Starts(s[2]) THEN {L - 1} ELSE {})
                     \cup (IF Pops(q) THEN {L} ELSE {})
  <2>1. FromEnd(t) \subseteq 1..Len(t) /\ FromEnd(s) \subseteq 1..L  BY DEF FromEnd
  <2>2. Pops(q) => L \in L..Len(t)  BY <1>1 DEF Pops
  <2>3. ASSUME NEW m \in FromEnd(t) PROVE m \in R
    <3>1. CASE m \in 1..(L - 2)
      <4>1. m \in FromEnd(s) /\ m # L - 1 /\ m # L  BY <1>1, <1>3, <3>1, <2>3
      <4> QED  BY <4>1
    <3>2. CASE m = L - 1
      <4>1. L > 1  BY <1>1, <2>1, <2>3, <3>2
      <4> QED  BY <1>4, <4>1, <2>3, <3>2
    <3>3. CASE m \in L..Len(t)  BY <1>5, <3>3, <2>3
    <3> QED  BY <1>1, <2>1, <2>3, <3>1, <3>2, <3>3
  <2>4. ASSUME NEW m \in R PROVE m \in FromEnd(t)
    <3>1. CASE m \in FromEnd(s) \ {L - 1, L}
      <4>1. m \in 1..(L - 2)  BY <1>1, <2>1, <3>1
      <4> QED  BY <1>3, <3>1, <4>1
    <3>2. CASE m = L - 1 /\ L > 1 /\ Starts(s[2])  BY <1>4, <3>2
    <3>3. CASE m = L /\ Pops(q)  BY <1>5, <2>2, <3>3
    <3> QED  BY <2>4, <3>1, <3>2, <3>3
  <2> QED  BY <2>3, <2>4
<1> QED  BY <1>1, <1>2, <1>6, <1>7, <1>8 DEF t

------------------------------------------------------------------------------
(* What is next to what: a statement knows the type of its sibling, and an   *)
(* else stands behind an if or an else if.                                   *)

Linked(s) ==
  \A n \in 1..Len(s) :
    s[n].do = "statement" =>
      /\ StatementAt(s, n + 1) =>
           /\ s[n].next = s[n + 1].node.type
           /\ s[n + 1].node.type \in Conditional => s[n].node.type \in {"IF", "ELSE_IF"}
      /\ ~StatementAt(s, n + 1) => s[n].next = None

LEMMA StatementsLinked ==
  ASSUME NEW body \in Seq(Nodes), ElsesFollow(body)
  PROVE  Linked(Statements(body))
<1> DEFINE s == Statements(body)
<1>1. /\ Len(body) \in Nat /\ Len(s) = Len(body)
      /\ \A k \in 1..Len(body) : /\ s[k].do = "statement" /\ s[k].node = body[k]
                                 /\ s[k].next = Sibling(body, k)
  BY StatementsAreItems, LenProperties
<1> HIDE DEF s
<1> SUFFICES ASSUME NEW n \in 1..Len(s)
             PROVE  /\ StatementAt(s, n + 1) =>
                         /\ s[n].next = s[n + 1].node.type
                         /\ s[n + 1].node.type \in Conditional => s[n].node.type \in {"IF", "ELSE_IF"}
                    /\ ~StatementAt(s, n + 1) => s[n].next = None
  BY DEF Linked, s
<1>2. CASE n < Len(body)
  <2>1. n + 1 \in 1..Len(body) /\ n + 1 - 1 = n  BY <1>1, <1>2
  <2>2. StatementAt(s, n + 1) /\ s[n + 1].node = body[n + 1]  BY <1>1, <2>1 DEF StatementAt
  <2>3. s[n].next = body[n + 1].type  BY <1>1, <1>2 DEF Sibling
  <2>4. body[n + 1].type \in Conditional => body[n].type \in {"IF", "ELSE_IF"}
    BY <2>1 DEF ElsesFollow
  <2> QED  BY <1>1, <2>2, <2>3, <2>4
<1>3. CASE ~(n < Len(body))
  <2>1. n + 1 \notin 1..Len(s)  BY <1>1, <1>3
  <2>2. s[n].next = None  BY <1>1, <1>3 DEF Sibling
  <2> QED  BY <2>1, <2>2 DEF StatementAt
<1> QED  BY <1>2, <1>3

LEMMA LinkedTogether ==
  ASSUME NEW S, NEW a \in Seq(S), NEW b \in Seq(S), Linked(a), Linked(b),
         Closes(a) \/ ~StatementAt(b, 1)
  PROVE  Linked(a \o b)
<1> DEFINE j == a \o b
<1>1. /\ Len(a) \in Nat /\ Len(b) \in Nat /\ Len(j) = Len(a) + Len(b)
      /\ \A n \in 1..Len(a) : j[n] = a[n]
      /\ \A n \in 1..Len(b) : j[Len(a) + n] = b[n]
  BY ConcatProperties, LenProperties
<1> HIDE DEF j
<1>2. \A n \in Nat : n < Len(a) => (StatementAt(j, n + 1) <=> StatementAt(a, n + 1))
  BY <1>1 DEF StatementAt
<1>3. \A n \in Nat : StatementAt(j, Len(a) + n + 1) <=> StatementAt(b, n + 1)
  <2> TAKE n \in Nat
  <2>1. Len(a) + n + 1 \in 1..Len(j) <=> n + 1 \in 1..Len(b)  BY <1>1
  <2>2. n + 1 \in 1..Len(b) => j[Len(a) + n + 1] = b[n + 1]
    <3>1. Len(a) + (n + 1) = Len(a) + n + 1  BY <1>1
    <3> QED  BY <1>1, <3>1
  <2> QED  BY <2>1, <2>2 DEF StatementAt
<1> SUFFICES ASSUME NEW n \in 1..Len(j), j[n].do = "statement"
             PROVE  /\ StatementAt(j, n + 1) =>
                         /\ j[n].next = j[n + 1].node.type
                         /\ j[n + 1].node.type \in Conditional => j[n].node.type \in {"IF", "ELSE_IF"}
                    /\ ~StatementAt(j, n + 1) => j[n].next = None
  BY DEF Linked, j
<1>4. CASE n < Len(a)
  <2>1. n \in 1..Len(a) /\ n + 1 \in 1..Len(a) /\ n \in Nat  BY <1>1, <1>4
  <2>2. j[n] = a[n] /\ j[n + 1] = a[n + 1]  BY <1>1, <2>1
  <2>3. StatementAt(j, n + 1) <=> StatementAt(a, n + 1)  BY <1>2, <1>4, <2>1
  <2> QED  BY <2>1, <2>2, <2>3 DEF Linked
<1>5. CASE n = Len(a)
  <2>1. n \in 1..Len(a) /\ j[n] = a[n] /\ ~Closes(a)
    BY <1>1, <1>5 DEF Closes, StatementAt
  <2>2. ~StatementAt(b, 0 + 1)  BY <2>1
  <2>3. ~StatementAt(j, Len(a) + 0 + 1) /\ Len(a) + 0 + 1 = n + 1  BY <1>1, <1>3, <1>5, <2>2
  <2>4. ~StatementAt(a, n + 1)  BY <1>1, <1>5 DEF StatementAt
  <2> QED  BY <2>1, <2>3, <2>4 DEF Linked
<1>6. CASE n > Len(a)
  <2> DEFINE k == n - Len(a)
  <2>1. k \in 1..Len(b) /\ k \in Nat /\ Len(a) + k = n /\ Len(a) + (k + 1) = n + 1
    BY <1>1, <1>6
  <2>2. j[n] = b[k] /\ (StatementAt(j, n + 1) <=> StatementAt(b, k + 1))
    BY <1>1, <1>3, <2>1
  <2>3. StatementAt(b, k + 1) => j[n + 1] = b[k + 1]  BY <1>1, <2>1 DEF StatementAt
  <2> HIDE DEF k
  <2> QED  BY <2>1, <2>2, <2>3 DEF Linked
<1> QED  BY <1>1, <1>4, <1>5, <1>6

LEMMA LinkedTail ==
  ASSUME NEW S, NEW s \in Seq(S), s # <<>>, Linked(s)
  PROVE  Linked(Tail(s))
<1> DEFINE t == Tail(s)
<1>1. /\ t \in Seq(S) /\ Len(t) = Len(s) - 1 /\ Len(s) \in Nat \ {0}
      /\ \A n \in 1..Len(t) : t[n] = s[n + 1]
  <2>1. /\ t \in Seq(S) /\ Len(t) = Len(s) - 1 /\ Len(s) \in Nat \ {0}
        /\ \A n \in 2..Len(s) : t[n - 1] = s[n]
    BY HeadTailProperties, LenProperties, EmptySeq
  <2> HIDE DEF t
  <2>2. ASSUME NEW n \in 1..Len(t) PROVE t[n] = s[n + 1]
    <3>1. n + 1 \in 2..Len(s) /\ n + 1 - 1 = n  BY <2>1
    <3> QED  BY <2>1, <3>1
  <2> QED  BY <2>1, <2>2
<1> HIDE DEF t
<1>2. \A n \in 1..Len(t) : StatementAt(t, n + 1) <=> StatementAt(s, n + 1 + 1)
  BY <1>1 DEF StatementAt
<1>3. \A n \in 1..Len(t) : n + 1 \in 1..Len(s)  BY <1>1
<1>4. \A n \in 1..Len(t) : StatementAt(t, n + 1) => t[n + 1] = s[n + 1 + 1]
  BY <1>1 DEF StatementAt
<1> QED  BY <1>1, <1>2, <1>3, <1>4 DEF Linked, t

(* What comes behind a body. *)
Trailing(x) ==
  /\ x # <<>>
  /\ \A n \in 1..Len(x) : x[n].do = "emit" \/ (n = Len(x) /\ x[n].do = "pop")

LEMMA TrailingFacts ==
  ASSUME NEW S, NEW x \in Seq(S), Trailing(x)
  PROVE  OnlyPop(x) /\ Closes(x) /\ Linked(x) /\ ~StatementAt(x, 1)
<1>1. \A n \in 1..Len(x) : x[n].do # "statement"  BY DEF Trailing
<1> QED
  BY <1>1 DEF Trailing, OnlyPop, Closes, Linked, HolderAt, StatementAt

LEMMA TrailingTogether ==
  ASSUME NEW S, NEW a \in Seq(S), NEW x \in Seq(S), Trailing(x),
         \A n \in 1..Len(a) : a[n].do = "emit"
  PROVE  Trailing(a \o x) /\ (Pops(a \o x) <=> Pops(x))
<1> DEFINE j == a \o x
<1>1. /\ Len(a) \in Nat /\ Len(x) \in Nat \ {0} /\ Len(j) = Len(a) + Len(x)
      /\ \A n \in 1..Len(a) : j[n] = a[n]
      /\ \A n \in 1..Len(x) : j[Len(a) + n] = x[n]
      /\ Len(j) > 0 => j # <<>>
  BY ConcatProperties, LenProperties, EmptySeq DEF Trailing
<1> HIDE DEF j
<1>2. ASSUME NEW n \in 1..Len(j) PROVE j[n].do = "emit" \/ (n = Len(j) /\ j[n].do = "pop")
  <2>1. CASE n \in 1..Len(a)  BY <1>1, <2>1
  <2>2. CASE n \notin 1..Len(a)
    <3>1. n - Len(a) \in 1..Len(x) /\ Len(a) + (n - Len(a)) = n  BY <1>1, <2>2
    <3>2. j[n] = x[n - Len(a)]  BY <1>1, <3>1
    <3>3. n - Len(a) = Len(x) => n = Len(j)  BY <1>1
    <3> QED  BY <3>1, <3>2, <3>3 DEF Trailing
  <2> QED  BY <2>1, <2>2
<1>3. j # <<>> /\ x # <<>> /\ j[Len(j)] = x[Len(x)]  BY <1>1 DEF Trailing
<1> QED  BY <1>2, <1>3 DEF Trailing, Pops, j

LEMMA AfterTrails ==
  ASSUME NEW m, NEW n
  PROVE  /\ Trailing(AfterIf(m, n)) /\ (Pops(AfterIf(m, n)) <=> ~has_next_conditional)
         /\ Trailing(AfterElseIf(m, n)) /\ (Pops(AfterElseIf(m, n)) <=> ~has_next_conditional)
         /\ Trailing(AfterElse(m, n)) /\ Pops(AfterElse(m, n))
         /\ Trailing(LoopBack(m, n)) /\ Pops(LoopBack(m, n))
<1> DEFINE S == {Pop, Emit(GOTO(m)), Emit(LABEL(m)), Emit(GOTO(n)), Emit(LABEL(n))}
<1>1. /\ Pop.do = "pop" /\ \A l : Emit(LABEL(l)).do = "emit" /\ Emit(GOTO(l)).do = "emit"
  BY DEF Pop, Emit
<1>2. /\ Pop \in S /\ Emit(GOTO(m)) \in S /\ Emit(LABEL(m)) \in S
      /\ Emit(GOTO(n)) \in S /\ Emit(LABEL(n)) \in S
  OBVIOUS
<1> HIDE DEF S
<1>3. /\ AroundNext(n) \in Seq(S)
      /\ \A k \in 1..Len(AroundNext(n)) : AroundNext(n)[k].do = "emit"
  BY <1>1, <1>2 DEF AroundNext
<1>4. \A x : x.do = "emit" =>
        /\ Trailing(<<x>>) /\ ~Pops(<<x>>)
        /\ Trailing(<<x, Pop>>) /\ Pops(<<x, Pop>>)
  BY <1>1 DEF Trailing, Pops
<1>5. Trailing(<<Pop>>) /\ Pops(<<Pop>>) /\ <<Pop>> \in Seq(S)  BY <1>1, <1>2 DEF Trailing, Pops
<1>6. Trailing(AroundNext(n) \o <<Pop>>) /\ Pops(AroundNext(n) \o <<Pop>>)
  BY <1>3, <1>5, TrailingTogether
<1>7. Trailing(AfterIf(m, n)) /\ (Pops(AfterIf(m, n)) <=> ~has_next_conditional)
  BY <1>1, <1>4, <1>6 DEF AfterIf
<1>8. Trailing(AfterElseIf(m, n)) /\ (Pops(AfterElseIf(m, n)) <=> ~has_next_conditional)
  BY <1>1, <1>4, <1>6 DEF AfterElseIf
<1>9. Trailing(AfterElse(m, n)) /\ Pops(AfterElse(m, n))
  <2> DEFINE x == <<Emit(LABEL(m)), Pop>>
             a == IF has_next_statement THEN AroundNext(n) ELSE <<>>
  <2>1. Trailing(x) /\ Pops(x)  BY <1>1, <1>4
  <2>0. x \in Seq(S)  BY <1>2
  <2>2. a \in Seq(S) /\ \A k \in 1..Len(a) : a[k].do = "emit"  BY <1>3, EmptySeq
  <2>3. AfterElse(m, n) = a \o x  BY DEF AfterElse
  <2> HIDE DEF a, x
  <2> QED  BY <2>0, <2>1, <2>2, <2>3, TrailingTogether
<1>10. Trailing(LoopBack(m, n)) /\ Pops(LoopBack(m, n))
  BY <1>1 DEF LoopBack, Trailing, Pops
<1> QED  BY <1>7, <1>8, <1>9, <1>10

------------------------------------------------------------------------------
(* What a step does to the worklist and to the stack.                        *)

(* The head is replaced by q. *)
StepBy(q) ==
  /\ todo # <<>> /\ todo' = q \o Tail(todo)
  /\ q \in Seq(Items') /\ OnlyPop(q) /\ Closes(q) /\ Linked(q)

LEMMA StepByNothing ==
  ASSUME TypeOK, todo # <<>>, todo' = <<>> \o Tail(todo)
  PROVE  StepBy(<<>>) /\ ~Pops(<<>>)
<1>1. <<>> \in Seq(Items') /\ Len(<<>>) = 0  BY EmptySeq
<1> QED  BY <1>1 DEF StepBy, OnlyPop, Closes, Linked, StatementAt, Pops

(* A body and what comes behind it. *)
LEMMA BodyThen ==
  ASSUME NEW s \in Nodes, s.type \in Enclosing, NEW x \in Seq(Items'), Trailing(x)
  PROVE  LET q == Statements(s.body) \o x
         IN  /\ q \in Seq(Items') /\ OnlyPop(q) /\ Closes(q) /\ Linked(q)
             /\ Pops(q) <=> Pops(x)
<1> DEFINE a == Statements(s.body)
<1>1. a \in Seq(Items')  BY BodyItems
<1>2. s.body \in Seq(Nodes) /\ ElsesFollow(s.body)  BY NodeFacts
<1>3. Inner(a) /\ Linked(a)  BY <1>2, StatementsHoldNothing, StatementsLinked
<1>4. OnlyPop(x) /\ Closes(x) /\ Linked(x) /\ ~StatementAt(x, 1) /\ x # <<>>
  BY TrailingFacts DEF Trailing
<1> HIDE DEF a
<1>5. OnlyPop(a \o x) /\ Closes(a \o x) /\ (Pops(a \o x) <=> Pops(x))
  BY <1>1, <1>3, <1>4, Joined
<1>6. Linked(a \o x)  BY <1>1, <1>3, <1>4, LinkedTogether
<1>7. a \o x \in Seq(Items')  BY <1>1, ConcatProperties
<1> QED  BY <1>5, <1>6, <1>7 DEF a

(* The items of a for: its update stands between two labels. *)
LEMMA ForThen ==
  ASSUME NEW s \in Nodes, s.type = "FOR", NEW e \in Items', e.do = "emit",
         NEW x \in Seq(Items'), Trailing(x)
  PROVE  LET q == Statements(s.body) \o <<e>> \o Statements(<<s.update>>) \o x
         IN  /\ q \in Seq(Items') /\ OnlyPop(q) /\ Closes(q) /\ Linked(q)
             /\ Pops(q) <=> Pops(x)
<1> DEFINE a == Statements(s.body)
           u == Statements(<<s.update>>)
<1>1. s.type \in Enclosing  BY DEF Enclosing
<1>2. a \in Seq(Items')  BY <1>1, BodyItems
<1>3. s.body \in Seq(Nodes) /\ ElsesFollow(s.body)  BY <1>1, NodeFacts
<1>4. Inner(a) /\ Linked(a)  BY <1>3, StatementsHoldNothing, StatementsLinked
<1>5. <<s.update>> \in Seq(Nodes) /\ ElsesFollow(<<s.update>>)
  <2>1. s.update \in Nodes /\ s.update.type \notin Conditional  BY NodeFacts DEF Enclosing
  <2> QED  BY <2>1 DEF ElsesFollow
<1>6. Inner(u) /\ Linked(u)  BY <1>5, StatementsHoldNothing, StatementsLinked
<1>7. u \in Seq(Items') /\ Len(u) = 1 /\ u # <<>>
  <2>1. StatementItems \subseteq Items'  BY DEF Items
  <2>2. u \in Seq(StatementItems) /\ Len(u) = Len(<<s.update>>)  BY <1>5, StatementsAreItems
  <2> HIDE DEF u
  <2>3. u \in Seq(Items') /\ Len(u) = 1  BY <2>1, <2>2, SeqMonotonic
  <2> QED  BY <2>3, EmptySeq
<1>8. /\ <<e>> \in Seq(Items') /\ Inner(<<e>>) /\ Linked(<<e>>) /\ Closes(<<e>>)
      /\ ~StatementAt(<<e>>, 1) /\ <<e>> # <<>>
  BY DEF Inner, HolderAt, StatementAt, Linked, Closes
<1>9. OnlyPop(x) /\ Closes(x) /\ Linked(x) /\ ~StatementAt(x, 1) /\ x # <<>>
  BY TrailingFacts DEF Trailing
<1> HIDE DEF a, u
<1> DEFINE b == a \o <<e>>
           c == b \o u
<1>10. b \in Seq(Items') /\ Inner(b) /\ Linked(b) /\ Closes(b)
  BY <1>2, <1>4, <1>8, Joined, LinkedTogether, ConcatProperties
<1> HIDE DEF b
<1>11. c \in Seq(Items') /\ Inner(c) /\ Linked(c)
  BY <1>6, <1>7, <1>10, Joined, LinkedTogether, ConcatProperties
<1> HIDE DEF c
<1>12. OnlyPop(c \o x) /\ Closes(c \o x) /\ (Pops(c \o x) <=> Pops(x))
  BY <1>9, <1>11, Joined
<1>13. Linked(c \o x) /\ c \o x \in Seq(Items')
  BY <1>9, <1>11, LinkedTogether, ConcatProperties
<1> QED  BY <1>12, <1>13 DEF a, u, b, c

(* A condition yields an instruction, or its statement is left. *)
LEMMA GuardForm ==
  ASSUME Plainly, abandoned \in BOOLEAN, NEW S, Plain \subseteq S,
         NEW b, b.table \in Seq(S), b.temporaries \in Nat,
         NEW condition \in Guards, NEW target, NEW items, Guard(b, condition, target, items)
  PROVE  \/ /\ abandoned' = abandoned /\ todo' = items \o Tail(todo)
            /\ \E code \in Seq(Plain), o \in Operands :
                 table' = Append(b.table \o code, IF_FALSE(o, target))
         \/ abandoned' /\ todo' = <<>> \o Tail(todo)
<1> DEFINE built == Expression(b, condition)
           code == ExpressionCode(condition, b.temporaries).table
<1>1. Adds(ExpressionCode(condition, b.temporaries))  BY DEF Plainly, CodeIsPlain
<1>2. /\ built.table = b.table \o code /\ code \in Seq(Plain)
      /\ built.tac \in Plain \cup {None}
  BY <1>1, Continues DEF Expression
<1>3. /\ table' = IF Returns(built) THEN Append(built.table, IF_FALSE(built.tac.result, target))
                  ELSE built.table
      /\ todo' = (IF Returns(built) THEN items ELSE <<>>) \o Tail(todo)
      /\ abandoned' = (abandoned \/ ~Returns(built))
  BY DEF Guard, Then
<1> HIDE DEF built, code
<1>4. CASE ~Returns(built)  BY <1>3, <1>4
<1>5. CASE Returns(built)
  <2>1. built.tac.result \in Operands  BY <1>2, <1>5 DEF Returns, Plain
  <2>2. table' = Append(b.table \o code, IF_FALSE(built.tac.result, target))  BY <1>2, <1>3, <1>5
  <2>3. abandoned' = abandoned /\ todo' = items \o Tail(todo)  BY <1>3, <1>5
  <2>4. code \in Seq(Plain)  BY <1>2
  <2> QED  BY <2>1, <2>2, <2>3, <2>4
<1> QED  BY <1>4, <1>5

NextElse == Len(todo) > 1 /\ todo[2].do = "statement" /\ todo[2].node.type \in Conditional

LEMMA NextElseFacts ==
  ASSUME TypeOK, Linked(todo), todo # <<>>
  PROVE  /\ Head(todo) = todo[1] /\ Len(todo) \in Nat \ {0}
         /\ Head(todo).do = "statement" =>
              /\ has_next_conditional <=> NextElse
              /\ NextElse => node.type \in {"IF", "ELSE_IF"}
              /\ has_next_statement <=> StatementAt(todo, 2)
<1>1. todo \in Seq(Items) /\ Len(todo) \in Nat \ {0} /\ Head(todo) = todo[1]
  BY HeadTailProperties, LenProperties, EmptySeq DEF TypeOK
<1> SUFFICES ASSUME Head(todo).do = "statement"
             PROVE  /\ has_next_conditional <=> NextElse
                    /\ NextElse => node.type \in {"IF", "ELSE_IF"}
                    /\ has_next_statement <=> StatementAt(todo, 2)
  BY <1>1
<1>2. 1 \in 1..Len(todo) /\ 1 + 1 = 2 /\ todo[1].do = "statement" /\ todo[1] = Head(todo)  BY <1>1
<1>3. /\ StatementAt(todo, 2) =>
           /\ next_sibling = todo[2].node.type
           /\ todo[2].node.type \in Conditional => node.type \in {"IF", "ELSE_IF"}
      /\ ~StatementAt(todo, 2) => next_sibling = None
  BY <1>2 DEF Linked, next_sibling, node
<1>4. StatementAt(todo, 2) => todo[2].node.type # None
  <2> SUFFICES ASSUME StatementAt(todo, 2) PROVE todo[2].node.type # None
    OBVIOUS
  <2>1. todo[2] \in Items /\ todo[2].do = "statement"  BY <1>1, ElementOfSeq DEF StatementAt
  <2>2. todo[2].node \in Nodes  BY <2>1 DEF Items, StatementItems, Pop
  <2> QED  BY <2>2, NodesAssumption
<1>5. NextElse <=> StatementAt(todo, 2) /\ todo[2].node.type \in Conditional
  BY <1>1 DEF NextElse, StatementAt
<1>6. None \notin Conditional  BY NodesAssumption
<1> QED  BY <1>3, <1>4, <1>5, <1>6 DEF has_next_conditional, has_next_statement

(* The four things a step does to the stack. *)
Passes(q) ==
  /\ q = <<>> /\ todo[1].do # "pop"
  /\ todo[1].do = "statement" => todo[1].node.type \notin Enclosing
  /\ context_stack' = context_stack /\ abandoned' = abandoned

Leaves(q) ==
  /\ q = <<>> /\ todo[1].do = "pop"
  /\ context_stack' = SubSeq(context_stack, 1, Len(context_stack) - 1) /\ abandoned' = abandoned

Whether(q) ==
  \/ abandoned' = abandoned /\ (Pops(q) <=> ~NextElse)
  \/ abandoned' /\ ~Pops(q)

Opens(q) ==
  /\ todo[1].do = "statement" /\ todo[1].node.type \in {"IF", "WHILE", "FOR"}
  /\ \E c : context_stack' = Push(c)
  /\ Whether(q)

GoesOn(q) ==
  /\ todo[1].do = "statement" /\ todo[1].node.type \in Conditional /\ context_stack # <<>>
  /\ \E c : context_stack' = Replace(c)
  /\ Whether(q)

Moves == \E q : StepBy(q) /\ (Passes(q) \/ Leaves(q) \/ Opens(q) \/ GoesOn(q))

(* A whole statement: its condition, the condition's jump, and its items.   *)
Whole(q, before, target) ==
  /\ abandoned' = abandoned /\ StepBy(q)
  /\ \E code \in Seq(Plain), o \in Operands : table' = Append(before \o code, IF_FALSE(o, target))

Left == abandoned' /\ StepBy(<<>>) /\ ~Pops(<<>>)

LEMMA WholeOrLeft ==
  ASSUME Plainly, TypeOK, todo # <<>>, NEW S, Plain \subseteq S,
         NEW b, b.table \in Seq(S), b.temporaries \in Nat,
         NEW condition \in Guards, NEW target, NEW q, Guard(b, condition, target, q),
         q \in Seq(Items') /\ OnlyPop(q) /\ Closes(q) /\ Linked(q)
  PROVE  Whole(q, b.table, target) \/ Left
<1>1. \/ /\ abandoned' = abandoned /\ todo' = q \o Tail(todo)
         /\ \E code \in Seq(Plain), o \in Operands :
              table' = Append(b.table \o code, IF_FALSE(o, target))
      \/ abandoned' /\ todo' = <<>> \o Tail(todo)
  BY GuardForm DEF TypeOK
<1> QED  BY <1>1, StepByNothing DEF Whole, Left, StepBy

(* The head, when it encloses statements. *)
LEMMA EnclosingHead ==
  ASSUME TypeOK, Linked(todo), todo # <<>>, Head(todo).do = "statement", node.type \in Enclosing
  PROVE  /\ node \in Nodes /\ todo[1] = Head(todo) /\ todo[1].node = node
         /\ node.type \in {"IF", "ELSE_IF", "WHILE"} => node.left \in Guards
         /\ node.type = "FOR" => node.condition \in Guards /\ node.left \in Computes
         /\ table \in Seq(Instruction) /\ Plain \subseteq Instruction
         /\ tac_variable_index \in Nat /\ label_counter \in Nat
BY HeadFacts, NextElseFacts DEF Guards, Computes, TypeOK, Instruction, node

IfOther   == IF has_next_statement THEN label_counter + 1 ELSE None
IfContext == Context("IF", IF has_next_conditional THEN IfOther ELSE None, label_counter, None)
IfTarget  == IF has_next_statement THEN IfOther ELSE label_counter
IfItems   == Statements(node.body) \o AfterIf(label_counter, IfOther)

LEMMA IfForm ==
  ASSUME Plainly, TypeOK, Linked(todo), If
  PROVE  /\ todo[1].do = "statement" /\ todo[1].node = node /\ node \in Nodes /\ node.type = "IF"
         /\ context_stack' = Push(IfContext)
         /\ Pops(IfItems) <=> ~NextElse
         /\ Whole(IfItems, table, IfTarget) \/ Left
<1> DEFINE x == AfterIf(label_counter, IfOther)
           b == Builder(table, tac_variable_index)
<1>1. /\ context_stack' = Push(IfContext)
      /\ label_counter' = generate_labels(IF has_next_statement THEN 2 ELSE 1)
      /\ Guard(b, node.left, IfTarget, IfItems)
      /\ todo # <<>> /\ node.type = "IF" /\ Head(todo).do = "statement"
  BY DEF If, At, node, IfOther, IfContext, IfTarget, IfItems
<1>2. node.type \in Enclosing  BY <1>1 DEF Enclosing
<1>3. /\ label_counter \in Nat
      /\ label_counter' = label_counter + (IF has_next_statement THEN 2 ELSE 1)
  BY <1>1 DEF generate_labels, TypeOK
<1>4. label_counter \in Generated' /\ IfOther \in Generated'
  <2>1. CASE has_next_statement  BY <1>3, <2>1 DEF Generated, IfOther
  <2>2. CASE ~has_next_statement  BY <1>3, <2>2 DEF Generated, IfOther
  <2> QED  BY <2>1, <2>2
<1>5. b.table = table /\ b.temporaries = tac_variable_index  BY DEF Builder
<1> HIDE DEF b
<1>6. x \in Seq(Items') /\ Trailing(x) /\ (Pops(x) <=> ~NextElse)
  BY <1>1, <1>4, AfterItems, AfterTrails, NextElseFacts
<1> HIDE DEF x
<1>7. /\ IfItems \in Seq(Items') /\ OnlyPop(IfItems) /\ Closes(IfItems) /\ Linked(IfItems)
      /\ Pops(IfItems) <=> ~NextElse
  BY <1>1, <1>2, <1>6, EnclosingHead, BodyThen DEF IfItems, x
<1>8. Whole(IfItems, table, IfTarget) \/ Left
  BY <1>1, <1>2, <1>5, <1>7, EnclosingHead, WholeOrLeft
<1> QED  BY <1>1, <1>2, <1>7, <1>8, EnclosingHead

ElseIfOther   == IF has_next_statement THEN label_counter ELSE None
ElseIfContext == Context("ELSE_IF", IF has_next_conditional THEN ElseIfOther ELSE None,
                         Top.end_label, None)
ElseIfTarget  == IF has_next_statement THEN ElseIfOther ELSE Top.end_label
ElseIfItems   == Statements(node.body) \o AfterElseIf(Top.end_label, ElseIfOther)

LEMMA ElseIfForm ==
  ASSUME Plainly, TypeOK, Linked(todo), ElseIf
  PROVE  /\ todo[1].do = "statement" /\ todo[1].node = node /\ node \in Nodes /\ node.type = "ELSE_IF"
         /\ context_stack # <<>> /\ context_stack' = Replace(ElseIfContext)
         /\ Pops(ElseIfItems) <=> ~NextElse
         /\ Whole(ElseIfItems, Append(table, LABEL(Top.next_label)), ElseIfTarget) \/ Left
<1> DEFINE x == AfterElseIf(Top.end_label, ElseIfOther)
           b == Builder(Append(table, LABEL(Top.next_label)), tac_variable_index)
<1>1. /\ context_stack' = Replace(ElseIfContext) /\ context_stack # <<>>
      /\ label_counter' = generate_labels(IF has_next_statement THEN 1 ELSE 0)
      /\ Guard(b, node.left, ElseIfTarget, ElseIfItems)
      /\ todo # <<>> /\ node.type = "ELSE_IF" /\ Head(todo).do = "statement"
  BY DEF ElseIf, At, node, ElseIfOther, ElseIfContext, ElseIfTarget, ElseIfItems
<1>2. node.type \in Enclosing  BY <1>1 DEF Enclosing, Conditional
<1>3. /\ label_counter \in Nat
      /\ label_counter' = label_counter + (IF has_next_statement THEN 1 ELSE 0)
  BY <1>1 DEF generate_labels, TypeOK
<1>4. ElseIfOther \in Generated' /\ Top.end_label \in Generated' /\ Top.next_label \in Generated'
  <2>1. Generated \subseteq Generated'  BY <1>3, Grows
  <2>2. Top.end_label \in Generated' /\ Top.next_label \in Generated'
    BY <1>1, <2>1, TopFacts DEF Contexts
  <2>3. CASE has_next_statement  BY <1>3, <2>2, <2>3 DEF Generated, ElseIfOther
  <2>4. CASE ~has_next_statement  BY <2>2, <2>4 DEF Generated, ElseIfOther
  <2> QED  BY <2>2, <2>3, <2>4
<1>5. /\ b.table = Append(table, LABEL(Top.next_label)) /\ b.temporaries = tac_variable_index
  BY DEF Builder
<1>6. b.table \in Seq(Instruction') /\ b.temporaries \in Nat /\ Plain \subseteq Instruction'
  <2>1. table \in Seq(Instruction')  BY <1>3, Carried
  <2> QED  BY <1>4, <1>5, <2>1, Emitted, AppendProperties DEF TypeOK, Instruction
<1> HIDE DEF b
<1>7. x \in Seq(Items') /\ Trailing(x) /\ (Pops(x) <=> ~NextElse)
  BY <1>1, <1>4, AfterItems, AfterTrails, NextElseFacts
<1> HIDE DEF x
<1>8. /\ ElseIfItems \in Seq(Items') /\ OnlyPop(ElseIfItems) /\ Closes(ElseIfItems)
      /\ Linked(ElseIfItems) /\ (Pops(ElseIfItems) <=> ~NextElse)
  BY <1>1, <1>2, <1>7, EnclosingHead, BodyThen DEF ElseIfItems, x
<1>9. node.left \in Guards  BY <1>1, <1>2, EnclosingHead
<1>10. Whole(ElseIfItems, b.table, ElseIfTarget) \/ Left
  BY <1>1, <1>6, <1>8, <1>9, WholeOrLeft
<1> QED  BY <1>1, <1>2, <1>5, <1>8, <1>10, EnclosingHead

ElseNext  == IF has_next_statement THEN label_counter ELSE None
ElseItems == Statements(node.body) \o AfterElse(Top.end_label, ElseNext)

LEMMA ElseForm ==
  ASSUME TypeOK, Linked(todo), Else
  PROVE  /\ todo[1].do = "statement" /\ todo[1].node = node /\ node \in Nodes /\ node.type = "ELSE"
         /\ context_stack # <<>>
         /\ context_stack' = Replace(Context("ELSE", None, Top.end_label, None))
         /\ table' = Append(table, LABEL(Top.next_label)) /\ abandoned' = abandoned
         /\ Pops(ElseItems) /\ StepBy(ElseItems)
<1> DEFINE x == AfterElse(Top.end_label, ElseNext)
<1>1. /\ context_stack' = Replace(Context("ELSE", None, Top.end_label, None)) /\ context_stack # <<>>
      /\ label_counter' = generate_labels(IF has_next_statement THEN 1 ELSE 0)
      /\ table' = Append(table, LABEL(Top.next_label)) /\ abandoned' = abandoned
      /\ todo' = ElseItems \o Tail(todo)
      /\ todo # <<>> /\ node.type = "ELSE" /\ Head(todo).do = "statement"
  BY DEF Else, At, node, ElseNext, ElseItems, Then
<1>2. node.type \in Enclosing  BY <1>1 DEF Enclosing, Conditional
<1>3. /\ label_counter \in Nat
      /\ label_counter' = label_counter + (IF has_next_statement THEN 1 ELSE 0)
  BY <1>1 DEF generate_labels, TypeOK
<1>4. ElseNext \in Generated' /\ Top.end_label \in Generated'
  <2>1. Generated \subseteq Generated'  BY <1>3, Grows
  <2>2. Top.end_label \in Generated'  BY <1>1, <2>1, TopFacts DEF Contexts
  <2>3. CASE has_next_statement  BY <1>3, <2>2, <2>3 DEF Generated, ElseNext
  <2>4. CASE ~has_next_statement  BY <2>2, <2>4 DEF Generated, ElseNext
  <2> QED  BY <2>2, <2>3, <2>4
<1>5. x \in Seq(Items') /\ Trailing(x) /\ Pops(x)  BY <1>4, AfterItems, AfterTrails
<1> HIDE DEF x
<1>6. /\ ElseItems \in Seq(Items') /\ OnlyPop(ElseItems) /\ Closes(ElseItems)
      /\ Linked(ElseItems) /\ Pops(ElseItems)
  BY <1>1, <1>2, <1>5, EnclosingHead, BodyThen DEF ElseItems, x
<1> QED  BY <1>1, <1>2, <1>6, EnclosingHead DEF StepBy

WhileItems == Statements(node.body) \o LoopBack(label_counter, label_counter + 1)

LEMMA WhileForm ==
  ASSUME Plainly, TypeOK, Linked(todo), While
  PROVE  /\ todo[1].do = "statement" /\ todo[1].node = node /\ node \in Nodes /\ node.type = "WHILE"
         /\ context_stack' = Push(Context("LOOP", None, label_counter + 1, label_counter))
         /\ Pops(WhileItems)
         /\ Whole(WhileItems, Append(table, LABEL(label_counter)), label_counter + 1) \/ Left
<1> DEFINE x == LoopBack(label_counter, label_counter + 1)
           b == Builder(Append(table, LABEL(label_counter)), tac_variable_index)
<1>1. /\ context_stack' = Push(Context("LOOP", None, label_counter + 1, label_counter))
      /\ label_counter' = generate_labels(2)
      /\ Guard(b, node.left, label_counter + 1, WhileItems)
      /\ todo # <<>> /\ node.type = "WHILE" /\ Head(todo).do = "statement"
  BY DEF While, At, node, WhileItems
<1>2. node.type \in Enclosing  BY <1>1 DEF Enclosing
<1>3. label_counter \in Nat /\ label_counter' = label_counter + 2
  BY <1>1 DEF generate_labels, TypeOK
<1>4. label_counter \in Generated' /\ label_counter + 1 \in Generated'  BY <1>3 DEF Generated
<1>5. /\ b.table = Append(table, LABEL(label_counter)) /\ b.temporaries = tac_variable_index
  BY DEF Builder
<1>6. b.table \in Seq(Instruction') /\ b.temporaries \in Nat /\ Plain \subseteq Instruction'
  <2>1. table \in Seq(Instruction')  BY <1>3, Carried
  <2> QED  BY <1>4, <1>5, <2>1, Emitted, AppendProperties DEF TypeOK, Instruction
<1> HIDE DEF b
<1>7. x \in Seq(Items') /\ Trailing(x) /\ Pops(x)  BY <1>4, AfterItems, AfterTrails
<1> HIDE DEF x
<1>8. /\ WhileItems \in Seq(Items') /\ OnlyPop(WhileItems) /\ Closes(WhileItems)
      /\ Linked(WhileItems) /\ Pops(WhileItems)
  BY <1>1, <1>2, <1>7, EnclosingHead, BodyThen DEF WhileItems, x
<1>9. node.left \in Guards  BY <1>1, <1>2, EnclosingHead
<1>10. Whole(WhileItems, b.table, label_counter + 1) \/ Left
  BY <1>1, <1>6, <1>8, <1>9, WholeOrLeft
<1> QED  BY <1>1, <1>2, <1>5, <1>8, <1>10, EnclosingHead

ForItems ==
  Statements(node.body) \o <<Emit(LABEL(label_counter + 1))>> \o Statements(<<node.update>>)
    \o LoopBack(label_counter, label_counter + 2)

LEMMA ForForm ==
  ASSUME Plainly, TypeOK, Linked(todo), For
  PROVE  /\ todo[1].do = "statement" /\ todo[1].node = node /\ node \in Nodes /\ node.type = "FOR"
         /\ context_stack' = Push(ForContext(label_counter, label_counter + 1, label_counter + 2))
         /\ Pops(ForItems)
         /\ \/ \E begun \in Seq(Plain) :
                 Whole(ForItems, Append(table \o begun, LABEL(label_counter)), label_counter + 2)
            \/ Left
<1> DEFINE x == LoopBack(label_counter, label_counter + 2)
           e == Emit(LABEL(label_counter + 1))
           b == Builder(table, tac_variable_index)
           code == StatementCode(node.left, tac_variable_index).table
           begun == Add(Statement(b, node.left), LABEL(label_counter))
<1>1. /\ context_stack' = Push(ForContext(label_counter, label_counter + 1, label_counter + 2))
      /\ label_counter' = generate_labels(3)
      /\ Guard(begun, node.condition, label_counter + 2, ForItems)
      /\ todo # <<>> /\ node.type = "FOR" /\ Head(todo).do = "statement"
  BY DEF For, At, node, ForItems
<1>2. node.type \in Enclosing  BY <1>1 DEF Enclosing
<1>3. label_counter \in Nat /\ label_counter' = label_counter + 3
  BY <1>1 DEF generate_labels, TypeOK
<1>4. /\ label_counter \in Generated' /\ label_counter + 1 \in Generated'
      /\ label_counter + 2 \in Generated'
  BY <1>3 DEF Generated
<1>5. b.table = table /\ b.temporaries = tac_variable_index  BY DEF Builder
<1>6. table \in Seq(Instruction') /\ Plain \subseteq Instruction'
  BY <1>3, Carried DEF Instruction
<1>7. /\ begun.table = Append(table \o code, LABEL(label_counter))
      /\ begun.table \in Seq(Instruction') /\ begun.temporaries \in Nat /\ code \in Seq(Plain)
  <2> DEFINE full  == StatementCode(node.left, tac_variable_index)
             first == Statement(b, node.left)
  <2>1. Adds(full)
    BY <1>1, <1>2, EnclosingHead DEF Plainly, CodeIsPlain
  <2>2. first = Continue(b, full) /\ code = full.table  BY <1>5 DEF Statement
  <2>3. begun = Add(first, LABEL(label_counter))  OBVIOUS
  <2> HIDE DEF full, first, b, code, begun
  <2>4. /\ first.table = table \o code /\ code \in Seq(Plain)
        /\ first.table \in Seq(Instruction')
        /\ first \in [table : Seq(Instruction'), temporaries : Nat, tac : Plain \cup {None}]
    BY <1>5, <1>6, <2>1, <2>2, Continues
  <2>5. begun.table = Append(first.table, LABEL(label_counter)) /\ begun.temporaries = first.temporaries
    BY <2>3, <2>4 DEF Add
  <2>6. LABEL(label_counter) \in Instruction'  BY <1>4, Emitted
  <2> QED  BY <2>4, <2>5, <2>6, AppendProperties
<1> HIDE DEF b, code, begun
<1>8. /\ x \in Seq(Items') /\ Trailing(x) /\ Pops(x)
      /\ e \in Items' /\ e.do = "emit"
  BY <1>4, AfterItems, AfterTrails, Emitted DEF Emit
<1> HIDE DEF x, e
<1>9. /\ ForItems \in Seq(Items') /\ OnlyPop(ForItems) /\ Closes(ForItems)
      /\ Linked(ForItems) /\ Pops(ForItems)
  BY <1>1, <1>2, <1>8, EnclosingHead, ForThen DEF ForItems, x, e
<1>10. node.condition \in Guards  BY <1>1, <1>2, EnclosingHead
<1>11. Whole(ForItems, begun.table, label_counter + 2) \/ Left
  BY <1>1, <1>6, <1>7, <1>9, <1>10, WholeOrLeft
<1> QED  BY <1>1, <1>2, <1>7, <1>9, <1>11, EnclosingHead

LEMMA StepMoves ==
  ASSUME Plainly, TypeOK, Linked(todo), [Translate]_vars
  PROVE  Moves \/ UNCHANGED <<todo, context_stack, abandoned>>
<1>1. CASE EmitItem
  <2>1. /\ todo # <<>> /\ todo[1].do = "emit" /\ todo' = <<>> \o Tail(todo)
        /\ context_stack' = context_stack /\ abandoned' = abandoned
    BY <1>1, NextElseFacts DEF EmitItem, Then
  <2> QED  BY <2>1, StepByNothing DEF Moves, Passes
<1>2. CASE PopContext
  <2>1. /\ todo # <<>> /\ todo[1].do = "pop" /\ todo' = <<>> \o Tail(todo)
        /\ context_stack' = SubSeq(context_stack, 1, Len(context_stack) - 1)
        /\ abandoned' = abandoned
    BY <1>2, NextElseFacts DEF PopContext, Then
  <2> QED  BY <2>1, StepByNothing DEF Moves, Leaves
<1>3. CASE Computing
  <2>1. /\ todo # <<>> /\ todo[1].do = "statement" /\ todo[1].node.type \notin Enclosing
        /\ todo' = <<>> \o Tail(todo)
        /\ context_stack' = context_stack /\ abandoned' = abandoned
    BY <1>3, NextElseFacts DEF Computing, Then, node
  <2> QED  BY <2>1, StepByNothing DEF Moves, Passes
<1>4. CASE If
  <2>1. /\ todo[1].do = "statement" /\ todo[1].node.type = "IF"
        /\ context_stack' = Push(IfContext) /\ (Pops(IfItems) <=> ~NextElse)
        /\ Whole(IfItems, table, IfTarget) \/ Left
    BY <1>4, IfForm
  <2>2. CASE Whole(IfItems, table, IfTarget)
    BY <2>1, <2>2 DEF Moves, Opens, Whether, Whole
  <2>3. CASE Left  BY <2>1, <2>3 DEF Moves, Opens, Whether, Left
  <2> QED  BY <2>1, <2>2, <2>3
<1>5. CASE ElseIf
  <2> DEFINE before == Append(table, LABEL(Top.next_label))
  <2>1. /\ todo[1].do = "statement" /\ todo[1].node.type \in Conditional /\ context_stack # <<>>
        /\ context_stack' = Replace(ElseIfContext) /\ (Pops(ElseIfItems) <=> ~NextElse)
        /\ Whole(ElseIfItems, before, ElseIfTarget) \/ Left
    BY <1>5, ElseIfForm DEF Conditional
  <2>2. CASE Whole(ElseIfItems, before, ElseIfTarget)
    BY <2>1, <2>2 DEF Moves, GoesOn, Whether, Whole
  <2>3. CASE Left  BY <2>1, <2>3 DEF Moves, GoesOn, Whether, Left
  <2> QED  BY <2>1, <2>2, <2>3
<1>6. CASE Else
  <2>1. /\ todo[1].do = "statement" /\ todo[1].node = node /\ node.type = "ELSE"
        /\ context_stack # <<>> /\ abandoned' = abandoned
        /\ context_stack' = Replace(Context("ELSE", None, Top.end_label, None))
        /\ Pops(ElseItems) /\ StepBy(ElseItems)
    BY <1>6, ElseForm
  <2>2. ~NextElse  BY <2>1, NextElseFacts DEF StepBy
  <2>3. todo[1].node.type \in Conditional  BY <2>1 DEF Conditional
  <2> QED  BY <2>1, <2>2, <2>3 DEF Moves, GoesOn, Whether
<1>7. CASE While
  <2> DEFINE before == Append(table, LABEL(label_counter))
             target == label_counter + 1
             c == Context("LOOP", None, label_counter + 1, label_counter)
  <2>1. /\ todo[1].do = "statement" /\ todo[1].node = node /\ node.type = "WHILE"
        /\ context_stack' = Push(c) /\ Pops(WhileItems)
        /\ Whole(WhileItems, before, target) \/ Left
    BY <1>7, WhileForm
  <2> HIDE DEF before, target, c
  <2>2. ~NextElse  BY <2>1, NextElseFacts DEF StepBy, Whole, Left
  <2>3. CASE Whole(WhileItems, before, target)
    BY <2>1, <2>2, <2>3 DEF Moves, Opens, Whether, Whole
  <2>4. CASE Left  BY <2>1, <2>4 DEF Moves, Opens, Whether, Left
  <2> QED  BY <2>1, <2>3, <2>4
<1>8. CASE For
  <2> DEFINE before(begun) == Append(table \o begun, LABEL(label_counter))
             target == label_counter + 2
             c == ForContext(label_counter, label_counter + 1, label_counter + 2)
  <2>1. /\ todo[1].do = "statement" /\ todo[1].node = node /\ node.type = "FOR"
        /\ context_stack' = Push(c) /\ Pops(ForItems)
        /\ (\E begun \in Seq(Plain) : Whole(ForItems, before(begun), target)) \/ Left
    BY <1>8, ForForm
  <2> HIDE DEF before, target, c
  <2>2. ~NextElse  BY <2>1, NextElseFacts DEF StepBy, Whole, Left
  <2>3. CASE \E begun \in Seq(Plain) : Whole(ForItems, before(begun), target)
    BY <2>1, <2>2, <2>3 DEF Moves, Opens, Whether, Whole
  <2>4. CASE Left  BY <2>1, <2>4 DEF Moves, Opens, Whether, Left
  <2> QED  BY <2>1, <2>3, <2>4
<1>9. CASE Jump
  <2>1. /\ todo # <<>> /\ todo[1].do = "statement" /\ todo[1].node.type \in Jumps
        /\ todo' = <<>> \o Tail(todo)
        /\ context_stack' = context_stack /\ abandoned' = abandoned
    BY <1>9, NextElseFacts DEF Jump, At, Then, Jumps
  <2>2. todo[1].node.type \notin Enclosing  BY <2>1 DEF Jumps, Enclosing, Conditional
  <2> QED  BY <2>1, <2>2, StepByNothing DEF Moves, Passes
<1>10. CASE FinishBuild  BY <1>10 DEF FinishBuild, building
<1>11. CASE UNCHANGED vars  BY <1>11 DEF vars, building
<1> QED
  BY <1>1, <1>2, <1>3, <1>4, <1>5, <1>6, <1>7, <1>8, <1>9, <1>10, <1>11 DEF Translate

LEMMA LinkedStep ==
  ASSUME Plainly, TypeOK, Linked(todo), [Translate]_vars
  PROVE  Linked(todo')
<1> DEFINE S == Items \cup Items'
<1>1. CASE UNCHANGED todo  BY <1>1
<1>2. ASSUME NEW q, StepBy(q) PROVE Linked(todo')
  <2>1. todo # <<>> /\ todo' = q \o Tail(todo) /\ q \in Seq(S) /\ Closes(q) /\ Linked(q)
    BY <1>2, SeqMonotonic DEF StepBy
  <2>2. todo \in Seq(S)  BY SeqMonotonic DEF TypeOK
  <2> HIDE DEF S
  <2>3. Tail(todo) \in Seq(S) /\ Linked(Tail(todo))
    BY <2>1, <2>2, HeadTailProperties, LinkedTail
  <2> QED  BY <2>1, <2>3, LinkedTogether
<1> QED  BY <1>1, <1>2, StepMoves DEF Moves

(* The holders after a step: the head is gone, an else that stands next is   *)
(* waiting now, and the new items may end in a pop.                          *)
LEMMA HoldersAfter ==
  ASSUME TypeOK, NEW q, StepBy(q)
  PROVE  LET L == Len(todo)
             F == FromEnd(todo)
         IN  /\ L \in Nat \ {0} /\ F \subseteq 1..L
             /\ L \in F <=> Starts(todo[1])
             /\ NextElse => L - 1 \in 1..(L - 1) /\ (L - 1 \in F <=> todo[1].do # "statement")
             /\ FromEnd(todo') = (F \ {L}) \cup (IF NextElse THEN {L - 1} ELSE {})
                                   \cup (IF Pops(q) THEN {L} ELSE {})
             /\ Len(todo') = Len(q) + L - 1
             /\ \A n \in 1..Len(q) : todo'[n] = q[n]
             /\ \A m \in 1..(L - 1) : todo'[Len(todo') + 1 - m] = todo[L + 1 - m]
<1> DEFINE S == Items \cup Items'
           L == Len(todo)
           F == FromEnd(todo)
<1>1. todo # <<>> /\ todo' = q \o Tail(todo) /\ q \in Seq(S) /\ todo \in Seq(S)
  BY SeqMonotonic DEF StepBy, TypeOK
<1>2. L \in Nat \ {0} /\ F \subseteq 1..L  BY <1>1, LenProperties, EmptySeq DEF FromEnd
<1> HIDE DEF S
<1>3. /\ Len(todo') = Len(q) + L - 1
      /\ \A n \in 1..Len(q) : todo'[n] = q[n]
      /\ \A m \in 1..(L - 1) : todo'[Len(todo') + 1 - m] = todo[L + 1 - m]
      /\ FromEnd(todo') = (F \ {L - 1, L})
                             \cup (IF L > 1 /\ Starts(todo[2]) THEN {L - 1} ELSE {})
                             \cup (IF Pops(q) THEN {L} ELSE {})
      /\ L \in F <=> Starts(todo[1])
      /\ L - 1 \in F <=> L > 1 /\ Starts(todo[2]) /\ (todo[2].do = "pop" \/ todo[1].do # "statement")
  BY <1>1, Replacing DEF StepBy
<1>4. NextElse <=> L > 1 /\ todo[2].do = "statement" /\ todo[2].node.type \in Conditional
  BY DEF NextElse
<1>5. NextElse => Starts(todo[2]) /\ L - 1 \in 1..(L - 1)  BY <1>2, <1>4 DEF Starts
<1>6. ~NextElse => (L > 1 /\ Starts(todo[2]) <=> L > 1 /\ todo[2].do = "pop")
  BY <1>4 DEF Starts
<1>7. ~NextElse => (L - 1 \in F <=> L > 1 /\ Starts(todo[2]))  BY <1>3, <1>6
<1>8. NextElse => (L - 1 \in F <=> todo[1].do # "statement")  BY <1>3, <1>4, <1>5
<1>9. FromEnd(todo') = (F \ {L}) \cup (IF NextElse THEN {L - 1} ELSE {})
                         \cup (IF Pops(q) THEN {L} ELSE {})
  <2>1. L \notin {L - 1}  BY <1>2
  <2>2. (F \ {L - 1, L}) \cup (IF L > 1 /\ Starts(todo[2]) THEN {L - 1} ELSE {})
          = (F \ {L}) \cup (IF NextElse THEN {L - 1} ELSE {})
    <3>1. CASE NextElse  BY <1>4, <1>5, <3>1
    <3>2. CASE ~NextElse  BY <1>7, <2>1, <3>2
    <3> QED  BY <3>1, <3>2
  <2> QED  BY <1>3, <2>2
<1> QED  BY <1>2, <1>3, <1>5, <1>8, <1>9

------------------------------------------------------------------------------
(* One context for each statement being translated.                          *)

Balanced ==
  /\ Cardinality(FromEnd(todo)) <= Len(context_stack)
  /\ ~abandoned => Cardinality(FromEnd(todo)) = Len(context_stack)

(* Adding and removing one place. *)
LEMMA CountFacts ==
  \A F, x, y : IsFiniteSet(F) /\ x # y =>
    /\ Cardinality(F) \in Nat
    /\ x \in F => Cardinality(F \ {x}) = Cardinality(F) - 1
    /\ x \notin F => Cardinality(F \cup {x}) = Cardinality(F) + 1
    /\ y \notin F => Cardinality((F \ {x}) \cup {y}) = Cardinality(F \ {x}) + 1
    /\ Cardinality(F \ {x}) \in Nat
    /\ Cardinality((F \ {x}) \cup {y}) <= Cardinality(F \ {x}) + 1
<1> TAKE F, x, y
<1> HAVE IsFiniteSet(F) /\ x # y
<1>1. IsFiniteSet(F \ {x}) /\ Cardinality(F) \in Nat /\ Cardinality(F \ {x}) \in Nat
  BY FS_RemoveElement, FS_CardinalityType
<1>2. x \in F => Cardinality(F \ {x}) = Cardinality(F) - 1  BY FS_RemoveElement
<1>3. x \notin F => Cardinality(F \cup {x}) = Cardinality(F) + 1  BY FS_AddElement
<1>4. Cardinality((F \ {x}) \cup {y}) =
        IF y \in F \ {x} THEN Cardinality(F \ {x}) ELSE Cardinality(F \ {x}) + 1
  BY <1>1, FS_AddElement
<1> QED  BY <1>1, <1>2, <1>3, <1>4

(* The stack by its length. *)
LEMMA StackLengths ==
  ASSUME TypeOK
  PROVE  /\ Len(context_stack) \in Nat
         /\ \A c : Len(Push(c)) = Len(context_stack) + 1
         /\ \A c : Len(Replace(c)) = Len(context_stack)
         /\ Len(context_stack) > 0 =>
              Len(SubSeq(context_stack, 1, Len(context_stack) - 1)) = Len(context_stack) - 1
<1>1. context_stack \in Seq(Contexts) /\ Len(context_stack) \in Nat  BY LenProperties DEF TypeOK
<1>2. \A c : Len(Push(c)) = Len(context_stack) + 1
  <2> TAKE c
  <2>1. context_stack \in Seq(Contexts \cup {c})  BY <1>1, SeqMonotonic
  <2> QED  BY <2>1, AppendProperties DEF Push
<1>3. \A c : Len(Replace(c)) = Len(context_stack)
  BY <1>1 DEF Replace
<1>4. Len(context_stack) > 0 =>
        Len(SubSeq(context_stack, 1, Len(context_stack) - 1)) = Len(context_stack) - 1
  <2> SUFFICES ASSUME Len(context_stack) > 0
               PROVE  Len(SubSeq(context_stack, 1, Len(context_stack) - 1)) = Len(context_stack) - 1
    OBVIOUS
  <2>1. Len(context_stack) - 1 \in Nat /\ \A n \in 1..(Len(context_stack) - 1) : n \in 1..Len(context_stack)
    BY <1>1
  <2>2. \A n \in 1..(Len(context_stack) - 1) : context_stack[n] \in Contexts
    BY <1>1, <2>1, ElementOfSeq
  <2> DEFINE k == Len(context_stack) - 1
  <2>3. k \in Nat /\ 1 \in Int /\ k \in Int /\ \A n \in 1..k : context_stack[n] \in Contexts
    BY <2>1, <2>2
  <2> HIDE DEF k
  <2>4. Len(SubSeq(context_stack, 1, k)) = IF 1 <= k THEN k - 1 + 1 ELSE 0
    BY <2>3, SubSeqProperties
  <2>5. Len(SubSeq(context_stack, 1, k)) = k  BY <2>3, <2>4
  <2> QED  BY <2>5 DEF k
<1> QED  BY <1>1, <1>2, <1>3, <1>4

LEMMA BalancedStep ==
  ASSUME Plainly, TypeOK, Linked(todo), Balanced, [Translate]_vars
  PROVE  Balanced'
<1> DEFINE L == Len(todo)
           F == FromEnd(todo)
           G == FromEnd(todo')
           n == Len(context_stack)
<1>1. CASE UNCHANGED <<todo, context_stack, abandoned>>  BY <1>1 DEF Balanced, FromEnd, HolderAt, StatementAt
<1>2. ASSUME NEW q, StepBy(q), Passes(q) \/ Leaves(q) \/ Opens(q) \/ GoesOn(q)
      PROVE  Cardinality(G) <= Len(context_stack') /\ (~abandoned' => Cardinality(G) = Len(context_stack'))
  <2>1. /\ L \in Nat \ {0}
        /\ L \in F <=> Starts(todo[1])
        /\ NextElse => (L - 1 \in F <=> todo[1].do # "statement")
        /\ G = (F \ {L}) \cup (IF NextElse THEN {L - 1} ELSE {}) \cup (IF Pops(q) THEN {L} ELSE {})
        /\ NextElse => L - 1 \in 1..(L - 1)
    BY <1>2, HoldersAfter
  <2>2. IsFiniteSet(F)  BY HoldersFromEnd DEF TypeOK
  <2>3. L # L - 1  BY <2>1
  <2>4. /\ n \in Nat /\ \A c : Len(Push(c)) = n + 1 /\ Len(Replace(c)) = n
        /\ n > 0 => Len(SubSeq(context_stack, 1, n - 1)) = n - 1
    BY StackLengths
  <2>5. Cardinality(F) <= n /\ (~abandoned => Cardinality(F) = n)  BY DEF Balanced
  <2>6. abandoned \in BOOLEAN  BY DEF TypeOK
  <2> HIDE DEF L, F, G, n
  <2>7. /\ Cardinality(F) \in Nat
        /\ L \in F => Cardinality(F \ {L}) = Cardinality(F) - 1
        /\ L \notin F => Cardinality(F \cup {L}) = Cardinality(F) + 1
        /\ L - 1 \notin F => Cardinality((F \ {L}) \cup {L - 1}) = Cardinality(F \ {L}) + 1
        /\ Cardinality(F \ {L}) \in Nat
        /\ Cardinality((F \ {L}) \cup {L - 1}) <= Cardinality(F \ {L}) + 1
    BY <2>2, <2>3, CountFacts
  <2>8. (L \notin F => F \ {L} = F) /\ (L \in F => (F \ {L}) \cup {L} = F)
    OBVIOUS
  <2>9. CASE Passes(q)
    <3>1. ~Starts(todo[1]) /\ ~Pops(q)
      BY <2>9 DEF Passes, Starts, Pops, Enclosing
    <3>2. G = (F \ {L}) \cup (IF NextElse THEN {L - 1} ELSE {})  BY <2>1, <3>1
    <3>3. G = F
      <4>1. CASE todo[1].do = "statement"
        <5>1. todo # <<>> /\ todo[1].node.type \notin Enclosing
          BY <1>2, <2>9, <4>1 DEF StepBy, Passes
        <5>2. Head(todo) = todo[1] /\ node = todo[1].node  BY <5>1, NextElseFacts DEF node
        <5>3. ~NextElse  BY <4>1, <5>1, <5>2, NextElseFacts DEF Enclosing, Conditional
        <5> QED  BY <2>1, <2>7, <2>8, <3>1, <3>2, <5>3
      <4>2. CASE todo[1].do # "statement"
        <5>1. NextElse => L - 1 \in F  BY <2>1, <4>2
        <5> QED  BY <2>1, <2>7, <2>8, <3>1, <3>2, <5>1
      <4> QED  BY <4>1, <4>2
    <3> QED  BY <2>5, <2>9, <3>3 DEF Passes, n
  <2>10. CASE Leaves(q)
    <3>1. Starts(todo[1]) /\ ~Pops(q)  BY <2>10 DEF Leaves, Starts, Pops
    <3>2. L \in F  BY <2>1, <3>1
    <3>3. NextElse => L - 1 \in F \ {L}  BY <2>1, <2>3, <2>10 DEF Leaves
    <3>4. G = F \ {L}  BY <2>1, <3>1, <3>3
    <3>5. Cardinality(F) > 0  BY <2>7, <2>8, <3>2
    <3>6. Len(context_stack') = n - 1  BY <2>4, <2>5, <2>7, <2>8, <2>10, <3>5 DEF Leaves, n
    <3> QED  BY <2>4, <2>5, <2>7, <2>8, <2>10, <3>2, <3>4, <3>6 DEF Leaves
  <2>11. CASE Opens(q)
    <3>1. ~Starts(todo[1]) /\ todo[1].do = "statement"
      BY <2>11 DEF Opens, Starts, Conditional
    <3>2. L \notin F /\ (NextElse => L - 1 \notin F) /\ F \ {L} = F  BY <2>1, <2>7, <2>8, <3>1
    <3>3. Len(context_stack') = n + 1  BY <2>4, <2>11 DEF Opens
    <3>4. CASE abandoned' = abandoned /\ (Pops(q) <=> ~NextElse)
      <4>1. Cardinality(G) = Cardinality(F) + 1
        <5>1. CASE NextElse  BY <2>1, <2>7, <2>8, <3>2, <3>4, <5>1
        <5>2. CASE ~NextElse  BY <2>1, <2>7, <2>8, <3>2, <3>4, <5>2
        <5> QED  BY <5>1, <5>2
      <4> QED  BY <2>4, <2>5, <2>7, <2>8, <3>3, <3>4, <4>1
    <3>5. CASE abandoned' /\ ~Pops(q)
      <4>1. G = F \/ G = (F \ {L}) \cup {L - 1}  BY <2>1, <3>2, <3>5
      <4>2. Cardinality(G) <= Cardinality(F) + 1
        <5>1. CASE G = F  BY <2>7, <2>8, <5>1
        <5>2. CASE G = (F \ {L}) \cup {L - 1}  BY <2>7, <2>8, <3>2, <5>2
        <5> QED  BY <4>1, <5>1, <5>2
      <4>3. Cardinality(G) \in Nat
        <5>1. CASE G = F  BY <2>7, <2>8, <5>1
        <5>2. CASE G = (F \ {L}) \cup {L - 1}
          BY <2>2, <5>2, FS_RemoveElement, FS_AddElement, FS_CardinalityType
        <5> QED  BY <4>1, <5>1, <5>2
      <4> QED  BY <2>4, <2>5, <2>7, <2>8, <3>3, <3>5, <4>2, <4>3
    <3> QED  BY <2>11, <3>4, <3>5 DEF Opens, Whether
  <2>12. CASE GoesOn(q)
    <3>1. Starts(todo[1]) /\ todo[1].do = "statement"
      BY <2>12 DEF GoesOn, Starts
    <3>2. L \in F /\ (NextElse => L - 1 \notin F)  BY <2>1, <3>1
    <3>3. Len(context_stack') = n  BY <2>4, <2>12 DEF GoesOn
    <3>4. CASE abandoned' = abandoned /\ (Pops(q) <=> ~NextElse)
      <4>1. Cardinality(G) = Cardinality(F)
        <5>1. CASE NextElse
          <6>1. G = (F \ {L}) \cup {L - 1}  BY <2>1, <3>4, <5>1
          <6> QED  BY <2>7, <2>8, <3>2, <5>1, <6>1
        <5>2. CASE ~NextElse
          <6>1. G = (F \ {L}) \cup {L}  BY <2>1, <3>4, <5>2
          <6> QED  BY <2>7, <2>8, <3>2, <6>1
        <5> QED  BY <5>1, <5>2
      <4> QED  BY <2>5, <3>3, <3>4, <4>1
    <3>5. CASE abandoned' /\ ~Pops(q)
      <4>1. G = F \ {L} \/ (NextElse /\ G = (F \ {L}) \cup {L - 1})  BY <2>1, <3>5
      <4>2. Cardinality(G) <= Cardinality(F) /\ Cardinality(G) \in Nat
        <5>1. CASE G = F \ {L}  BY <2>7, <2>8, <3>2, <5>1
        <5>2. CASE NextElse /\ G = (F \ {L}) \cup {L - 1}
          <6>1. Cardinality(G) = Cardinality(F \ {L}) + 1  BY <2>7, <2>8, <3>2, <5>2
          <6> QED  BY <2>7, <2>8, <3>2, <6>1
        <5> QED  BY <4>1, <5>1, <5>2
      <4> QED  BY <2>4, <2>5, <2>7, <2>8, <3>3, <3>5, <4>2
    <3> QED  BY <2>12, <3>4, <3>5 DEF GoesOn, Whether
  <2> QED  BY <1>2, <2>9, <2>10, <2>11, <2>12
<1>3. \/ UNCHANGED <<todo, context_stack, abandoned>>
      \/ Cardinality(G) <= Len(context_stack') /\ (~abandoned' => Cardinality(G) = Len(context_stack'))
  BY <1>2, StepMoves DEF Moves
<1>4. G = FromEnd(todo)'  BY DEF FromEnd, HolderAt, StatementAt
<1> QED  BY <1>1, <1>3, <1>4 DEF Balanced

LEMMA BalancedInit ==
  ASSUME Start
  PROVE  Linked(todo) /\ Balanced
<1>1. /\ program.body \in Seq(Nodes) /\ ElsesFollow(program.body)
      /\ todo = Statements(program.body) /\ context_stack = <<>>
  BY DEF Start, Blocks
<1>2. Linked(todo) /\ Inner(todo)  BY <1>1, StatementsHoldNothing, StatementsLinked
<1>3. todo \in Seq(Items)  BY TypeInit DEF TypeOK
<1>4. FromEnd(todo) = {}
  <2> SUFFICES ASSUME NEW m \in 1..Len(todo) PROVE ~HolderAt(todo, Len(todo) + 1 - m)
    BY DEF FromEnd
  <2>1. Len(todo) + 1 - m \in 1..Len(todo)  BY <1>3, LenProperties
  <2> QED  BY <1>2, <2>1 DEF Inner
<1>5. Cardinality(FromEnd(todo)) = 0 /\ Len(context_stack) = 0  BY <1>1, <1>4, FS_EmptySet
<1> QED  BY <1>2, <1>5 DEF Balanced

(***************************************************************************)
(* tac_context_stack holds one context for each statement being            *)
(* translated, and no more of them unless a condition yielded nothing, so  *)
(* an else never finds it empty.                                           *)
(***************************************************************************)
THEOREM ContextsAreBalanced ==
  ASSUME CodeIsPlain(Nat)
  PROVE  Spec => []ContextsBalanced
<1> DEFINE Inv == TypeOK /\ Linked(todo) /\ Balanced
<1>1. Plainly  BY DEF Plainly
<1>2. Start => Inv  BY TypeInit, BalancedInit
<1>3. Inv /\ [Translate]_vars => Inv'
  BY <1>1, TypeStep, LinkedStep, BalancedStep DEF Linked, StatementAt
<1>4. Inv => ContextsBalanced  BY HoldersFromEnd DEF ContextsBalanced, Balanced, TypeOK
<1> HIDE DEF Inv
<1> QED  BY <1>2, <1>3, <1>4, PTL DEF Spec

------------------------------------------------------------------------------
(* Where a label is, or is going to be: in the table, in an item that emits  *)
(* it, or with an else that waits.                                           *)

Item(s, m) == s[Len(s) + 1 - m]
Rank(s, m) == Cardinality(FromEnd(s) \cap (1..m))

Stands(t, l) == \E k \in 1..Len(t) : t[k].kind = "LABEL" /\ t[k].result = l
Comes(s, l)  == \E k \in 1..Len(s) : /\ s[k].do = "emit"
                                     /\ s[k].ins.kind = "LABEL" /\ s[k].ins.result = l
Waits(s, stack, l) ==
  \E m \in FromEnd(s) : /\ Item(s, m).do = "statement"
                        /\ l \in {Label(stack[Rank(s, m)].next_label),
                                  Label(stack[Rank(s, m)].end_label)}

Met(l)     == Stands(table, l) \/ Comes(todo, l) \/ Waits(todo, context_stack, l)
MetNext(l) == Stands(table', l) \/ Comes(todo', l) \/ Waits(todo', context_stack', l)

(* A jump goes to a label of J. *)
Within(ins, J) == (ins.kind = "GOTO" => ins.result \in J) /\ (ins.kind = "IF_FALSE" => ins.op2 \in J)

(* u is t and more, whose jumps go to J. *)
Grown(t, u, J) ==
  /\ \A k \in 1..Len(t) : k \in 1..Len(u) /\ u[k] = t[k]
  /\ \A k \in 1..Len(u) : k \in 1..Len(t) \/ Within(u[k], J)

OnlyEmits(q, J) == \A k \in 1..Len(q) : q[k].do = "emit" => Within(q[k].ins, J)
Emits(q, l)     == \E k \in 1..Len(q) : q[k] = Emit(LABEL(l))

(* An if is followed by something, and an else if by nothing or an else. *)
Ended(s) ==
  \A k \in 1..Len(s) :
    s[k].do = "statement" =>
      /\ s[k].node.type = "IF" => s[k].next # None
      /\ s[k].node.type = "ELSE_IF" /\ s[k].next # None => s[k].next \in Conditional

LEMMA GrownItself ==
  ASSUME NEW t, NEW J
  PROVE  Grown(t, t, J)
BY DEF Grown

LEMMA GrownByOne ==
  ASSUME NEW S, NEW t \in Seq(S), NEW u \in Seq(S), NEW J, Grown(t, u, J),
         NEW ins \in S, Within(ins, J)
  PROVE  Grown(t, Append(u, ins), J)
<1> DEFINE v == Append(u, ins)
<1>1. /\ Len(u) \in Nat /\ Len(v) = Len(u) + 1 /\ v[Len(u) + 1] = ins
      /\ \A k \in 1..Len(u) : v[k] = u[k]
  BY AppendProperties, LenProperties
<1> HIDE DEF v
<1>2. \A k \in 1..Len(u) : k \in 1..Len(v)  BY <1>1
<1>3. \A k \in 1..Len(v) : k \in 1..Len(u) \/ k = Len(u) + 1  BY <1>1
<1> QED  BY <1>1, <1>2, <1>3 DEF Grown, v

LEMMA GrownByCode ==
  ASSUME NEW S, Plain \subseteq S, NEW t \in Seq(S), NEW u \in Seq(S), NEW J, Grown(t, u, J),
         NEW code \in Seq(Plain)
  PROVE  Grown(t, u \o code, J) /\ u \o code \in Seq(S)
<1> DEFINE v == u \o code
<1>1. code \in Seq(S)  BY SeqMonotonic
<1>2. /\ Len(u) \in Nat /\ Len(code) \in Nat /\ Len(v) = Len(u) + Len(code) /\ v \in Seq(S)
      /\ \A k \in 1..Len(u) : v[k] = u[k]
      /\ \A k \in 1..Len(code) : v[Len(u) + k] = code[k]
  BY <1>1, ConcatProperties, LenProperties
<1> HIDE DEF v
<1>3. \A k \in 1..Len(u) : k \in 1..Len(v)  BY <1>2
<1>4. \A k \in 1..Len(v) : k \in 1..Len(u) \/ (k - Len(u) \in 1..Len(code) /\ Len(u) + (k - Len(u)) = k)
  BY <1>2
<1>5. \A ins \in Plain : Within(ins, J)  BY DEF Plain, ComputingKinds, Within, ArithmeticNodes,
        BooleanNodes, UnaryNodes, LiteralNodes
<1>6. \A k \in 1..Len(code) : code[k] \in Plain  BY ElementOfSeq
<1> QED  BY <1>2, <1>3, <1>4, <1>5, <1>6 DEF Grown, v

LEMMA StandsOn ==
  ASSUME NEW t, NEW u, NEW J, Grown(t, u, J), NEW l, Stands(t, l)
  PROVE  Stands(u, l)
BY DEF Grown, Stands

LEMMA StandsLast ==
  ASSUME NEW S, NEW t \in Seq(S), NEW n
  PROVE  Stands(Append(t, LABEL(n)), Label(n))
<1>1. t \in Seq(S \cup {LABEL(n)})  BY SeqMonotonic
<1>2. /\ Len(t) + 1 \in 1..Len(Append(t, LABEL(n))) /\ Append(t, LABEL(n))[Len(t) + 1] = LABEL(n)
  BY <1>1, AppendProperties, LenProperties
<1>3. LABEL(n).kind = "LABEL" /\ LABEL(n).result = Label(n)  BY DEF LABEL, Ins
<1> QED  BY <1>2, <1>3 DEF Stands

LEMMA ItemsTogether ==
  ASSUME NEW S, NEW a \in Seq(S), NEW b \in Seq(S)
  PROVE  /\ \A J : OnlyEmits(a, J) /\ OnlyEmits(b, J) => OnlyEmits(a \o b, J)
         /\ \A l : Emits(a, l) \/ Emits(b, l) => Emits(a \o b, l)
         /\ Ended(a) /\ Ended(b) => Ended(a \o b)
<1> DEFINE j == a \o b
<1>1. /\ Len(a) \in Nat /\ Len(b) \in Nat /\ Len(j) = Len(a) + Len(b)
      /\ \A n \in 1..Len(a) : j[n] = a[n]
      /\ \A n \in 1..Len(b) : j[Len(a) + n] = b[n]
  BY ConcatProperties, LenProperties
<1> HIDE DEF j
<1>2. \A n \in 1..Len(j) : \/ n \in 1..Len(a) /\ j[n] = a[n]
                           \/ n - Len(a) \in 1..Len(b) /\ j[n] = b[n - Len(a)]
  <2> TAKE n \in 1..Len(j)
  <2>1. CASE n \in 1..Len(a)  BY <1>1, <2>1
  <2>2. CASE n \notin 1..Len(a)
    <3>1. n - Len(a) \in 1..Len(b) /\ Len(a) + (n - Len(a)) = n  BY <1>1, <2>2
    <3> QED  BY <1>1, <3>1
  <2> QED  BY <2>1, <2>2
<1>3. \A J : OnlyEmits(a, J) /\ OnlyEmits(b, J) => OnlyEmits(j, J)  BY <1>2 DEF OnlyEmits
<1>4. ASSUME NEW l, Emits(a, l) \/ Emits(b, l) PROVE Emits(j, l)
  <2>1. ASSUME NEW n \in 1..Len(a), a[n] = Emit(LABEL(l)) PROVE Emits(j, l)
    <3>1. n \in 1..Len(j) /\ j[n] = a[n]  BY <1>1
    <3> QED  BY <2>1, <3>1 DEF Emits
  <2>2. ASSUME NEW n \in 1..Len(b), b[n] = Emit(LABEL(l)) PROVE Emits(j, l)
    <3>1. Len(a) + n \in 1..Len(j) /\ j[Len(a) + n] = b[n]  BY <1>1
    <3> QED  BY <2>2, <3>1 DEF Emits
  <2> QED  BY <1>4, <2>1, <2>2 DEF Emits
<1>5. Ended(a) /\ Ended(b) => Ended(j)  BY <1>2 DEF Ended
<1> QED  BY <1>3, <1>4, <1>5 DEF j

LEMMA BodyFacts ==
  ASSUME NEW body \in Seq(Nodes)
  PROVE  /\ \A J : OnlyEmits(Statements(body), J)
         /\ ChainsEnd(body) => Ended(Statements(body))
<1> DEFINE s == Statements(body)
<1>1. /\ Len(body) \in Nat /\ Len(s) = Len(body)
      /\ \A k \in 1..Len(body) : /\ s[k].do = "statement" /\ s[k].node = body[k]
                                 /\ s[k].next = Sibling(body, k)
  BY StatementsAreItems, LenProperties
<1> HIDE DEF s
<1>2. \A J : OnlyEmits(s, J)  BY <1>1 DEF OnlyEmits
<1>3. ASSUME ChainsEnd(body) PROVE Ended(s)
  <2> SUFFICES ASSUME NEW k \in 1..Len(body)
               PROVE  /\ body[k].type = "IF" => Sibling(body, k) # None
                      /\ body[k].type = "ELSE_IF" /\ Sibling(body, k) # None =>
                           Sibling(body, k) \in Conditional
    BY <1>1 DEF Ended
  <2>1. CASE k < Len(body)
    <3>1. k + 1 \in 1..Len(body)  BY <1>1, <2>1
    <3>2. body[k + 1].type # None  BY <3>1, ElementOfSeq, NodeFacts
    <3> QED  BY <1>3, <2>1, <3>2 DEF ChainsEnd, Sibling
  <2>2. CASE ~(k < Len(body))  BY <1>3, <2>2 DEF ChainsEnd, Sibling
  <2> QED  BY <2>1, <2>2
<1> QED  BY <1>2, <1>3 DEF s

LEMMA TrailingEnds ==
  ASSUME NEW x, Trailing(x)
  PROVE  Ended(x)
BY DEF Trailing, Ended

LEMMA AfterEmits ==
  ASSUME NEW m, NEW n
  PROVE  /\ has_next_conditional =>
              OnlyEmits(AfterIf(m, n), {Label(m)}) /\ OnlyEmits(AfterElseIf(m, n), {Label(m)})
         /\ has_next_statement /\ ~has_next_conditional =>
              OnlyEmits(AfterIf(m, n), {Label(n)}) /\ Emits(AfterIf(m, n), n)
         /\ ~has_next_statement /\ ~has_next_conditional =>
              OnlyEmits(AfterElseIf(m, n), {}) /\ Emits(AfterElseIf(m, n), m)
         /\ has_next_statement => OnlyEmits(AfterElse(m, n), {Label(n)}) /\ Emits(AfterElse(m, n), n)
         /\ ~has_next_statement => OnlyEmits(AfterElse(m, n), {})
         /\ Emits(AfterElse(m, n), m)
         /\ OnlyEmits(LoopBack(m, n), {Label(m)}) /\ Emits(LoopBack(m, n), n)
<1> DEFINE S == {Pop, Emit(GOTO(m)), Emit(LABEL(m)), Emit(GOTO(n)), Emit(LABEL(n))}
<1>1. /\ Pop.do # "emit"
      /\ \A l, J : Within(Emit(LABEL(l)).ins, J)
      /\ \A l, J : Label(l) \in J => Within(Emit(GOTO(l)).ins, J)
  BY DEF Pop, Emit, LABEL, GOTO, Ins, Within
<1>2. /\ Pop \in S /\ Emit(GOTO(m)) \in S /\ Emit(LABEL(m)) \in S
      /\ Emit(GOTO(n)) \in S /\ Emit(LABEL(n)) \in S
  OBVIOUS
<1> HIDE DEF S
<1>3. /\ <<Emit(GOTO(m))>> \in Seq(S) /\ OnlyEmits(<<Emit(GOTO(m))>>, {Label(m)})
  BY <1>1, <1>2 DEF OnlyEmits
<1>4. /\ AroundNext(n) \in Seq(S) /\ OnlyEmits(AroundNext(n), {Label(n)}) /\ Emits(AroundNext(n), n)
  BY <1>1, <1>2 DEF AroundNext, OnlyEmits, Emits
<1>5. /\ <<Pop>> \in Seq(S) /\ \A J : OnlyEmits(<<Pop>>, J)
  BY <1>1, <1>2 DEF OnlyEmits
<1>6. /\ <<Emit(LABEL(m)), Pop>> \in Seq(S) /\ (\A J : OnlyEmits(<<Emit(LABEL(m)), Pop>>, J))
      /\ Emits(<<Emit(LABEL(m)), Pop>>, m)
  BY <1>1, <1>2 DEF OnlyEmits, Emits
<1>7. OnlyEmits(AroundNext(n) \o <<Pop>>, {Label(n)}) /\ Emits(AroundNext(n) \o <<Pop>>, n)
  BY <1>4, <1>5, ItemsTogether
<1>8. /\ OnlyEmits(AroundNext(n) \o <<Emit(LABEL(m)), Pop>>, {Label(n)})
      /\ Emits(AroundNext(n) \o <<Emit(LABEL(m)), Pop>>, n)
      /\ Emits(AroundNext(n) \o <<Emit(LABEL(m)), Pop>>, m)
  BY <1>4, <1>6, ItemsTogether
<1>9. <<>> \o <<Emit(LABEL(m)), Pop>> = <<Emit(LABEL(m)), Pop>>  BY <1>6, ConcatEmptySeq
<1>10. OnlyEmits(LoopBack(m, n), {Label(m)}) /\ Emits(LoopBack(m, n), n)
  BY <1>1 DEF LoopBack, OnlyEmits, Emits
<1>11. has_next_conditional =>
         OnlyEmits(AfterIf(m, n), {Label(m)}) /\ OnlyEmits(AfterElseIf(m, n), {Label(m)})
  BY <1>3 DEF AfterIf, AfterElseIf
<1>12. has_next_statement /\ ~has_next_conditional =>
         OnlyEmits(AfterIf(m, n), {Label(n)}) /\ Emits(AfterIf(m, n), n)
  BY <1>7 DEF AfterIf
<1>13. ~has_next_statement /\ ~has_next_conditional =>
         OnlyEmits(AfterElseIf(m, n), {}) /\ Emits(AfterElseIf(m, n), m)
  BY <1>6 DEF AfterElseIf
<1>14. has_next_statement => OnlyEmits(AfterElse(m, n), {Label(n)}) /\ Emits(AfterElse(m, n), n)
  BY <1>8 DEF AfterElse
<1>15. ~has_next_statement => OnlyEmits(AfterElse(m, n), {})  BY <1>6, <1>9 DEF AfterElse
<1>16. Emits(AfterElse(m, n), m)  BY <1>6, <1>8, <1>9 DEF AfterElse
<1> QED  BY <1>10, <1>11, <1>12, <1>13, <1>14, <1>15, <1>16

(* What a step adds to the worklist comes. *)
LEMMA ComesNew ==
  ASSUME TypeOK, NEW q, StepBy(q), NEW l, Emits(q, l)
  PROVE  Comes(todo', Label(l))
<1>1. PICK k \in 1..Len(q) : q[k] = Emit(LABEL(l))  BY DEF Emits
<1>2. /\ Len(todo) \in Nat \ {0} /\ Len(todo') = Len(q) + Len(todo) - 1 /\ todo'[k] = q[k]
  BY HoldersAfter
<1>3. Len(q) \in Nat  BY LenProperties DEF StepBy
<1>4. k \in 1..Len(todo')  BY <1>2, <1>3
<1>5. /\ Emit(LABEL(l)).do = "emit" /\ Emit(LABEL(l)).ins.kind = "LABEL"
      /\ Emit(LABEL(l)).ins.result = Label(l)
  BY DEF Emit, LABEL, Ins
<1> QED  BY <1>1, <1>2, <1>4, <1>5 DEF Comes

(* An item behind the head is an item of the next worklist. *)
LEMMA BehindTheHead ==
  ASSUME TypeOK, NEW q, StepBy(q)
  PROVE  /\ \A k \in 2..Len(todo) : Len(q) + k - 1 \in 1..Len(todo') /\ todo'[Len(q) + k - 1] = todo[k]
         /\ \A k \in 1..Len(todo') : \/ k \in 1..Len(q) /\ todo'[k] = q[k]
                                     \/ k - Len(q) + 1 \in 2..Len(todo) /\ todo'[k] = todo[k - Len(q) + 1]
<1> DEFINE L == Len(todo)
           N == Len(todo')
           Q == Len(q)
<1>1. /\ L \in Nat \ {0} /\ N = Q + L - 1 /\ \A n \in 1..Q : todo'[n] = q[n]
      /\ \A m \in 1..(L - 1) : todo'[N + 1 - m] = todo[L + 1 - m]
  BY HoldersAfter
<1>2. Q \in Nat  BY LenProperties DEF StepBy
<1> HIDE DEF L, N, Q
<1>3. ASSUME NEW k \in 2..L PROVE Q + k - 1 \in 1..N /\ todo'[Q + k - 1] = todo[k]
  <2>1. /\ Q + k - 1 \in 1..N /\ L + 1 - k \in 1..(L - 1)
        /\ N + 1 - (L + 1 - k) = Q + k - 1 /\ L + 1 - (L + 1 - k) = k
    BY <1>1, <1>2
  <2> QED  BY <1>1, <2>1
<1>4. ASSUME NEW k \in 1..N
      PROVE  k \in 1..Q \/ (k - Q + 1 \in 2..L /\ todo'[k] = todo[k - Q + 1])
  <2>1. CASE k \in 1..Q  BY <2>1
  <2>2. CASE k \notin 1..Q
    <3>1. k - Q + 1 \in 2..L /\ Q + (k - Q + 1) - 1 = k  BY <1>1, <1>2, <2>2
    <3> QED  BY <1>3, <3>1
  <2> QED  BY <2>1, <2>2
<1> QED  BY <1>1, <1>3, <1>4 DEF L, N, Q

(* A holder behind the head keeps its place, its item and its context. *)
LEMMA KeptHolder ==
  ASSUME TypeOK, NEW q, StepBy(q), NEW m \in FromEnd(todo), m # Len(todo)
  PROVE  /\ m \in FromEnd(todo')
         /\ Item(todo', m) = Item(todo, m)
         /\ Rank(todo', m) = Rank(todo, m)
<1> DEFINE L == Len(todo)
           F == FromEnd(todo)
           G == FromEnd(todo')
<1>1. /\ L \in Nat \ {0} /\ F \subseteq 1..L
      /\ NextElse => L - 1 \in 1..(L - 1)
      /\ G = (F \ {L}) \cup (IF NextElse THEN {L - 1} ELSE {}) \cup (IF Pops(q) THEN {L} ELSE {})
      /\ \A i \in 1..(L - 1) : todo'[Len(todo') + 1 - i] = todo[L + 1 - i]
  BY HoldersAfter
<1>2. m \in F /\ m # L  OBVIOUS
<1> HIDE DEF L, F, G
<1>3. m \in 1..(L - 1) /\ m \in G
  <2>1. m \in 1..L  BY <1>1, <1>2
  <2>2. m \in F \ {L}  BY <1>2
  <2> QED  BY <1>1, <1>2, <2>1, <2>2
<1>4. ASSUME NEW i \in 1..m PROVE i \in G <=> i \in F
  <2>1. i # L  BY <1>1, <1>3
  <2>2. i = L - 1 => i \in F  BY <1>1, <1>2, <1>3
  <2> QED  BY <1>1, <2>1, <2>2
<1>5. G \cap (1..m) = F \cap (1..m)  BY <1>4
<1>6. Item(todo', m) = Item(todo, m)  BY <1>1, <1>3 DEF Item, L
<1>7. Rank(todo', m) = Rank(todo, m)  BY <1>5 DEF Rank, F, G
<1> QED  BY <1>3, <1>6, <1>7 DEF G

LEMMA RankFacts ==
  ASSUME TypeOK, NEW m \in FromEnd(todo)
  PROVE  /\ Rank(todo, m) \in 1..Cardinality(FromEnd(todo))
         /\ m = Len(todo) => Rank(todo, m) = Cardinality(FromEnd(todo))
         /\ Len(todo) \in FromEnd(todo) /\ m # Len(todo) => Rank(todo, m) < Cardinality(FromEnd(todo))
<1> DEFINE L == Len(todo)
           F == FromEnd(todo)
           R == F \cap (1..m)
<1>1. IsFiniteSet(F)  BY HoldersFromEnd DEF TypeOK
<1>2. L \in Nat /\ F \subseteq 1..L /\ m \in F  BY LenProperties DEF TypeOK, FromEnd
<1> HIDE DEF L, F
<1>3. m \in R  BY <1>2
<1>4. m = L => R = F  BY <1>2
<1>5. L \in F /\ m # L => R # F  BY <1>2
<1>6. R \in SUBSET F  OBVIOUS
<1> HIDE DEF R
<1>7. IsFiniteSet(R) /\ Cardinality(R) <= Cardinality(F) /\ (Cardinality(F) = Cardinality(R) => F = R)
  BY <1>1, <1>6, FS_Subset
<1>8. Cardinality(R) \in Nat /\ Cardinality(F) \in Nat  BY <1>1, <1>7, FS_CardinalityType
<1>9. Cardinality(R) # 0  BY <1>3, <1>7, FS_EmptySet
<1>10. Rank(todo, m) = Cardinality(R)  BY DEF Rank, F, R
<1>11. Cardinality(R) \in 1..Cardinality(F)  BY <1>7, <1>8, <1>9
<1>12. L \in F /\ m # L => Cardinality(R) < Cardinality(F)  BY <1>5, <1>7, <1>8
<1> QED  BY <1>4, <1>10, <1>11, <1>12 DEF L, F

(* The contexts under the top one stay. *)
LEMMA KeptContext ==
  ASSUME TypeOK, NEW q, StepBy(q), Balanced, ~abandoned,
         Passes(q) \/ Leaves(q) \/ Opens(q) \/ GoesOn(q),
         NEW m \in FromEnd(todo), m # Len(todo)
  PROVE  context_stack'[Rank(todo, m)] = context_stack[Rank(todo, m)]
<1> DEFINE n == Len(context_stack)
           r == Rank(todo, m)
<1>1. /\ n \in Nat /\ context_stack \in Seq(Contexts)
      /\ r \in 1..n /\ (Len(todo) \in FromEnd(todo) => r < n)
  BY RankFacts, LenProperties DEF TypeOK, Balanced
<1>2. Len(todo) \in FromEnd(todo) <=> Starts(todo[1])  BY HoldersAfter
<1> HIDE DEF n, r
<1>3. CASE Passes(q)  BY <1>3 DEF Passes
<1>4. CASE Leaves(q)
  <2>1. r < n  BY <1>1, <1>2, <1>4 DEF Leaves, Starts
  <2>2. context_stack' = SubSeq(context_stack, 1, n - 1)  BY <1>4 DEF Leaves, n
  <2>3. r \in 1..(n - 1) /\ n - 1 \in Nat /\ n - 1 \in Int  BY <1>1, <2>1
  <2>4. \A i \in 1..(n - 1) : context_stack[i] \in Contexts
    <3> TAKE i \in 1..(n - 1)
    <3>1. i \in 1..n  BY <1>1
    <3> QED  BY <1>1, <3>1, ElementOfSeq DEF n
  <2>5. SubSeq(context_stack, 1, n - 1)[r] = context_stack[r]
    <3> DEFINE k == n - 1
    <3>1. k \in Int /\ r \in 1..k /\ 1 \in Int /\ \A i \in 1..k : context_stack[i] \in Contexts
      BY <2>3, <2>4
    <3> HIDE DEF k
    <3>2. \A i \in 1..(k - 1 + 1) : SubSeq(context_stack, 1, k)[i] = context_stack[1 + i - 1]
      BY <3>1, SubSeqProperties
    <3>3. r \in 1..(k - 1 + 1) /\ 1 + r - 1 = r  BY <3>1
    <3>4. SubSeq(context_stack, 1, k)[r] = context_stack[r]  BY <3>2, <3>3
    <3> QED  BY <3>4 DEF k
  <2> QED  BY <2>2, <2>5 DEF r
<1>5. CASE Opens(q)
  <2>1. PICK c : context_stack' = Append(context_stack, c)  BY <1>5 DEF Opens, Push
  <2>2. context_stack \in Seq(Contexts \cup {c})  BY <1>1, SeqMonotonic
  <2>3. Append(context_stack, c)[r] = context_stack[r]  BY <1>1, <2>2, AppendProperties DEF n
  <2> QED  BY <2>1, <2>3 DEF r
<1>6. CASE GoesOn(q)
  <2>1. PICK c : context_stack' = [context_stack EXCEPT ![n] = c]  BY <1>6 DEF GoesOn, Replace, n
  <2>2. r < n  BY <1>1, <1>2, <1>6 DEF GoesOn, Starts
  <2>3. r \in DOMAIN context_stack /\ r # n  BY <1>1, <2>2, LenProperties DEF n
  <2> QED  BY <2>1, <2>3 DEF r
<1> QED  BY <1>3, <1>4, <1>5, <1>6

LEMMA WaitsOn ==
  ASSUME TypeOK, NEW q, StepBy(q), Balanced, ~abandoned,
         Passes(q) \/ Leaves(q) \/ Opens(q) \/ GoesOn(q),
         NEW l, NEW m \in FromEnd(todo), m # Len(todo), Item(todo, m).do = "statement",
         l \in {Label(context_stack[Rank(todo, m)].next_label),
                Label(context_stack[Rank(todo, m)].end_label)}
  PROVE  Waits(todo', context_stack', l)
BY KeptHolder, KeptContext DEF Waits

(* An else that stands next waits with the context on the top. *)
LEMMA NextElseWaits ==
  ASSUME TypeOK, NEW q, StepBy(q), NextElse, ~Pops(q),
         Cardinality(FromEnd(todo')) = Len(context_stack'),
         NEW l, l \in {Label(context_stack'[Len(context_stack')].next_label),
                       Label(context_stack'[Len(context_stack')].end_label)}
  PROVE  Waits(todo', context_stack', l)
<1> DEFINE L == Len(todo)
           G == FromEnd(todo')
<1>1. /\ L \in Nat \ {0} /\ FromEnd(todo) \subseteq 1..L /\ L - 1 \in 1..(L - 1)
      /\ G = (FromEnd(todo) \ {L}) \cup {L - 1}
      /\ todo'[Len(todo') + 1 - (L - 1)] = todo[L + 1 - (L - 1)]
  BY HoldersAfter
<1> HIDE DEF L, G
<1>2. G \subseteq 1..(L - 1) /\ L - 1 \in G  BY <1>1
<1>3. G \cap (1..(L - 1)) = G  BY <1>2
<1>4. Rank(todo', L - 1) = Len(context_stack')  BY <1>3 DEF Rank, G
<1>5. L + 1 - (L - 1) = 2  BY <1>1
<1>6. Item(todo', L - 1) = todo[2] /\ todo[2].do = "statement"
  BY <1>1, <1>5 DEF Item, NextElse
<1> QED  BY <1>2, <1>4, <1>6 DEF Waits, G

JumpMet(ins) == (ins.kind = "GOTO" => Met(ins.result)) /\ (ins.kind = "IF_FALSE" => Met(ins.op2))

(* Unless a statement was left, every jump there is or comes has its label,  *)
(* and so have the loops, for the breaks and continues still to come.        *)
LabelsMet ==
  ~abandoned =>
    /\ \A k \in 1..Len(table) : JumpMet(table[k])
    /\ \A k \in 1..Len(todo) : todo[k].do = "emit" => JumpMet(todo[k].ins)
    /\ \A n \in 1..Len(context_stack) :
         context_stack[n].type = "LOOP" =>
           Met(Label(context_stack[n].end_label)) /\ Met(Label(context_stack[n].update_label))

JumpMetNext(ins) ==
  (ins.kind = "GOTO" => MetNext(ins.result)) /\ (ins.kind = "IF_FALSE" => MetNext(ins.op2))

LEMMA NextMet ==
  ASSUME \A k \in 1..Len(table') : JumpMetNext(table'[k]),
         \A k \in 1..Len(todo') : todo'[k].do = "emit" => JumpMetNext(todo'[k].ins),
         \A n \in 1..Len(context_stack') :
           context_stack'[n].type = "LOOP" =>
             /\ MetNext(Label(context_stack'[n].end_label))
             /\ MetNext(Label(context_stack'[n].update_label))
  PROVE  LabelsMet'
<1>1. ASSUME NEW l PROVE MetNext(l) => Met(l)'
  BY DEF Met, MetNext, Stands, Comes, Waits, Item, Rank, FromEnd, HolderAt, StatementAt, Label
<1>2. ASSUME NEW n PROVE MetNext(Label(n)) => Met(Label(n))'
  BY DEF Met, MetNext, Stands, Comes, Waits, Item, Rank, FromEnd, HolderAt, StatementAt, Label
<1>3. ASSUME NEW ins PROVE JumpMetNext(ins) => JumpMet(ins)'
  BY <1>1 DEF JumpMetNext, JumpMet
<1> QED  BY <1>1, <1>2, <1>3 DEF LabelsMet, JumpMet, JumpMetNext, Label

(* What was met is met, when the label that the head stood for is there.     *)
LEMMA StillMet ==
  ASSUME TypeOK, Balanced, ~abandoned,
         NEW q, StepBy(q), Passes(q) \/ Leaves(q) \/ Opens(q) \/ GoesOn(q),
         NEW J, Grown(table, table', J),
         todo[1].do = "emit" /\ todo[1].ins.kind = "LABEL" => Stands(table', todo[1].ins.result),
         todo[1].do = "statement" /\ todo[1].node.type \in Conditional =>
           MetNext(Label(Top.next_label)) /\ MetNext(Label(Top.end_label)),
         NEW l, Met(l)
  PROVE  MetNext(l)
<1>1. CASE Stands(table, l)  BY <1>1, StandsOn DEF MetNext
<1>2. CASE Comes(todo, l)
  <2>1. PICK k \in 1..Len(todo) : /\ todo[k].do = "emit"
                                  /\ todo[k].ins.kind = "LABEL" /\ todo[k].ins.result = l
    BY <1>2 DEF Comes
  <2>2. CASE k = 1  BY <2>1, <2>2 DEF MetNext
  <2>3. CASE k # 1
    <3>1. k \in 2..Len(todo)  BY <2>3, LenProperties DEF TypeOK
    <3>2. Len(q) + k - 1 \in 1..Len(todo') /\ todo'[Len(q) + k - 1] = todo[k]
      BY <3>1, BehindTheHead
    <3>3. Comes(todo', l)  BY <2>1, <3>2 DEF Comes
    <3> QED  BY <3>3 DEF MetNext
  <2> QED  BY <2>2, <2>3
<1>3. CASE Waits(todo, context_stack, l)
  <2>1. PICK m \in FromEnd(todo) : /\ Item(todo, m).do = "statement"
                                   /\ l \in {Label(context_stack[Rank(todo, m)].next_label),
                                             Label(context_stack[Rank(todo, m)].end_label)}
    BY <1>3 DEF Waits
  <2>2. CASE m # Len(todo)
    <3>1. Waits(todo', context_stack', l)  BY <2>1, <2>2, WaitsOn
    <3> QED  BY <3>1 DEF MetNext
  <2>3. CASE m = Len(todo)
    <3>1. Len(todo) \in Nat /\ Len(todo) + 1 - Len(todo) = 1  BY LenProperties DEF TypeOK
    <3>2. Item(todo, m) = todo[1]  BY <2>3, <3>1 DEF Item
    <3>3. Starts(todo[1])  BY <2>1, <2>3, HoldersAfter
    <3>4. todo[1].do = "statement" /\ todo[1].node.type \in Conditional
      BY <2>1, <3>2, <3>3 DEF Starts
    <3>5. context_stack[Rank(todo, m)] = Top  BY <2>1, <2>3, RankFacts DEF Balanced, Top
    <3> QED  BY <2>1, <3>4, <3>5
  <2> QED  BY <2>2, <2>3
<1> QED  BY <1>1, <1>2, <1>3 DEF Met

LEMMA LabelsKept ==
  ASSUME TypeOK, Balanced, LabelsMet, ~abandoned,
         NEW q, StepBy(q), Passes(q) \/ Leaves(q) \/ Opens(q) \/ GoesOn(q),
         NEW J, Grown(table, table', J), OnlyEmits(q, J),
         \A l \in J : Met(l) \/ MetNext(l),
         todo[1].do = "emit" /\ todo[1].ins.kind = "LABEL" => Stands(table', todo[1].ins.result),
         todo[1].do = "statement" /\ todo[1].node.type \in Conditional =>
           MetNext(Label(Top.next_label)) /\ MetNext(Label(Top.end_label)),
         \A n \in 1..Len(context_stack') :
           context_stack'[n].type = "LOOP" =>
             \/ n \in 1..Len(context_stack) /\ context_stack'[n] = context_stack[n]
             \/ /\ MetNext(Label(context_stack'[n].end_label))
                /\ MetNext(Label(context_stack'[n].update_label))
  PROVE  LabelsMet'
<1>1. ASSUME NEW l, Met(l) PROVE MetNext(l)  BY <1>1, StillMet
<1>2. \A ins : JumpMet(ins) => JumpMetNext(ins)  BY <1>1 DEF JumpMet, JumpMetNext
<1>3. \A ins : Within(ins, J) => JumpMetNext(ins)  BY <1>1 DEF Within, JumpMetNext
<1>4. /\ \A k \in 1..Len(table) : JumpMet(table[k])
      /\ \A k \in 1..Len(todo) : todo[k].do = "emit" => JumpMet(todo[k].ins)
      /\ \A n \in 1..Len(context_stack) :
           context_stack[n].type = "LOOP" =>
             Met(Label(context_stack[n].end_label)) /\ Met(Label(context_stack[n].update_label))
  BY DEF LabelsMet
<1>5. \A k \in 1..Len(table') : JumpMetNext(table'[k])
  BY <1>2, <1>3, <1>4 DEF Grown
<1>6. \A k \in 1..Len(todo') : todo'[k].do = "emit" => JumpMetNext(todo'[k].ins)
  <2> SUFFICES ASSUME NEW k \in 1..Len(todo'), todo'[k].do = "emit" PROVE JumpMetNext(todo'[k].ins)
    OBVIOUS
  <2>1. CASE k \in 1..Len(q) /\ todo'[k] = q[k]  BY <1>3, <2>1 DEF OnlyEmits
  <2>2. CASE k - Len(q) + 1 \in 2..Len(todo) /\ todo'[k] = todo[k - Len(q) + 1]
    <3>1. k - Len(q) + 1 \in 1..Len(todo)  BY <2>2, LenProperties DEF TypeOK
    <3> QED  BY <1>2, <1>4, <2>2, <3>1
  <2> QED  BY <2>1, <2>2, BehindTheHead
<1>7. \A n \in 1..Len(context_stack') :
        context_stack'[n].type = "LOOP" =>
          /\ MetNext(Label(context_stack'[n].end_label))
          /\ MetNext(Label(context_stack'[n].update_label))
  BY <1>1, <1>4
<1> QED  BY <1>5, <1>6, <1>7, NextMet

------------------------------------------------------------------------------
(* What the statements add to the worklist and to the table.                 *)

AfterSet(m, n) == {Pop, Emit(GOTO(m)), Emit(LABEL(m)), Emit(GOTO(n)), Emit(LABEL(n))}

LEMMA AfterSeqs ==
  ASSUME NEW m, NEW n
  PROVE  /\ AfterIf(m, n) \in Seq(AfterSet(m, n)) /\ AfterElseIf(m, n) \in Seq(AfterSet(m, n))
         /\ AfterElse(m, n) \in Seq(AfterSet(m, n)) /\ LoopBack(m, n) \in Seq(AfterSet(m, n))
<1> DEFINE S == AfterSet(m, n)
<1>1. /\ Pop \in S /\ Emit(GOTO(m)) \in S /\ Emit(LABEL(m)) \in S
      /\ Emit(GOTO(n)) \in S /\ Emit(LABEL(n)) \in S
  BY DEF AfterSet
<1> HIDE DEF S
<1>2. AroundNext(n) \in Seq(S) /\ <<Pop>> \in Seq(S) /\ <<>> \in Seq(S)  BY <1>1 DEF AroundNext
<1>3. AfterIf(m, n) \in Seq(S)  BY <1>1, <1>2, ConcatProperties DEF AfterIf
<1>4. AfterElseIf(m, n) \in Seq(S)  BY <1>1, <1>2, ConcatProperties DEF AfterElseIf
<1>5. AfterElse(m, n) \in Seq(S)  BY <1>1, <1>2, ConcatProperties DEF AfterElse
<1>6. LoopBack(m, n) \in Seq(S)  BY <1>1 DEF LoopBack
<1> QED  BY <1>3, <1>4, <1>5, <1>6 DEF S

LEMMA BodyThenAfter ==
  ASSUME NEW s \in Nodes, s.type \in Enclosing, NEW S, NEW x \in Seq(S), Trailing(x)
  PROVE  LET q == Statements(s.body) \o x
         IN  /\ \A J : OnlyEmits(x, J) => OnlyEmits(q, J)
             /\ \A l : Emits(x, l) => Emits(q, l)
             /\ ChainsEnd(s.body) => Ended(q)
<1> DEFINE a == Statements(s.body)
           T == StatementItems \cup S
<1>1. s.body \in Seq(Nodes)  BY NodeFacts
<1>2. a \in Seq(T) /\ x \in Seq(T)  BY <1>1, StatementsAreItems, SeqMonotonic
<1>3. (\A J : OnlyEmits(a, J)) /\ (ChainsEnd(s.body) => Ended(a))  BY <1>1, BodyFacts
<1>4. Ended(x)  BY TrailingEnds
<1> HIDE DEF a, T
<1>5. /\ \A J : OnlyEmits(x, J) => OnlyEmits(a \o x, J)
      /\ \A l : Emits(x, l) => Emits(a \o x, l)
      /\ ChainsEnd(s.body) => Ended(a \o x)
  BY <1>2, <1>3, <1>4, ItemsTogether
<1> QED  BY <1>5 DEF a

LEMMA ForItemsFacts ==
  ASSUME node \in Nodes, node.type = "FOR"
  PROVE  /\ OnlyEmits(ForItems, {Label(label_counter)})
         /\ Emits(ForItems, label_counter + 1) /\ Emits(ForItems, label_counter + 2)
         /\ ChainsEnd(node.body) => Ended(ForItems)
<1> DEFINE e == <<Emit(LABEL(label_counter + 1))>>
           u == Statements(<<node.update>>)
           x == LoopBack(label_counter, label_counter + 2)
           a == Statements(node.body)
           J == {Label(label_counter)}
           T == StatementItems \cup {Emit(LABEL(label_counter + 1))}
                  \cup AfterSet(label_counter, label_counter + 2)
<1>1. node.type \in Enclosing  BY DEF Enclosing
<1>2. /\ node.body \in Seq(Nodes) /\ node.update \in Nodes
      /\ node.update.type \notin Enclosing
  BY <1>1, NodeFacts
<1>3. <<node.update>> \in Seq(Nodes) /\ ChainsEnd(<<node.update>>)
  BY <1>2 DEF ChainsEnd, Enclosing, Conditional
<1>4. /\ a \in Seq(StatementItems) /\ u \in Seq(StatementItems)
      /\ x \in Seq(AfterSet(label_counter, label_counter + 2))
  BY <1>2, <1>3, StatementsAreItems, AfterSeqs
<1>5. a \in Seq(T) /\ u \in Seq(T) /\ x \in Seq(T)  BY <1>4, SeqMonotonic
<1>6. e \in Seq(T)  OBVIOUS
<1>7. OnlyEmits(a, J) /\ OnlyEmits(u, J) /\ Ended(u) /\ (ChainsEnd(node.body) => Ended(a))
  BY <1>2, <1>3, BodyFacts
<1>8. OnlyEmits(x, J) /\ Emits(x, label_counter + 2) /\ Ended(x)
  BY AfterEmits, AfterTrails, TrailingEnds
<1>9. OnlyEmits(e, J) /\ Emits(e, label_counter + 1) /\ Ended(e)
  BY DEF OnlyEmits, Emits, Ended, Emit, LABEL, Ins, Within
<1> HIDE DEF a, u, x, e, J, T
<1> DEFINE b == a \o e
           c == b \o u
<1>10. /\ b \in Seq(T) /\ OnlyEmits(b, J) /\ Emits(b, label_counter + 1)
       /\ ChainsEnd(node.body) => Ended(b)
  BY <1>5, <1>6, <1>7, <1>9, ItemsTogether, ConcatProperties
<1> HIDE DEF b
<1>11. /\ c \in Seq(T) /\ OnlyEmits(c, J) /\ Emits(c, label_counter + 1)
       /\ ChainsEnd(node.body) => Ended(c)
  BY <1>5, <1>7, <1>10, ItemsTogether, ConcatProperties
<1> HIDE DEF c
<1>12. /\ OnlyEmits(c \o x, J) /\ Emits(c \o x, label_counter + 1) /\ Emits(c \o x, label_counter + 2)
       /\ ChainsEnd(node.body) => Ended(c \o x)
  BY <1>5, <1>8, <1>11, ItemsTogether
<1> QED  BY <1>12 DEF a, b, c, e, u, x, J, ForItems

LEMMA GrownByLabel ==
  ASSUME NEW S, NEW t \in Seq(S), NEW u \in Seq(S), NEW J, Grown(t, u, J), NEW n
  PROVE  /\ Grown(t, Append(u, LABEL(n)), J) /\ Stands(Append(u, LABEL(n)), Label(n))
         /\ Append(u, LABEL(n)) \in Seq(S \cup {LABEL(n)}) /\ t \in Seq(S \cup {LABEL(n)})
<1>1. Within(LABEL(n), J)  BY DEF Within, LABEL, Ins
<1>2. t \in Seq(S \cup {LABEL(n)}) /\ u \in Seq(S \cup {LABEL(n)})  BY SeqMonotonic
<1> QED  BY <1>1, <1>2, GrownByOne, StandsLast, AppendProperties

(* A whole statement. *)
LEMMA WholeGrown ==
  ASSUME NEW S, Plain \subseteq S, table \in Seq(S), NEW before \in Seq(S),
         NEW J, Grown(table, before, J), NEW q, NEW target, Whole(q, before, target), Label(target) \in J
  PROVE  Grown(table, table', J) /\ \A l : Stands(before, l) => Stands(table', l)
<1>1. PICK code \in Seq(Plain), o \in Operands : table' = Append(before \o code, IF_FALSE(o, target))
  BY DEF Whole
<1> DEFINE ins == IF_FALSE(o, target)
           T == S \cup {ins}
<1>2. Within(ins, J)  BY DEF Within, IF_FALSE, Ins
<1> HIDE DEF ins
<1>3. Plain \subseteq T /\ table \in Seq(T) /\ before \in Seq(T) /\ ins \in T  BY SeqMonotonic
<1> HIDE DEF T
<1>4. /\ Grown(table, before \o code, J) /\ Grown(before, before \o code, J)
      /\ before \o code \in Seq(T)
  BY <1>3, GrownByCode, GrownItself
<1>5. Grown(table, table', J) /\ Grown(before, table', J)
  BY <1>1, <1>2, <1>3, <1>4, GrownByOne DEF ins
<1> QED  BY <1>5, StandsOn

(* The stack by its contexts. *)
LEMMA StackContexts ==
  ASSUME TypeOK
  PROVE  /\ \A c : /\ Push(c)[Len(Push(c))] = c
                   /\ \A n \in 1..Len(Push(c)) :
                        n = Len(Push(c)) \/ (n \in 1..Len(context_stack) /\ Push(c)[n] = context_stack[n])
         /\ context_stack # <<>> =>
              \A c : /\ Replace(c)[Len(Replace(c))] = c
                     /\ \A n \in 1..Len(Replace(c)) :
                          n = Len(Replace(c)) \/ (n \in 1..Len(context_stack) /\ Replace(c)[n] = context_stack[n])
<1>1. context_stack \in Seq(Contexts) /\ Len(context_stack) \in Nat
      /\ DOMAIN context_stack = 1..Len(context_stack)
  BY LenProperties DEF TypeOK
<1>2. ASSUME NEW c
      PROVE  /\ Push(c)[Len(Push(c))] = c
             /\ \A n \in 1..Len(Push(c)) :
                  n = Len(Push(c)) \/ (n \in 1..Len(context_stack) /\ Push(c)[n] = context_stack[n])
  <2>1. context_stack \in Seq(Contexts \cup {c})  BY <1>1, SeqMonotonic
  <2>2. /\ Len(Push(c)) = Len(context_stack) + 1 /\ Push(c)[Len(context_stack) + 1] = c
        /\ \A n \in 1..Len(context_stack) : Push(c)[n] = context_stack[n]
    BY <2>1, AppendProperties DEF Push
  <2> QED  BY <1>1, <2>2
<1>3. ASSUME context_stack # <<>>, NEW c
      PROVE  /\ Replace(c)[Len(Replace(c))] = c
             /\ \A n \in 1..Len(Replace(c)) :
                  n = Len(Replace(c)) \/ (n \in 1..Len(context_stack) /\ Replace(c)[n] = context_stack[n])
  <2>1. Len(context_stack) \in 1..Len(context_stack)  BY <1>1, <1>3, EmptySeq
  <2>2. Len(Replace(c)) = Len(context_stack)  BY StackLengths
  <2> QED  BY <1>1, <2>1, <2>2 DEF Replace
<1> QED  BY <1>2, <1>3

(* The items of each statement, by what they emit. *)
LEMMA EnclosingItems ==
  ASSUME node \in Nodes
  PROVE  /\ node.type = "IF" =>
              /\ has_next_conditional => OnlyEmits(IfItems, {Label(label_counter)})
              /\ has_next_statement /\ ~has_next_conditional =>
                   OnlyEmits(IfItems, {Label(IfOther)}) /\ Emits(IfItems, IfOther)
              /\ ChainsEnd(node.body) => Ended(IfItems)
         /\ node.type = "ELSE_IF" =>
              /\ has_next_conditional => OnlyEmits(ElseIfItems, {Label(Top.end_label)})
              /\ ~has_next_statement /\ ~has_next_conditional =>
                   OnlyEmits(ElseIfItems, {}) /\ Emits(ElseIfItems, Top.end_label)
              /\ ChainsEnd(node.body) => Ended(ElseIfItems)
         /\ node.type = "ELSE" =>
              /\ has_next_statement => OnlyEmits(ElseItems, {Label(ElseNext)}) /\ Emits(ElseItems, ElseNext)
              /\ ~has_next_statement => OnlyEmits(ElseItems, {})
              /\ Emits(ElseItems, Top.end_label)
              /\ ChainsEnd(node.body) => Ended(ElseItems)
         /\ node.type = "WHILE" =>
              /\ OnlyEmits(WhileItems, {Label(label_counter)}) /\ Emits(WhileItems, label_counter + 1)
              /\ ChainsEnd(node.body) => Ended(WhileItems)
<1>1. ASSUME NEW m, NEW n, NEW x, x \in {AfterIf(m, n), AfterElseIf(m, n), AfterElse(m, n), LoopBack(m, n)},
             node.type \in Enclosing
      PROVE  LET q == Statements(node.body) \o x
             IN  /\ \A J : OnlyEmits(x, J) => OnlyEmits(q, J)
                 /\ \A l : Emits(x, l) => Emits(q, l)
                 /\ ChainsEnd(node.body) => Ended(q)
  <2>1. x \in Seq(AfterSet(m, n)) /\ Trailing(x)  BY <1>1, AfterSeqs, AfterTrails
  <2> QED  BY <1>1, <2>1, BodyThenAfter
<1>2. CASE node.type = "IF"
  <2> DEFINE x == AfterIf(label_counter, IfOther)
  <2>1. /\ \A J : OnlyEmits(x, J) => OnlyEmits(IfItems, J)
        /\ \A l : Emits(x, l) => Emits(IfItems, l)
        /\ ChainsEnd(node.body) => Ended(IfItems)
    BY <1>1, <1>2 DEF IfItems, Enclosing
  <2> QED  BY <1>2, <2>1, AfterEmits
<1>3. CASE node.type = "ELSE_IF"
  <2> DEFINE x == AfterElseIf(Top.end_label, ElseIfOther)
  <2>1. /\ \A J : OnlyEmits(x, J) => OnlyEmits(ElseIfItems, J)
        /\ \A l : Emits(x, l) => Emits(ElseIfItems, l)
        /\ ChainsEnd(node.body) => Ended(ElseIfItems)
    BY <1>1, <1>3 DEF ElseIfItems, Enclosing, Conditional
  <2> QED  BY <1>3, <2>1, AfterEmits
<1>4. CASE node.type = "ELSE"
  <2> DEFINE x == AfterElse(Top.end_label, ElseNext)
  <2>1. /\ \A J : OnlyEmits(x, J) => OnlyEmits(ElseItems, J)
        /\ \A l : Emits(x, l) => Emits(ElseItems, l)
        /\ ChainsEnd(node.body) => Ended(ElseItems)
    BY <1>1, <1>4 DEF ElseItems, Enclosing, Conditional
  <2> QED  BY <1>4, <2>1, AfterEmits
<1>5. CASE node.type = "WHILE"
  <2> DEFINE x == LoopBack(label_counter, label_counter + 1)
  <2>1. /\ \A J : OnlyEmits(x, J) => OnlyEmits(WhileItems, J)
        /\ \A l : Emits(x, l) => Emits(WhileItems, l)
        /\ ChainsEnd(node.body) => Ended(WhileItems)
    BY <1>1, <1>5 DEF WhileItems, Enclosing
  <2> QED  BY <1>5, <2>1, AfterEmits
<1> QED  BY <1>2, <1>3, <1>4, <1>5

LEMMA NothingAdded ==
  ASSUME TypeOK, todo # <<>>, todo' = <<>> \o Tail(todo)
  PROVE  StepBy(<<>>) /\ Ended(<<>>) /\ \A J : OnlyEmits(<<>>, J)
BY StepByNothing DEF Ended, OnlyEmits

LEMMA EndedGoesOn ==
  ASSUME TypeOK, Ended(todo), NEW q, StepBy(q), Ended(q)
  PROVE  Ended(todo')
<1>1. \A k \in 1..Len(todo') : \/ k \in 1..Len(q) /\ todo'[k] = q[k]
                               \/ /\ k - Len(q) + 1 \in 1..Len(todo)
                                  /\ todo'[k] = todo[k - Len(q) + 1]
  BY BehindTheHead, LenProperties DEF TypeOK
<1> QED  BY <1>1 DEF Ended

LEMMA EndedStep ==
  ASSUME Plainly, BlocksEnd, TypeOK, Linked(todo), Ended(todo), [Translate]_vars
  PROVE  Ended(todo')
<1>1. ASSUME EmitItem \/ PopContext \/ Computing \/ Jump PROVE Ended(todo')
  <2>1. todo # <<>> /\ todo' = <<>> \o Tail(todo)
    BY <1>1 DEF EmitItem, PopContext, Computing, Jump, At, Then
  <2> QED  BY <2>1, NothingAdded, EndedGoesOn
<1>2. \A s \in Nodes : s.type \in Enclosing => ChainsEnd(s.body)  BY DEF BlocksEnd
<1>3. ASSUME Left PROVE Ended(todo')
  <2>1. Ended(<<>>) /\ StepBy(<<>>)  BY <1>3 DEF Left, Ended
  <2> QED  BY <2>1, EndedGoesOn
<1>4. CASE If
  <2>1. node \in Nodes /\ node.type = "IF" /\ (Whole(IfItems, table, IfTarget) \/ Left)
    BY <1>4, IfForm
  <2>2. Ended(IfItems)  BY <1>2, <2>1, EnclosingItems DEF Enclosing
  <2> QED  BY <1>3, <2>1, <2>2, EndedGoesOn DEF Whole
<1>5. CASE ElseIf
  <2>1. /\ node \in Nodes /\ node.type = "ELSE_IF"
        /\ Whole(ElseIfItems, Append(table, LABEL(Top.next_label)), ElseIfTarget) \/ Left
    BY <1>5, ElseIfForm
  <2>2. Ended(ElseIfItems)  BY <1>2, <2>1, EnclosingItems DEF Enclosing, Conditional
  <2> QED  BY <1>3, <2>1, <2>2, EndedGoesOn DEF Whole
<1>6. CASE Else
  <2>1. node \in Nodes /\ node.type = "ELSE" /\ StepBy(ElseItems)  BY <1>6, ElseForm
  <2>2. Ended(ElseItems)  BY <1>2, <2>1, EnclosingItems DEF Enclosing, Conditional
  <2> QED  BY <2>1, <2>2, EndedGoesOn
<1>7. CASE While
  <2>1. /\ node \in Nodes /\ node.type = "WHILE"
        /\ Whole(WhileItems, Append(table, LABEL(label_counter)), label_counter + 1) \/ Left
    BY <1>7, WhileForm
  <2>2. Ended(WhileItems)  BY <1>2, <2>1, EnclosingItems DEF Enclosing
  <2> QED  BY <1>3, <2>1, <2>2, EndedGoesOn DEF Whole
<1>8. CASE For
  <2>1. /\ node \in Nodes /\ node.type = "FOR"
        /\ \/ \E begun \in Seq(Plain) :
                Whole(ForItems, Append(table \o begun, LABEL(label_counter)), label_counter + 2)
           \/ Left
    BY <1>8, ForForm
  <2>2. Ended(ForItems)  BY <1>2, <2>1, ForItemsFacts DEF Enclosing
  <2> QED  BY <1>3, <2>1, <2>2, EndedGoesOn DEF Whole
<1>9. CASE UNCHANGED todo  BY <1>9
<1>10. FinishBuild \/ UNCHANGED vars => UNCHANGED todo  BY DEF FinishBuild, building, vars
<1> QED  BY <1>1, <1>4, <1>5, <1>6, <1>7, <1>8, <1>9, <1>10 DEF Translate

------------------------------------------------------------------------------
(* Every jump goes on having its label.                                      *)

(* The steps that open nothing: what they add to the table jumps to labels   *)
(* that were met.                                                            *)
LEMMA LabelsKeptQuietly ==
  ASSUME TypeOK, Balanced, LabelsMet, ~abandoned, todo # <<>>, todo' = <<>> \o Tail(todo),
         Passes(<<>>) \/ Leaves(<<>>),
         NEW J, Grown(table, table', J), \A l \in J : Met(l),
         todo[1].do = "emit" /\ todo[1].ins.kind = "LABEL" => Stands(table', todo[1].ins.result)
  PROVE  LabelsMet'
<1>1. StepBy(<<>>) /\ OnlyEmits(<<>>, J)  BY NothingAdded
<1>2. ~(todo[1].do = "statement" /\ todo[1].node.type \in Conditional)
  BY DEF Passes, Leaves, Enclosing
<1>3. \A n \in 1..Len(context_stack') :
        n \in 1..Len(context_stack) /\ context_stack'[n] = context_stack[n]
  <2>1. CASE Passes(<<>>)  BY <2>1 DEF Passes
  <2>2. CASE Leaves(<<>>)
    <3> DEFINE k == Len(context_stack) - 1
    <3>1. context_stack \in Seq(Contexts) /\ Len(context_stack) \in Nat  BY LenProperties DEF TypeOK
    <3>2. k \in Int /\ \A n \in 1..k : n \in 1..Len(context_stack)  BY <3>1
    <3>3. \A n \in 1..k : context_stack[n] \in Contexts  BY <3>1, <3>2, ElementOfSeq
    <3>4. context_stack' = SubSeq(context_stack, 1, k)  BY <2>2 DEF Leaves
    <3> HIDE DEF k
    <3>5. /\ Len(SubSeq(context_stack, 1, k)) = IF 1 <= k THEN k - 1 + 1 ELSE 0
          /\ \A n \in 1..(k - 1 + 1) : SubSeq(context_stack, 1, k)[n] = context_stack[1 + n - 1]
      BY <3>2, <3>3, SubSeqProperties
    <3>6. \A n \in 1..Len(context_stack') : n \in 1..k /\ 1 + n - 1 = n /\ n \in 1..(k - 1 + 1)
      BY <3>2, <3>4, <3>5
    <3> QED  BY <3>2, <3>4, <3>5, <3>6
  <2> QED  BY <2>1, <2>2
<1> QED  BY <1>1, <1>2, <1>3, LabelsKept

(* The steps that open a statement: besides its own labels, an else that     *)
(* stands next waits for those of its context.                               *)
LEMMA LabelsKeptOpening ==
  ASSUME TypeOK, Balanced, LabelsMet, ~abandoned, NEW q, StepBy(q), Opens(q) \/ GoesOn(q),
         NEW c, context_stack' = Push(c) \/ (context_stack # <<>> /\ context_stack' = Replace(c)),
         c.type = "LOOP" => MetNext(Label(c.end_label)) /\ MetNext(Label(c.update_label)),
         NEW J, Grown(table, table', J), OnlyEmits(q, J), \A l \in J : MetNext(l),
         GoesOn(q) => MetNext(Label(Top.next_label)) /\ MetNext(Label(Top.end_label))
  PROVE  LabelsMet'
<1>1. todo[1].do = "statement"  BY DEF Opens, GoesOn
<1>2. todo[1].node.type \in Conditional => GoesOn(q)  BY DEF Opens, Conditional
<1>3. \A n \in 1..Len(context_stack') :
        \/ n \in 1..Len(context_stack) /\ context_stack'[n] = context_stack[n]
        \/ context_stack'[n] = c
  BY StackContexts
<1>4. \A n \in 1..Len(context_stack') :
        context_stack'[n].type = "LOOP" =>
          \/ n \in 1..Len(context_stack) /\ context_stack'[n] = context_stack[n]
          \/ /\ MetNext(Label(context_stack'[n].end_label))
             /\ MetNext(Label(context_stack'[n].update_label))
  BY <1>3
<1> QED  BY <1>1, <1>2, <1>4, LabelsKept

LEMMA EmitItemLabels ==
  ASSUME TypeOK, Linked(todo), Balanced, LabelsMet, ~abandoned, EmitItem
  PROVE  LabelsMet'
<1> DEFINE ins == todo[1].ins
           J == IF ins.kind = "GOTO" THEN {ins.result}
                ELSE IF ins.kind = "IF_FALSE" THEN {ins.op2} ELSE {}
<1>1. /\ todo # <<>> /\ todo[1].do = "emit" /\ todo' = <<>> \o Tail(todo)
      /\ context_stack' = context_stack /\ abandoned' = abandoned /\ table' = Append(table, ins)
  BY NextElseFacts DEF EmitItem, Then
<1>2. ins \in Instruction /\ table \in Seq(Instruction) /\ 1 \in 1..Len(todo)
  BY <1>1, HeadFacts, NextElseFacts DEF TypeOK
<1>3. JumpMet(ins)  BY <1>1, <1>2 DEF LabelsMet
<1>4. Within(ins, J) /\ \A l \in J : Met(l)  BY <1>3 DEF Within, JumpMet
<1>5. Passes(<<>>)  BY <1>1 DEF Passes
<1> HIDE DEF ins, J
<1>6. Grown(table, table', J)  BY <1>1, <1>2, <1>4, GrownItself, GrownByOne
<1>7. ins.kind = "LABEL" => Stands(table', ins.result)
  <2>1. Len(table) + 1 \in 1..Len(table') /\ table'[Len(table) + 1] = ins
    BY <1>1, <1>2, AppendProperties, LenProperties
  <2> QED  BY <2>1 DEF Stands
<1> QED  BY <1>1, <1>4, <1>5, <1>6, <1>7, LabelsKeptQuietly DEF ins

LEMMA PopContextLabels ==
  ASSUME TypeOK, Linked(todo), Balanced, LabelsMet, ~abandoned, PopContext
  PROVE  LabelsMet'
<1>1. /\ todo # <<>> /\ todo[1].do = "pop" /\ todo' = <<>> \o Tail(todo)
      /\ context_stack' = SubSeq(context_stack, 1, Len(context_stack) - 1)
      /\ abandoned' = abandoned /\ table' = table
  BY NextElseFacts DEF PopContext, Then
<1>2. Leaves(<<>>)  BY <1>1 DEF Leaves
<1>3. Grown(table, table', {})  BY <1>1, GrownItself
<1> QED  BY <1>1, <1>2, <1>3, LabelsKeptQuietly

LEMMA ComputingLabels ==
  ASSUME Plainly, TypeOK, Linked(todo), Balanced, LabelsMet, ~abandoned, Computing
  PROVE  LabelsMet'
<1> DEFINE b == Builder(table, tac_variable_index)
           full == StatementCode(node, tac_variable_index)
<1>1. /\ todo # <<>> /\ todo[1].do = "statement" /\ todo[1].node.type \notin Enclosing
      /\ todo' = <<>> \o Tail(todo) /\ table' = Statement(b, node).table
      /\ context_stack' = context_stack /\ abandoned' = abandoned
  BY NextElseFacts DEF Computing, Then, node
<1>2. node \in Computes  BY HeadFacts DEF Computing, Computes
<1>3. Adds(full) /\ table \in Seq(Instruction) /\ Plain \subseteq Instruction
  BY <1>2 DEF Plainly, CodeIsPlain, TypeOK, Instruction
<1>4. b.table = table /\ Statement(b, node) = Continue(b, full)  BY DEF Builder, Statement
<1> HIDE DEF b, full
<1>5. table' = table \o full.table /\ full.table \in Seq(Plain)
  <2>1. b.table \in Seq(Instruction)  BY <1>3, <1>4
  <2>2. Continue(b, full).table = b.table \o full.table /\ full.table \in Seq(Plain)
    BY <1>3, <2>1, Continues
  <2> QED  BY <1>1, <1>4, <2>2
<1>6. Grown(table, table', {})  BY <1>3, <1>5, GrownItself, GrownByCode
<1>7. Passes(<<>>)  BY <1>1 DEF Passes
<1> QED  BY <1>1, <1>6, <1>7, LabelsKeptQuietly

LEMMA JumpLabels ==
  ASSUME TypeOK, Linked(todo), Balanced, LabelsMet, ~abandoned, Jump
  PROVE  LabelsMet'
<1>1. /\ todo # <<>> /\ todo[1].do = "statement" /\ todo[1].node.type \in Jumps
      /\ todo' = <<>> \o Tail(todo)
      /\ context_stack' = context_stack /\ abandoned' = abandoned
  BY NextElseFacts DEF Jump, At, Then, Jumps
<1>2. Passes(<<>>)  BY <1>1 DEF Passes, Jumps, Enclosing, Conditional
<1>3. ASSUME NEW n \in Loops, NEW m, m \in {context_stack[n].end_label, context_stack[n].update_label},
             table' = Append(table, GOTO(m))
      PROVE  LabelsMet'
  <2>1. Met(Label(m))  BY <1>3 DEF LabelsMet, Loops
  <2>2. Within(GOTO(m), {Label(m)})  BY DEF Within, GOTO, Ins
  <2>3. table \in Seq(Instruction \cup {GOTO(m)})  BY SeqMonotonic DEF TypeOK
  <2>4. Grown(table, table', {Label(m)})  BY <1>3, <2>2, <2>3, GrownItself, GrownByOne
  <2> QED  BY <1>1, <1>2, <2>1, <2>4, LabelsKeptQuietly
<1>4. CASE UNCHANGED table
  <2>1. Grown(table, table', {})  BY <1>4, GrownItself
  <2> QED  BY <1>1, <1>2, <2>1, LabelsKeptQuietly
<1> QED  BY <1>3, <1>4 DEF Jump

LEMMA IfLabels ==
  ASSUME Plainly, TypeOK, Linked(todo), Ended(todo), Balanced, LabelsMet, ~abandoned, ~abandoned',
         Cardinality(FromEnd(todo')) = Len(context_stack'), If
  PROVE  LabelsMet'
<1> DEFINE J == {Label(label_counter), Label(IfOther)}
<1>1. /\ todo[1].do = "statement" /\ todo[1].node = node /\ node \in Nodes /\ node.type = "IF"
      /\ context_stack' = Push(IfContext) /\ (Pops(IfItems) <=> ~NextElse)
      /\ Whole(IfItems, table, IfTarget)
  BY IfForm DEF Left
<1>2. StepBy(IfItems) /\ Opens(IfItems)  BY <1>1 DEF Whole, Opens, Whether
<1>3. /\ has_next_conditional <=> NextElse
      /\ has_next_statement <=> StatementAt(todo, 2)
      /\ Head(todo) = todo[1] /\ 1 \in 1..Len(todo)
  BY <1>1, <1>2, NextElseFacts DEF StepBy
<1>4. has_next_statement
  BY <1>1, <1>3 DEF Ended, has_next_statement, next_sibling
<1>5. IfTarget = IfOther  BY <1>4 DEF IfTarget
<1>6. Plain \subseteq Instruction /\ table \in Seq(Instruction)  BY DEF TypeOK, Instruction
<1>7. IfContext.type # "LOOP" /\ IfContext.end_label = label_counter
      /\ (has_next_conditional => IfContext.next_label = IfOther)
  BY DEF IfContext, Context
<1>8. ~GoesOn(IfItems)  BY <1>1 DEF GoesOn, Conditional
<1>9. ASSUME NEW K, Label(IfOther) \in K, OnlyEmits(IfItems, K), \A l \in K : MetNext(l)
      PROVE  LabelsMet'
  <2>1. Grown(table, table', K)  BY <1>1, <1>5, <1>6, <1>9, GrownItself, WholeGrown
  <2> QED  BY <1>1, <1>2, <1>7, <1>8, <1>9, <2>1, LabelsKeptOpening
<1>10. CASE has_next_conditional
  <2>1. context_stack'[Len(context_stack')] = IfContext  BY <1>1, StackContexts
  <2>2. \A l \in J : Waits(todo', context_stack', l)
    BY <1>1, <1>2, <1>3, <1>7, <1>10, <2>1, NextElseWaits
  <2>3. OnlyEmits(IfItems, {Label(label_counter)})  BY <1>1, <1>10, EnclosingItems
  <2>4. OnlyEmits(IfItems, J)  BY <2>3 DEF OnlyEmits, Within
  <2>5. \A l \in J : MetNext(l)  BY <2>2 DEF MetNext
  <2> QED  BY <1>9, <2>4, <2>5
<1>11. CASE ~has_next_conditional
  <2>1. OnlyEmits(IfItems, {Label(IfOther)}) /\ Emits(IfItems, IfOther)
    BY <1>1, <1>4, <1>11, EnclosingItems
  <2>2. MetNext(Label(IfOther))  BY <1>2, <2>1, ComesNew DEF MetNext
  <2> QED  BY <1>9, <2>1, <2>2
<1> QED  BY <1>10, <1>11

LEMMA ElseIfLabels ==
  ASSUME Plainly, TypeOK, Linked(todo), Ended(todo), Balanced, LabelsMet, ~abandoned, ~abandoned',
         Cardinality(FromEnd(todo')) = Len(context_stack'), ElseIf
  PROVE  LabelsMet'
<1> DEFINE before == Append(table, LABEL(Top.next_label))
           S == Instruction \cup {LABEL(Top.next_label)}
           J == {Label(Top.end_label), Label(ElseIfOther)}
<1>1. /\ todo[1].do = "statement" /\ todo[1].node = node /\ node \in Nodes /\ node.type = "ELSE_IF"
      /\ context_stack # <<>> /\ context_stack' = Replace(ElseIfContext)
      /\ Pops(ElseIfItems) <=> ~NextElse
      /\ Whole(ElseIfItems, before, ElseIfTarget)
  BY ElseIfForm DEF Left
<1>2. StepBy(ElseIfItems) /\ GoesOn(ElseIfItems)
  BY <1>1 DEF Whole, GoesOn, Whether, Conditional
<1>3. /\ has_next_conditional <=> NextElse
      /\ has_next_statement <=> StatementAt(todo, 2)
      /\ Head(todo) = todo[1] /\ 1 \in 1..Len(todo)
  BY <1>1, <1>2, NextElseFacts DEF StepBy
<1>4. has_next_statement <=> has_next_conditional
  <2>1. has_next_statement => has_next_conditional
    BY <1>1, <1>3 DEF Ended, has_next_statement, has_next_conditional, next_sibling
  <2> QED  BY <1>3, <2>1 DEF StatementAt, NextElse
<1>5. /\ ElseIfContext.type # "LOOP" /\ ElseIfContext.end_label = Top.end_label
      /\ has_next_conditional => ElseIfContext.next_label = ElseIfOther
  BY DEF ElseIfContext, Context
<1>6. /\ Plain \subseteq S /\ table \in Seq(S) /\ before \in Seq(S)
      /\ \A K : Grown(table, before, K)
      /\ Stands(before, Label(Top.next_label))
  <2>1. table \in Seq(Instruction)  BY DEF TypeOK
  <2> QED  BY <2>1, GrownItself, GrownByLabel DEF Instruction
<1> HIDE DEF before, S
<1>7. ASSUME NEW K, Label(ElseIfTarget) \in K, OnlyEmits(ElseIfItems, K), \A l \in K : MetNext(l),
             MetNext(Label(Top.end_label))
      PROVE  LabelsMet'
  <2>1. Grown(table, table', K) /\ Stands(table', Label(Top.next_label))
    BY <1>1, <1>6, <1>7, WholeGrown
  <2>2. MetNext(Label(Top.next_label))  BY <2>1 DEF MetNext
  <2> QED  BY <1>1, <1>2, <1>5, <1>7, <2>1, <2>2, LabelsKeptOpening
<1>8. CASE has_next_conditional
  <2>1. context_stack'[Len(context_stack')] = ElseIfContext  BY <1>1, StackContexts
  <2>2. \A l \in J : Waits(todo', context_stack', l)
    BY <1>1, <1>2, <1>3, <1>5, <1>8, <2>1, NextElseWaits
  <2>3. OnlyEmits(ElseIfItems, {Label(Top.end_label)})  BY <1>1, <1>8, EnclosingItems
  <2>4. OnlyEmits(ElseIfItems, J)  BY <2>3 DEF OnlyEmits, Within
  <2>5. \A l \in J : MetNext(l)  BY <2>2 DEF MetNext
  <2>6. ElseIfTarget = ElseIfOther  BY <1>4, <1>8 DEF ElseIfTarget
  <2> QED  BY <1>7, <2>4, <2>5, <2>6
<1>9. CASE ~has_next_conditional
  <2>1. OnlyEmits(ElseIfItems, {}) /\ Emits(ElseIfItems, Top.end_label)
    BY <1>1, <1>4, <1>9, EnclosingItems
  <2>2. MetNext(Label(Top.end_label))  BY <1>2, <2>1, ComesNew DEF MetNext
  <2>3. OnlyEmits(ElseIfItems, {Label(Top.end_label)})  BY <2>1 DEF OnlyEmits, Within
  <2>4. ElseIfTarget = Top.end_label  BY <1>4, <1>9 DEF ElseIfTarget
  <2> QED  BY <1>7, <2>2, <2>3, <2>4
<1> QED  BY <1>8, <1>9

LEMMA ElseLabels ==
  ASSUME TypeOK, Linked(todo), Balanced, LabelsMet, ~abandoned, Else
  PROVE  LabelsMet'
<1> DEFINE c == Context("ELSE", None, Top.end_label, None)
<1>1. /\ todo[1].do = "statement" /\ todo[1].node = node /\ node \in Nodes /\ node.type = "ELSE"
      /\ context_stack # <<>> /\ context_stack' = Replace(c)
      /\ table' = Append(table, LABEL(Top.next_label)) /\ abandoned' = abandoned
      /\ Pops(ElseItems) /\ StepBy(ElseItems)
  BY ElseForm
<1>2. ~NextElse  BY <1>1, NextElseFacts DEF StepBy
<1>3. GoesOn(ElseItems)  BY <1>1, <1>2 DEF GoesOn, Whether, Conditional
<1>4. c.type # "LOOP"  BY DEF Context
<1> HIDE DEF c
<1>5. (\A K : Grown(table, table', K)) /\ Stands(table', Label(Top.next_label))
  <2>1. table \in Seq(Instruction)  BY DEF TypeOK
  <2> QED  BY <1>1, <2>1, GrownItself, GrownByLabel
<1>6. MetNext(Label(Top.next_label))  BY <1>5 DEF MetNext
<1>7. MetNext(Label(Top.end_label))  BY <1>1, EnclosingItems, ComesNew DEF MetNext
<1>8. CASE has_next_statement
  <2>1. OnlyEmits(ElseItems, {Label(ElseNext)}) /\ Emits(ElseItems, ElseNext)
    BY <1>1, <1>8, EnclosingItems
  <2>2. MetNext(Label(ElseNext))  BY <1>1, <2>1, ComesNew DEF MetNext
  <2> QED  BY <1>1, <1>3, <1>4, <1>5, <1>6, <1>7, <2>1, <2>2, LabelsKeptOpening
<1>9. CASE ~has_next_statement
  <2>1. OnlyEmits(ElseItems, {})  BY <1>1, <1>9, EnclosingItems
  <2> QED  BY <1>1, <1>3, <1>4, <1>5, <1>6, <1>7, <2>1, LabelsKeptOpening
<1> QED  BY <1>8, <1>9

LEMMA WhileLabels ==
  ASSUME Plainly, TypeOK, Linked(todo), Balanced, LabelsMet, ~abandoned, ~abandoned', While
  PROVE  LabelsMet'
<1> DEFINE before == Append(table, LABEL(label_counter))
           S == Instruction \cup {LABEL(label_counter)}
           c == Context("LOOP", None, label_counter + 1, label_counter)
           J == {Label(label_counter), Label(label_counter + 1)}
<1>1. /\ todo[1].do = "statement" /\ todo[1].node = node /\ node \in Nodes /\ node.type = "WHILE"
      /\ context_stack' = Push(c) /\ Pops(WhileItems)
      /\ Whole(WhileItems, before, label_counter + 1)
  BY WhileForm DEF Left
<1>2. StepBy(WhileItems)  BY <1>1 DEF Whole
<1>3. ~NextElse  BY <1>1, <1>2, NextElseFacts DEF StepBy
<1>4. Opens(WhileItems) /\ ~GoesOn(WhileItems)
  BY <1>1, <1>3 DEF Whole, Opens, Whether, GoesOn, Conditional
<1>5. c.end_label = label_counter + 1 /\ c.update_label = label_counter  BY DEF Context
<1>6. /\ Plain \subseteq S /\ table \in Seq(S) /\ before \in Seq(S) /\ Grown(table, before, J)
      /\ Stands(before, Label(label_counter))
  <2>1. table \in Seq(Instruction)  BY DEF TypeOK
  <2> QED  BY <2>1, GrownItself, GrownByLabel DEF Instruction
<1>7. Label(label_counter + 1) \in J  OBVIOUS
<1> HIDE DEF before, S, c
<1>8. Grown(table, table', J) /\ Stands(table', Label(label_counter))
  BY <1>1, <1>6, <1>7, WholeGrown
<1>9. OnlyEmits(WhileItems, {Label(label_counter)}) /\ Emits(WhileItems, label_counter + 1)
  BY <1>1, EnclosingItems
<1>10. MetNext(Label(label_counter)) /\ MetNext(Label(label_counter + 1))
  BY <1>2, <1>8, <1>9, ComesNew DEF MetNext
<1>11. OnlyEmits(WhileItems, J)  BY <1>9 DEF OnlyEmits, Within
<1>12. \A l \in J : MetNext(l)  BY <1>10
<1> HIDE DEF J
<1> QED  BY <1>1, <1>2, <1>4, <1>5, <1>8, <1>10, <1>11, <1>12, LabelsKeptOpening

LEMMA ForLabels ==
  ASSUME Plainly, TypeOK, Linked(todo), Balanced, LabelsMet, ~abandoned, ~abandoned', For
  PROVE  LabelsMet'
<1> DEFINE c == ForContext(label_counter, label_counter + 1, label_counter + 2)
           J == {Label(label_counter), Label(label_counter + 2)}
           S == Instruction \cup {LABEL(label_counter)}
<1>1. /\ todo[1].do = "statement" /\ todo[1].node = node /\ node \in Nodes /\ node.type = "FOR"
      /\ context_stack' = Push(c) /\ Pops(ForItems)
      /\ \E begun \in Seq(Plain) :
           Whole(ForItems, Append(table \o begun, LABEL(label_counter)), label_counter + 2)
  BY ForForm DEF Left
<1>2. PICK begun \in Seq(Plain) :
        Whole(ForItems, Append(table \o begun, LABEL(label_counter)), label_counter + 2)
  BY <1>1
<1> DEFINE before == Append(table \o begun, LABEL(label_counter))
<1>3. StepBy(ForItems)  BY <1>2 DEF Whole
<1>4. ~NextElse  BY <1>1, <1>3, NextElseFacts DEF StepBy
<1>5. Opens(ForItems) /\ ~GoesOn(ForItems)
  BY <1>1, <1>2, <1>4 DEF Whole, Opens, Whether, GoesOn, Conditional
<1>6. c.end_label = label_counter + 2 /\ c.update_label = label_counter + 1
  BY DEF ForContext, Context
<1>7. /\ Plain \subseteq S /\ table \in Seq(S) /\ before \in Seq(S) /\ Grown(table, before, J)
      /\ Stands(before, Label(label_counter))
  <2>1. table \in Seq(Instruction) /\ Plain \subseteq Instruction  BY DEF TypeOK, Instruction
  <2> DEFINE u == table \o begun
  <2> HIDE DEF J
  <2>2. Grown(table, u, J) /\ u \in Seq(Instruction)  BY <2>1, GrownItself, GrownByCode
  <2> HIDE DEF u
  <2>3. /\ Grown(table, Append(u, LABEL(label_counter)), J)
        /\ Stands(Append(u, LABEL(label_counter)), Label(label_counter))
        /\ Append(u, LABEL(label_counter)) \in Seq(S) /\ table \in Seq(S)
    BY <2>1, <2>2, GrownByLabel
  <2>4. Plain \subseteq S  BY <2>1
  <2> QED  BY <2>3, <2>4 DEF u
<1>8. Label(label_counter + 2) \in J /\ Whole(ForItems, before, label_counter + 2)  BY <1>2
<1> HIDE DEF before, S, c
<1>9. Grown(table, table', J) /\ Stands(table', Label(label_counter))
  BY <1>7, <1>8, WholeGrown
<1>10. /\ OnlyEmits(ForItems, {Label(label_counter)})
       /\ Emits(ForItems, label_counter + 1) /\ Emits(ForItems, label_counter + 2)
  BY <1>1, ForItemsFacts
<1>11. /\ MetNext(Label(label_counter)) /\ MetNext(Label(label_counter + 1))
       /\ MetNext(Label(label_counter + 2))
  BY <1>3, <1>9, <1>10, ComesNew DEF MetNext
<1>12. OnlyEmits(ForItems, J)  BY <1>10 DEF OnlyEmits, Within
<1>13. \A l \in J : MetNext(l)  BY <1>11
<1> HIDE DEF J
<1> QED  BY <1>1, <1>3, <1>5, <1>6, <1>9, <1>11, <1>12, <1>13, LabelsKeptOpening

LEMMA LabelsStep ==
  ASSUME Plainly, TypeOK, Linked(todo), Ended(todo), Balanced, LabelsMet, [Translate]_vars
  PROVE  LabelsMet'
<1>1. CASE abandoned'  BY <1>1 DEF LabelsMet
<1>2. CASE ~abandoned'
  <2>1. CASE UNCHANGED <<todo, table, context_stack, abandoned>>
    <3>1. \A l : Met(l) => MetNext(l)  BY <2>1 DEF Met, MetNext
    <3>2. \A ins : JumpMet(ins) => JumpMetNext(ins)  BY <3>1 DEF JumpMet, JumpMetNext
    <3>3. ~abandoned  BY <1>2, <2>1
    <3> QED  BY <2>1, <3>1, <3>2, <3>3, NextMet DEF LabelsMet
  <2>2. FinishBuild \/ UNCHANGED vars => UNCHANGED <<todo, table, context_stack, abandoned>>
    BY DEF FinishBuild, vars, building
  <2>3. ~abandoned \/ UNCHANGED <<todo, table, context_stack, abandoned>>
    <3>1. ASSUME abandoned, Translate PROVE abandoned'
      BY <3>1 DEF Translate, EmitItem, PopContext, Computing, If, ElseIf, Else, While, For, Jump,
                  FinishBuild, Guard
    <3> QED  BY <1>2, <2>2, <3>1
  <2>4. ASSUME ~abandoned PROVE Cardinality(FromEnd(todo')) = Len(context_stack')
    <3>1. Balanced'  BY BalancedStep
    <3>2. FromEnd(todo)' = FromEnd(todo')  BY DEF FromEnd, HolderAt, StatementAt
    <3> QED  BY <1>2, <3>1, <3>2 DEF Balanced
  <2> QED
    BY <1>2, <2>1, <2>2, <2>3, <2>4, EmitItemLabels, PopContextLabels, ComputingLabels, JumpLabels,
       IfLabels, ElseIfLabels, ElseLabels, WhileLabels, ForLabels DEF Translate
<1> QED  BY <1>1, <1>2

Finished == stage = "run" => todo = <<>>

LEMMA FinishedStep ==
  ASSUME Finished, [Translate]_vars
  PROVE  Finished'
<1>1. CASE Translate
  <2>1. stage = "build"
    BY <1>1 DEF Translate, EmitItem, PopContext, Computing, If, ElseIf, Else, While, For, Jump,
                FinishBuild, At
  <2>2. CASE FinishBuild  BY <2>2 DEF FinishBuild, Finished, building
  <2>3. CASE ~FinishBuild
    <3>1. stage' = stage
      BY <1>1, <2>3 DEF Translate, EmitItem, PopContext, Computing, If, ElseIf, Else, While, For, Jump
    <3> QED  BY <2>1, <3>1 DEF Finished
  <2> QED  BY <2>2, <2>3
<1>2. CASE UNCHANGED vars  BY <1>2 DEF vars, building, Finished
<1> QED  BY <1>1, <1>2

LEMMA LabelsInit ==
  ASSUME Start, ChainsEnd(program.body)
  PROVE  Ended(todo) /\ LabelsMet /\ Finished
<1> DEFINE name == Ins("NAME", Symbol(program.name), None, None)
           params == Parameters(program.params)
<1>1. /\ program.body \in Seq(Nodes) /\ program.params \in Seq(Declared)
      /\ todo = Statements(program.body) /\ context_stack = <<>> /\ stage = "build"
      /\ table = <<name>> \o params
  BY DEF Start, Blocks
<1>2. Ended(todo) /\ OnlyEmits(todo, {})  BY <1>1, BodyFacts
<1>3. \A k \in 1..Len(table) : table[k].kind \in {"NAME", "PARAM"}
  <2>1. Len(params) \in Nat /\ params \in Seq({Ins("PARAM", None, Symbol(x), None) : x \in Declared})
    <3>1. /\ Len(program.params) \in Nat /\ DOMAIN program.params = 1..Len(program.params)
          /\ \A k \in 1..Len(program.params) : program.params[k] \in Declared
      BY <1>1, LenProperties, ElementOfSeq
    <3> QED  BY <3>1, LenProperties DEF Parameters
  <2>2. name.kind = "NAME" /\ \A x : Ins("PARAM", None, Symbol(x), None).kind = "PARAM"  BY DEF Ins
  <2> DEFINE S == {name} \cup {Ins("PARAM", None, Symbol(x), None) : x \in Declared}
  <2>3. \A ins \in S : ins.kind \in {"NAME", "PARAM"}  BY <2>2
  <2>4. params \in Seq(S) /\ <<name>> \in Seq(S)  BY <2>1, SeqMonotonic
  <2> HIDE DEF S, name, params
  <2>5. table \in Seq(S)  BY <1>1, <2>4, ConcatProperties
  <2> QED  BY <2>3, <2>5, ElementOfSeq
<1>4. \A k \in 1..Len(table) : JumpMet(table[k])  BY <1>3 DEF JumpMet
<1>5. \A k \in 1..Len(todo) : todo[k].do = "emit" => JumpMet(todo[k].ins)
  BY <1>2 DEF OnlyEmits, Within, JumpMet
<1>6. Len(context_stack) = 0  BY <1>1
<1> QED  BY <1>1, <1>2, <1>4, <1>5, <1>6 DEF LabelsMet, Finished

(***************************************************************************)
(* No jump of a finished table is without its label, where an if has an    *)
(* else or a statement after it and nothing follows a chain that ends in   *)
(* an else if, and every condition has yielded an instruction.             *)
(***************************************************************************)
THEOREM JumpsHaveLabels ==
  ASSUME CodeIsPlain(Nat), BlocksEnd
  PROVE  ChainsEnd(program.body) /\ Spec => []JumpsAreDefined
<1> DEFINE Inv == /\ TypeOK /\ Linked(todo) /\ Balanced
                  /\ Ended(todo) /\ LabelsMet /\ Finished
<1>1. Plainly  BY DEF Plainly
<1>2. ChainsEnd(program.body) /\ Start => Inv  BY TypeInit, BalancedInit, LabelsInit
<1>3. Inv /\ [Translate]_vars => Inv'
  <2> SUFFICES ASSUME Inv, [Translate]_vars PROVE Inv'
    OBVIOUS
  <2>1. TypeOK' /\ Balanced' /\ LabelsMet' /\ Finished'
    BY <1>1, TypeStep, BalancedStep, LabelsStep, FinishedStep
  <2>2. Linked(todo') /\ Ended(todo')  BY <1>1, LinkedStep, EndedStep
  <2>3. Linked(todo)' /\ Ended(todo)'  BY <2>2 DEF Linked, StatementAt, Ended
  <2> QED  BY <2>1, <2>3
<1>4. Inv => JumpsAreDefined
  <2> SUFFICES ASSUME Inv, stage = "run", ~abandoned, NEW k \in 1..Len(table)
               PROVE  /\ table[k].kind = "GOTO" => Defines(table[k].result) # {}
                      /\ table[k].kind = "IF_FALSE" => Defines(table[k].op2) # {}
    BY DEF JumpsAreDefined
  <2>1. JumpMet(table[k]) /\ todo = <<>>  BY DEF LabelsMet, Finished
  <2>2. Len(todo) = 0 /\ FromEnd(todo) = {}  BY <2>1 DEF FromEnd
  <2>3. \A l : Met(l) => Defines(l) # {}
    BY <2>2 DEF Met, Stands, Comes, Waits, Defines
  <2> QED  BY <2>1, <2>3 DEF JumpMet
<1> HIDE DEF Inv
<1> QED  BY <1>2, <1>3, <1>4, PTL DEF Spec
==============================================================================
