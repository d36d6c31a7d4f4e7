--------------------------------- MODULE Tac ---------------------------------
(***************************************************************************)
(* build_tacs (IR/tac.c) for one function: the parameters, then            *)
(* build_tac_from_statement_dag, which turns statements into instructions, *)
(* labels and jumps, keeping the labels of the enclosing ifs and loops on  *)
(* the context stack.  What a node that only computes turns into is a      *)
(* parameter: TacRun has it of Expressions.                                *)
(*                                                                         *)
(* The recursion over the statements is a worklist: todo holds what is     *)
(* left to translate, in order, a statement with the type of its next      *)
(* sibling.  A for statement has its initializer in left, its condition in *)
(* condition and its update in update.                                     *)
(***************************************************************************)
EXTENDS Instructions, FiniteSets

CONSTANTS
  Nodes,                  \* the statements of the functions there are to translate
  ExpressionCode(_, _),   \* of a node and the next temporary: the builder that
  StatementCode(_, _)     \* starts with an empty table, when it has built the node

VARIABLES
  program,        \* the function: its parameters and its statements
  todo,           \* statements, and what follows a statement's body
  table,          \* tac_table
  tac_variable_index,
  label_counter,
  context_stack,  \* tac_context_stack, the top last
  stage,          \* "build" or "run"
  abandoned       \* a condition has yielded nothing and its statement was left

building == <<todo, table, tac_variable_index, label_counter, context_stack>>
vars     == <<program, building, stage, abandoned>>

Conditional == {"ELSE_IF", "ELSE"}
Enclosing   == {"IF", "WHILE", "FOR"} \cup Conditional
Jumps       == {"BREAK", "CONTINUE"}

(***************************************************************************)
(* What the parser makes: an else follows an if or an else if              *)
(* (parser.c:1473), and a for's update is an expression.                   *)
(***************************************************************************)
ElsesFollow(body) ==
  \A k \in 1..Len(body) :
    body[k].type \in Conditional => k > 1 /\ body[k - 1].type \in {"IF", "ELSE_IF"}

Blocks == {body \in Seq(Nodes) : ElsesFollow(body)}

ASSUME NodesAssumption ==
  /\ None \notin Conditional /\ \A s \in Nodes : s.type # None
  /\ {s.body : s \in {t \in Nodes : t.type \in Enclosing}} \subseteq Blocks
  /\ {s.update : s \in {t \in Nodes : t.type = "FOR"}}
       \subseteq {s \in Nodes : s.type \notin Enclosing \cup Jumps}

------------------------------------------------------------------------------
(* Translation                                                              *)

Sibling(body, k) == IF k < Len(body) THEN body[k + 1].type ELSE None

(* NODE_BLOCK: one item for each statement. *)
Statements(body) ==
  [k \in 1..Len(body) |-> [do |-> "statement", node |-> body[k], next |-> Sibling(body, k)]]

Emit(ins) == [do |-> "emit", ins |-> ins]
Pop       == [do |-> "pop"]

Label(n)               == <<"label", n>>
IF_FALSE(condition, n) == Ins("IF_FALSE", None, condition, Label(n))
GOTO(n)                == Ins("GOTO", Label(n), None, None)
LABEL(n)               == Ins("LABEL", Label(n), None, None)

(* generate_label(ctx, REG_LABEL), n times. *)
(* Mutant: the last label taken is not counted. *)
MutantLabelReused(n) == label_counter + (IF n > 0 THEN n - 1 ELSE 0)

generate_labels(n) == label_counter + n

Context(type, next, end, update) ==
  [type |-> type, next_label |-> next, end_label |-> end, update_label |-> update]

Top        == context_stack[Len(context_stack)]
Push(c)    == Append(context_stack, c)
Replace(c) == [context_stack EXCEPT ![Len(context_stack)] = c]

(* A builder goes on with the code of a node. *)
Continue(b, code)   == [code EXCEPT !.table = b.table \o @]
Expression(b, tree) == Continue(b, ExpressionCode(tree, b.temporaries))
Statement(b, tree)  == Continue(b, StatementCode(tree, b.temporaries))

At(type) == /\ stage = "build" /\ todo # <<>>
            /\ Head(todo).do = "statement" /\ Head(todo).node.type = type

node         == Head(todo).node
next_sibling == Head(todo).next

has_next_statement   == next_sibling # None
has_next_conditional == next_sibling \in Conditional

Then(items) == todo' = items \o Tail(todo)

EmitItem ==
  /\ stage = "build" /\ todo # <<>> /\ Head(todo).do = "emit"
  /\ table' = Append(table, Head(todo).ins)
  /\ Then(<<>>)
  /\ UNCHANGED <<program, tac_variable_index, label_counter, context_stack, stage, abandoned>>

PopContext ==
  /\ stage = "build" /\ todo # <<>> /\ Head(todo).do = "pop"
  /\ context_stack' = SubSeq(context_stack, 1, Len(context_stack) - 1)
  /\ Then(<<>>)
  /\ UNCHANGED <<program, table, tac_variable_index, label_counter, stage, abandoned>>

(* A statement that only computes. *)
Computing ==
  /\ stage = "build" /\ todo # <<>> /\ Head(todo).do = "statement"
  /\ node.type \notin Enclosing \cup Jumps
  /\ LET built == Statement(Builder(table, tac_variable_index), node)
     IN  table' = built.table /\ tac_variable_index' = built.temporaries
  /\ Then(<<>>)
  /\ UNCHANGED <<program, label_counter, context_stack, stage, abandoned>>

(* A condition, its jump, and what comes behind it.  A condition that       *)
(* yields nothing ends the statement's translation there.                   *)
Guard(b, condition, target, items) ==
  LET built == Expression(b, condition)
  IN  /\ table' = IF Returns(built) THEN Append(built.table, IF_FALSE(built.tac.result, target))
                  ELSE built.table
      /\ tac_variable_index' = built.temporaries
      /\ Then(IF Returns(built) THEN items ELSE <<>>)
      /\ abandoned' = (abandoned \/ ~Returns(built))

(***************************************************************************)
(* NODE_IF.  The second label is if_false_label before an else, and        *)
(* next_jmp_label before another statement.  With neither, the condition   *)
(* jumps to end_label while the label emitted is next_jmp_label, NULL.     *)
(***************************************************************************)
AroundNext(label) == <<Emit(GOTO(label)), Emit(LABEL(label))>>

AfterIf(end, other) ==
  CASE has_next_conditional                         -> <<Emit(GOTO(end))>>
    [] has_next_statement /\ ~has_next_conditional  -> AroundNext(other) \o <<Pop>>
    [] OTHER                                        -> <<Emit(LABEL(other)), Pop>>

If ==
  /\ At("IF")
  /\ LET end   == label_counter
         other == IF has_next_statement THEN label_counter + 1 ELSE None
     IN  /\ context_stack' =
              Push(Context("IF", IF has_next_conditional THEN other ELSE None, end, None))
         /\ label_counter' = generate_labels(IF has_next_statement THEN 2 ELSE 1)
         /\ Guard(Builder(table, tac_variable_index), node.left,
                  IF has_next_statement THEN other ELSE end,
                  Statements(node.body) \o AfterIf(end, other))
  /\ UNCHANGED <<program, stage>>

(***************************************************************************)
(* NODE_ELSE_IF takes the place of the context its predecessor left.  The  *)
(* chain's end label is emitted only if no statement follows the chain.    *)
(* The early return on an empty stack is the guard.                        *)
(***************************************************************************)
AfterElseIf(end, other) ==
  CASE has_next_conditional                         -> <<Emit(GOTO(end))>>
    [] has_next_statement /\ ~has_next_conditional  -> AroundNext(other) \o <<Pop>>
    [] OTHER                                        -> <<Emit(LABEL(end)), Pop>>

ElseIf ==
  /\ At("ELSE_IF") /\ context_stack # <<>>
  /\ LET end   == Top.end_label
         other == IF has_next_statement THEN label_counter ELSE None
     IN  /\ context_stack' =
              Replace(Context("ELSE_IF", IF has_next_conditional THEN other ELSE None, end, None))
         /\ label_counter' = generate_labels(IF has_next_statement THEN 1 ELSE 0)
         /\ Guard(Builder(Append(table, LABEL(Top.next_label)), tac_variable_index), node.left,
                  IF has_next_statement THEN other ELSE end,
                  Statements(node.body) \o AfterElseIf(end, other))
  /\ UNCHANGED <<program, stage>>

(* NODE_ELSE. *)
(* Mutant: the context of the chain stays on the stack. *)
MutantElseKeepsContext(end, next_jmp) ==
  (IF has_next_statement THEN AroundNext(next_jmp) ELSE <<>>) \o <<Emit(LABEL(end))>>

AfterElse(end, next_jmp) ==
  (IF has_next_statement THEN AroundNext(next_jmp) ELSE <<>>) \o <<Emit(LABEL(end)), Pop>>

Else ==
  /\ At("ELSE") /\ context_stack # <<>>
  /\ LET next_jmp == IF has_next_statement THEN label_counter ELSE None
     IN  /\ context_stack' = Replace(Context("ELSE", None, Top.end_label, None))
         /\ table' = Append(table, LABEL(Top.next_label))
         /\ label_counter' = generate_labels(IF has_next_statement THEN 1 ELSE 0)
         /\ Then(Statements(node.body) \o AfterElse(Top.end_label, next_jmp))
  /\ UNCHANGED <<program, tac_variable_index, stage, abandoned>>

(* Mutant: the loop's end label is never emitted. *)
MutantNoEndLabel(loop_start, end) == <<Emit(GOTO(loop_start)), Pop>>

LoopBack(loop_start, end) == <<Emit(GOTO(loop_start)), Emit(LABEL(end)), Pop>>

While ==
  /\ At("WHILE")
  /\ LET loop_start == label_counter
         end        == label_counter + 1
     IN  /\ context_stack' = Push(Context("LOOP", None, end, loop_start))
         /\ label_counter' = generate_labels(2)
         /\ Guard(Builder(Append(table, LABEL(loop_start)), tac_variable_index), node.left, end,
                  Statements(node.body) \o LoopBack(loop_start, end))
  /\ UNCHANGED <<program, stage>>

(* NODE_FOR: three labels; in the code the initializer, the condition and   *)
(* the update are chained nodes.                                            *)
ForContext(loop_start, update, end) == Context("LOOP", None, end, update)

For ==
  /\ At("FOR")
  /\ LET loop_start == label_counter
         update     == label_counter + 1
         end        == label_counter + 2
     IN  /\ context_stack' = Push(ForContext(loop_start, update, end))
         /\ label_counter' = generate_labels(3)
         /\ Guard(Add(Statement(Builder(table, tac_variable_index), node.left), LABEL(loop_start)),
                  node.condition, end,
                  Statements(node.body) \o <<Emit(LABEL(update))>> \o Statements(<<node.update>>)
                    \o LoopBack(loop_start, end))
  /\ UNCHANGED <<program, stage>>

(* context_loop_lookup, then a jump to the loop's end or to its update. *)
Loops == {n \in 1..Len(context_stack) : context_stack[n].type = "LOOP"}

Jump ==
  /\ At("BREAK") \/ At("CONTINUE")
  /\ \/ \E n \in Loops :
          /\ \A m \in Loops : m <= n
          /\ table' = Append(table, GOTO(IF node.type = "BREAK" THEN context_stack[n].end_label
                                         ELSE context_stack[n].update_label))
     \/ Loops = {} /\ UNCHANGED table
  /\ Then(<<>>)
  /\ UNCHANGED <<program, tac_variable_index, label_counter, context_stack, stage, abandoned>>

FinishBuild ==
  /\ stage = "build" /\ todo = <<>>
  /\ stage' = "run"
  /\ UNCHANGED <<program, building, abandoned>>

Translate ==
  \/ EmitItem \/ PopContext \/ Computing \/ If \/ ElseIf \/ Else \/ While \/ For \/ Jump
  \/ FinishBuild

(* build_tac_from_parameter_dag, after the instruction with the name. *)
Parameters(params) == [k \in DOMAIN params |-> Ins("PARAM", None, Symbol(params[k]), None)]

(* The first function: the counters of labels and temporaries are never reset. *)
Start ==
  /\ program.name \in Declared /\ program.params \in Seq(Declared) /\ program.body \in Blocks
  /\ todo = Statements(program.body)
  /\ table = <<Ins("NAME", Symbol(program.name), None, None)>> \o Parameters(program.params)
  /\ tac_variable_index = 0
  /\ label_counter = 0
  /\ context_stack = <<>>
  /\ stage = "build"
  /\ abandoned = FALSE

Spec == Start /\ [][Translate]_vars

------------------------------------------------------------------------------
Defines(label) == {k \in 1..Len(table) : table[k].kind = "LABEL" /\ table[k].result = label}

Operands == ({"symbol"} \X Declared) \cup ({"temporary"} \X Nat) \cup ({"literal"} \X Int)
              \cup {ElementSize, ReturnOperand, None}

ComputingKinds == ArithmeticNodes \cup BooleanNodes \cup UnaryNodes \cup LiteralNodes
                     \cup {"NAME", "PARAM", "ARG", "CALL", "ASSIGNMENT", "DEREFERENCE",
                           "DEREFERENCE_AND_ASSIGN", "STORE", "RETURN"}

Plain == [kind : ComputingKinds, result : Operands, op1 : Operands, op2 : Operands]

(* A builder's table has no labels and no jumps in it: only statements make  *)
(* them.                                                                    *)
Adds(code) == code \in [table : Seq(Plain), temporaries : Nat, tac : Plain \cup {None}]

Guards == {s.left : s \in {t \in Nodes : t.type \in {"IF", "ELSE_IF", "WHILE"}}}
            \cup {s.condition : s \in {t \in Nodes : t.type = "FOR"}}

Computes == {s \in Nodes : s.type \notin Enclosing \cup Jumps}
              \cup {s.left : s \in {t \in Nodes : t.type = "FOR"}}

CodeIsPlain(Numbers) ==
  \A n \in Numbers :
    /\ \A e \in Guards : Adds(ExpressionCode(e, n))
    /\ \A s \in Computes : Adds(StatementCode(s, n))

Generated == (0..(label_counter - 1)) \cup {None}
Labels    == {"label"} \X Generated

Instruction ==
  Plain \cup [kind : {"LABEL", "GOTO"}, result : Labels, op1 : {None}, op2 : {None}]
        \cup [kind : {"IF_FALSE"}, result : {None}, op1 : Operands, op2 : Labels]

Contexts == [type : {"IF", "ELSE_IF", "ELSE", "LOOP"}, next_label : Generated,
             end_label : Generated, update_label : Generated]

StatementItems == [do : {"statement"}, node : Nodes, next : {s.type : s \in Nodes} \cup {None}]

Items ==
  StatementItems \cup [do : {"emit"}, ins : Instruction] \cup {Pop}

(* The state has its shape, and every label has come from generate_label. *)
TypeOK ==
  /\ label_counter \in Nat /\ tac_variable_index \in Nat
  /\ stage \in {"build", "run"} /\ abandoned \in BOOLEAN
  /\ table \in Seq(Instruction)
  /\ todo \in Seq(Items)
  /\ context_stack \in Seq(Contexts)

(* An if has an else or a statement after it, and nothing follows a chain    *)
(* that ends in an else if: see the finding on labels that are not emitted.  *)
ChainsEnd(body) ==
  \A k \in 1..Len(body) :
    /\ body[k].type = "IF" => k < Len(body)
    /\ body[k].type = "ELSE_IF" /\ k < Len(body) => body[k + 1].type \in Conditional

BlocksEnd == \A s \in Nodes : s.type \in Enclosing => ChainsEnd(s.body)

(* Every jump of a finished function has a label to go to, if no statement  *)
(* was left in the middle.                                                  *)
JumpsAreDefined ==
  stage = "run" /\ ~abandoned =>
    \A k \in 1..Len(table) :
      /\ table[k].kind = "GOTO" => Defines(table[k].result) # {}
      /\ table[k].kind = "IF_FALSE" => Defines(table[k].op2) # {}

(***************************************************************************)
(* The stack holds exactly the statements being translated: one context    *)
(* for each pop still to come, and one for each chain that stands before   *)
(* its next else.  So break and continue see no loop that is over, and the *)
(* early return of an else that finds the stack empty is never taken.  A   *)
(* statement that was left in the middle leaves its context behind.        *)
(***************************************************************************)
IsStatement(n) == n \in 1..Len(todo) /\ todo[n].do = "statement"

Holders == {n \in 1..Len(todo) :
             \/ todo[n].do = "pop"
             \/ /\ IsStatement(n) /\ todo[n].node.type \in Conditional
                /\ ~IsStatement(n - 1)}

ContextsBalanced ==
  /\ Cardinality(Holders) <= Len(context_stack)
  /\ ~abandoned => Cardinality(Holders) = Len(context_stack)
==============================================================================
