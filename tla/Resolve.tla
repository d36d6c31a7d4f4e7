--------------------------------- MODULE Resolve ---------------------------------
(***************************************************************************)
(* Name resolution (Semantics/nameresolution.c): the functions' names are  *)
(* collected into the global table, then the tree is walked once, and each *)
(* name met is bound in the innermost scope or looked up in all of them.   *)
(*                                                                         *)
(* A node is a record with the fields its type has; a list of nodes linked *)
(* by next is a sequence.  The recursion of resolve_statement and          *)
(* resolve_expression is the sequence todo of what is left to be done.     *)
(***************************************************************************)
EXTENDS SymbolTables

CONSTANTS
  Nodes,           \* the nodes of the trees there are to resolve
  Ids,             \* what tells apart the nodes that name something
  Null

VARIABLES
  program,         \* the sequence of global nodes
  todo,            \* what the recursion still has to do
  tables,          \* symbol_stack
  global_table,    \* the functions
  contexts,        \* context_stack
  symbol_of,       \* node -> its symbol
  lost             \* an assertion failed or memory outside a table was written

resolver == <<todo, tables, global_table, contexts, symbol_of, lost>>

(* A type is the sequence of its kind and its subtypes' kinds; no type is    *)
(* the empty sequence.                                                       *)
NoType == <<>>
IsFunction(node) == node.type = "NAME" /\ node.t # NoType /\ node.t[1] = "FUNCTION"

(* What a symbol keeps of the node that defines its name. *)
create_symbol(node, params, type) ==
  [node |-> node.id, name |-> node.name, params |-> params, type |-> type]

(***************************************************************************)
(* What the parser makes: each node has the children its type is resolved  *)
(* with; a global is a function or gives a name a value.                   *)
(***************************************************************************)
Relational == {"LESS", "EQUAL"}
Arithmetic == {"ADD", "DIV"}
Logical    == {"LOGICAL_AND"}
Operators  == Relational \cup Arithmetic \cup Logical

IsName(node) == node.type = "NAME"

Of(types) == {node \in Nodes : node.type \in types}
Callables == {node \in Of({"NAME"}) : IsFunction(node)}
Variables == Of({"NAME"}) \ Callables
Globals   == Callables \cup {node \in Of({"ASSIGNMENT"}) : IsName(node.left)}

ASSUME NodesAssumption ==
  /\ {node.left : node \in Of({"IF", "ELSE_IF", "WHILE", "FOR", "ASSIGNMENT", "SUBSCRIPT", "INCREMENT",
                               "DECREMENT", "DEF", "AUG"} \cup Operators)} \subseteq Nodes
  /\ {node.right : node \in Of({"IF", "ELSE_IF", "ELSE", "WHILE", "FOR", "ASSIGNMENT", "SUBSCRIPT",
                                "UNARY_SUB", "NOT"} \cup Operators)} \subseteq Nodes
  /\ {node.condition : node \in Of({"FOR"})} \cup {node.update : node \in Of({"FOR"})} \subseteq Nodes
  /\ {node.right : node \in Of({"BLOCK", "ARRAY_LIST"})} \subseteq Seq(Nodes)
  /\ {node.right : node \in Of({"RETURN"})} \cup {node.left : node \in Of({"NAME"})} \subseteq Nodes \cup {Null}
  /\ {node.left : node \in Of({"CALL"})} \subseteq Variables
  /\ {node.params : node \in Of({"CALL"})} \subseteq Seq(Nodes)
  /\ {node.params : node \in Callables} \subseteq Seq(Variables)
  /\ {node.right : node \in Callables} \subseteq Nodes
  /\ {node.id : node \in Of({"NAME"})} \subseteq Ids
  /\ {node.name : node \in Of({"NAME"})} \subseteq Names

Types   == {node.t : node \in Of({"NAME"})} \cup {NoType}
Symbols == [node : Ids, name : Names, params : Seq(Variables), type : Types]

------------------------------------------------------------------------------
(* The stacks.                                                               *)

Scope == tables[Len(tables)]

push_scope == tables' = Append(tables, create_symbol_table)
pop_scope  == tables' = IF tables = <<>> THEN <<>> ELSE SubSeq(tables, 1, Len(tables) - 1)
BindInScope(symbol) ==
  LET bound == Bind(Scope, symbol)
  IN  /\ tables' = [tables EXCEPT ![Len(tables)] = bound]
      /\ lost' = Misses(bound, SymbolsOf(Scope) \cup {symbol})

push_context(context) == contexts' = Append(contexts, context)
pop_context  == contexts' = IF contexts = <<>> THEN <<>> ELSE SubSeq(contexts, 1, Len(contexts) - 1)

(* Mutant: outer scopes are searched before inner ones. *)
MutantOutermost(name) ==
  LET having == {n \in DOMAIN tables : Named(tables[n], name) # {}}
      outermost == CHOOSE n \in having : \A m \in having : n <= m
  IN  IF having = {} THEN Null ELSE (CHOOSE s \in Named(tables[outermost], name) : TRUE)

(* lookup_symbol_in_current_scope, then lookup_symbol_in_all_scopes. *)
Lookup(name) ==
  LET having == {n \in DOMAIN tables : Named(tables[n], name) # {}}
      innermost == CHOOSE n \in having : \A m \in having : m <= n
  IN  IF having = {} THEN Null ELSE (CHOOSE s \in Named(tables[innermost], name) : TRUE)

lookup_function_symbol(name) ==
  LET having == Named(global_table, name)
  IN  IF having = {} THEN Null ELSE CHOOSE s \in having : TRUE

------------------------------------------------------------------------------
(* Items of todo: a node to resolve, or what follows one.                    *)

Do(what, node) == [do |-> what, node |-> node]
Stmt(node) == Do("statement", node)
Expr(node) == Do("expression", node)
PopScope   == Do("pop_scope", Null)
PopContext == Do("pop_context", Null)
Push(context) == Do("push_context", context)

(* Children that are not there are not resolved. *)
If(there, items) == IF there = Null THEN <<>> ELSE items

Head1(what) == todo # <<>> /\ ~lost /\ todo[1].do = what
Node == todo[1].node
Then(items) == todo' = items \o Tail(todo)

StatementIs(types)  == Head1("statement") /\ Node.type \in types
ExpressionIs(types) == Head1("expression") /\ Node.type \in types

SetSymbol(node, symbol) == symbol_of' = [symbol_of EXCEPT ![node.id] = symbol]

StartResolving ==
  /\ todo = [n \in DOMAIN program |-> Do("collect", program[n])] \o <<Do("push_scope", Null)>>
              \o [n \in DOMAIN program |-> Do("global", program[n])] \o <<PopScope>>
  /\ tables = <<>>
  /\ global_table = create_symbol_table
  /\ contexts = <<>>
  /\ lost = FALSE

(* validate_node_signature.  A negative hash other than -1 is used as it is. *)
CollectFunction ==
  /\ Head1("collect") /\ IsFunction(Node)
  /\ LET key == hash(global_table.capacity, Node.name)
         symbol == create_symbol(Node, Node.params, Node.t)
     IN  \/ /\ key = -1
            /\ UNCHANGED <<global_table, symbol_of, lost>>
         \/ /\ key >= 0
            /\ global_table' = Bind(global_table, symbol)
            /\ SetSymbol(Node, symbol)
            /\ lost' = Misses(global_table', SymbolsOf(global_table) \cup {symbol})
         \/ /\ key < -1
            /\ lost' = TRUE
            /\ UNCHANGED <<global_table, symbol_of>>
  /\ Then(<<>>)
  /\ UNCHANGED <<tables, contexts>>

CollectNothing ==
  /\ Head1("collect") /\ ~IsFunction(Node)
  /\ Then(<<>>)
  /\ UNCHANGED <<tables, global_table, contexts, symbol_of, lost>>

PushScope ==
  /\ Head1("push_scope")
  /\ push_scope
  /\ Then(<<>>)
  /\ UNCHANGED <<global_table, contexts, symbol_of, lost>>

(* A global's lookup is called with its symbol for the context and its hash *)
(* for the symbol: with hash 0 nothing is found, else what happens is open. *)
ResolveGlobal ==
  /\ Head1("global") /\ Node.type = "ASSIGNMENT"
  /\ LET key  == hash(Scope.capacity, Node.left.name)
         symbol == create_symbol(Node.left, <<>>, Node.left.t)
     IN  \/ /\ key >= 0
            /\ BindInScope(symbol)
            /\ SetSymbol(Node.left, symbol)
         \/ /\ key # 0
            /\ UNCHANGED <<tables, symbol_of, lost>>
         \/ /\ key > 0
            /\ lost' = TRUE
            /\ UNCHANGED <<tables, symbol_of>>
  /\ Then(<<>>)
  /\ UNCHANGED <<global_table, contexts>>

(* The function's own name is bound like a variable, so that none may take  *)
(* it; resolve_params binds the parameters beside it.  Only -1 is a failed  *)
(* hash for the function, any negative one for a parameter.                 *)
ResolveFunction ==
  /\ Head1("global") /\ IsFunction(Node)
  /\ LET key     == hash(TableCapacity, Node.name)
         own     == create_symbol(Node, <<>>, NoType)
         symbols == <<own>> \o [n \in DOMAIN Node.params |->
                                  create_symbol(Node.params[n], <<>>, Node.params[n].t)]
         bound   == BindAll(create_symbol_table, symbols)
         given   == {symbols[n] : n \in {m \in DOMAIN symbols : HasBucket(bound[m - 1], symbols[m].name)}}
     IN  \/ /\ key >= -1
            /\ tables' = Append(tables, bound[Len(symbols)])
            /\ symbol_of' = [id \in DOMAIN symbol_of |->
                 IF \E s \in given \ {own} : s.node = id
                 THEN CHOOSE s \in given \ {own} : s.node = id ELSE symbol_of[id]]
            /\ lost' = Misses(bound[Len(symbols)], given)
         \/ /\ key < -1
            /\ lost' = TRUE
            /\ UNCHANGED <<tables, symbol_of>>
  /\ push_context(IF Node.t[2] = "VOID" THEN "VOID_FUNCTION" ELSE "NONVOID_FUNCTION")
  /\ Then(<<Stmt(Node.right), PopScope, PopContext>>)
  /\ UNCHANGED global_table

------------------------------------------------------------------------------
(* resolve_statement                                                         *)

Walks == UNCHANGED <<tables, global_table, contexts, symbol_of, lost>>

ResolveIf ==
  /\ StatementIs({"IF", "ELSE_IF"})
  /\ push_context("IF") /\ push_scope
  /\ Then(<<Expr(Node.left), Stmt(Node.right), PopScope, PopContext>>)
  /\ UNCHANGED <<global_table, symbol_of, lost>>

ResolveElse ==
  /\ StatementIs({"ELSE"})
  /\ push_scope
  /\ Then(<<Stmt(Node.right), PopScope>>)
  /\ UNCHANGED <<global_table, contexts, symbol_of, lost>>

ResolveWhile ==
  /\ StatementIs({"WHILE"})
  /\ push_context("LOOP") /\ push_scope
  /\ Then(<<Expr(Node.left), Stmt(Node.right), PopScope, PopContext>>)
  /\ UNCHANGED <<global_table, symbol_of, lost>>

(* Initializer, condition, update and body share a scope. *)
ResolveFor ==
  /\ StatementIs({"FOR"})
  /\ push_context("LOOP") /\ push_scope
  /\ Then(<<Stmt(Node.left), Expr(Node.condition), Expr(Node.update), Stmt(Node.right),
            PopContext, PopScope>>)
  /\ UNCHANGED <<global_table, symbol_of, lost>>

ResolveReturn ==
  /\ StatementIs({"RETURN"})
  /\ Then(If(Node.right, <<Push("RETURN"), Expr(Node.right), PopContext>>))
  /\ Walks

(* The target first, so an initializer sees the name it initializes. *)
ResolveAssignment ==
  /\ StatementIs({"ASSIGNMENT"})
  /\ Then(<<Expr(Node.left), Push("ASSIGNMENT"), Expr(Node.right), PopContext>>)
  /\ Walks

ResolveBlock ==
  /\ StatementIs({"BLOCK"})
  /\ Then([n \in DOMAIN Node.right |-> Stmt(Node.right[n])])
  /\ Walks

ResolveIncrementStatement ==
  /\ StatementIs({"INCREMENT", "DECREMENT"})
  /\ Then(<<Push("OP"), Expr(Node.left), PopContext>>)
  /\ Walks

ResolveCallStatement ==
  /\ StatementIs({"CALL"})
  /\ Then(<<Expr(Node)>>)
  /\ Walks

(* break and continue only look for a loop; a declaration without a value   *)
(* has no case and its name is never bound.                                 *)
PassOverStatement ==
  /\ StatementIs({"BREAK", "CONTINUE", "DECL"})
  /\ Then(<<>>)
  /\ Walks

------------------------------------------------------------------------------
(* resolve_expression                                                        *)

ResolveLiteral ==
  /\ ExpressionIs({"CHAR", "BOOL", "INTEGER"})
  /\ Then(<<>>)
  /\ Walks

(* What an assignment defines, and what it assigns to. *)
ResolveTarget ==
  /\ ExpressionIs({"DEF", "AUG"})
  /\ Then(IF Node.type = "AUG" THEN <<Push("AUG"), Expr(Node.left), PopContext>>
          ELSE <<Expr(Node.left)>>)
  /\ Walks

ResolveOperator ==
  /\ ExpressionIs(Operators \cup {"UNARY_SUB", "NOT", "INCREMENT"})
  /\ push_context("OP")
  /\ Then((IF Node.type \in Operators THEN <<Expr(Node.left), Expr(Node.right)>>
           ELSE <<Expr(IF Node.type = "INCREMENT" THEN Node.left ELSE Node.right)>>)
            \o <<PopContext>>)
  /\ UNCHANGED <<tables, global_table, symbol_of, lost>>

ResolveSubscript ==
  /\ ExpressionIs({"SUBSCRIPT"})
  /\ push_context("SUBSCRIPT")
  /\ Then(<<Expr(Node.left), Expr(Node.right), PopContext>>)
  /\ UNCHANGED <<tables, global_table, symbol_of, lost>>

ResolveArrayList ==
  /\ ExpressionIs({"ARRAY_LIST"})
  /\ Then([n \in DOMAIN Node.right |-> Expr(Node.right[n])])
  /\ Walks

ResolveCall ==
  /\ ExpressionIs({"CALL"})
  /\ push_context("CALL")
  /\ Then(<<Expr(Node.left), PopContext>> \o [n \in DOMAIN Node.params |-> Expr(Node.params[n])])
  /\ UNCHANGED <<tables, global_table, symbol_of, lost>>

(* A name with a type defines it, and an array's length is resolved after.  *)
(* The symbol is the node's even if the table refuses it.                   *)
ResolveDefinition ==
  /\ ExpressionIs({"NAME"}) /\ Node.t # NoType
  /\ LET key == hash(Scope.capacity, Node.name)
         symbol == create_symbol(Node, <<>>, Node.t)
     IN  \/ /\ key >= 0
            /\ BindInScope(symbol)
            /\ SetSymbol(Node, symbol)
         \/ /\ key < 0
            /\ UNCHANGED <<tables, symbol_of, lost>>
  /\ Then(If(Node.left, <<Expr(Node.left)>>))
  /\ UNCHANGED <<global_table, contexts>>

Callee == contexts # <<>> /\ contexts[Len(contexts)] = "CALL"

ResolveCallee ==
  /\ ExpressionIs({"NAME"}) /\ Node.t = NoType /\ Callee
  /\ \/ /\ Node.name = "main"
        /\ lost' = TRUE
        /\ UNCHANGED symbol_of
     \/ /\ Node.name # "main"
        /\ SetSymbol(Node, lookup_function_symbol(Node.name))
        /\ UNCHANGED lost
  /\ Then(<<>>)
  /\ UNCHANGED <<tables, global_table, contexts>>

ResolveUse ==
  /\ ExpressionIs({"NAME"}) /\ Node.t = NoType /\ ~Callee
  /\ SetSymbol(Node, Lookup(Node.name))
  /\ Then(<<>>)
  /\ UNCHANGED <<tables, global_table, contexts, lost>>

------------------------------------------------------------------------------
ReturnFromScope ==
  /\ Head1("pop_scope")
  /\ pop_scope
  /\ Then(<<>>)
  /\ UNCHANGED <<global_table, contexts, symbol_of, lost>>

EnterContext ==
  /\ Head1("push_context")
  /\ push_context(Node)
  /\ Then(<<>>)
  /\ UNCHANGED <<tables, global_table, symbol_of, lost>>

ReturnFromContext ==
  /\ Head1("pop_context")
  /\ pop_context
  /\ Then(<<>>)
  /\ UNCHANGED <<tables, global_table, symbol_of, lost>>

ResolveNext ==
  /\ \/ CollectFunction \/ CollectNothing \/ PushScope \/ ResolveGlobal \/ ResolveFunction
     \/ ResolveIf \/ ResolveElse \/ ResolveWhile \/ ResolveFor \/ ResolveReturn
     \/ ResolveAssignment \/ ResolveBlock \/ ResolveIncrementStatement
     \/ ResolveCallStatement \/ PassOverStatement
     \/ ResolveLiteral \/ ResolveTarget \/ ResolveOperator \/ ResolveSubscript \/ ResolveArrayList
     \/ ResolveCall \/ ResolveDefinition
     \/ ResolveCallee \/ ResolveUse
     \/ ReturnFromScope \/ EnterContext \/ ReturnFromContext
  /\ UNCHANGED program

Resolved == todo = <<>> /\ ~lost
==============================================================================
