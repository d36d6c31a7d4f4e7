-------------------------------- MODULE Typecheck --------------------------------
(***************************************************************************)
(* The type checker (Semantics/typechecker.c), run on the tree the name    *)
(* resolution has left.  What the type of an expression is is a parameter: *)
(* Types has it of typecheck_expression.                                   *)
(***************************************************************************)
EXTENDS Resolve

CONSTANTS
  TypeOf(_, _),      \* of an expression, and the nodes' symbols: its type
  FollowsNull(_, _)  \* of the same: a symbol that is not there is followed

VARIABLES
  checking,        \* typecheck_tree has been called
  functions,       \* typechecker_symbol_stack
  aborted          \* assert(false) at a return, or a symbol that is not there

vars == <<program, resolver, checking, functions, aborted>>

Kind(type) == type[1]
SubType(type) == Tail(type)
Unknown == <<"UNKNOWN">>

Scalars == {"BOOL", "CHAR", "INTEGER"}

(* Mutant: the kinds are not compared. *)
MutantAnyKind(a, b) == {a # NoType /\ b # NoType}

(***************************************************************************)
(* The values type_equals may return.  It follows two types as long as     *)
(* their kinds agree and have subtypes, to a kind it knows or to one it has*)
(* no value for.                                                           *)
(***************************************************************************)
type_equals(a, b) ==
  LET agree(n) == n <= Len(a) /\ n <= Len(b) /\ a[n] = b[n]
      goes_on(n) == agree(n) /\ a[n] \in {"FUNCTION", "ARRAY"}
      last == CHOOSE n \in 1..(Len(a) + 1) : ~goes_on(n) /\ \A m \in 1..(n - 1) : goes_on(m)
  IN  CASE ~agree(last) -> {FALSE}
        [] agree(last) /\ a[last] \in Scalars -> {TRUE}
        [] OTHER -> BOOLEAN

------------------------------------------------------------------------------
(* typecheck_statement and typecheck_globals.                                *)

Check(node) == Do("check", node)
CheckExpr(node) == Do("check_expression", node)
CheckIs(types) == todo # <<>> /\ ~aborted /\ todo[1].do = "check" /\ Node.type \in types

Init ==
  /\ program \in Seq(Globals)
  /\ symbol_of = [id \in Ids |-> Null]
  /\ StartResolving
  /\ checking = FALSE
  /\ functions = <<>>
  /\ aborted = FALSE

Unchecked == UNCHANGED <<program, tables, global_table, contexts, symbol_of, lost>>

StartChecking ==
  /\ Resolved /\ ~checking
  /\ checking' = TRUE
  /\ todo' = [n \in DOMAIN program |-> Do("check_global", program[n])]
  /\ UNCHANGED <<functions, aborted>>

CheckGlobal == todo # <<>> /\ ~aborted /\ todo[1].do = "check_global"

CheckGlobalVariable ==
  /\ CheckGlobal /\ Node.type = "ASSIGNMENT"
  /\ aborted' = (aborted \/ FollowsNull(Node.right, symbol_of))
  /\ Then(<<>>)
  /\ UNCHANGED <<checking, functions>>

CheckFunction ==
  /\ CheckGlobal /\ IsFunction(Node)
  /\ functions' = Append(functions, symbol_of[Node.id])
  /\ aborted' = (\E n \in DOMAIN Node.params : symbol_of[Node.params[n].id] = Null)
  /\ Then(<<Check(Node.right), Do("pop_function", Null)>>)
  /\ UNCHANGED checking

(* Mutant: the stack is left as it is. *)
MutantNotPopped ==
  /\ todo # <<>> /\ ~aborted /\ todo[1].do = "pop_function"
  /\ Then(<<>>)
  /\ UNCHANGED <<checking, functions, aborted>>

PopFunction ==
  /\ todo # <<>> /\ ~aborted /\ todo[1].do = "pop_function"
  /\ functions' = SubSeq(functions, 1, Len(functions) - 1)
  /\ Then(<<>>)
  /\ UNCHANGED <<checking, aborted>>

(* A mismatch is a type that is not stored anywhere. *)
CheckAssignment ==
  /\ CheckIs({"ASSIGNMENT"})
  /\ aborted' = (FollowsNull(Node.left, symbol_of) \/ FollowsNull(Node.right, symbol_of))
  /\ Then(<<>>)
  /\ UNCHANGED <<checking, functions>>

CheckExpression ==
  /\ todo # <<>> /\ ~aborted /\ todo[1].do = "check_expression"
  /\ aborted' = (aborted \/ FollowsNull(Node, symbol_of))
  /\ Then(<<>>)
  /\ UNCHANGED <<checking, functions>>

(* The body of a condition that is not of type bool is not looked at. *)
CheckConditional ==
  /\ CheckIs({"IF", "ELSE_IF", "WHILE"})
  /\ IF FollowsNull(Node.left, symbol_of) THEN aborted' = TRUE /\ Then(<<>>)
     ELSE /\ Then(IF TypeOf(Node.left, symbol_of) = <<"BOOL">> THEN <<Check(Node.right)>> ELSE <<>>)
          /\ UNCHANGED aborted
  /\ UNCHANGED <<checking, functions>>

CheckElse ==
  /\ CheckIs({"ELSE"})
  /\ Then(<<Check(Node.right)>>)
  /\ UNCHANGED <<checking, functions, aborted>>

CheckFor ==
  /\ CheckIs({"FOR"})
  /\ Then(<<Check(Node.left), CheckExpr(Node.condition), CheckExpr(Node.update), Check(Node.right)>>)
  /\ UNCHANGED <<checking, functions, aborted>>

CheckBlock ==
  /\ CheckIs({"BLOCK"})
  /\ Then([n \in DOMAIN Node.right |-> Check(Node.right[n])])
  /\ UNCHANGED <<checking, functions, aborted>>

(* The function is on top of the stack; a negative hash left it no symbol. *)
CheckReturn ==
  /\ CheckIs({"RETURN"}) /\ Node.right # Null
  /\ LET symbol == functions[Len(functions)]
     IN  aborted' \in IF symbol = Null \/ FollowsNull(Node.right, symbol_of) THEN {TRUE}
                      ELSE {~equal : equal \in type_equals(TypeOf(Node.right, symbol_of),
                                                           SubType(symbol.type))}
  /\ Then(<<>>)
  /\ UNCHANGED <<checking, functions>>

(* No value, no type; and calls that stand alone have no case. *)
CheckNothing ==
  /\ \/ CheckIs({"CALL", "INCREMENT", "DECREMENT", "BREAK", "CONTINUE", "DECL"})
     \/ CheckIs({"RETURN"}) /\ Node.right = Null
  /\ Then(<<>>)
  /\ UNCHANGED <<checking, functions, aborted>>

TypecheckNext ==
  /\ \/ StartChecking \/ CheckGlobalVariable \/ CheckFunction \/ PopFunction
     \/ CheckAssignment \/ CheckExpression \/ CheckConditional \/ CheckElse
     \/ CheckFor \/ CheckBlock \/ CheckReturn \/ CheckNothing
  /\ Unchecked

Finished == aborted \/ lost \/ (todo = <<>> /\ checking)

Next ==
  \/ ResolveNext /\ UNCHANGED <<checking, functions, aborted>>
  \/ TypecheckNext
  \/ Finished /\ UNCHANGED vars

Spec == Init /\ [][Next]_vars

------------------------------------------------------------------------------
(* Properties                                                                *)

SymbolsFit(table) ==
  /\ table.capacity \in Nat \ {0}
  /\ table.size \in 0..table.capacity
  /\ table.symbols \in [0..(table.capacity - 1) -> Seq(Symbols)]

(* The state has the shape the code gives it: tables have no more buckets in *)
(* use than buckets, nodes have symbols of nodes, and the type checker is in *)
(* one function at most.                                                    *)
TypeOK ==
  /\ \A n \in DOMAIN tables : SymbolsFit(tables[n])
  /\ SymbolsFit(global_table)
  /\ symbol_of \in [Ids -> Symbols \cup {Null}]
  /\ functions \in Seq(Symbols \cup {Null}) /\ Len(functions) <= 1
  /\ lost \in BOOLEAN /\ checking \in BOOLEAN /\ aborted \in BOOLEAN

(* Once resolve_tree has returned no scope and no context is left open: each *)
(* statement's and expression's are closed on every way through it, however *)
(* they nest (resolve_statement, resolve_expression, resolve_function).     *)
ScopesAreClosed == Resolved \/ checking => tables = <<>> /\ contexts = <<>>

(* Through every growth a table keeps each of its symbols in the bucket its *)
(* name now hashes to, names are unique in it, and its size counts the      *)
(* buckets in use (rehash_variable_symbols, rehash_function_symbols, bind). *)
TableComplete(table) ==
  /\ \A b \in DOMAIN table.symbols : \A s \in ToSet(table.symbols[b]) :
       hash(table.capacity, s.name) = b
  /\ table.size = InUse(table.symbols)
  /\ \A s, t \in SymbolsOf(table) : s.name = t.name => s = t

Functions == {n \in DOMAIN program : IsFunction(program[n])}

TablesComplete ==
  /\ \A n \in DOMAIN tables : TableComplete(tables[n])
  /\ TableComplete(global_table)
  (* No function is forgotten either, if its name has a bucket. *)
  /\ checking => \A n \in Functions :
       HashOf[program[n].name] >= 0 => Named(global_table, program[n].name) # {}
==============================================================================
