--------------------------------- MODULE Scoping ---------------------------------
(***************************************************************************)
(* What name resolution and the type checker promise together, compared    *)
(* with lexical scopes and typing rules that are stated on the tree,       *)
(* without a walk over it.  Only a return of a wrong type stops the        *)
(* compiler; every other mismatch is an unknown type nobody looks at.      *)
(***************************************************************************)
EXTENDS Types, TLC

------------------------------------------------------------------------------
(* A reference for scopes: environments are passed down the tree, and what  *)
(* is declared in a part of it does not leave it.                           *)

Parts(node) ==
  CASE node.type \in {"IF", "ELSE_IF", "WHILE", "ASSIGNMENT"} -> <<node.left, node.right>>
    [] node.type = "FOR"   -> <<node.left, node.condition, node.update, node.right>>
    [] node.type = "ELSE"  -> <<node.right>>
    [] node.type = "BLOCK" -> node.right
    [] node.type = "ARRAY_LIST" -> node.right
    [] node.type = "RETURN" -> If(node.right, <<node.right>>)
    [] node.type = "DECREMENT" -> <<node.left>>
    [] node.type \in {"BREAK", "CONTINUE", "DECL"} -> <<>>
    [] node.type = "NAME" -> If(node.left, <<node.left>>)
    [] OTHER -> Operands(node)

OpensScope(node) == node.type \in {"IF", "ELSE_IF", "ELSE", "WHILE", "FOR"}

FirstFunction(name) ==
  LET named == {n \in DOMAIN program : IsFunction(program[n]) /\ program[n].name = name}
  IN  IF named = {} THEN Null ELSE program[CHOOSE n \in named : \A m \in named : n <= m].id

(* env: the node that defines a name; own: the names of this very scope;    *)
(* binds and types: the defining node and its type, for every node met.     *)
Define(s, id, name, type) ==
  [env   |-> IF name \in s.own THEN s.env ELSE (name :> id) @@ s.env,
   own   |-> s.own \cup {name},
   binds |-> (id :> id) @@ s.binds,
   types |-> (id :> type) @@ s.types,
   names |-> s.names \cup {name},
   calls |-> s.calls]

BindName(s, node) ==
  IF node.t # NoType THEN Define(s, node.id, node.name, node.t)
  ELSE [s EXCEPT !.binds =
          (node.id :> (IF node.name \in DOMAIN s.env THEN s.env[node.name] ELSE Null)) @@ @]

RECURSIVE Walk(_, _)
Walk(s, node) ==
  LET entered == CASE node.type = "NAME" -> BindName(s, node)
                   [] node.type = "CALL" ->
                        [s EXCEPT !.binds = (node.left.id :> FirstFunction(node.left.name)) @@ @,
                                  !.calls = @ \cup {node.left.id}]
                   [] OpensScope(node) -> [s EXCEPT !.own = {}]
                   [] OTHER -> s
      after == FoldLeft(Walk, entered, Parts(node))
  IN  IF OpensScope(node) THEN [after EXCEPT !.env = s.env, !.own = s.own] ELSE after

WalkFunction(s, node) ==
  LET own == [Define([s EXCEPT !.own = {}], node.id, node.name, NoType) EXCEPT
                !.types = (node.id :> node.t) @@ @]
      inside == Walk(FoldLeft(LAMBDA t, param : Define(t, param.id, param.name, param.t),
                              own, node.params), node.right)
  IN  [inside EXCEPT !.env = s.env, !.own = s.own]

(* Whether a global variable is bound is open; its initializer never is, so *)
(* a call in it has no symbol.                                              *)
WalkGlobal(s, node) ==
  CASE IsFunction(node) -> WalkFunction(s, node)
    [] node.type = "ASSIGNMENT" ->
         LET called == [s EXCEPT !.calls = @ \cup Walk(s, node.right).calls]
         IN  IF symbol_of[node.left.id] = Null THEN called
             ELSE Define(called, node.left.id, node.left.name, node.left.t)

Reference ==
  FoldLeft(WalkGlobal,
           [env |-> <<>>, own |-> {}, types |-> <<>>, names |-> {}, calls |-> {},
            binds |-> [id \in DOMAIN symbol_of |-> Null]], program)

(* A hash may be negative only for a name of 25 characters or more. *)
Hashable == \A name \in Reference.names : HashOf[name] >= 0

------------------------------------------------------------------------------
(* A reference for types: rules that derive them, on the reference scopes.  *)

Rules ==
  ({<<op, <<"INTEGER", "INTEGER">>, "INTEGER">> : op \in Arithmetic}
     \cup {<<op, <<"BOOL", "BOOL">>, "BOOL">> : op \in Logical}
     \cup {<<op, <<k, l>>, "BOOL">> : op \in Relational, k \in {"INTEGER", "CHAR"},
                                     l \in {"INTEGER", "CHAR"}})
     \cup {<<"UNARY_SUB", <<"INTEGER">>, "INTEGER">>, <<"NOT", <<"BOOL">>, "BOOL">>,
           <<"INCREMENT", <<"INTEGER">>, "INTEGER">>}

ParametersOf(id) == program[CHOOSE n \in DOMAIN program : program[n].id = id].params

RECURSIVE Derivable(_, _)
Derivable(node, ref) ==
  CASE node.type \in Scalars -> {<<node.type>>}
    [] node.type \in {"DEF", "AUG"} -> Derivable(node.left, ref)
    [] node.type = "NAME" ->
         {t \in {ref.types[id] : id \in {ref.binds[node.id]} \ {Null}} : t[1] # "FUNCTION"}
    [] node.type = "INCREMENT" /\ ref.binds[node.left.id] = Null -> {<<"INTEGER">>}
    [] node.type = "SUBSCRIPT" ->
         {<<t[2]>> : t \in {t \in Derivable(node.left, ref) :
                             t[1] = "ARRAY" /\ <<"INTEGER">> \in Derivable(node.right, ref)}}
    [] node.type = "CALL" ->
         {<<ref.types[f][2]>> : f \in {f \in {ref.binds[node.left.id]} \ {Null} :
            LET params == ParametersOf(f)
            IN  /\ Len(params) = Len(node.params)
                /\ \A n \in DOMAIN params : params[n].t \in Derivable(node.params[n], ref)}}
    [] OTHER ->
         {<<rule[3]>> : rule \in {rule \in Rules :
            /\ rule[1] = node.type
            /\ \A n \in DOMAIN Operands(node) : <<rule[2][n]>> \in Derivable(Operands(node)[n], ref)}}

(* The returns typecheck_statement gets to: an undeclared name that is      *)
(* incremented passes as an int above, and the bodies of conditions that    *)
(* are not bool are not entered.                                            *)
RECURSIVE Returns(_, _, _)
Returns(node, ref, all) ==
  CASE node.type = "RETURN" -> IF node.right = Null THEN {} ELSE {node}
    [] node.type = "BLOCK" -> UNION {Returns(node.right[n], ref, all) : n \in DOMAIN node.right}
    [] node.type \in {"ELSE", "FOR"} -> Returns(node.right, ref, all)
    [] node.type \in {"IF", "ELSE_IF", "WHILE"} ->
         IF all \/ <<"BOOL">> \in Derivable(node.left, ref) THEN Returns(node.right, ref, all) ELSE {}
    [] OTHER -> {}

WronglyTyped(ref, all) ==
  {<<n, return>> \in UNION {{n} \X Returns(program[n].right, ref, all) : n \in Functions} :
     SubType(program[n].t) \notin Derivable(return.right, ref)}

(* When resolve_tree returns, every name's node has the symbol of the node  *)
(* that defines it by lexical scope, whatever the nesting of blocks, loops  *)
(* and shadowing names, and no scope or context is left open.               *)
ResolvesInnermost ==
  /\ ScopesAreClosed
  /\ Resolved /\ ~checking /\ Hashable =>
       LET binds == Reference.binds
       IN  \A id \in DOMAIN symbol_of :
             IF symbol_of[id] = Null THEN binds[id] = Null ELSE symbol_of[id].node = binds[id]

(* The compiler passes the type checker only if every return it gets to is  *)
(* derivably of its function's type, and is stopped only by one that is not,*)
(* by a call to a function that does not exist, or at a returned void.      *)
VerdictIsTyping ==
  Finished /\ checking /\ Hashable =>
    LET ref == Reference
    IN  /\ ~aborted => WronglyTyped(ref, FALSE) = {}
        /\ aborted =>
             \/ WronglyTyped(ref, FALSE) # {}
             \/ \E id \in ref.calls : ref.binds[id] = Null
             \/ \E n \in Functions : program[n].t[2] = "VOID"

(* README.md:46-47: "if a function return type is not equivalent to the     *)
(* type of the operand of a return statement, assert is invoked".           *)
ReturnsChecked ==
  Finished /\ checking /\ ~aborted /\ Hashable => WronglyTyped(Reference, TRUE) = {}
==============================================================================
