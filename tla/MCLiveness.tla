----------------------------- MODULE MCLiveness ------------------------------
(***************************************************************************)
(* Liveness on every control-flow graph link_function_cfgs can build with  *)
(* at most MaxBlocks blocks: a block ends in RETURN (no successor), GOTO   *)
(* (one), IF_FALSE (the next block and one other) or falls through.        *)
(* At most one block reads an opaque operand: one is enough to matter.     *)
(***************************************************************************)
EXTENDS Liveness

CONSTANT MaxBlocks

Edges(n, b) ==
  LET next == IF b < n THEN {b + 1} ELSE {}
  IN  {{}, next} \cup {{t} : t \in 1..n} \cup {next \cup {t} : t \in 1..n}

CFGs == UNION {{g \in [1..n -> SUBSET (1..n)] : \A b \in 1..n : g[b] \in Edges(n, b)}
               : n \in 1..MaxBlocks}

MCInit ==
  /\ successors \in CFGs
  /\ use_set \in [Blocks -> SUBSET Operands]
  /\ \A b, c \in Blocks : b # c => (use_set[b] \cap Opaque = {} \/ use_set[c] \cap Opaque = {})
  /\ def_set \in [Blocks -> SUBSET (Operands \ Opaque)]
  /\ Start

MCSpec == MCInit /\ [][Next]_vars /\ WF_vars(Next)
==============================================================================
