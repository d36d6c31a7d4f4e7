----------------------------- MODULE MCRegAlloc ------------------------------
(***************************************************************************)
(* RegAlloc on every interference graph of three bundles over three        *)
(* variables, with three registers of which two carry arguments, so that   *)
(* arguments and registers both run out.                                   *)
(***************************************************************************)
EXTENDS RegAlloc

CONSTANTS x, y, z, r1, r2, r3, MaxBundles

Variables == {x, y, z}
Labels    == {r1, r2, r3}   \* the result operands of ARG and RETURN

MCOperands == Variables \cup Labels

ARG(label, op)    == [kind |-> "ARG", result |-> label, op1 |-> op]
PARAM(label, op)  == [kind |-> "PARAM", result |-> label, op1 |-> op]
CALL              == [kind |-> "CALL", result |-> r1, op1 |-> r1]
RETURN(label, op) == [kind |-> "RETURN", result |-> label, op1 |-> op]
ADD(res, op)      == [kind |-> "ADD", result |-> res, op1 |-> op]

MCCode ==
  { <<ADD(x, y), RETURN(r1, x)>>,
    <<PARAM(r1, x), PARAM(r2, y), PARAM(r3, z)>>,
    <<ARG(r1, x), ARG(r2, y), CALL, ARG(r3, z), CALL>>,
    <<PARAM(r1, x), ARG(r1, y), ARG(r2, z), ARG(r3, x), CALL>>,
    <<PARAM(r1, z), ARG(r1, x), CALL, ARG(r2, y), ARG(r3, y), CALL>> }

(* A RETURN's operand also interferes with itself; that cannot matter here,  *)
(* since it has no register when its bundle is reached.                      *)
Bundles == {b \in [operand : Variables, interferes_with : SUBSET Variables] :
              b.operand \notin b.interferes_with}

(* At most one operand is restricted, to none, one or all of the registers. *)
Restricted(v, R) == [op \in Operands |-> IF op = v THEN R ELSE {}]

Restrictions ==
  {Restricted(x, {}), Restricted(x, {0}), Restricted(y, {0, 2}), Restricted(x, Registers)}

MCInit ==
  /\ code \in MCCode
  /\ graph \in UNION {[1..n -> Bundles] : n \in 0..MaxBundles}
  /\ restricted_regs \in Restrictions
  /\ Start

MCSpec == MCInit /\ [][Next]_vars
==============================================================================
