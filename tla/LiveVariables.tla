---------------------------- MODULE LiveVariables ----------------------------
(***************************************************************************)
(* What live_analysis promises the register allocator: for a control-flow  *)
(* graph with use and def sets, the least solution of the live-variable    *)
(* equations, delivered once.  Module Liveness shows how                   *)
(* fixed_point_iteration (IR/cfg.c) computes it.                           *)
(***************************************************************************)
EXTENDS Naturals, Sequences

CONSTANTS Operands, NotYet

VARIABLES successors, use_set, def_set, answer

vars == <<successors, use_set, def_set, answer>>

Blocks == DOMAIN successors

(* The right-hand side of the equation for the in-set of block b. *)
Transfer(I, b) == use_set[b] \cup ((UNION {I[s] : s \in successors[b]}) \ def_set[b])

IsSolution(I) == \A b \in Blocks : I[b] = Transfer(I, b)

IsLeastSolution(I) ==
  /\ IsSolution(I)
  /\ \A J \in [Blocks -> SUBSET Operands] :
        IsSolution(J) => \A b \in Blocks : I[b] \subseteq J[b]

Init ==
  /\ successors \in Seq(SUBSET Nat)
  /\ \A b \in Blocks : successors[b] \subseteq Blocks
  /\ use_set \in [Blocks -> SUBSET Operands]
  /\ def_set \in [Blocks -> SUBSET Operands]
  /\ answer = NotYet

Deliver ==
  /\ answer = NotYet
  /\ answer' \in [Blocks -> SUBSET Operands]
  /\ IsLeastSolution(answer')
  /\ UNCHANGED <<successors, use_set, def_set>>

Next == Deliver

Spec == Init /\ [][Next]_vars
==============================================================================
