------------------------------ MODULE Liveness -------------------------------
(***************************************************************************)
(* The block-level live-variable analysis of IR/cfg.c:                     *)
(* fixed_point_iteration visits the blocks of one function from the last   *)
(* to the first, recomputes out and in from the successors' in sets, and   *)
(* makes another pass while some block changed.                            *)
(*                                                                         *)
(* Operand sets are arrays kept free of duplicates by operands_equal, so   *)
(* they are sets here.  operands_equal answers false for every kind it     *)
(* does not list (OP_SUBTYPE_STR, OP_INT_LITERAL, OP_ARG, OP_LABEL, ...),  *)
(* even for an operand and itself: those operands form the set Opaque.  An *)
(* opaque element is never found in a set, so no set that holds one equals *)
(* a set, and none is removed by a difference.  (The array would collect   *)
(* several copies of it; the copies are not told apart here.)              *)
(***************************************************************************)
EXTENDS Integers, Sequences

CONSTANTS
  Operands,   \* the symbols and temporaries of a function
  Opaque      \* those whose kind operands_equal does not list

ASSUME OpaqueAssumption == Opaque \subseteq Operands

VARIABLES
  successors,  \* block -> its successor blocks, as link_function_cfgs left them
  use_set,     \* block -> operands read before the block writes them
  def_set,     \* block -> operands the block writes
  in_set,      \* block -> operands live at its entry, so far
  out_set,     \* block -> operands live at its exit, so far
  i,           \* the for loop's index; 0 between two passes
  changed,     \* the while loop's flag
  done         \* fixed_point_iteration has returned

graph == <<successors, use_set, def_set>>
vars  == <<successors, use_set, def_set, in_set, out_set, i, changed, done>>

Blocks == DOMAIN successors

(* Mutant: membership as identity of the element. *)
MutantPlainMembership(S, op) == op \in S

(* contains_operand: an opaque operand is in no set. *)
contains_operand(S, op) == op \in S \ Opaque

(* sets_equal: equal sizes, and every element of the first found in the second. *)
sets_equal(S, T) == S = T /\ \A op \in S : contains_operand(T, op)

(* Mutant: the operands of the difference swapped. *)
MutantSwappedDifference(S, T) == {op \in T : ~contains_operand(S, op)}

difference_sets(S, T) == {op \in S : ~contains_operand(T, op)}

------------------------------------------------------------------------------
(* live_analysis has created empty in and out sets for every block. *)
Start ==
  /\ in_set  = [b \in Blocks |-> {}]
  /\ out_set = [b \in Blocks |-> {}]
  /\ i = 0
  /\ changed = TRUE
  /\ done = FALSE

Init ==
  /\ successors \in Seq(SUBSET Nat)
  /\ \A b \in Blocks : successors[b] \subseteq Blocks
  /\ use_set \in [Blocks -> SUBSET Operands]
  /\ def_set \in [Blocks -> SUBSET (Operands \ Opaque)]
  /\ Start

------------------------------------------------------------------------------
(* The sets the body of the for loop computes for block b. *)
new_out(b) == UNION {in_set[s] : s \in successors[b]}

(* Mutant: the block's definitions are not taken out. *)
MutantNothingKilled(b) == use_set[b] \cup new_out(b)

new_in(b) == use_set[b] \cup difference_sets(new_out(b), def_set[b])

(* Mutants: the flag is not reset; the last block is skipped; one block too many. *)
MutantFlagKept ==
  /\ i = 0 /\ changed /\ ~done
  /\ i' = Len(successors)
  /\ UNCHANGED <<graph, in_set, out_set, changed, done>>

MutantSkipLastBlock ==
  /\ i = 0 /\ changed /\ ~done
  /\ changed' = FALSE
  /\ i' = Len(successors) - 1
  /\ UNCHANGED <<graph, in_set, out_set, done>>

MutantPastLastBlock ==
  /\ i = 0 /\ changed /\ ~done
  /\ changed' = FALSE
  /\ i' = Len(successors) + 1
  /\ UNCHANGED <<graph, in_set, out_set, done>>

(* The head of the while loop, taken: a new pass from the last block. *)
StartPass ==
  /\ i = 0 /\ changed /\ ~done
  /\ changed' = FALSE
  /\ i' = Len(successors)
  /\ UNCHANGED <<graph, in_set, out_set, done>>

(* The body of the for loop for block i. *)
Visit ==
  /\ i > 0
  /\ out_set' = [out_set EXCEPT ![i] = new_out(i)]
  /\ in_set'  = [in_set EXCEPT ![i] = new_in(i)]
  /\ changed' = (\/ changed
                 \/ ~sets_equal(in_set[i], new_in(i))
                 \/ ~sets_equal(out_set[i], new_out(i)))
  /\ i' = i - 1
  /\ UNCHANGED <<graph, done>>

(* The head of the while loop, not taken: a whole pass changed nothing. *)
Return ==
  /\ i = 0 /\ ~changed /\ ~done
  /\ done' = TRUE
  /\ UNCHANGED <<graph, in_set, out_set, i, changed>>

Next == StartPass \/ Visit \/ Return

Spec == Init /\ [][Next]_vars

(* One thread runs the loop: it takes its next step whenever there is one. *)
FairSpec == Spec /\ WF_vars(Next)

------------------------------------------------------------------------------
TypeOK ==
  /\ successors \in Seq(SUBSET Nat)
  /\ \A b \in Blocks : successors[b] \subseteq Blocks
  /\ use_set \in [Blocks -> SUBSET Operands]
  /\ def_set \in [Blocks -> SUBSET (Operands \ Opaque)]
  /\ in_set  \in [Blocks -> SUBSET Operands]
  /\ out_set \in [Blocks -> SUBSET Operands]
  /\ i \in 0..Len(successors)
  /\ changed \in BOOLEAN
  /\ done \in BOOLEAN

(***************************************************************************)
(* The blocks this pass has visited satisfy their equations as long as the *)
(* pass has changed nothing, and hold no opaque operand.  This is what     *)
(* makes the exit test of the while loop (cfg.c:902) mean "fixed point".   *)
(***************************************************************************)
Settled(b) == /\ out_set[b] = new_out(b)
              /\ in_set[b]  = new_in(b)
              /\ (in_set[b] \cup out_set[b]) \cap Opaque = {}

SettledInv ==
  /\ ~changed => \A b \in Blocks : b > i => Settled(b)
  /\ done => i = 0 /\ ~changed

(* Every set was computed from sets no larger than the current ones, so    *)
(* recomputing it can only add to it (what makes the iteration monotone).  *)
GrowingInv ==
  \A b \in Blocks : out_set[b] \subseteq new_out(b) /\ in_set[b] \subseteq new_in(b)

(***************************************************************************)
(* No pass overestimates: whatever the order of visits, every in-set is    *)
(* below every solution of the live-variable equations.                    *)
(***************************************************************************)
LV == INSTANCE LiveVariables WITH
        NotYet <- <<>>,
        answer <- IF done THEN in_set ELSE <<>>

BelowSolutions ==
  \A I \in [Blocks -> SUBSET Operands] :
     LV!IsSolution(I) => \A b \in Blocks : in_set[b] \subseteq I[b]

(* When the iteration returns, its in-sets are the least solution of the   *)
(* equations: nothing live is missed and nothing dead is kept.             *)
ReturnsLeastSolution == done => LV!IsLeastSolution(in_set)

(* A visit never removes an operand from an in or out set. *)
NeverShrinks ==
  [][\A b \in Blocks : /\ in_set[b] \subseteq in_set'[b]
                       /\ out_set[b] \subseteq out_set'[b]]_vars

(* An operand whose kind operands_equal does not list, once read before it *)
(* is written in some block, keeps the while loop from ever ending.        *)
OpaqueUseDiverges == (\E b \in Blocks : use_set[b] \cap Opaque # {}) => ~done

(* Without such an operand the while loop ends. *)
Terminates == (\A b \in Blocks : use_set[b] \cap Opaque = {}) ~> done

(* The analysis implements its abstract specification. *)
DeliversLiveVariables == LV!Spec
==============================================================================
