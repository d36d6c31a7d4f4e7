--------------------------- MODULE LivenessProofs ----------------------------
(***************************************************************************)
(* Proofs about fixed_point_iteration for every control-flow graph and     *)
(* every set of operands: types, monotonicity, and that what it returns is *)
(* the least solution of the live-variable equations (so that the code     *)
(* implements LiveVariables).  Termination is left to TLC.                 *)
(***************************************************************************)
EXTENDS Liveness, TLAPS

(* The steps of Next leave the graph alone. *)
LEMMA GraphConstant ==
  ASSUME [Next]_vars
  PROVE  UNCHANGED graph
  BY DEF Next, StartPass, Visit, Return, vars, graph

LEMMA BlocksAreIndices ==
  ASSUME TypeOK
  PROVE  /\ Len(successors) \in Nat
         /\ Blocks = 1..Len(successors)
  BY DEF TypeOK, Blocks

(* What a visit computes is a set of operands. *)
LEMMA NewSetsTyped ==
  ASSUME TypeOK, NEW b \in Blocks
  PROVE  new_out(b) \in SUBSET Operands /\ new_in(b) \in SUBSET Operands
  <1>1. successors[b] \subseteq Blocks
    BY DEF TypeOK
  <1>2. \A s \in Blocks : in_set[s] \subseteq Operands
    BY DEF TypeOK
  <1>3. new_out(b) \in SUBSET Operands
    BY <1>1, <1>2 DEF new_out
  <1>4. use_set[b] \in SUBSET Operands
    BY DEF TypeOK
  <1>5. QED
    BY <1>3, <1>4 DEF new_in, difference_sets

------------------------------------------------------------------------------
(***************************************************************************)
(* The types of the analysis state: in particular the loop index stays     *)
(* within the block array and the sets within the operands.                *)
(***************************************************************************)
LEMMA TypeInit == Init => TypeOK
  <1> SUFFICES ASSUME Init PROVE TypeOK
    OBVIOUS
  <1>1. Len(successors) \in Nat
    BY DEF Init
  <1>2. /\ in_set \in [Blocks -> SUBSET Operands]
        /\ out_set \in [Blocks -> SUBSET Operands]
    BY DEF Init, Start
  <1>3. i \in 0..Len(successors)
    BY <1>1 DEF Init, Start
  <1>4. changed \in BOOLEAN /\ done \in BOOLEAN
    BY DEF Init, Start
  <1>5. QED
    BY <1>2, <1>3, <1>4 DEF Init, TypeOK

LEMMA TypeNext == TypeOK /\ [Next]_vars => TypeOK'
  <1> SUFFICES ASSUME TypeOK, [Next]_vars PROVE TypeOK'
    OBVIOUS
  <1>0. UNCHANGED graph
    BY GraphConstant
  <1>g. /\ UNCHANGED <<successors, use_set, def_set>>
        /\ Blocks' = Blocks
    BY <1>0 DEF graph, Blocks
  <1>n. Len(successors) \in Nat /\ Blocks = 1..Len(successors)
    BY BlocksAreIndices
  <1>1. CASE StartPass
    <2>1. i' \in 0..Len(successors)
      BY <1>1, <1>n DEF StartPass
    <2>2. changed' \in BOOLEAN /\ done' \in BOOLEAN
      BY <1>1 DEF StartPass, TypeOK
    <2>3. in_set' = in_set /\ out_set' = out_set
      BY <1>1 DEF StartPass
    <2>4. QED
      BY <2>1, <2>2, <2>3, <1>g DEF TypeOK
  <1>2. CASE Visit
    <2>1. i \in Blocks
      BY <1>2, <1>n DEF Visit, TypeOK
    <2>2. new_out(i) \in SUBSET Operands /\ new_in(i) \in SUBSET Operands
      BY <2>1, NewSetsTyped
    <2>3. /\ out_set' \in [Blocks -> SUBSET Operands]
          /\ in_set' \in [Blocks -> SUBSET Operands]
      BY <1>2, <2>2 DEF Visit, TypeOK
    <2>4. i' \in 0..Len(successors)
      BY <1>2, <1>n DEF Visit, TypeOK
    <2>5. changed' \in BOOLEAN /\ done' \in BOOLEAN
      BY <1>2 DEF Visit, TypeOK
    <2>6. QED
      BY <2>3, <2>4, <2>5, <1>g DEF TypeOK
  <1>3. CASE Return
    BY <1>3, <1>g DEF Return, TypeOK
  <1>4. CASE UNCHANGED vars
    BY <1>4, <1>g DEF vars, TypeOK
  <1>5. QED
    BY <1>1, <1>2, <1>3, <1>4 DEF Next

THEOREM TypeCorrect == Spec => []TypeOK
  BY TypeInit, TypeNext, PTL DEF Spec

------------------------------------------------------------------------------
(***************************************************************************)
(* Monotonicity.  GrowingInv says that a recomputation can only add; a     *)
(* visit preserves it because the in sets it reads have only grown.        *)
(***************************************************************************)
LEMMA GrowingInit == Init => GrowingInv
  BY DEF Init, Start, GrowingInv

(* One visit enlarges the two sets of its block and keeps the others. *)
LEMMA VisitGrows ==
  ASSUME TypeOK, GrowingInv, Visit
  PROVE  \A b \in Blocks : /\ in_set[b] \subseteq in_set'[b]
                           /\ out_set[b] \subseteq out_set'[b]
  <1> SUFFICES ASSUME NEW b \in Blocks
               PROVE  in_set[b] \subseteq in_set'[b] /\ out_set[b] \subseteq out_set'[b]
    OBVIOUS
  <1>1. /\ in_set' = [in_set EXCEPT ![i] = new_in(i)]
        /\ out_set' = [out_set EXCEPT ![i] = new_out(i)]
    BY DEF Visit
  <1>2. b \in DOMAIN in_set /\ b \in DOMAIN out_set
    BY DEF TypeOK
  <1>3. out_set[b] \subseteq new_out(b) /\ in_set[b] \subseteq new_in(b)
    BY DEF GrowingInv
  <1>4. CASE b = i
    BY <1>1, <1>2, <1>3, <1>4
  <1>5. CASE b # i
    BY <1>1, <1>2, <1>5
  <1>6. QED
    BY <1>4, <1>5

(* Larger in sets of the successors give a larger out set and in set. *)
LEMMA NewSetsMonotone ==
  ASSUME TypeOK, UNCHANGED graph, NEW b \in Blocks,
         \A s \in Blocks : in_set[s] \subseteq in_set'[s]
  PROVE  new_out(b) \subseteq new_out(b)' /\ new_in(b) \subseteq new_in(b)'
  <1>1. /\ successors' = successors /\ use_set' = use_set /\ def_set' = def_set
        /\ successors[b] \subseteq Blocks
    BY DEF graph, TypeOK
  <1>2. new_out(b) \subseteq new_out(b)'
    BY <1>1 DEF new_out
  <1>3. QED
    BY <1>1, <1>2 DEF new_in, difference_sets, contains_operand

LEMMA GrowingNext == TypeOK /\ GrowingInv /\ [Next]_vars => GrowingInv'
  <1> SUFFICES ASSUME TypeOK, GrowingInv, [Next]_vars PROVE GrowingInv'
    OBVIOUS
  <1>0. UNCHANGED graph
    BY GraphConstant
  <1>g. UNCHANGED <<successors, use_set, def_set>> /\ Blocks' = Blocks
    BY <1>0 DEF graph, Blocks
  <1>1. CASE Visit
    <2>1. \A s \in Blocks : in_set[s] \subseteq in_set'[s]
      BY <1>1, VisitGrows
    <2>2. ASSUME NEW b \in Blocks
          PROVE  out_set'[b] \subseteq new_out(b)' /\ in_set'[b] \subseteq new_in(b)'
      <3>1. new_out(b) \subseteq new_out(b)' /\ new_in(b) \subseteq new_in(b)'
        BY <1>0, <2>1, NewSetsMonotone
      <3>2. /\ in_set' = [in_set EXCEPT ![i] = new_in(i)]
            /\ out_set' = [out_set EXCEPT ![i] = new_out(i)]
        BY <1>1 DEF Visit
      <3>3. b \in DOMAIN in_set /\ b \in DOMAIN out_set
        BY DEF TypeOK
      <3>4. CASE b = i
        BY <3>1, <3>2, <3>3, <3>4
      <3>5. CASE b # i
        <4>1. out_set'[b] = out_set[b] /\ in_set'[b] = in_set[b]
          BY <3>2, <3>3, <3>5
        <4>2. QED
          BY <4>1, <3>1 DEF GrowingInv
      <3>6. QED
        BY <3>4, <3>5
    <2>3. QED
      BY <2>2, <1>g DEF GrowingInv
  <1>2. CASE UNCHANGED <<in_set, out_set>>
    <2>1. \A b \in Blocks : new_out(b)' = new_out(b) /\ new_in(b)' = new_in(b)
      BY <1>2, <1>g DEF new_out, new_in, difference_sets, contains_operand
    <2>2. QED
      BY <1>2, <1>g, <2>1 DEF GrowingInv
  <1>3. QED
    BY <1>1, <1>2 DEF Next, StartPass, Return, vars

(***************************************************************************)
(* No visit takes an operand out of an in or out set (cfg.c:925-926        *)
(* replaces the sets, but never by smaller ones).                          *)
(***************************************************************************)
THEOREM Monotone == Spec => NeverShrinks
  <1>1. TypeOK /\ GrowingInv /\ [Next]_vars
          => [\A b \in Blocks : /\ in_set[b] \subseteq in_set'[b]
                                /\ out_set[b] \subseteq out_set'[b]]_vars
    <2> SUFFICES ASSUME TypeOK, GrowingInv, Next
                 PROVE  \A b \in Blocks : /\ in_set[b] \subseteq in_set'[b]
                                          /\ out_set[b] \subseteq out_set'[b]
      OBVIOUS
    <2>1. CASE Visit
      BY <2>1, VisitGrows
    <2>2. CASE StartPass \/ Return
      BY <2>2 DEF StartPass, Return
    <2>3. QED
      BY <2>1, <2>2 DEF Next
  <1>2. QED
    BY <1>1, TypeInit, TypeNext, GrowingInit, GrowingNext, PTL DEF Spec, NeverShrinks

------------------------------------------------------------------------------
(***************************************************************************)
(* Soundness of the exit test.  Inv is the inductive invariant: types, the *)
(* settled blocks of an unchanged pass, and the bound by every solution.   *)
(***************************************************************************)
Inv == TypeOK /\ SettledInv /\ BelowSolutions

LEMMA InvInit == Init => Inv
  <1>1. Init => SettledInv
    BY DEF Init, Start, SettledInv
  <1>2. Init => BelowSolutions
    BY DEF Init, Start, BelowSolutions
  <1>3. QED
    BY <1>1, <1>2, TypeInit DEF Inv

(* sets_equal answers true only for equal sets without opaque elements. *)
LEMMA SetsEqualMeaning ==
  ASSUME NEW S, NEW T, sets_equal(S, T)
  PROVE  S = T /\ S \cap Opaque = {}
  BY DEF sets_equal, contains_operand

(* The transfer function is monotone in the out set. *)
LEMMA TransferMonotone ==
  ASSUME NEW U, NEW D, NEW S, NEW T, S \subseteq T
  PROVE  U \cup (S \ D) \subseteq U \cup (T \ D)
  OBVIOUS

(* A set without opaque elements is subtracted as in set theory. *)
LEMMA DifferenceMeaning ==
  ASSUME NEW S, NEW T, T \cap Opaque = {}
  PROVE  difference_sets(S, T) = S \ T
  BY DEF difference_sets, contains_operand

LEMMA SettledNext == TypeOK /\ SettledInv /\ [Next]_vars => SettledInv'
  <1> SUFFICES ASSUME TypeOK, SettledInv, [Next]_vars PROVE SettledInv'
    OBVIOUS
  <1>0. UNCHANGED graph
    BY GraphConstant
  <1>g. UNCHANGED <<successors, use_set, def_set>> /\ Blocks' = Blocks
    BY <1>0 DEF graph, Blocks
  <1>n. Len(successors) \in Nat /\ Blocks = 1..Len(successors)
    BY BlocksAreIndices
  <1>1. CASE StartPass
    BY <1>1, <1>g, <1>n DEF StartPass, SettledInv
  <1>2. CASE Visit
    <2>1. i \in Blocks /\ i \in Nat /\ i' = i - 1
      BY <1>2, <1>n DEF Visit, TypeOK
    <2>2. ~done'
      BY <1>2, <2>1 DEF Visit, SettledInv
    <2>3. ASSUME ~changed', NEW b \in Blocks, b > i'
          PROVE  Settled(b)'
      <3>1. /\ ~changed
            /\ sets_equal(in_set[i], new_in(i))
            /\ sets_equal(out_set[i], new_out(i))
        BY <1>2, <2>3 DEF Visit
      <3>2. /\ in_set[i] = new_in(i) /\ in_set[i] \cap Opaque = {}
            /\ out_set[i] = new_out(i) /\ out_set[i] \cap Opaque = {}
        BY <3>1, SetsEqualMeaning
      <3>3. in_set' = in_set /\ out_set' = out_set
        BY <1>2, <3>2 DEF Visit, TypeOK
      <3>4. new_out(b)' = new_out(b) /\ new_in(b)' = new_in(b)
        BY <1>g, <3>3 DEF new_out, new_in, difference_sets, contains_operand
      <3>5. b = i \/ b > i
        BY <2>1, <2>3, <1>n
      <3>6. Settled(b)
        BY <3>1, <3>2, <3>5 DEF SettledInv, Settled
      <3>7. QED
        BY <3>3, <3>4, <3>6 DEF Settled
    <2>4. QED
      BY <2>2, <2>3, <1>g DEF SettledInv
  <1>3. CASE UNCHANGED <<in_set, out_set, i, changed>> /\ (done' => i = 0 /\ ~changed)
    <2>1. \A b \in Blocks : Settled(b)' <=> Settled(b)
      BY <1>3, <1>g DEF Settled, new_out, new_in, difference_sets, contains_operand
    <2>2. QED
      BY <1>3, <1>g, <2>1 DEF SettledInv
  <1>4. CASE Return
    BY <1>3, <1>4 DEF Return
  <1>5. CASE UNCHANGED vars
    BY <1>3, <1>5 DEF vars, SettledInv
  <1>6. QED
    BY <1>1, <1>2, <1>4, <1>5 DEF Next

LEMMA BelowNext == TypeOK /\ BelowSolutions /\ [Next]_vars => BelowSolutions'
  <1> SUFFICES ASSUME TypeOK, BelowSolutions, [Next]_vars PROVE BelowSolutions'
    OBVIOUS
  <1>0. UNCHANGED graph
    BY GraphConstant
  <1>g. UNCHANGED <<successors, use_set, def_set>> /\ Blocks' = Blocks
    BY <1>0 DEF graph, Blocks
  <1>1. CASE Visit
    <2>1. ASSUME NEW I \in [Blocks -> SUBSET Operands], LV!IsSolution(I), NEW b \in Blocks
          PROVE  in_set'[b] \subseteq I[b]
      <3>1. \A s \in Blocks : in_set[s] \subseteq I[s]
        BY <2>1 DEF BelowSolutions
      <3>2. I[b] = use_set[b] \cup ((UNION {I[s] : s \in successors[b]}) \ def_set[b])
        BY <2>1 DEF LV!IsSolution, LV!Transfer, LV!Blocks, Blocks
      <3>3. successors[b] \subseteq Blocks /\ def_set[b] \cap Opaque = {}
        BY DEF TypeOK
      <3>4. new_out(b) \subseteq UNION {I[s] : s \in successors[b]}
        BY <3>1, <3>3 DEF new_out
      <3>5. new_in(b) \subseteq I[b]
        <4>1. new_in(b) = use_set[b] \cup (new_out(b) \ def_set[b])
          BY <3>3, DifferenceMeaning DEF new_in
        <4>2. QED
          BY ONLY <4>1, <3>2, <3>4, TransferMonotone
      <3>6. in_set' = [in_set EXCEPT ![i] = new_in(i)] /\ b \in DOMAIN in_set
        BY <1>1 DEF Visit, TypeOK
      <3>7. QED
        BY <3>1, <3>5, <3>6
    <2>2. ASSUME NEW I \in [Blocks -> SUBSET Operands] PROVE LV!IsSolution(I)' <=> LV!IsSolution(I)
      BY <1>g DEF LV!IsSolution, LV!Transfer, LV!Blocks
    <2>3. QED
      BY <2>1, <2>2, <1>g DEF BelowSolutions
  <1>2. CASE UNCHANGED in_set
    <2>1. ASSUME NEW I \in [Blocks -> SUBSET Operands] PROVE LV!IsSolution(I)' <=> LV!IsSolution(I)
      BY <1>g DEF LV!IsSolution, LV!Transfer, LV!Blocks
    <2>2. QED
      BY <1>2, <1>g, <2>1 DEF BelowSolutions
  <1>3. QED
    BY <1>1, <1>2 DEF Next, StartPass, Return, vars

LEMMA InvNext == Inv /\ [Next]_vars => Inv'
  BY TypeNext, SettledNext, BelowNext DEF Inv

LEMMA InvAlways == Spec => []Inv
  BY InvInit, InvNext, PTL DEF Spec

(***************************************************************************)
(* An in-set never exceeds a solution of the live-variable equations, at   *)
(* any point of the iteration: a partial pass already errs on one side     *)
(* only.                                                                   *)
(***************************************************************************)
THEOREM NeverOverestimates == Spec => []BelowSolutions
  BY InvAlways, PTL DEF Inv

(* When no block changed in a whole pass, the in-sets solve the equations. *)
LEMMA SettledIsLeast ==
  ASSUME Inv, i = 0, ~changed
  PROVE  LV!IsLeastSolution(in_set)
  <1>n. Blocks = 1..Len(successors)
    BY BlocksAreIndices DEF Inv
  <1>1. \A b \in Blocks : Settled(b)
    BY <1>n DEF Inv, SettledInv
  <1>2. ASSUME NEW b \in Blocks PROVE in_set[b] = LV!Transfer(in_set, b)
    <2>1. def_set[b] \cap Opaque = {}
      BY DEF Inv, TypeOK
    <2>2. new_in(b) = use_set[b] \cup (new_out(b) \ def_set[b])
      BY <2>1, DifferenceMeaning DEF new_in
    <2>3. in_set[b] = use_set[b] \cup (new_out(b) \ def_set[b])
      BY <1>1, <2>2 DEF Settled
    <2>4. LV!Transfer(in_set, b) = use_set[b] \cup (new_out(b) \ def_set[b])
      BY DEF LV!Transfer, new_out
    <2>5. QED
      BY <2>3, <2>4
  <1>3. LV!IsSolution(in_set)
    BY <1>2 DEF LV!IsSolution, LV!Blocks, Blocks
  <1>4. QED
    BY <1>3 DEF LV!IsLeastSolution, Inv, BelowSolutions, LV!Blocks, Blocks

(***************************************************************************)
(* If fixed_point_iteration returns, the in-sets are the least solution of *)
(* the live-variable equations of the function's graph.                    *)
(***************************************************************************)
THEOREM LeastSolution == Spec => []ReturnsLeastSolution
  <1>1. Inv => ReturnsLeastSolution
    BY SettledIsLeast DEF ReturnsLeastSolution, Inv, SettledInv
  <1>2. QED
    BY <1>1, InvAlways, PTL

(***************************************************************************)
(* A block that reads an operand of a kind operands_equal does not list    *)
(* (an array subscript's element-size operand) before writing it keeps     *)
(* fixed_point_iteration from returning, for every graph and schedule.     *)
(***************************************************************************)
THEOREM OpaqueUseNeverReturns == Spec => []OpaqueUseDiverges
  <1>1. Inv => OpaqueUseDiverges
    <2> SUFFICES ASSUME Inv, done, NEW b \in Blocks PROVE use_set[b] \cap Opaque = {}
      BY DEF OpaqueUseDiverges
    <2>1. Blocks = 1..Len(successors)
      BY BlocksAreIndices DEF Inv
    <2>2. Settled(b)
      BY <2>1 DEF Inv, SettledInv
    <2>3. QED
      BY <2>2 DEF Settled, new_in
  <1>2. QED
    BY <1>1, InvAlways, PTL

(***************************************************************************)
(* fixed_point_iteration implements LiveVariables: every step but the      *)
(* return leaves the answer undelivered, and the return delivers the least *)
(* solution.                                                               *)
(***************************************************************************)
THEOREM Implements == Spec => DeliversLiveVariables
  <1>1. Init => LV!Init
    BY DEF Init, Start, LV!Init, LV!Blocks, Blocks
  <1>2. Inv /\ [Next]_vars => [LV!Next]_(LV!vars)
    <2> SUFFICES ASSUME Inv, [Next]_vars PROVE [LV!Next]_(LV!vars)
      OBVIOUS
    <2>g. UNCHANGED <<successors, use_set, def_set>>
      BY GraphConstant DEF graph
    <2>1. CASE StartPass
      BY <2>1, <2>g DEF StartPass, LV!vars
    <2>2. CASE Visit
      <3>1. ~done /\ ~done'
        BY <2>2 DEF Visit, Inv, SettledInv
      <3>2. QED
        BY <3>1, <2>g DEF LV!vars
    <2>3. CASE Return
      <3>1. ~done /\ done' /\ in_set' = in_set
        BY <2>3 DEF Return
      <3>2. LV!IsLeastSolution(in_set)
        BY <2>3, SettledIsLeast DEF Return
      <3>3. in_set \in [Blocks -> SUBSET Operands]
        BY DEF Inv, TypeOK
      <3>4. LV!Deliver
        BY <3>1, <3>2, <3>3, <2>g DEF LV!Deliver, LV!Blocks, Blocks
      <3>5. QED
        BY <3>4 DEF LV!Next
    <2>4. CASE UNCHANGED vars
      BY <2>4 DEF vars, LV!vars
    <2>5. QED
      BY <2>1, <2>2, <2>3, <2>4 DEF Next
  <1>3. QED
    BY <1>1, <1>2, InvAlways, PTL DEF Spec, LV!Spec, DeliversLiveVariables
==============================================================================
