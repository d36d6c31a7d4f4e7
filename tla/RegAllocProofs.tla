--------------------------- MODULE RegAllocProofs ----------------------------
(***************************************************************************)
(* Proofs about the register allocator, for every number of registers,     *)
(* every instruction sequence and every interference graph.                *)
(*                                                                         *)
(* The safety properties speak of operands that were placed by a bundle.   *)
(* They are inductive together with ColoringInv: what the bundles reached  *)
(* so far and the calling convention placed has a place, nothing else has. *)
(* So the operand a step places is one no earlier choice depended on.      *)
(*                                                                         *)
(* Arguments get the convention's registers because the counter of the     *)
(* first pass is the number of arguments since the last call.              *)
(***************************************************************************)
EXTENDS RegAlloc, FiniteSetTheorems, TLAPS

Reached(op) == \E l \in 1..Len(graph) : l < pos /\ graph[l].operand = op

ColoringInv ==
  pass # "precolor" =>
    /\ \A op \in Operands : HasPlace(op) <=> (op \in precolored \/ Reached(op))
    /\ pass = "done" => pos > Len(graph)

Inv == /\ TypeOK
       /\ ColoringInv
       /\ NoShareWithEarlier
       /\ RestrictionsKept
       /\ FrameOnlyWhenForced

------------------------------------------------------------------------------
LEMMA ToRegisterTyped ==
  ASSUME TypeOK, NEW op, NEW reg \in Registers, ToRegister(op, reg)
  PROVE  /\ assigned_register' \in [Operands -> Registers \cup {Unassigned}]
         /\ permanent_frame_position' \in [Operands -> BOOLEAN]
BY DEF TypeOK, ToRegister

LEMMA ToFrameTyped ==
  ASSUME TypeOK, NEW op, ToFrame(op)
  PROVE  /\ assigned_register' \in [Operands -> Registers \cup {Unassigned}]
         /\ permanent_frame_position' \in [Operands -> BOOLEAN]
BY DEF TypeOK, ToFrame

(* Every step keeps the types: no register index leaves the array, because  *)
(* the counters stop at NumArgs.                                            *)
LEMMA TypeStep == TypeOK /\ [Next]_vars => TypeOK'
<1> SUFFICES ASSUME TypeOK, [Next]_vars
             PROVE  TypeOK'
  OBVIOUS
<1> USE DEF TypeOK
<1>i. InputsOK' <=> InputsOK
  BY DEF Next, PreColor, Color, PreColorArg, PreColorParam, PreColorCall, PreColorReturn,
         PreColorOther, StartColoring, SkipBundle, AssignRegister, GiveFramePosition, Finish,
         inputs, vars, InputsOK
<1>1. CASE PreColorArg
  <2>1. arg_index < NumArgs => ArgOffset + arg_index \in Registers
    BY RegistersAssumption DEF Registers
  <2>2. assigned_register' \in [Operands -> Registers \cup {Unassigned}]
    BY <1>1, <2>1 DEF PreColorArg, ToRegister, ToFrame
  <2>3. permanent_frame_position' \in [Operands -> BOOLEAN]
    BY <1>1 DEF PreColorArg, ToRegister, ToFrame
  <2>4. arg_index' \in 0..NumArgs
    BY <1>1, RegistersAssumption DEF PreColorArg
  <2>5. QED
    BY <1>1, <1>i, <2>2, <2>3, <2>4 DEF PreColorArg
<1>2. CASE PreColorParam
  <2>1. param_index < NumArgs => ArgOffset + param_index \in Registers
    BY RegistersAssumption DEF Registers
  <2>2. assigned_register' \in [Operands -> Registers \cup {Unassigned}]
    BY <1>2, <2>1 DEF PreColorParam, ToRegister, ToFrame
  <2>3. permanent_frame_position' \in [Operands -> BOOLEAN]
    BY <1>2 DEF PreColorParam, ToRegister, ToFrame
  <2>4. param_index' \in 0..NumArgs
    BY <1>2, RegistersAssumption DEF PreColorParam
  <2>5. QED
    BY <1>2, <1>i, <2>2, <2>3, <2>4 DEF PreColorParam
<1>3. CASE PreColorCall
  BY <1>3, <1>i, RegistersAssumption DEF PreColorCall
<1>4. CASE PreColorReturn
  <2>1. 0 \in Registers
    BY RegistersAssumption DEF Registers
  <2>2. QED
    BY <1>4, <1>i, <2>1, ToRegisterTyped DEF PreColorReturn
<1>5. CASE PreColorOther
  BY <1>5, <1>i DEF PreColorOther
<1>6. CASE StartColoring
  BY <1>6, <1>i DEF StartColoring
<1>7. CASE SkipBundle
  BY <1>7, <1>i DEF SkipBundle
<1>8. CASE AssignRegister
  <2>1. Candidates(Bundle) \subseteq Registers
    BY DEF Candidates, FreeRegisters
  <2>2. PICK reg \in Registers : ToRegister(Bundle.operand, reg)
    BY <1>8, <2>1 DEF AssignRegister
  <2>3. QED
    BY <1>8, <1>i, <2>2, ToRegisterTyped DEF AssignRegister
<1>9. CASE GiveFramePosition
  BY <1>9, <1>i, ToFrameTyped DEF GiveFramePosition
<1>10. CASE Finish
  BY <1>10, <1>i DEF Finish
<1>11. CASE UNCHANGED vars
  BY <1>11, <1>i DEF vars
<1>12. QED
  BY <1>1, <1>2, <1>3, <1>4, <1>5, <1>6, <1>7, <1>8, <1>9, <1>10, <1>11
     DEF Next, PreColor, Color

(* The allocator never leaves the register array nor its counters' range.   *)
THEOREM TypeCorrect == Spec => []TypeOK
<1>1. Init => TypeOK
  BY RegistersAssumption DEF Init, Start, TypeOK, Unassigned, Registers
<1>2. QED
  BY <1>1, TypeStep, PTL DEF Spec

------------------------------------------------------------------------------
(* A step of the coloring that places the operand of the bundle it is at.   *)
Places(op) ==
  /\ pass = "color" /\ pass' = "color"
  /\ pos \in 1..Len(graph) /\ pos' = pos + 1
  /\ op = graph[pos].operand
  /\ ~HasPlace(op)
  /\ HasPlace(op)'
  /\ \A other \in Operands \ {op} :
        /\ assigned_register'[other] = assigned_register[other]
        /\ permanent_frame_position'[other] = permanent_frame_position[other]
  /\ UNCHANGED <<inputs, precolored>>

LEMMA BundleOperand ==
  ASSUME TypeOK, NEW k \in 1..Len(graph)
  PROVE  graph[k].operand \in Operands /\ graph[k].interferes_with \subseteq Operands
<1> DEFINE BundleSet == [operand : Operands, interferes_with : SUBSET Operands]
<1>0. graph \in Seq(BundleSet)
  BY DEF TypeOK, InputsOK
<1> HIDE DEF BundleSet
<1>1. graph[k] \in BundleSet
  BY <1>0
<1> USE DEF BundleSet
<1>2. QED
  BY <1>1

LEMMA AtBundlePos ==
  ASSUME TypeOK, AtBundle
  PROVE  /\ pos \in 1..Len(graph)
         /\ pass = "color"
         /\ Bundle.operand = graph[pos].operand
         /\ graph[pos].operand \in Operands
         /\ Bundle.interferes_with = graph[pos].interferes_with
<1>1. pos \in 1..Len(graph)
  BY DEF AtBundle, TypeOK, InputsOK
<1>2. QED
  BY <1>1, BundleOperand DEF AtBundle, Bundle

LEMMA AssignPlaces ==
  ASSUME TypeOK, NEW op, op = graph[pos].operand, AssignRegister
  PROVE  Places(op)
<1>1. AtBundle /\ op = Bundle.operand /\ op \in Operands
  BY AtBundlePos DEF AssignRegister
<1>2. PICK reg \in Registers : ToRegister(op, reg)
  BY <1>1 DEF AssignRegister, Candidates, FreeRegisters
<1>3. assigned_register'[op] # Unassigned
  BY <1>1, <1>2 DEF Registers, Unassigned, ToRegister, TypeOK
<1>4. \A other \in Operands \ {op} :
        /\ assigned_register'[other] = assigned_register[other]
        /\ permanent_frame_position'[other] = permanent_frame_position[other]
  BY <1>2 DEF ToRegister, TypeOK
<1>5. ~HasPlace(op)
  BY <1>1 DEF AssignRegister
<1>6. QED
  BY <1>1, <1>3, <1>4, <1>5, AtBundlePos DEF AssignRegister, Places, HasPlace

LEMMA FramePlaces ==
  ASSUME TypeOK, NEW op, op = graph[pos].operand, GiveFramePosition
  PROVE  Places(op)
<1>1. AtBundle /\ op = Bundle.operand /\ op \in Operands
  BY AtBundlePos DEF GiveFramePosition
<1>2. ToFrame(op) /\ ~HasPlace(op)
  BY <1>1 DEF GiveFramePosition
<1>3. permanent_frame_position'[op]
  BY <1>1, <1>2 DEF ToFrame, TypeOK
<1>4. \A other \in Operands \ {op} :
        /\ assigned_register'[other] = assigned_register[other]
        /\ permanent_frame_position'[other] = permanent_frame_position[other]
  BY <1>2 DEF ToFrame, TypeOK
<1>5. QED
  BY <1>1, <1>2, <1>3, <1>4, AtBundlePos DEF GiveFramePosition, Places, HasPlace

(* Placing the operand of the bundle reached keeps ColoringInv. *)
LEMMA PlacesKeepsColoring ==
  ASSUME TypeOK, ColoringInv, NEW op \in Operands, Places(op)
  PROVE  ColoringInv'
<1>1. \A o \in Operands : Reached(o)' <=> (Reached(o) \/ o = op)
  BY DEF Reached, Places, TypeOK, InputsOK, inputs
<1>2. \A o \in Operands \ {op} : HasPlace(o)' <=> HasPlace(o)
  BY DEF Places, HasPlace
<1>3. QED
  BY <1>1, <1>2 DEF ColoringInv, Places

(* A bundle that had been reached before the step was Placed before it iff  *)
(* it is after it; its operand and those placed before it are not op.       *)
LEMMA EarlierUntouched ==
  ASSUME TypeOK, ColoringInv, NEW op \in Operands, Places(op),
         NEW k \in 1..Len(graph), k < pos, Placed(k)'
  PROVE  /\ Placed(k)
         /\ graph[k].operand \in Operands \ {op}
         /\ \A other \in Operands : PlacedBefore(other, k) => other # op
         /\ \A other \in Operands : HasPlace(other) => other # op
<1>1. Placed(k)
  BY DEF Placed, Places, inputs
<1>2. graph[k].operand \in Operands /\ Reached(graph[k].operand)
  BY BundleOperand DEF Reached
<1>3. \A other \in Operands : PlacedBefore(other, k) => HasPlace(other)
  <2> SUFFICES ASSUME NEW other \in Operands, PlacedBefore(other, k)
               PROVE  HasPlace(other)
    OBVIOUS
  <2>1. other \in precolored \/ Reached(other)
    BY DEF PlacedBefore, Reached, TypeOK, InputsOK
  <2>2. QED
    BY <2>1 DEF ColoringInv, Places
<1>4. HasPlace(graph[k].operand)
  BY <1>2 DEF ColoringInv, Places
<1>5. QED
  BY <1>1, <1>2, <1>3, <1>4 DEF Places

(* The bundle the step is at becomes Placed only if its operand is new. *)
LEMMA BundleCases ==
  ASSUME TypeOK, NEW op \in Operands, Places(op), NEW k \in 1..Len(graph), Placed(k)'
  PROVE  k < pos \/ k = pos
BY DEF Placed, Places, TypeOK

------------------------------------------------------------------------------
(* One lemma for each safety property: an earlier bundle is untouched, the  *)
(* bundle at pos satisfies it by the choice just made.                      *)

LEMMA NoShareStep ==
  ASSUME TypeOK, ColoringInv, NoShareWithEarlier, NEW op \in Operands, Places(op),
         \A other \in graph[pos].interferes_with :
            other # op => ~Shares(op, other)'
  PROVE  NoShareWithEarlier'
<1> SUFFICES ASSUME NEW k \in 1..Len(graph), Placed(k)',
                    NEW other \in graph[k].interferes_with, PlacedBefore(other, k)'
             PROVE  ~Shares(graph[k].operand, other)'
  BY DEF NoShareWithEarlier, Places, inputs
<1>1. PlacedBefore(other, k) /\ other \in Operands
  BY BundleOperand DEF PlacedBefore, Places, inputs
<1>2. CASE k < pos
  <2>1. Placed(k) /\ graph[k].operand \in Operands \ {op} /\ other # op
    BY <1>1, <1>2, EarlierUntouched
  <2>2. ~Shares(graph[k].operand, other)
    BY <1>1, <2>1 DEF NoShareWithEarlier
  <2>3. QED
    BY <1>1, <2>1, <2>2 DEF Shares, Places, inputs
<1>3. CASE k = pos
  <2>1. other # op
    BY <1>1, <1>3 DEF Placed, PlacedBefore, Places, inputs
  <2>2. QED
    BY <1>3, <2>1 DEF Places, inputs, Shares
<1>4. QED
  BY <1>2, <1>3, BundleCases

LEMMA RestrictionsStep ==
  ASSUME TypeOK, ColoringInv, RestrictionsKept, NEW op \in Operands, Places(op),
         assigned_register'[op] \notin restricted_regs[op]
  PROVE  RestrictionsKept'
<1> SUFFICES ASSUME NEW k \in 1..Len(graph), Placed(k)'
             PROVE  assigned_register'[graph[k].operand] \notin restricted_regs[graph[k].operand]
  BY DEF RestrictionsKept, Places, inputs
<1>1. CASE k < pos
  <2>1. Placed(k) /\ graph[k].operand \in Operands \ {op}
    BY <1>1, EarlierUntouched
  <2>2. QED
    BY <2>1 DEF RestrictionsKept, Places
<1>2. CASE k = pos
  BY <1>2 DEF Places
<1>3. QED
  BY <1>1, <1>2, BundleCases

Held(reg, k) ==
  \E other \in graph[k].interferes_with :
     assigned_register[other] = reg /\ ~permanent_frame_position[other]

LEMMA FrameStep ==
  ASSUME TypeOK, ColoringInv, FrameOnlyWhenForced, NEW op \in Operands, Places(op),
         permanent_frame_position'[op] =>
           \A reg \in Registers \ restricted_regs[op] : Held(reg, pos)
  PROVE  FrameOnlyWhenForced'
<1>0. \A reg \in Registers, k \in 1..Len(graph) : Held(reg, k) => Held(reg, k)'
  <2> SUFFICES ASSUME NEW reg \in Registers, NEW k \in 1..Len(graph), Held(reg, k)
               PROVE  Held(reg, k)'
    OBVIOUS
  <2>1. PICK other \in graph[k].interferes_with :
           assigned_register[other] = reg /\ ~permanent_frame_position[other]
    BY DEF Held
  <2>2. other \in Operands
    BY BundleOperand
  <2>3. other # op
    BY <2>1 DEF Places, HasPlace, Registers, Unassigned
  <2>4. QED
    BY <2>1, <2>2, <2>3 DEF Held, Places, inputs
<1> SUFFICES ASSUME NEW k \in 1..Len(graph), Placed(k)',
                    permanent_frame_position'[graph[k].operand],
                    NEW reg \in Registers \ restricted_regs[graph[k].operand]
             PROVE  Held(reg, k)'
  BY DEF FrameOnlyWhenForced, Places, inputs, Held
<1>1. CASE k < pos
  <2>1. Placed(k) /\ graph[k].operand \in Operands \ {op}
    BY <1>1, EarlierUntouched
  <2>2. Held(reg, k)
    BY <2>1 DEF FrameOnlyWhenForced, Places, Held
  <2>3. QED
    BY <1>0, <2>2
<1>2. CASE k = pos
  BY <1>0, <1>2 DEF Places
<1>3. QED
  BY <1>1, <1>2, BundleCases

------------------------------------------------------------------------------
(* Steps outside the coloring change nothing Inv speaks of. *)
LEMMA PreColorStep ==
  ASSUME Inv, PreColor
  PROVE  Inv'
<1>1. TypeOK'
  BY TypeStep DEF Inv, Next
<1>2. pass' = "precolor"
  BY DEF PreColor, PreColorArg, PreColorParam, PreColorCall, PreColorReturn, PreColorOther, At
<1>3. QED
  BY <1>1, <1>2 DEF Inv, ColoringInv, NoShareWithEarlier, RestrictionsKept,
                    FrameOnlyWhenForced, Placed

LEMMA StartColoringStep ==
  ASSUME Inv, StartColoring
  PROVE  Inv'
<1>1. TypeOK'
  BY TypeStep DEF Inv, Next
<1>2. \A k \in 1..Len(graph)' : ~(k < pos')
  BY DEF StartColoring
<1>3. ColoringInv'
  BY <1>2 DEF StartColoring, ColoringInv, Reached, HasPlace
<1>4. QED
  BY <1>1, <1>2, <1>3 DEF Inv, NoShareWithEarlier, RestrictionsKept, FrameOnlyWhenForced, Placed

LEMMA SkipStep ==
  ASSUME Inv, SkipBundle
  PROVE  Inv'
<1>1. TypeOK' /\ TypeOK
  BY TypeStep DEF Inv, Next, Color
<1>2. /\ pos \in 1..Len(graph) /\ pos' = pos + 1
      /\ pass = "color" /\ pass' = "color"
      /\ HasPlace(graph[pos].operand)
      /\ graph[pos].operand \in Operands
      /\ UNCHANGED <<inputs, assigned_register, permanent_frame_position, precolored>>
  BY <1>1, BundleOperand DEF SkipBundle, AtBundle, Bundle, TypeOK, InputsOK
<1>3. graph[pos].operand \in precolored \/ Reached(graph[pos].operand)
  BY <1>2 DEF Inv, ColoringInv
<1>4. ColoringInv'
  <2>1. \A op \in Operands : Reached(op)' <=> (Reached(op) \/ op = graph[pos].operand)
    BY <1>1, <1>2 DEF Reached, TypeOK, InputsOK, inputs
  <2>2. \A op \in Operands : HasPlace(op)' <=> HasPlace(op)
    BY <1>2 DEF HasPlace
  <2>3. QED
    BY <1>2, <1>3, <2>1, <2>2 DEF Inv, ColoringInv
<1>5. \A k \in 1..Len(graph) : Placed(k)' => Placed(k)
  <2> SUFFICES ASSUME NEW k \in 1..Len(graph), Placed(k)'
               PROVE  k < pos
    BY <1>2 DEF Placed, inputs
  <2>1. k # pos
    BY <1>1, <1>2, <1>3 DEF Placed, Reached, inputs, TypeOK, InputsOK
  <2>2. QED
    BY <1>1, <1>2, <2>1 DEF Placed, TypeOK
<1>6. NoShareWithEarlier'
  BY <1>2, <1>5 DEF Inv, NoShareWithEarlier, PlacedBefore, Shares, inputs
<1>7. RestrictionsKept' /\ FrameOnlyWhenForced'
  BY <1>2, <1>5 DEF Inv, RestrictionsKept, FrameOnlyWhenForced, inputs
<1>8. QED
  BY <1>1, <1>4, <1>6, <1>7 DEF Inv

LEMMA AssignStep ==
  ASSUME Inv, AssignRegister
  PROVE  Inv'
<1>1. TypeOK' /\ TypeOK
  BY TypeStep DEF Inv, Next, Color
<1>2. AtBundle
  BY DEF AssignRegister
<1>3. PICK op \in Operands : op = graph[pos].operand
  BY <1>1, <1>2, AtBundlePos
<1>4. op = Bundle.operand /\ pos \in 1..Len(graph)
  BY <1>1, <1>2, <1>3, AtBundlePos
<1>5. Places(op)
  BY <1>1, <1>3, AssignPlaces
<1>6. PICK reg \in Candidates(Bundle) : ToRegister(op, reg)
  BY <1>4 DEF AssignRegister
<1>7. assigned_register'[op] = reg /\ reg \in Registers /\ reg \notin restricted_regs[op]
  BY <1>1, <1>4, <1>6 DEF ToRegister, Candidates, FreeRegisters, TypeOK
<1>8. ~permanent_frame_position'[op]
  BY <1>4, <1>6 DEF AssignRegister, HasPlace, ToRegister
<1>9. \A other \in graph[pos].interferes_with : other # op => ~Shares(op, other)'
  <2> SUFFICES ASSUME NEW other \in graph[pos].interferes_with, other # op
               PROVE  ~Shares(op, other)'
    OBVIOUS
  <2>1. other \in Operands
    BY <1>1, <1>4, BundleOperand
  <2>2. permanent_frame_position[other] \/ assigned_register[other] # reg
    BY <1>6 DEF Candidates, FreeRegisters, Bundle
  <2>3. permanent_frame_position'[other] \/ assigned_register'[other] # reg
    BY <1>5, <2>1, <2>2 DEF Places
  <2>4. QED
    BY <1>7, <2>3 DEF Shares
<1>10. ColoringInv'
  BY <1>1, <1>5, PlacesKeepsColoring DEF Inv
<1>11. NoShareWithEarlier'
  BY <1>1, <1>5, <1>9, NoShareStep DEF Inv
<1>12. RestrictionsKept'
  BY <1>1, <1>5, <1>7, RestrictionsStep DEF Inv
<1>13. FrameOnlyWhenForced'
  BY <1>1, <1>5, <1>8, FrameStep DEF Inv
<1>14. QED
  BY <1>1, <1>10, <1>11, <1>12, <1>13 DEF Inv

LEMMA FramePositionStep ==
  ASSUME Inv, GiveFramePosition
  PROVE  Inv'
<1>1. TypeOK' /\ TypeOK
  BY TypeStep DEF Inv, Next, Color
<1>2. AtBundle
  BY DEF GiveFramePosition
<1>3. PICK op \in Operands : op = graph[pos].operand
  BY <1>1, <1>2, AtBundlePos
<1>4. op = Bundle.operand /\ pos \in 1..Len(graph)
  BY <1>1, <1>2, <1>3, AtBundlePos
<1>5. Places(op)
  BY <1>1, <1>3, FramePlaces
<1>6. assigned_register'[op] = Unassigned
  BY <1>4 DEF GiveFramePosition, HasPlace, ToFrame
<1>7. assigned_register'[op] \notin restricted_regs[op]
  BY <1>1, <1>6 DEF TypeOK, InputsOK, Registers, Unassigned
<1>8. \A reg \in Registers \ restricted_regs[op] : Held(reg, pos)
  BY <1>3, <1>4 DEF GiveFramePosition, Candidates, FreeRegisters, Held, Bundle
<1>9. \A other \in graph[pos].interferes_with : other # op => ~Shares(op, other)'
  BY <1>6 DEF Shares
<1>10. ColoringInv'
  BY <1>1, <1>5, PlacesKeepsColoring DEF Inv
<1>11. NoShareWithEarlier'
  BY <1>1, <1>5, <1>9, NoShareStep DEF Inv
<1>12. RestrictionsKept'
  BY <1>1, <1>5, <1>7, RestrictionsStep DEF Inv
<1>13. FrameOnlyWhenForced'
  BY <1>1, <1>5, <1>8, FrameStep DEF Inv
<1>14. QED
  BY <1>1, <1>10, <1>11, <1>12, <1>13 DEF Inv

LEMMA FinishStep ==
  ASSUME Inv, Finish
  PROVE  Inv'
<1>1. TypeOK' /\ TypeOK
  BY TypeStep DEF Inv, Next
<1>2. ColoringInv'
  BY <1>1 DEF Finish, Inv, ColoringInv, Reached, HasPlace, TypeOK, InputsOK, inputs
<1>3. \A k \in 1..Len(graph) : Placed(k)' <=> Placed(k)
  BY DEF Finish, Placed, inputs
<1>4. NoShareWithEarlier'
  BY <1>3 DEF Finish, Inv, NoShareWithEarlier, PlacedBefore, Shares, inputs
<1>5. RestrictionsKept' /\ FrameOnlyWhenForced'
  BY <1>3 DEF Finish, Inv, RestrictionsKept, FrameOnlyWhenForced, inputs
<1>6. QED
  BY <1>1, <1>2, <1>4, <1>5 DEF Inv

LEMMA InvStep == Inv /\ [Next]_vars => Inv'
<1> SUFFICES ASSUME Inv, [Next]_vars
             PROVE  Inv'
  OBVIOUS
<1>1. CASE UNCHANGED vars
  BY <1>1 DEF vars, Inv, TypeOK, InputsOK, ColoringInv, Reached, HasPlace,
              NoShareWithEarlier, PlacedBefore, Shares, RestrictionsKept,
              FrameOnlyWhenForced, Placed
<1>2. QED
  BY <1>1, PreColorStep, StartColoringStep, SkipStep, AssignStep, FramePositionStep,
     FinishStep DEF Next, Color

LEMMA InvStart == InputsOK /\ Start => Inv
<1> SUFFICES ASSUME InputsOK, Start
             PROVE  Inv
  OBVIOUS
<1>1. TypeOK
  BY RegistersAssumption DEF Start, TypeOK, Unassigned, Registers
<1>2. pass = "precolor"
  BY DEF Start
<1>3. QED
  BY <1>1, <1>2 DEF Inv, ColoringInv, NoShareWithEarlier, RestrictionsKept,
                    FrameOnlyWhenForced, Placed

(* The inductive invariant. *)
THEOREM Invariant == Spec => []Inv
BY InvStart, InvStep, PTL DEF Spec, Init

------------------------------------------------------------------------------
(* A register given by a bundle is held by no interfering operand placed    *)
(* before, whatever the interference graph and the calling convention.      *)
THEOREM NeverSharesWithEarlier == Spec => []NoShareWithEarlier
<1>1. Inv => NoShareWithEarlier
  BY DEF Inv
<1>2. QED
  BY <1>1, Invariant, PTL

(* Operands whose first bundles name each other have different registers.   *)
THEOREM MutualInterferenceRespected == Spec => []MutualNeverShare
<1>1. Inv => MutualNeverShare
  <2> SUFFICES ASSUME Inv, NEW k \in 1..Len(graph), NEW l \in 1..Len(graph),
                      Placed(k), Placed(l), k # l,
                      graph[k].operand \in graph[l].interferes_with,
                      graph[l].operand \in graph[k].interferes_with
               PROVE  ~Shares(graph[k].operand, graph[l].operand)
    BY DEF MutualNeverShare
  <2>1. CASE k < l
    <3>1. PlacedBefore(graph[k].operand, l)
      BY <2>1 DEF PlacedBefore, Inv, TypeOK, InputsOK
    <3>2. QED
      BY <3>1 DEF Inv, NoShareWithEarlier, Shares
  <2>2. CASE l < k
    <3>1. PlacedBefore(graph[l].operand, k)
      BY <2>2 DEF PlacedBefore, Inv, TypeOK, InputsOK
    <3>2. QED
      BY <3>1 DEF Inv, NoShareWithEarlier
  <2>3. QED
    BY <2>1, <2>2
<1>2. QED
  BY <1>1, Invariant, PTL

(* No operand placed by a bundle gets a register it is restricted from.     *)
THEOREM RestrictionsRespected == Spec => []RestrictionsKept
<1>1. Inv => RestrictionsKept
  BY DEF Inv
<1>2. QED
  BY <1>1, Invariant, PTL

(* An operand goes to the frame only when no register is left for it.       *)
THEOREM FrameIsLastResort == Spec => []FrameOnlyWhenForced
<1>1. Inv => FrameOnlyWhenForced
  BY DEF Inv
<1>2. QED
  BY <1>1, Invariant, PTL

(* When the coloring is over every operand with a bundle has a place.       *)
THEOREM NobodyForgotten == Spec => []EveryBundlePlaced
<1>1. Inv => EveryBundlePlaced
  <2> SUFFICES ASSUME Inv, pass = "done", NEW k \in 1..Len(graph)
               PROVE  HasPlace(graph[k].operand)
    BY DEF EveryBundlePlaced
  <2>1. pos > Len(graph) /\ pos \in Nat /\ Len(graph) \in Nat
    BY DEF Inv, ColoringInv, TypeOK, InputsOK
  <2>2. graph[k].operand \in Operands /\ Reached(graph[k].operand)
    BY <2>1, BundleOperand DEF Inv, Reached
  <2>3. QED
    BY <2>2 DEF Inv, ColoringInv
<1>2. QED
  BY <1>1, Invariant, PTL

(* The coloring moves no operand that has a place. *)
THEOREM PlacesStay == Spec => PlacesAreFinal
<1> DEFINE Kept == pass = "color" =>
             \A op \in Operands : HasPlace(op) =>
               /\ assigned_register'[op] = assigned_register[op]
               /\ permanent_frame_position'[op] = permanent_frame_position[op]
<1>1. TypeOK /\ [Next]_vars => Kept
  <2> SUFFICES ASSUME TypeOK, [Next]_vars, pass = "color"
               PROVE  Kept
    OBVIOUS
  <2>1. CASE AssignRegister
    <3>1. PICK o : o = graph[pos].operand
      OBVIOUS
    <3>2. QED
      BY <2>1, <3>1, AssignPlaces DEF Places
  <2>2. CASE GiveFramePosition
    <3>1. PICK o : o = graph[pos].operand
      OBVIOUS
    <3>2. QED
      BY <2>2, <3>1, FramePlaces DEF Places
  <2>3. CASE SkipBundle \/ Finish
    BY <2>3 DEF SkipBundle, Finish
  <2>4. CASE UNCHANGED vars
    BY <2>4 DEF vars
  <2>5. ~PreColor /\ ~StartColoring
    BY DEF PreColor, PreColorArg, PreColorParam, PreColorCall, PreColorReturn, PreColorOther,
           At, StartColoring
  <2>6. QED
    BY <2>1, <2>2, <2>3, <2>4, <2>5 DEF Next, Color
<1>2. QED
  BY <1>1, TypeCorrect, PTL DEF Spec, PlacesAreFinal

------------------------------------------------------------------------------
(* The calling convention.  ArgumentRegisters speaks of every argument at   *)
(* the end of the walk.  The strengthening says where the walk stands: the  *)
(* counter is the number of arguments since the last call, up to NumArgs,   *)
(* and the arguments passed have their places.                              *)

(* The builder creates the operand that an ARG or a RETURN gives its        *)
(* register to for that instruction alone (tac.c:686, 1193).                *)
LabelsAreFresh ==
  \A k, m \in 1..Len(code) : code[k].kind = "ARG" =>
    /\ m # k /\ code[m].kind \in {"ARG", "RETURN"} => code[m].result # code[k].result
    /\ code[m].kind = "PARAM" => code[m].op1 # code[k].result

ArgCount(k) == Cardinality(ArgsSinceCall(k))

ArgPlaced(k) ==
  IF ArgCount(k) < NumArgs
  THEN assigned_register[code[k].result] = ArgOffset + ArgCount(k)
  ELSE permanent_frame_position[code[k].op1]

ArgPassed(k) == code[k].kind = "ARG" /\ (pass = "precolor" => k < pos)

CounterInv ==
  pass = "precolor" =>
    arg_index = IF ArgCount(pos) < NumArgs THEN ArgCount(pos) ELSE NumArgs

ArgInv ==
  /\ CounterInv
  /\ \A k \in 1..Len(code) : ArgPassed(k) => ArgPlaced(k)

(* An argument adds one, a call starts again, and nothing else counts. *)
LEMMA Counting ==
  ASSUME NEW k \in Nat \ {0}
  PROVE  /\ ArgCount(k) \in Nat
         /\ code[k].kind = "ARG" => ArgCount(k + 1) = ArgCount(k) + 1
         /\ code[k].kind = "CALL" => ArgCount(k + 1) = 0
         /\ code[k].kind \notin {"ARG", "CALL"} => ArgCount(k + 1) = ArgCount(k)
<1>1. IsFiniteSet(ArgsSinceCall(k)) /\ k \notin ArgsSinceCall(k)
  <2>1. IsFiniteSet(1..(k - 1))
    BY FS_Interval
  <2>2. ArgsSinceCall(k) \in SUBSET (1..(k - 1))
    BY DEF ArgsSinceCall
  <2>3. QED
    BY <2>1, <2>2, FS_Subset
<1>2. ArgCount(k) \in Nat
  BY <1>1, FS_CardinalityType DEF ArgCount
<1>3. ASSUME code[k].kind = "ARG"
      PROVE  ArgCount(k + 1) = ArgCount(k) + 1
  <2>1. ArgsSinceCall(k + 1) = ArgsSinceCall(k) \cup {k}
    BY <1>3 DEF ArgsSinceCall
  <2>2. QED
    BY <1>1, <2>1, FS_AddElement DEF ArgCount
<1>4. ASSUME code[k].kind = "CALL"
      PROVE  ArgCount(k + 1) = 0
  <2>1. ArgsSinceCall(k + 1) = {}
    BY <1>4 DEF ArgsSinceCall
  <2>2. QED
    BY <2>1, FS_EmptySet DEF ArgCount
<1>5. ASSUME code[k].kind \notin {"ARG", "CALL"}
      PROVE  ArgCount(k + 1) = ArgCount(k)
  <2>1. ArgsSinceCall(k + 1) = ArgsSinceCall(k)
    BY <1>5 DEF ArgsSinceCall
  <2>2. QED
    BY <2>1 DEF ArgCount
<1>6. QED
  BY <1>2, <1>3, <1>4, <1>5

(* What a step of the walk leaves alone: the instructions and the labels    *)
(* of the arguments it has passed.                                          *)
ArgKept(k) ==
  /\ assigned_register[code[k].result] = assigned_register'[code[k].result]
  /\ permanent_frame_position[code[k].op1] => permanent_frame_position'[code[k].op1]

LEMMA KeptStaysPlaced ==
  ASSUME NEW k, ArgPlaced(k), ArgKept(k), UNCHANGED code
  PROVE  ArgPlaced(k)'
BY DEF ArgPlaced, ArgKept, ArgCount, ArgsSinceCall

LEMMA WalkKeeps ==
  ASSUME TypeOK, LabelsAreFresh, PreColor, NEW k \in 1..Len(code), k # pos,
         code[k].kind = "ARG"
  PROVE  ArgKept(k)
<1>1. pos \in 1..Len(code)
  BY DEF TypeOK, InputsOK, PreColor, PreColorArg, PreColorParam, PreColorCall, PreColorReturn,
         PreColorOther, At
<1>2. code[k].result \in Operands /\ code[k].op1 \in Operands
  BY DEF TypeOK, InputsOK
<1>3. CASE PreColorArg
  BY <1>1, <1>2, <1>3 DEF PreColorArg, At, ToRegister, ToFrame, ArgKept, LabelsAreFresh, TypeOK
<1>4. CASE PreColorParam
  BY <1>1, <1>2, <1>4 DEF PreColorParam, At, ToRegister, ToFrame, ArgKept, LabelsAreFresh, TypeOK
<1>5. CASE PreColorReturn
  BY <1>1, <1>2, <1>5 DEF PreColorReturn, At, ToRegister, ArgKept, LabelsAreFresh, TypeOK
<1>6. CASE PreColorCall \/ PreColorOther
  BY <1>6 DEF PreColorCall, PreColorOther, ArgKept
<1>7. QED
  BY <1>3, <1>4, <1>5, <1>6 DEF PreColor

(* The argument the walk is at gets its register or its slot. *)
LEMMA ArgGetsPlace ==
  ASSUME TypeOK, CounterInv, PreColorArg, NEW k, k = pos
  PROVE  ArgPlaced(k)'
<1>1. k \in 1..Len(code) /\ code[k].kind = "ARG" /\ pass = "precolor"
  BY DEF PreColorArg, At, TypeOK, InputsOK
<1>2. code[k].result \in Operands /\ code[k].op1 \in Operands
  BY <1>1 DEF TypeOK, InputsOK
<1>3. ArgCount(k) \in Nat
  BY <1>1, Counting
<1>4. QED
  BY <1>1, <1>2, <1>3, RegistersAssumption
     DEF PreColorArg, ToRegister, ToFrame, ArgPlaced, CounterInv, TypeOK, ArgCount,
         ArgsSinceCall, inputs

LEMMA CounterStep == TypeOK /\ CounterInv /\ [Next]_vars => CounterInv'
<1> SUFFICES ASSUME TypeOK, CounterInv, [Next]_vars, pass' = "precolor"
             PROVE  CounterInv'
  BY DEF CounterInv
<1>1. pos \in Nat \ {0} /\ pass = "precolor"
  BY DEF TypeOK, Next, Color, SkipBundle, AssignRegister, GiveFramePosition, AtBundle, Finish,
         StartColoring, PreColor, PreColorArg, PreColorParam, PreColorCall, PreColorReturn,
         PreColorOther, At, vars
<1>2. PICK k : k = pos'
  OBVIOUS
<1>3. ArgCount(k)' = ArgCount(k)
  <2>1. code' = code
    BY DEF Next, Color, SkipBundle, AssignRegister, GiveFramePosition, Finish,
           StartColoring, PreColor, PreColorArg, PreColorParam, PreColorCall, PreColorReturn,
           PreColorOther, inputs, vars
  <2>2. QED
    BY <2>1 DEF ArgCount, ArgsSinceCall
<1>4. SUFFICES arg_index' = IF ArgCount(k) < NumArgs THEN ArgCount(k) ELSE NumArgs
  <2>1. ArgCount(pos)' = ArgCount(k)
    BY <1>2, <1>3 DEF ArgCount, ArgsSinceCall
  <2>2. QED
    BY <2>1 DEF CounterInv
<1>5. arg_index = IF ArgCount(pos) < NumArgs THEN ArgCount(pos) ELSE NumArgs
  BY <1>1 DEF CounterInv
<1>6. ArgCount(pos) \in Nat
  BY <1>1, Counting
<1>7. CASE PreColorArg
  <2>1. ArgCount(pos + 1) = ArgCount(pos) + 1
    BY <1>1, <1>7, Counting DEF PreColorArg, At
  <2>2. QED
    BY <1>2, <1>5, <1>6, <1>7, <2>1, RegistersAssumption DEF PreColorArg
<1>8. CASE PreColorCall
  <2>1. ArgCount(pos + 1) = 0
    BY <1>1, <1>8, Counting DEF PreColorCall, At
  <2>2. QED
    BY <1>2, <1>8, <2>1, RegistersAssumption DEF PreColorCall
<1>9. CASE PreColorParam \/ PreColorReturn \/ PreColorOther
  <2>1. ArgCount(pos + 1) = ArgCount(pos)
    BY <1>1, <1>9, Counting DEF PreColorParam, PreColorReturn, PreColorOther, At
  <2>2. QED
    BY <1>2, <1>5, <1>9, <2>1 DEF PreColorParam, PreColorReturn, PreColorOther
<1>10. CASE UNCHANGED vars
  BY <1>2, <1>5, <1>10 DEF vars
<1>11. QED
  BY <1>1, <1>7, <1>8, <1>9, <1>10
     DEF Next, PreColor, Color, StartColoring, SkipBundle, AssignRegister, GiveFramePosition,
         AtBundle, Finish

(* The coloring keeps what the walk gave, because it moves no operand that  *)
(* has a place.                                                             *)
LEMMA ColoringKeeps ==
  ASSUME TypeOK, Color, NEW k \in 1..Len(code), code[k].kind = "ARG", ArgPlaced(k)
  PROVE  ArgPlaced(k)'
<1>1. code[k].result \in Operands /\ code[k].op1 \in Operands
  BY DEF TypeOK, InputsOK
<1>2. ArgCount(k) \in Nat
  BY Counting
<1>3. code' = code
  BY DEF Color, SkipBundle, AssignRegister, GiveFramePosition, inputs
<1>4. ArgCount(k)' = ArgCount(k)
  BY <1>3 DEF ArgCount, ArgsSinceCall
<1>5. ArgCount(k) < NumArgs => HasPlace(code[k].result)
  BY <1>2, RegistersAssumption DEF ArgPlaced, HasPlace, Unassigned
<1>6. permanent_frame_position[code[k].op1] => HasPlace(code[k].op1)
  BY DEF HasPlace
<1>7. ASSUME NEW op \in Operands, HasPlace(op)
      PROVE  /\ assigned_register'[op] = assigned_register[op]
             /\ permanent_frame_position'[op] = permanent_frame_position[op]
  <2>1. CASE SkipBundle
    BY <2>1 DEF SkipBundle
  <2>2. CASE AssignRegister
    BY <1>7, <2>2 DEF AssignRegister, ToRegister, TypeOK
  <2>3. CASE GiveFramePosition
    BY <1>7, <2>3 DEF GiveFramePosition, ToFrame, TypeOK
  <2>4. QED
    BY <2>1, <2>2, <2>3 DEF Color
<1>8. CASE ArgCount(k) < NumArgs
  BY <1>1, <1>3, <1>4, <1>5, <1>7, <1>8 DEF ArgPlaced
<1>9. CASE ~(ArgCount(k) < NumArgs)
  BY <1>1, <1>3, <1>4, <1>6, <1>7, <1>9 DEF ArgPlaced
<1>10. QED
  BY <1>8, <1>9

LEMMA ArgStep == TypeOK /\ LabelsAreFresh /\ ArgInv /\ [Next]_vars => ArgInv'
<1> SUFFICES ASSUME TypeOK, LabelsAreFresh, ArgInv, [Next]_vars
             PROVE  ArgInv'
  OBVIOUS
<1>1. CounterInv'
  BY CounterStep DEF ArgInv
<1>2. code' = code
  BY DEF Next, Color, SkipBundle, AssignRegister, GiveFramePosition, Finish,
         StartColoring, PreColor, PreColorArg, PreColorParam, PreColorCall, PreColorReturn,
         PreColorOther, inputs, vars
<1>3. ASSUME NEW k \in 1..Len(code), ArgPassed(k)'
      PROVE  ArgPlaced(k)'
  <2>1. code[k].kind = "ARG"
    BY <1>2, <1>3 DEF ArgPassed
  <2>2. CASE PreColor /\ k = pos
    <3>1. PreColorArg
      BY <2>1, <2>2 DEF PreColor, PreColorArg, PreColorParam, PreColorCall, PreColorReturn,
                        PreColorOther, At
    <3>2. QED
      BY <2>2, <3>1, ArgGetsPlace DEF ArgInv
  <2>3. CASE PreColor /\ k # pos
    <3>1. ArgPassed(k)
      BY <1>2, <1>3, <2>1, <2>3
         DEF ArgPassed, PreColor, PreColorArg, PreColorParam, PreColorCall, PreColorReturn,
             PreColorOther, At, TypeOK
    <3>2. ArgPlaced(k) /\ ArgKept(k)
      BY <2>1, <2>3, <3>1, WalkKeeps DEF ArgInv
    <3>3. QED
      BY <1>2, <3>2, KeptStaysPlaced
  <2>4. CASE Color
    <3>1. ArgPlaced(k)
      BY <2>1, <2>4 DEF Color, SkipBundle, AssignRegister, GiveFramePosition, AtBundle, ArgPassed,
                        ArgInv
    <3>2. QED
      BY <2>1, <2>4, <3>1, ColoringKeeps
  <2>5. CASE StartColoring \/ Finish \/ UNCHANGED vars
    <3>1. ArgPassed(k)
      BY <1>2, <1>3, <2>1, <2>5 DEF ArgPassed, StartColoring, Finish, TypeOK, InputsOK, vars
    <3>2. UNCHANGED <<assigned_register, permanent_frame_position>>
      BY <2>5 DEF StartColoring, Finish, vars
    <3>3. QED
      BY <1>2, <3>1, <3>2, KeptStaysPlaced DEF ArgInv, ArgKept
  <2>6. QED
    BY <2>2, <2>3, <2>4, <2>5 DEF Next
<1>4. QED
  BY <1>1, <1>2, <1>3 DEF ArgInv

(* The arguments of a call travel in the convention's registers, in their   *)
(* order, and the ones past the last register in the frame.                 *)
THEOREM ArgumentsTravel == Spec => [](LabelsAreFresh => ArgumentRegisters)
<1>1. Init => ArgInv
  <2> SUFFICES ASSUME Init
               PROVE  ArgInv
    OBVIOUS
  <2>1. ArgsSinceCall(1) = {}
    BY DEF ArgsSinceCall
  <2>2. ArgCount(pos) = 0
    BY <2>1, FS_EmptySet DEF ArgCount, Init, Start
  <2>3. QED
    BY <2>2, RegistersAssumption DEF Init, Start, ArgInv, CounterInv, ArgPassed
<1>2. [Next]_vars => (LabelsAreFresh' <=> LabelsAreFresh)
  <2>1. [Next]_vars => code' = code
    BY DEF Next, Color, SkipBundle, AssignRegister, GiveFramePosition, Finish,
           StartColoring, PreColor, PreColorArg, PreColorParam, PreColorCall, PreColorReturn,
           PreColorOther, inputs, vars
  <2>2. QED
    BY <2>1 DEF LabelsAreFresh
<1>3. TypeOK /\ (LabelsAreFresh => ArgInv) /\ [Next]_vars => (LabelsAreFresh => ArgInv)'
  BY <1>2, ArgStep
<1>4. ArgInv => ArgumentRegisters
  BY DEF ArgInv, ArgPassed, ArgPlaced, ArgCount, ArgumentRegisters
<1>5. QED
  BY <1>1, <1>3, <1>4, TypeCorrect, PTL DEF Spec

------------------------------------------------------------------------------
(* Who has a place before the coloring: the operands the calling convention *)
(* speaks of, an argument's own value only in the frame.                    *)
FromConvention(op) ==
  \E k \in 1..Len(code) :
     \/ code[k].kind \in {"ARG", "RETURN"} /\ code[k].result = op
     \/ code[k].kind = "PARAM" /\ code[k].op1 = op
     \/ code[k].kind = "ARG" /\ code[k].op1 = op /\ permanent_frame_position[op]

ConventionInv ==
  IF pass = "precolor" THEN \A op \in Operands : HasPlace(op) => FromConvention(op)
                       ELSE \A op \in precolored : FromConvention(op)

LEMMA ConventionStep == TypeOK /\ ConventionInv /\ [Next]_vars => ConventionInv'
<1> SUFFICES ASSUME TypeOK, ConventionInv, [Next]_vars
             PROVE  ConventionInv'
  OBVIOUS
<1>1. code' = code /\ Len(code) \in Nat
  BY DEF Next, Color, SkipBundle, AssignRegister, GiveFramePosition, Finish,
         StartColoring, PreColor, PreColorArg, PreColorParam, PreColorCall, PreColorReturn,
         PreColorOther, inputs, vars, TypeOK, InputsOK
<1>2. \A op \in Operands : permanent_frame_position[op] => permanent_frame_position'[op]
  BY DEF Next, Color, SkipBundle, AssignRegister, GiveFramePosition, Finish,
         StartColoring, PreColor, PreColorArg, PreColorParam, PreColorCall, PreColorReturn,
         PreColorOther, vars, TypeOK, ToFrame, ToRegister
<1>3. \A op \in Operands : FromConvention(op) => FromConvention(op)'
  BY <1>1, <1>2 DEF FromConvention
<1>4. CASE PreColor
  <2>1. pos \in 1..Len(code) /\ pass = "precolor" /\ pass' = "precolor"
    BY <1>1, <1>4 DEF PreColor, PreColorArg, PreColorParam, PreColorCall, PreColorReturn,
                      PreColorOther, At, TypeOK
  <2>2. ASSUME NEW op \in Operands, HasPlace(op)', ~HasPlace(op)
        PROVE  FromConvention(op)'
    <3>1. \/ code[pos].kind \in {"ARG", "RETURN"} /\ code[pos].result = op
          \/ code[pos].kind = "PARAM" /\ code[pos].op1 = op
          \/ code[pos].kind = "ARG" /\ code[pos].op1 = op /\ permanent_frame_position'[op]
      <4>1. CASE PreColorArg
        BY <2>2, <4>1 DEF PreColorArg, At, ToRegister, ToFrame, HasPlace, TypeOK
      <4>2. CASE PreColorParam
        BY <2>2, <4>2 DEF PreColorParam, At, ToRegister, ToFrame, HasPlace, TypeOK
      <4>3. CASE PreColorReturn
        BY <2>2, <4>3 DEF PreColorReturn, At, ToRegister, HasPlace, TypeOK
      <4>4. CASE PreColorCall \/ PreColorOther
        BY <2>2, <4>4 DEF PreColorCall, PreColorOther, HasPlace
      <4>5. QED
        BY <1>4, <4>1, <4>2, <4>3, <4>4 DEF PreColor
    <3>2. PICK k \in 1..Len(code) : k = pos
      BY <2>1
    <3>3. QED
      BY <1>1, <3>1, <3>2 DEF FromConvention
  <2>3. QED
    BY <1>3, <2>1, <2>2 DEF ConventionInv
<1>5. CASE StartColoring
  BY <1>3, <1>5 DEF StartColoring, ConventionInv
<1>6. CASE Color \/ Finish
  <2>1. pass # "precolor" /\ pass' # "precolor" /\ precolored' = precolored
    BY <1>6 DEF Color, SkipBundle, AssignRegister, GiveFramePosition, AtBundle, Finish
  <2>2. QED
    BY <1>3, <2>1 DEF ConventionInv, TypeOK
<1>7. CASE UNCHANGED vars
  BY <1>7 DEF vars, ConventionInv, FromConvention, HasPlace
<1>8. QED
  BY <1>4, <1>5, <1>6, <1>7 DEF Next

(* The parameters get the convention's registers in their order, if they    *)
(* come first: the counter is then the number of instructions passed.       *)
ParamsLead ==
  \A k, m \in 1..Len(code) : code[k].kind = "PARAM" /\ m < k => code[m].kind = "PARAM"

(* Parameter k is no other's, and no label the convention places. *)
Sole(k) ==
  /\ code[k].kind = "PARAM"
  /\ \A m \in 1..Len(code) :
        /\ m # k /\ code[m].kind = "PARAM" => code[m].op1 # code[k].op1
        /\ code[m].kind \in {"ARG", "RETURN"} => code[m].result # code[k].op1

ParamPlaced(k) ==
  \/ permanent_frame_position[code[k].op1]
  \/ assigned_register[code[k].op1] = ArgOffset + (k - 1)

ParamCounter ==
  pass = "precolor" /\ (\A m \in 1..(pos - 1) : code[m].kind = "PARAM") =>
    param_index = IF pos - 1 < NumArgs THEN pos - 1 ELSE NumArgs

ParamInv ==
  /\ ParamCounter
  /\ \A k \in 1..Len(code) :
        Sole(k) /\ (pass = "precolor" => k < pos) => ParamPlaced(k)

LEMMA ParamCounterStep == TypeOK /\ ParamCounter /\ [Next]_vars => ParamCounter'
<1> SUFFICES ASSUME TypeOK, ParamCounter, [Next]_vars, pass' = "precolor",
                    \A m \in 1..(pos' - 1) : code'[m].kind = "PARAM"
             PROVE  param_index' = IF pos' - 1 < NumArgs THEN pos' - 1 ELSE NumArgs
  BY DEF ParamCounter
<1>1. CASE UNCHANGED vars
  BY <1>1 DEF vars, ParamCounter
<1>2. CASE ~UNCHANGED vars
  <2>1. PreColor
    BY <1>2 DEF Next, Color, SkipBundle, AssignRegister, GiveFramePosition, AtBundle, Finish,
                StartColoring
  <2>2. pos' = pos + 1 /\ pos \in Nat \ {0} /\ code' = code /\ pass = "precolor"
    BY <2>1 DEF PreColor, PreColorArg, PreColorParam, PreColorCall, PreColorReturn,
                PreColorOther, At, inputs, TypeOK
  <2>3. code[pos].kind = "PARAM" /\ \A m \in 1..(pos - 1) : code[m].kind = "PARAM"
    BY <2>2
  <2>4. param_index = IF pos - 1 < NumArgs THEN pos - 1 ELSE NumArgs
    BY <2>2, <2>3 DEF ParamCounter
  <2>5. PreColorParam
    BY <2>1, <2>3 DEF PreColor, PreColorArg, PreColorCall, PreColorReturn, PreColorOther, At
  <2>6. QED
    BY <2>2, <2>4, <2>5, RegistersAssumption DEF PreColorParam
<1>3. QED
  BY <1>1, <1>2

(* No step takes a parameter's place away. *)
LEMMA ParamKept ==
  ASSUME TypeOK, [Next]_vars, NEW k \in 1..Len(code), Sole(k), ParamPlaced(k), k # pos \/ pass # "precolor"
  PROVE  ParamPlaced(k)'
<1>1. code[k].op1 \in Operands /\ code[k].kind = "PARAM"
  BY DEF TypeOK, InputsOK, Sole
<1>2. code' = code
  BY DEF Next, Color, SkipBundle, AssignRegister, GiveFramePosition, Finish,
         StartColoring, PreColor, PreColorArg, PreColorParam, PreColorCall, PreColorReturn,
         PreColorOther, inputs, vars
<1>3. PICK op : op = code[k].op1
  OBVIOUS
<1>4. SUFFICES /\ permanent_frame_position[op] => permanent_frame_position'[op]
               /\ assigned_register'[op] = assigned_register[op]
  BY <1>2, <1>3 DEF ParamPlaced
<1>5. CASE PreColor
  <2>1. pos \in 1..Len(code) /\ pass = "precolor"
    BY <1>5 DEF TypeOK, InputsOK, PreColor, PreColorArg, PreColorParam, PreColorCall,
                PreColorReturn, PreColorOther, At
  <2>2. CASE PreColorArg
    BY <1>1, <1>3, <2>1, <2>2 DEF PreColorArg, At, ToRegister, ToFrame, Sole, TypeOK
  <2>3. CASE PreColorParam
    BY <1>1, <1>3, <2>1, <2>3 DEF PreColorParam, At, ToRegister, ToFrame, Sole, TypeOK
  <2>4. CASE PreColorReturn
    BY <1>1, <1>3, <2>1, <2>4 DEF PreColorReturn, At, ToRegister, Sole, TypeOK
  <2>5. CASE PreColorCall \/ PreColorOther
    BY <2>5 DEF PreColorCall, PreColorOther
  <2>6. QED
    BY <1>5, <2>2, <2>3, <2>4, <2>5 DEF PreColor
<1>6. CASE Color
  <2>1. HasPlace(op)
    <3>1. k \in Nat \ {0}
      OBVIOUS
    <3>2. ArgOffset + (k - 1) # -1
      BY <3>1, RegistersAssumption
    <3>3. QED
      BY <1>3, <3>2 DEF ParamPlaced, HasPlace, Unassigned
  <2>2. CASE SkipBundle
    BY <2>2 DEF SkipBundle
  <2>3. CASE AssignRegister
    BY <1>1, <1>3, <2>1, <2>3 DEF AssignRegister, ToRegister, TypeOK
  <2>4. CASE GiveFramePosition
    BY <1>1, <1>3, <2>1, <2>4 DEF GiveFramePosition, ToFrame, TypeOK
  <2>5. QED
    BY <1>6, <2>2, <2>3, <2>4 DEF Color
<1>7. CASE StartColoring \/ Finish \/ UNCHANGED vars
  BY <1>7 DEF StartColoring, Finish, vars
<1>8. QED
  BY <1>5, <1>6, <1>7 DEF Next

LEMMA ParamStep == TypeOK /\ ParamsLead /\ ParamInv /\ [Next]_vars => ParamInv'
<1> SUFFICES ASSUME TypeOK, ParamsLead, ParamInv, [Next]_vars
             PROVE  ParamInv'
  OBVIOUS
<1>1. ParamCounter'
  BY ParamCounterStep DEF ParamInv
<1>2. code' = code
  BY DEF Next, Color, SkipBundle, AssignRegister, GiveFramePosition, Finish,
         StartColoring, PreColor, PreColorArg, PreColorParam, PreColorCall, PreColorReturn,
         PreColorOther, inputs, vars
<1>3. ASSUME NEW k \in 1..Len(code), Sole(k), (pass = "precolor" => k < pos)'
      PROVE  ParamPlaced(k)'
  <2>1. CASE PreColor /\ k = pos
    <3>1. code[pos].kind = "PARAM" /\ code[pos].op1 \in Operands /\ pass = "precolor"
      BY <1>3, <2>1 DEF Sole, TypeOK, InputsOK, PreColor, PreColorArg, PreColorParam,
                        PreColorCall, PreColorReturn, PreColorOther, At
    <3>2. PreColorParam
      BY <2>1, <3>1 DEF PreColor, PreColorArg, PreColorCall, PreColorReturn, PreColorOther, At
    <3>3. \A m \in 1..(pos - 1) : code[m].kind = "PARAM"
      BY <2>1, <3>1 DEF ParamsLead, TypeOK, InputsOK
    <3>4. param_index = IF pos - 1 < NumArgs THEN pos - 1 ELSE NumArgs
      BY <3>1, <3>3 DEF ParamInv, ParamCounter
    <3>5. param_index < NumArgs => param_index = pos - 1
      BY <2>1, <3>4, RegistersAssumption
    <3>6. QED
      BY <1>2, <2>1, <3>1, <3>2, <3>5
         DEF PreColorParam, ToRegister, ToFrame, ParamPlaced, TypeOK
  <2>2. CASE ~(PreColor /\ k = pos)
    <3>1. (pass = "precolor" => k < pos) /\ (k # pos \/ pass # "precolor")
      BY <1>3, <2>2
         DEF Next, PreColor, PreColorArg, PreColorParam, PreColorCall, PreColorReturn,
             PreColorOther, At, Color, SkipBundle, AssignRegister, GiveFramePosition, AtBundle,
             Finish, StartColoring, vars, TypeOK, InputsOK
    <3>2. QED
      BY <1>3, <3>1, ParamKept DEF ParamInv
  <2>3. QED
    BY <2>1, <2>2
<1>4. \A k \in 1..Len(code) : Sole(k)' <=> Sole(k)
  BY <1>2 DEF Sole
<1>5. QED
  BY <1>1, <1>2, <1>3, <1>4 DEF ParamInv
==============================================================================
