------------------------------ MODULE RegAlloc -------------------------------
(***************************************************************************)
(* Register allocation for one function (RegAlloc/regalloc.c).             *)
(*                                                                         *)
(* pre_color_nodes walks the instructions once and gives the calling       *)
(* convention's registers away; color_interference_graphs then walks the   *)
(* interference bundles in program order and gives each operand that has   *)
(* no place yet the first register no interfering operand holds, or a      *)
(* permanent place in the stack frame.                                     *)
(*                                                                         *)
(* An operand is an identity: two uses of one symbol are one operand.      *)
(* Registers are the indices of codegen.c's registers[] array.             *)
(***************************************************************************)
EXTENDS Integers, Sequences, FiniteSets

CONSTANTS
  Operands,
  NumRegisters,   \* NUM_REGISTERS, 14
  ArgOffset,      \* ARG_OFFSET, 2: the index of rdi
  NumArgs         \* 6: how many arguments travel in registers

ASSUME RegistersAssumption ==
  /\ NumRegisters \in Nat \ {0}
  /\ ArgOffset \in Nat
  /\ NumArgs \in Nat
  /\ ArgOffset + NumArgs <= NumRegisters

Registers  == 0..(NumRegisters - 1)
Unassigned == -1

VARIABLES
  code,        \* the function's instructions, in block order
  graph,       \* its interference bundles: [operand, interferes_with]
  restricted_regs,           \* operand -> registers it must not get
  assigned_register,         \* operand -> register or Unassigned
  permanent_frame_position,  \* operand -> lives in the stack frame
  arg_index, param_index,    \* pre_color_nodes' counters
  pos,         \* next instruction, then next bundle
  pass,        \* "precolor", "color" or "done"
  precolored   \* auxiliary: who had a place when the coloring began

inputs == <<code, graph, restricted_regs>>
vars   == <<code, graph, restricted_regs, assigned_register, permanent_frame_position,
            arg_index, param_index, pos, pass, precolored>>

HasPlace(op) == assigned_register[op] # Unassigned \/ permanent_frame_position[op]

------------------------------------------------------------------------------
(* create_operand leaves every operand without a place. *)
Start ==
  /\ assigned_register = [op \in Operands |-> Unassigned]
  /\ permanent_frame_position = [op \in Operands |-> FALSE]
  /\ arg_index = 0
  /\ param_index = 0
  /\ pos = 1
  /\ pass = "precolor"
  /\ precolored = {}

------------------------------------------------------------------------------
(* application_binary_interface, one action per kind of instruction.         *)

At(kind) == pass = "precolor" /\ pos <= Len(code) /\ code[pos].kind = kind

ToRegister(op, reg) ==
  /\ assigned_register' = [assigned_register EXCEPT ![op] = reg]
  /\ UNCHANGED permanent_frame_position

ToFrame(op) ==
  /\ permanent_frame_position' = [permanent_frame_position EXCEPT ![op] = TRUE]
  /\ UNCHANGED assigned_register

(* Mutant: <= for <, the seventh argument takes a register too. *)
MutantOneArgTooMany ==
  /\ At("ARG")
  /\ \/ /\ arg_index <= NumArgs
        /\ ToRegister(code[pos].result, ArgOffset + arg_index)
        /\ arg_index' = arg_index + 1
     \/ /\ arg_index > NumArgs
        /\ ToFrame(code[pos].op1)
        /\ UNCHANGED arg_index
  /\ pos' = pos + 1
  /\ UNCHANGED <<inputs, param_index, pass, precolored>>

(* The first six arguments get their registers, the others a stack slot. *)
PreColorArg ==
  /\ At("ARG")
  /\ \/ /\ arg_index < NumArgs
        /\ ToRegister(code[pos].result, ArgOffset + arg_index)
        /\ arg_index' = arg_index + 1
     \/ /\ arg_index >= NumArgs
        /\ ToFrame(code[pos].op1)
        /\ UNCHANGED arg_index
  /\ pos' = pos + 1
  /\ UNCHANGED <<inputs, param_index, pass, precolored>>

PreColorParam ==
  /\ At("PARAM")
  /\ \/ /\ param_index < NumArgs
        /\ ToRegister(code[pos].op1, ArgOffset + param_index)
        /\ param_index' = param_index + 1
     \/ /\ param_index >= NumArgs
        /\ ToFrame(code[pos].op1)
        /\ UNCHANGED param_index
  /\ pos' = pos + 1
  /\ UNCHANGED <<inputs, arg_index, pass, precolored>>

(* Mutant: the counter keeps counting over the next call's arguments. *)
MutantCounterKept ==
  /\ At("CALL")
  /\ pos' = pos + 1
  /\ UNCHANGED <<inputs, assigned_register, permanent_frame_position, arg_index,
                 param_index, pass, precolored>>

(* A call ends its argument list. *)
PreColorCall ==
  /\ At("CALL")
  /\ arg_index' = 0
  /\ pos' = pos + 1
  /\ UNCHANGED <<inputs, assigned_register, permanent_frame_position, param_index, pass,
                 precolored>>

PreColorReturn ==
  /\ At("RETURN")
  /\ ToRegister(code[pos].result, 0)
  /\ pos' = pos + 1
  /\ UNCHANGED <<inputs, arg_index, param_index, pass, precolored>>

PreColorOther ==
  /\ pass = "precolor" /\ pos <= Len(code)
  /\ code[pos].kind \notin {"ARG", "PARAM", "CALL", "RETURN"}
  /\ pos' = pos + 1
  /\ UNCHANGED <<inputs, assigned_register, permanent_frame_position, arg_index,
                 param_index, pass, precolored>>

(* pre_color_nodes returns. *)
StartColoring ==
  /\ pass = "precolor" /\ pos > Len(code)
  /\ pass' = "color"
  /\ pos' = 1
  /\ precolored' = {op \in Operands : HasPlace(op)}
  /\ UNCHANGED <<inputs, assigned_register, permanent_frame_position, arg_index,
                 param_index>>

------------------------------------------------------------------------------
(* color_interference_graphs, one action per outcome for a bundle.           *)

AtBundle == pass = "color" /\ pos <= Len(graph)
Bundle   == graph[pos]

(* Mutants: the scan over the interfering operands stops at one in the frame  *)
(* (break for continue); a register of an operand in the frame is not free.   *)
MutantStopAtFrame(bundle) ==
  {reg \in Registers :
     \/ \E op \in bundle.interferes_with : permanent_frame_position[op]
     \/ \A op \in bundle.interferes_with : assigned_register[op] # reg}

MutantFrameHoldsRegister(bundle) ==
  {reg \in Registers :
     \A op \in bundle.interferes_with : assigned_register[op] # reg}

(* The registers no operand of the bundle holds.  An operand with a place   *)
(* in the frame holds none, whatever its assigned_register says.            *)
FreeRegisters(bundle) ==
  {reg \in Registers :
     \A op \in bundle.interferes_with :
        permanent_frame_position[op] \/ assigned_register[op] # reg}

(* Mutants: the restriction is not looked up; the rescan forgets the          *)
(* interfering operands.                                                      *)
MutantUnrestricted(bundle) == FreeRegisters(bundle)

MutantBlindRescan(bundle) ==
  IF FreeRegisters(bundle) \cap restricted_regs[bundle.operand] = {}
  THEN FreeRegisters(bundle)
  ELSE Registers \ restricted_regs[bundle.operand]

(* The free registers the operand may use: the scan takes the first free    *)
(* register, and if that is restricted find_new_register rescans the rest.  *)
Candidates(bundle) == FreeRegisters(bundle) \ restricted_regs[bundle.operand]

SkipBundle ==
  /\ AtBundle
  /\ HasPlace(Bundle.operand)
  /\ pos' = pos + 1
  /\ UNCHANGED <<inputs, assigned_register, permanent_frame_position, arg_index,
                 param_index, pass, precolored>>

(* Mutant: the operand's place is not looked at first. *)
MutantReassign ==
  /\ AtBundle
  /\ \E reg \in Candidates(Bundle) :
        /\ \A other \in Candidates(Bundle) : reg <= other
        /\ ToRegister(Bundle.operand, reg)
  /\ pos' = pos + 1
  /\ UNCHANGED <<inputs, arg_index, param_index, pass, precolored>>

AssignRegister ==
  /\ AtBundle
  /\ ~HasPlace(Bundle.operand)
  /\ \E reg \in Candidates(Bundle) :
        /\ \A other \in Candidates(Bundle) : reg <= other
        /\ ToRegister(Bundle.operand, reg)
  /\ pos' = pos + 1
  /\ UNCHANGED <<inputs, arg_index, param_index, pass, precolored>>

(* Mutant: an operand that finds no register is left without a place. *)
MutantLeaveUnplaced ==
  /\ AtBundle
  /\ ~HasPlace(Bundle.operand)
  /\ Candidates(Bundle) = {}
  /\ pos' = pos + 1
  /\ UNCHANGED <<inputs, assigned_register, permanent_frame_position, arg_index,
                 param_index, pass, precolored>>

GiveFramePosition ==
  /\ AtBundle
  /\ ~HasPlace(Bundle.operand)
  /\ Candidates(Bundle) = {}
  /\ ToFrame(Bundle.operand)
  /\ pos' = pos + 1
  /\ UNCHANGED <<inputs, arg_index, param_index, pass, precolored>>

Finish ==
  /\ pass = "color" /\ pos > Len(graph)
  /\ pass' = "done"
  /\ UNCHANGED <<inputs, assigned_register, permanent_frame_position, arg_index,
                 param_index, pos, precolored>>

PreColor == PreColorArg \/ PreColorParam \/ PreColorCall \/ PreColorReturn \/ PreColorOther
Color    == SkipBundle \/ AssignRegister \/ GiveFramePosition
Next     == PreColor \/ StartColoring \/ Color \/ Finish

(* What the allocator is handed, built before it starts: the convention's    *)
(* instructions carry their operands, restrictions name registers.           *)
InputsOK ==
  /\ Len(code) \in Nat
  /\ \A k \in 1..Len(code) :
        /\ code[k].kind \in {"ARG", "RETURN"} => code[k].result \in Operands
        /\ code[k].kind \in {"ARG", "PARAM"}  => code[k].op1 \in Operands
  /\ graph \in Seq([operand : Operands, interferes_with : SUBSET Operands])
  /\ restricted_regs \in [Operands -> SUBSET Registers]

Init == InputsOK /\ Start

Spec == Init /\ [][Next]_vars

------------------------------------------------------------------------------
TypeOK ==
  /\ InputsOK
  /\ assigned_register \in [Operands -> Registers \cup {Unassigned}]
  /\ permanent_frame_position \in [Operands -> BOOLEAN]
  /\ arg_index \in 0..NumArgs
  /\ param_index \in 0..NumArgs
  /\ pos \in Nat \ {0}
  /\ pass \in {"precolor", "color", "done"}
  /\ precolored \subseteq Operands

(* Bundle k gave its operand its place: no bundle before it, and no calling *)
(* convention, had.                                                         *)
Placed(k) ==
  /\ k \in 1..Len(graph) /\ k < pos /\ pass # "precolor"
  /\ graph[k].operand \notin precolored
  /\ \A l \in 1..(k - 1) : graph[l].operand # graph[k].operand

(* Operand op had its place before bundle k was reached. *)
PlacedBefore(op, k) ==
  op \in precolored \/ \E l \in 1..(k - 1) : graph[l].operand = op

Shares(op, other) ==
  /\ assigned_register[op] = assigned_register[other]
  /\ assigned_register[op] # Unassigned
  /\ ~permanent_frame_position[op]
  /\ ~permanent_frame_position[other]

(***************************************************************************)
(* The allocator's choice: an operand placed by a bundle shares its        *)
(* register with no interfering operand that had one, however the graph    *)
(* lists them.                                                             *)
(***************************************************************************)
NoShareWithEarlier ==
  \A k \in 1..Len(graph) : Placed(k) =>
    \A other \in graph[k].interferes_with :
      PlacedBefore(other, k) => ~Shares(graph[k].operand, other)

(***************************************************************************)
(* Two operands whose first bundles name each other never share a register:*)
(* whichever comes second sees the first.                                  *)
(***************************************************************************)
MutualNeverShare ==
  \A k, l \in 1..Len(graph) :
    /\ Placed(k) /\ Placed(l) /\ k # l
    /\ graph[k].operand \in graph[l].interferes_with
    /\ graph[l].operand \in graph[k].interferes_with
    => ~Shares(graph[k].operand, graph[l].operand)

(***************************************************************************)
(* A register an instruction of the operand needs for itself (rax and rdx  *)
(* around a division, the argument registers before a call) is never the   *)
(* operand's, not even when it is the only one free.                       *)
(***************************************************************************)
RestrictionsKept ==
  \A k \in 1..Len(graph) : Placed(k) =>
    assigned_register[graph[k].operand] \notin restricted_regs[graph[k].operand]

(***************************************************************************)
(* An operand is sent to the frame only if every register it may use is    *)
(* held by an operand that interferes with it.                             *)
(***************************************************************************)
FrameOnlyWhenForced ==
  \A k \in 1..Len(graph) :
    Placed(k) /\ permanent_frame_position[graph[k].operand] =>
      \A reg \in Registers \ restricted_regs[graph[k].operand] :
        \E other \in graph[k].interferes_with :
          assigned_register[other] = reg /\ ~permanent_frame_position[other]

(* When the allocator is done every operand with a bundle has a place. *)
EveryBundlePlaced ==
  pass = "done" => \A k \in 1..Len(graph) : HasPlace(graph[k].operand)

(***************************************************************************)
(* The calling convention: the arguments of one call, counted from the     *)
(* call before it, get rdi, rsi, ... in their order.                       *)
(***************************************************************************)
ArgsSinceCall(k) ==
  {m \in 1..(k - 1) : /\ code[m].kind = "ARG"
                      /\ \A n \in m..(k - 1) : code[n].kind # "CALL"}

ArgumentRegisters ==
  pass # "precolor" =>
    \A k \in 1..Len(code) :
      code[k].kind = "ARG" =>
        LET n == Cardinality(ArgsSinceCall(k))
        IN  IF n < NumArgs
            THEN assigned_register[code[k].result] = ArgOffset + n
            ELSE permanent_frame_position[code[k].op1]

(* No step of the coloring moves an operand that has a place. *)
PlacesAreFinal ==
  [][pass = "color" =>
       \A op \in Operands : HasPlace(op) =>
         /\ assigned_register'[op] = assigned_register[op]
         /\ permanent_frame_position'[op] = permanent_frame_position[op]]_vars
==============================================================================
