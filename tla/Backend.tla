------------------------------- MODULE Backend -------------------------------
(***************************************************************************)
(* From three-address code to registers, one function: build_cfg (IR/cfg.c)*)
(* and reg_alloc (RegAlloc/regalloc.c) as the driver calls them.           *)
(*                                                                         *)
(* Blocks, edges and use/def sets come from Cfg; the fixed point is the    *)
(* state machine of Liveness; bundles come from Cfg; the coloring is the   *)
(* state machine of RegAlloc.  When the allocator is done the function is  *)
(* run, every branch either way: a write puts the written operand into its *)
(* register, whatever the register held before.                            *)
(*                                                                         *)
(* Codegen is assumed to save the registers a call needs (its spills), so  *)
(* ARG and CALL disturb no register here; and to test a condition from the *)
(* flags of the instruction before the jump, so IF_FALSE reads nothing.    *)
(***************************************************************************)
EXTENDS Cfg

CONSTANTS Operands, Opaque, NumRegisters

ASSUME BackendAssumption ==
  /\ NumRegisters \in Nat \ {0}
  /\ ArgOffset \in Nat /\ NumArgs \in Nat /\ ArgOffset + NumArgs <= NumRegisters
  /\ Rdx \in 0..(NumRegisters - 1)
  /\ Opaque \subseteq Operands /\ Ret \in Operands

VARIABLES
  code,                                                  \* the function
  blocks,                                                \* cfg->all_blocks
  successors, use_set, def_set, in_set, out_set,         \* Liveness
  i, changed, done,
  live_out,                                              \* instruction -> its live set
  graph, restricted_regs, assigned_register,             \* RegAlloc
  permanent_frame_position, arg_index, param_index, pos, pass, precolored,
  stage,   \* "cfg", "liveness", "interference", "allocate" or "run"
  pc,      \* the instruction the run is at; Len(code) + 1 after a RETURN
  holds    \* register -> the operand written to it last

blockSets == <<successors, use_set, def_set>>
analysis  == <<successors, use_set, def_set, in_set, out_set, i, changed, done>>
coloring  == <<graph, restricted_regs, assigned_register, permanent_frame_position,
               arg_index, param_index, pos, pass, precolored>>
run       == <<pc, holds>>
vars      == <<code, blocks, analysis, live_out, coloring, stage, run>>

L  == INSTANCE Liveness
RA == INSTANCE RegAlloc

------------------------------------------------------------------------------
(* What an instruction does when it is run.                                  *)

Targets(c, label) == LabelAt(c, label)

(* The instructions control can go to from instruction k. *)
Nexts(c, k) ==
  CASE c[k].kind = "GOTO"     -> Targets(c, c[k].result)
    [] c[k].kind = "IF_FALSE" -> {k + 1} \cup Targets(c, c[k].op2)
    [] c[k].kind = "RETURN"   -> {Len(c) + 1}
    [] OTHER                  -> {k + 1}

(* What an instruction puts into a place of its own, and what it reads.  (A *)
(* condition is not counted as a read.)                                     *)
Written(ins) == Writes(ins) \cup (IF ins.kind = "PARAM" THEN {ins.op1} ELSE {})

TrueReads(ins) == IF ins.kind = "IF_FALSE" THEN {} ELSE Reads(ins)

DefinedOnce(c, op) ==
  \A k, m \in Indices(c) : op \in Written(c[k]) /\ op \in Written(c[m]) => k = m

------------------------------------------------------------------------------
(* How IR/tac.c builds a function.  Its instructions carry operands where    *)
(* theirs are read or written, and a RETURN without a value does not get     *)
(* past the bundles' assertion (cfg.c:1610).                                 *)
Conventions == {"PARAM", "ARG", "CALL", "RETURN"}

Typed(c) ==
  /\ Len(c) \in Nat \ {0}
  /\ \A k \in Indices(c) :
        /\ c[k].kind \in Binary \cup {"CONST", "NOT", "ASSIGN"} \cup PassedOver \cup Conventions
        /\ c[k].kind \notin PassedOver => {c[k].op1, c[k].op2} \subseteq Operands \cup {None}
        /\ Written(c[k]) \subseteq Operands \ (Opaque \cup {Ret, None})
        /\ Reads(c[k]) \subseteq Operands
        /\ c[k].kind = "ASSIGN" => c[k].op2 \in Operands
        /\ c[k].kind \in {"PARAM", "ARG", "RETURN"} => {c[k].result, c[k].op1} \subseteq Operands

(* The label of an ARG, RETURN or PARAM is created for it (tac.c:686, 1191,  *)
(* 1272), and a call's function is no variable: nobody reads or writes them. *)
FreshLabels(c) ==
  \A k, m \in Indices(c) :
     c[k].kind \in Conventions => c[k].result \notin TrueReads(c[m]) \cup Written(c[m])

(* The parameters come first, each the variable of its own symbol            *)
(* (tac.c:1268-1284, nameresolution.c:307).                                  *)
ParamsFirst(c) ==
  \A k, m \in Indices(c) :
     c[k].kind = "PARAM" =>
       /\ m < k => c[m].kind = "PARAM"
       /\ m # k /\ c[m].kind = "PARAM" => c[m].op1 # c[k].op1

(* After a jump comes a label, and before a conditional one its condition.   *)
(* (A break that ends the first branch of an if-else is followed by the      *)
(* branch's own jump, tac.c:1232 and 1001; such a function is left out.)     *)
JumpsEndBlocks(c) ==
  \A k \in Indices(c) :
     /\ c[k].kind = "GOTO" /\ k < Len(c) => c[k + 1].kind = "LABEL"
     /\ c[k].kind = "IF_FALSE" => k > 1

(* A comparison made for the jump after it is a temporary of its own, tested *)
(* by that jump alone (tac.c:962-986).                                       *)
TestsAreTemporaries(c) ==
  \A k, m \in Indices(c) :
     PrecedesConditional(c, k) =>
       /\ c[k].result \notin TrueReads(c[m])
       /\ m # k => c[k].result \notin Written(c[m])

(* Nothing is read before it is written: what one instruction writes is read *)
(* in code that begins after it, and that no jump from outside enters.       *)
(* Temporaries are written right where they are read, and the variables of a *)
(* block are declared in it.  (A variable declared without a value has no    *)
(* such instruction, and an array's element size, opaque, is never written.) *)
Scope(c, op, first, last) ==
  /\ op \in Written(c[first])
  /\ \A k \in Indices(c) : op \in TrueReads(c[k]) => k \in (first + 1)..last
  /\ \A k \in Indices(c) : \A m \in Nexts(c, k) :
        m \in (first + 1)..last => k \in first..last

WrittenFirst(c) ==
  \A k \in Indices(c) : \A op \in TrueReads(c[k]) \ Opaque :
     DefinedOnce(c, op) => \E first, last \in Indices(c) : Scope(c, op, first, last)

WellBuilt(c) ==
  /\ Typed(c) /\ FreshLabels(c) /\ ParamsFirst(c)
  /\ JumpsEndBlocks(c) /\ TestsAreTemporaries(c) /\ WrittenFirst(c)

------------------------------------------------------------------------------
Start ==
  /\ blocks = <<>> /\ successors = <<>> /\ use_set = <<>> /\ def_set = <<>> /\ live_out = <<>>
  /\ graph = <<>>
  /\ restricted_regs = [op \in Operands |-> {}]
  /\ L!Start
  /\ RA!Start
  /\ stage = "cfg"
  /\ pc = 1
  /\ holds = [reg \in RA!Registers |-> None]

Init == WellBuilt(code) /\ Start

(* find_leaders .. link_function_cfgs, then the block sets of live_analysis. *)
BuildCfg ==
  /\ stage = "cfg"
  /\ blocks' = make_function_cfgs(code)
  /\ successors' = link_function_cfgs(code, blocks')
  /\ use_set' = [b \in DOMAIN blocks' |-> Uses(code, blocks'[b])]
  /\ def_set' = [b \in DOMAIN blocks' |-> Defs(code, blocks'[b])]
  /\ in_set'  = [b \in DOMAIN blocks' |-> {}]
  /\ out_set' = [b \in DOMAIN blocks' |-> {}]
  /\ stage' = "liveness"
  /\ UNCHANGED <<code, i, changed, done, live_out, coloring, run>>

IterateLiveness ==
  /\ stage = "liveness"
  /\ L!Next
  /\ UNCHANGED <<code, blocks, live_out, coloring, stage, run>>

(* compute_instruction_live_out, once the iteration has returned. *)
RecordLiveOut ==
  /\ stage = "liveness" /\ done
  /\ live_out' = compute_instruction_live_out(code, blocks, out_set)
  /\ stage' = "interference"
  /\ UNCHANGED <<code, blocks, analysis, coloring, run>>

PopulateInterference ==
  /\ stage = "interference"
  /\ graph' = populate_interference_graph(code, live_out)
  /\ restricted_regs' = Restrictions(code, Operands)
  /\ stage' = "allocate"
  /\ UNCHANGED <<code, blocks, analysis, live_out, assigned_register, permanent_frame_position,
                 arg_index, param_index, pos, pass, precolored, run>>

Allocate ==
  /\ stage = "allocate"
  /\ RA!Next
  /\ stage' = IF pass' = "done" THEN "run" ELSE stage
  /\ UNCHANGED <<blocks, analysis, live_out, run>>

------------------------------------------------------------------------------
(* Running the function.                                                     *)

InRegister(op) == assigned_register[op] # RA!Unassigned /\ ~permanent_frame_position[op]

Execute ==
  /\ stage = "run" /\ pc \in Indices(code)
  /\ pc' \in Nexts(code, pc)
  /\ holds' = [reg \in DOMAIN holds |->
                 IF \E op \in Written(code[pc]) : InRegister(op) /\ assigned_register[op] = reg
                 THEN CHOOSE op \in Written(code[pc]) : TRUE
                 ELSE holds[reg]]
  /\ UNCHANGED <<code, blocks, analysis, live_out, coloring, stage>>

Next == \/ BuildCfg \/ IterateLiveness \/ RecordLiveOut \/ PopulateInterference
        \/ Allocate \/ Execute

Spec == Init /\ [][Next]_vars

------------------------------------------------------------------------------
(***************************************************************************)
(* Control never moves between two blocks along anything but an edge of    *)
(* the graph the analysis was made on.                                     *)
(***************************************************************************)
Leaves(k, next) ==
  /\ next \in Indices(code)
  /\ \/ BlockOf(blocks, next) # BlockOf(blocks, k)
     \/ next <= k

StepsAlongEdges ==
  [][stage = "run" /\ pc' # pc /\ Leaves(pc, pc') =>
       /\ BlockOf(blocks, pc') \in successors[BlockOf(blocks, pc)]
       /\ pc' = FirstOf(blocks[BlockOf(blocks, pc')])]_vars

(***************************************************************************)
(* Reference: an operand is live before instruction k if some path from k  *)
(* reads it before writing it: paths of 0, 1, 2, ... steps, and no longer  *)
(* ones than the function.                                                 *)
(***************************************************************************)
TrulyLive ==
  LET n == Len(code)
      round[r \in 0..n] ==
        [k \in 1..(n + 1) |->
           IF r = 0 \/ k = n + 1 THEN {}
           ELSE TrueReads(code[k])
                  \cup ((UNION {round[r - 1][m] : m \in Nexts(code, k)}) \ Written(code[k]))]
  IN  round[n]

(* No operand still to be read is missing from a recorded live set, except  *)
(* the operand the instruction itself writes.  (An assignment of a variable *)
(* to itself takes the variable out of the live set, so that no instruction *)
(* before it in its block sees it: cfg.c:1281-1296.)                        *)
LiveSetsSound ==
  stage = "interference" =>
    LET live == TrulyLive
    IN  \A k \in Indices(code) :
          code[k].kind \notin PassedOver => live[k] \ Written(code[k]) \subseteq live_out[k]

(* a = a *)
SelfAssigned(op) ==
  \E k \in Indices(code) :
     code[k].kind = "ASSIGN" /\ code[k].result = op /\ code[k].op2 = op

(* One instruction defines the operand; or several do, none of them reads it *)
(* back into itself (see LiveSetsSound), and nowhere above the first of them *)
(* is it live.  A variable that is declared without a value and read in a    *)
(* loop above its assignments is neither.                                    *)
DefinedAbove(op) ==
  \/ DefinedOnce(code, op)
  \/ /\ ~SelfAssigned(op)
     /\ \A k \in Indices(code) :
           op \in live_out[k] => \E first \in Indices(code) : first < k /\ op \in Written(code[first])

(***************************************************************************)
(* The end-to-end promise: when the run reads an operand kept in a         *)
(* register, the register still holds it, however often the operand has    *)
(* been assigned.  It may be lost to one kind of operand only: one that    *)
(* several instructions define has several bundles and is colored for the  *)
(* first of them (SkippedIsPreColored), so its later definitions may       *)
(* overwrite others.                                                       *)
(***************************************************************************)
ReadsIntact ==
  stage = "run" /\ pc \in Indices(code) =>
    \A op \in TrueReads(code[pc]) :
      LET reg == assigned_register[op]
      IN  /\ InRegister(op) /\ DefinedAbove(op)
          /\ holds[reg] # None => holds[reg] = op \/ DefinedOnce(code, holds[reg])
          => holds[reg] = op

(* What color_interference_graphs says of an operand it skips: pre colored. *)
SkippedIsPreColored ==
  RA!AtBundle /\ RA!HasPlace(RA!Bundle.operand) => RA!Bundle.operand \in precolored
==============================================================================
