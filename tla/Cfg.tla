--------------------------------- MODULE Cfg ---------------------------------
(***************************************************************************)
(* How IR/cfg.c reads one function's three-address code: basic blocks,     *)
(* edges, use and def sets, the live set recorded at each instruction, and *)
(* the interference bundles with the registers an instruction forbids.     *)
(*                                                                         *)
(* c is the sequence of the function's instructions after its NAME, each a *)
(* record [kind, result, op1, op2].  NULL is the operand None, and Ret is  *)
(* the operand "_RET" that stands for a call's value.  Kinds with the same *)
(* treatment share a name: CONST for INTEGER, CHAR and BOOL; ADD for the   *)
(* arithmetic and logical operators; DIV for DIV and MODULO; LESS for the  *)
(* six comparisons; NOT for the unary operators and the array accesses.    *)
(***************************************************************************)
EXTENDS Integers, Sequences, FiniteSets

CONSTANTS
  None, Ret,
  Rdx,         \* the index of rdx in registers[], 4
  ArgOffset,   \* ARG_OFFSET, 2: the index of rdi
  NumArgs      \* 6: how many arguments travel in registers

Binary == {"ADD", "DIV", "LESS"}

Indices(c) == 1..Len(c)

------------------------------------------------------------------------------
(* Blocks and edges                                                         *)

LabelAt(c, label) == {k \in Indices(c) : c[k].kind = "LABEL" /\ c[k].result = label}

(* find_label_index: the next instruction that names the label, be it a GOTO. *)
find_label_index(c, label, from) ==
  LET named == {k \in Indices(c) : /\ k >= from
                                   /\ c[k].kind \in {"LABEL", "GOTO"}
                                   /\ c[k].result = label}
  IN  {k \in named : \A m \in named : k <= m}

(***************************************************************************)
(* find_leaders: it scans from the second instruction on, and a RETURN     *)
(* makes the next instruction a leader unless that is a GOTO.  The label   *)
(* it looks up for an IF_FALSE is its condition, and is never found.       *)
(***************************************************************************)
find_leaders(c) ==
  {1} \cup UNION {
    CASE c[k].kind = "IF_FALSE" -> {k + 1}
      [] c[k].kind = "LABEL" -> {k}
      [] c[k].kind = "GOTO" -> find_label_index(c, c[k].result, k + 1)
      [] c[k].kind = "RETURN" /\ k < Len(c) /\ c[k + 1].kind # "GOTO" -> {k + 1}
      [] OTHER -> {}
    : k \in 2..Len(c)}

(* A finite set of indices in increasing order. *)
InOrder(S) ==
  [n \in 1..Cardinality(S) |-> CHOOSE k \in S : Cardinality({m \in S : m <= k}) = n]

(* make_function_cfgs: the blocks, each the interval of its instructions. *)
make_function_cfgs(c) ==
  LET starts == InOrder(find_leaders(c) \cap Indices(c))
  IN  [b \in 1..Len(starts) |->
         starts[b] .. (IF b < Len(starts) THEN starts[b + 1] - 1 ELSE Len(c))]

LastOf(block)  == CHOOSE k \in block : \A m \in block : m <= k
FirstOf(block) == CHOOSE k \in block : \A m \in block : k <= m

BlockOf(blocks, k) == CHOOSE b \in DOMAIN blocks : k \in blocks[b]

(* find_matching_label_block: the block that begins with the label. *)
find_matching_label_block(c, blocks, label) ==
  {b \in DOMAIN blocks : FirstOf(blocks[b]) \in LabelAt(c, label)}

(* Mutant: only the jump of a conditional jump is an edge. *)
MutantNoFallThrough(c, blocks) ==
  LET next(b) == {b + 1} \cap DOMAIN blocks
      last(b) == c[LastOf(blocks[b])]
  IN  [b \in DOMAIN blocks |->
         CASE last(b).kind = "GOTO"     -> find_matching_label_block(c, blocks, last(b).result)
           [] last(b).kind = "IF_FALSE" -> find_matching_label_block(c, blocks, last(b).op2)
           [] last(b).kind = "RETURN"   -> {}
           [] OTHER                     -> next(b)]

(* link_function_cfgs: block -> successors, by the block's last instruction. *)
link_function_cfgs(c, blocks) ==
  LET next(b) == {b + 1} \cap DOMAIN blocks
      last(b) == c[LastOf(blocks[b])]
  IN  [b \in DOMAIN blocks |->
         CASE last(b).kind = "GOTO"     -> find_matching_label_block(c, blocks, last(b).result)
           [] last(b).kind = "IF_FALSE" ->
                next(b) \cup find_matching_label_block(c, blocks, last(b).op2)
           [] last(b).kind = "RETURN"   -> {}
           [] OTHER                     -> next(b)]

------------------------------------------------------------------------------
(* populate_use_and_def_sets                                                *)

Reads(ins) ==
  (CASE ins.kind \in Binary                                -> {ins.op1, ins.op2}
     [] ins.kind \in {"IF_FALSE", "RETURN", "ARG", "NOT"}  -> {ins.op1}
     [] ins.kind = "ASSIGN"                                -> {ins.op2}
     [] OTHER                                              -> {}) \ {None, Ret}

Writes(ins) ==
  IF ins.kind \in Binary \cup {"CONST", "NOT", "ASSIGN"} THEN {ins.result} ELSE {}

(* What a block reads before writing it. *)
Uses(c, block) ==
  UNION {Reads(c[k]) \ UNION {Writes(c[m]) : m \in {n \in block : n < k}} : k \in block}

Defs(c, block) == UNION {Writes(c[k]) : k \in block}

------------------------------------------------------------------------------
(***************************************************************************)
(* compute_instruction_live_out walks a block backwards from its out set   *)
(* and records, despite its name, what is live BEFORE each instruction.    *)
(* Labels and jumps are passed over, the condition of IF_FALSE included.   *)
(***************************************************************************)
PassedOver == {"IF_FALSE", "LABEL", "GOTO"}

(* Mutant: what the instruction reads is forgotten. *)
MutantReadsForgotten(ins, live) ==
  IF ins.kind \in PassedOver THEN live ELSE live \ {ins.result}

LiveBefore(ins, live) ==
  CASE ins.kind \in PassedOver -> live
    [] ins.kind = "ASSIGN"     -> (live \cup ({ins.op2} \ {Ret})) \ {ins.result}
    [] ins.kind = "CONST"      -> live \ {ins.result}
    [] OTHER                   -> (live \ {ins.result}) \cup ({ins.op1, ins.op2} \ {None})

(* instruction -> its live_out field, given the blocks' out sets *)
compute_instruction_live_out(c, blocks, out) ==
  LET live[k \in Indices(c)] ==
        LET own == BlockOf(blocks, k)
        IN  LiveBefore(c[k], IF k = LastOf(blocks[own]) THEN out[own] ELSE live[k + 1])
  IN  live

(***************************************************************************)
(* determine_next_use leaves in an operand, shared by all its uses, what    *)
(* its first occurrence saw: the next use in that block, if the value there *)
(* lasts so long; else -1, or the use itself if the block's table did not   *)
(* know the operand.                                                        *)
(***************************************************************************)
NoNextUse == -1

Occurs(c, op) == {k \in Indices(c) : op \in {c[k].result, c[k].op1, c[k].op2}}
UsesOf(c, op) == {k \in Indices(c) : op \in {c[k].op1, c[k].op2}}

determine_next_use(c, blocks, out, op) ==
  LET k      == FirstOf(Occurs(c, op))
      own    == BlockOf(blocks, k)
      rest   == {m \in blocks[own] : m > k}
      uses   == {m \in rest \cap UsesOf(c, op) : \A n \in (k + 1)..(m - 1) : c[n].result # op}
      known  == op \in out[own] \/ rest \cap Occurs(c, op) # {} \/ c[k].result = op
                  \/ c[k].op1 = c[k].op2
  IN  CASE Occurs(c, op) = {} -> NoNextUse
        [] Occurs(c, op) # {} /\ uses # {} -> FirstOf(uses)
        [] Occurs(c, op) # {} /\ uses = {} /\ (~known \/ c[k].op1 = c[k].op2) -> k
        [] OTHER -> NoNextUse

------------------------------------------------------------------------------
(* populate_interference_graph                                              *)

(* A comparison right before the jump on it sets flags, not an operand. *)
PrecedesConditional(c, k) ==
  /\ c[k].kind = "LESS"
  /\ k + 1 \in Indices(c)
  /\ c[k + 1].kind = "IF_FALSE"
  /\ c[k + 1].op1 = c[k].result

HasBundle(c, k) ==
  c[k].kind \notin PassedOver \cup {"CALL"} /\ ~PrecedesConditional(c, k)

BundleOperand(ins) ==
  IF ins.kind \in {"PARAM", "RETURN", "ARG"} THEN ins.op1 ELSE ins.result

(* What is recorded live, but the operand itself.  A PARAM or RETURN is     *)
(* compared by its result, so its operand stays in its own set.             *)
LiveNeighbours(c, k, live) ==
  {op \in live : /\ op # (IF c[k].kind = "ARG" THEN c[k].op1 ELSE c[k].result)
                 /\ \A m \in Indices(c) : PrecedesConditional(c, m) => op # c[m].result}

(* An assignment's two sides interfere, whether or not both are live. *)
Source(ins) == IF ins.kind = "ASSIGN" /\ ins.op2 # ins.result THEN {ins.op2} ELSE {}

(* The results of later assignments from the operand, told to its bundle if *)
(* that is still its latest.                                                *)
ToldLater(c, k) ==
  {c[m].result : m \in {n \in Indices(c) :
     /\ n > k
     /\ BundleOperand(c[k]) \in Source(c[n])
     /\ \A o \in (k + 1)..(n - 1) :
           HasBundle(c, o) => BundleOperand(c[o]) # BundleOperand(c[k])}}

(* Mutant: the live operands are left out of the bundle. *)
MutantNoLiveNeighbours(c, k, live) ==
  [operand |-> BundleOperand(c[k]), interferes_with |-> Source(c[k]) \cup ToldLater(c, k)]

Bundle(c, k, live) ==
  [operand         |-> BundleOperand(c[k]),
   interferes_with |-> LiveNeighbours(c, k, live) \cup Source(c[k]) \cup ToldLater(c, k)]

(* The bundles in the order of their instructions. *)
populate_interference_graph(c, live_out) ==
  LET at == InOrder({k \in Indices(c) : HasBundle(c, k)})
  IN  [n \in DOMAIN at |-> Bundle(c, at[n], live_out[at[n]])]

(* The operands whose restricted_regs an instruction sets, and to what.     *)
(* A call has at most NumArgs arguments here: see the README.               *)
Restricts(ins) ==
  CASE ins.kind = "DIV"                           -> {ins.result, ins.op2}
    [] ins.kind \in {"ARG", "RETURN"}             -> {ins.op1}
    [] ins.kind = "ASSIGN" /\ ins.op2 = Ret       -> {ins.result}
    [] OTHER                                      -> {}

RestrictedTo(ins, op) ==
  CASE ins.kind = "ARG"                      -> ArgOffset .. (ArgOffset + NumArgs - 1)
    [] ins.kind = "DIV" /\ op = ins.op2      -> {0, Rdx}
    [] OTHER                                 -> {0}

(* The last instruction that restricts an operand decides. *)
Restrictions(c, ops) ==
  [op \in ops |->
     LET by == {k \in Indices(c) : op \in Restricts(c[k])}
     IN  IF by = {} THEN {} ELSE RestrictedTo(c[LastOf(by)], op)]
==============================================================================
