--------------------------------- MODULE Frame ---------------------------------
(***************************************************************************)
(* The part of codegen (Codegen/codegen.c) that runs before any assembly   *)
(* is written: schedule_callee_register_spills, then one step per          *)
(* instruction of get_bytes_for_stack_frames.  It lays out the frame and   *)
(* schedules what is saved and restored around an instruction.             *)
(*                                                                         *)
(* An instruction is a record of Cfg with a field op that tells apart the  *)
(* operators that share a kind.  Offsets count slots of eight bytes below  *)
(* rbp; NoSlot is an offset nobody has written to yet.                     *)
(***************************************************************************)
EXTENDS Cfg

CONSTANTS Operands, NumRegisters

ASSUME ArgumentsAssumption == NumArgs \in Nat

VARIABLES
  code, blocks, live_out, next_use,              \* from IR
  assigned_register, permanent_frame_position,   \* from reg_alloc
  is_main,             \* the function is named main
  at,                  \* the instruction get_bytes_for_stack_frames is at, 0 before it
  spills, reloads,     \* the schedules of all blocks, in the order of their making
  frame_byte_offset, temp_register, total_frame_bytes,
  symbols_set,         \* the operands that have been given a slot
  failed               \* an assertion failed, or a NULL operand was read

function == <<code, blocks, live_out, next_use, assigned_register,
              permanent_frame_position, is_main>>
layout   == <<at, spills, reloads, frame_byte_offset, temp_register, total_frame_bytes,
              symbols_set, failed>>

Registers   == 0..(NumRegisters - 1)
CallerSaved == Registers \ ({1} \cup 10..13)
CalleeSaved == Registers \cap ({1} \cup 10..13)
Unassigned  == -1
NoSlot      == -1
NoUse       == 0

InFrame(op) == permanent_frame_position[op]

Start ==
  /\ at = 0
  /\ spills = <<>> /\ reloads = <<>>
  /\ frame_byte_offset = [op \in Operands |-> NoSlot]
  /\ temp_register = [op \in Operands |-> Unassigned]
  /\ total_frame_bytes = 0
  /\ symbols_set = {}
  /\ failed = FALSE

------------------------------------------------------------------------------
(* Entries of the schedules.                                                 *)

Entry(k, b, direction, reg, offset) ==
  [index |-> k, block |-> b, direction |-> direction, reg |-> reg, offset |-> offset]

BlockAt == BlockOf(blocks, at)
Push(k, op) == Entry(k, BlockAt, "push", assigned_register[op], NoSlot)
Pop(k, op)  == Entry(k, BlockAt, "pop", assigned_register[op], NoSlot)
Store(k, op, offset) == Entry(k, BlockAt, "store", assigned_register[op], offset)
Load(k, op, offset)  == Entry(k, BlockAt, "load", assigned_register[op], offset)

(* Mutant: assignments are forgotten. *)
MutantNoAssignments(reg) ==
  {k \in Indices(code) : /\ code[k].kind # "ASSIGN"
                         /\ \E op \in Writes(code[k]) : assigned_register[op] = reg}

(* Registers in the order of the instructions that first write them. *)
FirstWriter(reg) ==
  {k \in Indices(code) : \E op \in Writes(code[k]) : assigned_register[op] = reg}

WrittenCalleeSaved == {reg \in CalleeSaved : FirstWriter(reg) # {}}

(* schedule_callee_register_spills: pushes at the head of the first block.   *)
CalleeSpills ==
  LET firsts == InOrder({FirstOf(FirstWriter(reg)) : reg \in WrittenCalleeSaved})
  IN  [n \in DOMAIN firsts |->
         Entry(1, 1, "push",
               CHOOSE reg \in WrittenCalleeSaved : FirstOf(FirstWriter(reg)) = firsts[n], NoSlot)]

ScheduleCallee ==
  /\ at = 0
  /\ spills' = IF is_main THEN <<>> ELSE CalleeSpills
  /\ at' = 1
  /\ UNCHANGED <<reloads, frame_byte_offset, temp_register, total_frame_bytes, symbols_set,
                 failed>>

------------------------------------------------------------------------------
(* What is looked up ahead in the block.                                     *)

Ahead(from) == {k \in blocks[BlockAt] : k >= from}
FirstIn(S)  == IF S = {} THEN NoUse ELSE FirstOf(S)

(* The kinds of instruction whose operands count as a use: not MODULO, not *)
(* a unary minus, not an argument.                                         *)
CountsAsUse(k, op) ==
  LET ins == code[k]
  IN  \/ /\ \/ ins.kind \in {"ADD", "LESS"} \/ ins.op \in {"div", "not"}
         /\ op \in {ins.op1, ins.op2}
      \/ ins.kind = "ASSIGN" /\ ins.op2 = op

determine_operand_use(op, from) ==
  FirstIn({k \in Ahead(from) :
             CountsAsUse(k, op) \/ (code[k].kind = "RETURN" /\ code[k].op1 = op)})

determine_operand_use_within_call_boundary(op, from, end) ==
  FirstIn({k \in Ahead(from) : k < end /\ CountsAsUse(k, op)})

find_call_instr_index == FirstIn({k \in Ahead(at + 1) : code[k].kind = "CALL"})

(* The operand whose register is borrowed for a moment. *)
Holders == {op \in live_out[at] : assigned_register[op] # Unassigned /\ next_use[op] > 0}
operand_with_furthest_use ==
  {op \in Holders : \A other \in Holders : next_use[other] <= next_use[op]}

------------------------------------------------------------------------------
(* What one instruction adds to the schedules.                               *)

Is(kinds) == at \in Indices(code) /\ ~failed /\ code[at].kind \in kinds
Result == code[at].result
Op1 == code[at].op1
Op2 == code[at].op2

(* Mutant: every slot of the frame gets the same offset. *)
MutantSameSlot(op) ==
  IF InFrame(op) /\ op \notin symbols_set
  THEN /\ total_frame_bytes' = total_frame_bytes + 1
       /\ frame_byte_offset' = [frame_byte_offset EXCEPT ![op] = 1]
       /\ symbols_set' = symbols_set \cup {op}
  ELSE UNCHANGED <<total_frame_bytes, frame_byte_offset, symbols_set>>

(* get_bytes_from_operand, with get_size aligned to eight bytes. *)
get_bytes_from_operand(op) ==
  IF InFrame(op) /\ op \notin symbols_set
  THEN /\ total_frame_bytes' = total_frame_bytes + 1
       /\ frame_byte_offset' = [frame_byte_offset EXCEPT ![op] = total_frame_bytes']
       /\ symbols_set' = symbols_set \cup {op}
  ELSE UNCHANGED <<total_frame_bytes, frame_byte_offset, symbols_set>>

(* A pair of what is scheduled before and what after. *)
Schedule(pair) == spills' = spills \o pair[1] /\ reloads' = reloads \o pair[2]
Join(p, q)     == <<p[1] \o q[1], p[2] \o q[2]>>

(* A register is pushed, lent to an operand of the frame, and popped.  Which *)
(* of several operands with the furthest use lends it is left open.          *)
Borrow(op) ==
  \/ /\ operand_with_furthest_use = {}
     /\ UNCHANGED <<spills, reloads, temp_register>>
  \/ \E lender \in operand_with_furthest_use :
       /\ Schedule(<<<<Push(at, lender), Load(at, lender, frame_byte_offset'[op])>>,
                     <<Pop(at + 1, lender)>>>>)
       /\ temp_register' = [temp_register EXCEPT ![op] = assigned_register[lender]]

(* Pushed at k, and popped at its first use from the given index on. *)
PushUntilUse(k, op, from) ==
  LET use == determine_operand_use(op, from)
  IN  <<<<Push(k, op)>>, IF use = NoUse THEN <<>> ELSE <<Pop(use, op)>>>>

Nothing == <<<<>>, <<>>>>
If(condition, schedules) == IF condition THEN schedules ELSE Nothing

LiveAtCall(op, call) == op \in live_out[call]
InCallerSaved(op)    == assigned_register[op] \in CallerSaved

Advance == at' = at + 1 /\ UNCHANGED failed
Keep    == UNCHANGED <<spills, reloads>>

(* An assertion fails, or NULL is dereferenced: the compiler ends. *)
Fail ==
  /\ failed' = TRUE
  /\ UNCHANGED <<at, spills, reloads, frame_byte_offset, temp_register, total_frame_bytes,
                 symbols_set>>

------------------------------------------------------------------------------
(* get_bytes_for_stack_frames, one action per case of its switch.            *)

FrameConst ==
  /\ \/ Is({"CONST"})
     \/ Is({"ADD"}) /\ code[at].op \in {"and", "or"}
     \/ Is({"NOT"}) /\ code[at].op = "plus"
  /\ get_bytes_from_operand(Result)
  /\ Keep
  /\ Advance
  /\ UNCHANGED temp_register

(* An assignment before a call.  The second test asks for the result where *)
(* it saves the source.                                                    *)
AssignAroundCall(call) ==
  LET between == determine_operand_use_within_call_boundary(Result, at + 1, call)
      needed(op) == between = NoUse /\ InCallerSaved(op) /\ LiveAtCall(Result, call)
      used(op) == determine_operand_use(op, call + 1) # NoUse
  IN  IF \E op \in {Result, Op2} : needed(op) /\ ~used(op)
      THEN Fail
      ELSE /\ get_bytes_from_operand(Result)
           /\ Schedule(Join(If(needed(Result), PushUntilUse(at + 1, Result, call + 1)),
                            If(needed(Op2), PushUntilUse(at + 1, Op2, call + 1))))
           /\ Advance
           /\ UNCHANGED temp_register

FrameAssign ==
  /\ Is({"ASSIGN"})
  /\ LET call == find_call_instr_index
         lent == Op2 # Ret /\ InFrame(Result) /\ InFrame(Op2)
     IN  \/ /\ lent
            /\ get_bytes_from_operand(Result)
            /\ Borrow(Op2)
            /\ Advance
         \/ /\ ~lent /\ Op2 # Ret /\ call # NoUse
            /\ AssignAroundCall(call)
         \/ /\ ~lent /\ (Op2 = Ret \/ call = NoUse)
            /\ get_bytes_from_operand(Result)
            /\ Keep /\ Advance
            /\ UNCHANGED temp_register

(* The offset to load an operand of the frame from is read off op2, NULL. *)
FrameNot ==
  /\ Is({"NOT"}) /\ code[at].op = "not"
  /\ \/ /\ InFrame(Op1) /\ operand_with_furthest_use # {}
        /\ Fail
     \/ /\ InFrame(Op1) /\ operand_with_furthest_use = {}
        /\ get_bytes_from_operand(Result)
        /\ Keep /\ Advance
        /\ UNCHANGED temp_register
     \/ /\ ~InFrame(Op1)
        /\ get_bytes_from_operand(Result)
        /\ LET used == determine_operand_use(Op1, at + 1) # NoUse
           IN  Schedule(If(used, PushUntilUse(at, Op1, at + 1)))
        /\ Advance
        /\ UNCHANGED temp_register

FrameNegate ==
  /\ Is({"NOT"}) /\ code[at].op = "neg"
  /\ get_bytes_from_operand(Result)
  /\ IF InFrame(Result) /\ InFrame(Op1) THEN Borrow(Op1) ELSE Keep /\ UNCHANGED temp_register
  /\ Advance

(* An operand that a call would lose, saved around it. *)
AroundCall(op, call) == PushUntilUse(at, op, call + 1)

(* Without a call ahead the operand is loaded before it is stored. *)
LoadThenStore(op, use) ==
  <<<<Load(at, op, frame_byte_offset[op])>>, <<Store(use, op, frame_byte_offset[op])>>>>

StoreThenLoad(op, use, offset) == <<<<Store(at, op, offset)>>, <<Load(use, op, offset)>>>>

FrameArithmetic ==
  /\ Is({"ADD"}) /\ code[at].op \in {"add", "sub", "mul"}
  /\ LET call    == find_call_instr_index
         between == determine_operand_use_within_call_boundary(Op1, at + 1, call)
         later   == determine_operand_use(Op1, at + 1)
         lost(op) == LiveAtCall(op, call) /\ InCallerSaved(op)
     IN  \/ /\ InFrame(Op1)
            /\ get_bytes_from_operand(Result)
            /\ Borrow(Op1)
            /\ Advance
         \/ /\ ~InFrame(Op1) /\ call = NoUse
            /\ get_bytes_from_operand(Result)
            /\ Schedule(If(later # NoUse, LoadThenStore(Op1, later)))
            /\ Advance /\ UNCHANGED temp_register
         \/ /\ ~InFrame(Op1) /\ call # NoUse /\ between # NoUse
            /\ get_bytes_from_operand(Result)
            /\ Schedule(StoreThenLoad(Op1, between, frame_byte_offset[Op1]))
            /\ Advance /\ UNCHANGED temp_register
         \/ /\ ~InFrame(Op1) /\ call # NoUse /\ between = NoUse
            /\ IF lost(Op2) /\ determine_operand_use(Op2, call + 1) = NoUse
               THEN Fail
               ELSE /\ get_bytes_from_operand(Result)
                    /\ Schedule(Join(If(lost(Op1), AroundCall(Op1, call)),
                                     If(lost(Op2), AroundCall(Op2, call))))
                    /\ Advance /\ UNCHANGED temp_register

(* find_matching_register: a live operand that division would overwrite. *)
Preserved(reg) ==
  LET owners == {op \in live_out[at] : assigned_register[op] = reg}
      owner  == CHOOSE op \in owners : TRUE
  IN  If(owners # {} /\ determine_operand_use(owner, at + 1) # NoUse,
         PushUntilUse(at, owner, at + 1))

DivisionPreserves == Join(Preserved(0), Preserved(Rdx))

(* The dividend is copied to a new slot when it is used again in the block. *)
FrameDivide ==
  /\ Is({"DIV"})
  /\ LET call    == find_call_instr_index
         use     == IF call = NoUse
                    THEN determine_operand_use(Op1, at + 1)
                    ELSE determine_operand_use_within_call_boundary(Op1, at + 1, call)
         slot    == total_frame_bytes + 1
         around  == If(call # NoUse,
                       Join(If(LiveAtCall(Op1, call), AroundCall(Op1, call)),
                            If(LiveAtCall(Op2, call) /\ InCallerSaved(Op2),
                               AroundCall(Op2, call))))
     IN  \/ /\ use # NoUse
            /\ total_frame_bytes' = slot
            /\ frame_byte_offset' = [frame_byte_offset EXCEPT ![Op1] = slot]
            /\ Schedule(Join(DivisionPreserves, StoreThenLoad(Op1, use, slot)))
         \/ /\ use = NoUse
            /\ Schedule(Join(DivisionPreserves, around))
            /\ UNCHANGED <<total_frame_bytes, frame_byte_offset>>
  /\ Advance
  /\ UNCHANGED <<symbols_set, temp_register>>

(* The lender of two compared operands of the frame is not tested for NULL. *)
FrameCompare ==
  /\ Is({"LESS"})
  /\ LET lent == InFrame(Op1) /\ InFrame(Op2)
     IN  \/ /\ lent /\ operand_with_furthest_use = {}
            /\ Fail
         \/ /\ lent /\ operand_with_furthest_use # {}
            /\ get_bytes_from_operand(Result)
            /\ Borrow(Op2)
            /\ Advance
         \/ /\ ~lent
            /\ get_bytes_from_operand(Result)
            /\ Keep /\ Advance
            /\ UNCHANGED temp_register

FrameNothing ==
  /\ Is({"LABEL", "GOTO", "IF_FALSE", "PARAM", "ARG", "CALL", "RETURN"})
  /\ Keep /\ Advance
  /\ UNCHANGED <<frame_byte_offset, temp_register, total_frame_bytes, symbols_set>>

(* The frame's size is rounded up to sixteen bytes. *)
FrameDone ==
  /\ at = Len(code) + 1
  /\ at' = at + 1
  /\ total_frame_bytes' = total_frame_bytes + (total_frame_bytes % 2)
  /\ UNCHANGED <<spills, reloads, frame_byte_offset, temp_register, symbols_set, failed>>

FrameNext ==
  /\ \/ ScheduleCallee \/ FrameConst \/ FrameAssign \/ FrameNot \/ FrameNegate
     \/ FrameArithmetic \/ FrameDivide \/ FrameCompare \/ FrameNothing \/ FrameDone
  /\ UNCHANGED function

LaidOut == at = Len(code) + 2
==============================================================================
