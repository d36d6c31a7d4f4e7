------------------------------- MODULE Assembly -------------------------------
(***************************************************************************)
(* The assembly generate_function_body (Codegen/codegen.c) writes for one  *)
(* function: for each instruction the spills and reloads scheduled there,  *)
(* then its own text, which may answer for the jump that follows it.       *)
(*                                                                         *)
(* A line is [mnemonic, to, from], its operands pairs of a kind and a      *)
(* register, slot, number or label.  "mark" is no line of the file: it     *)
(* says that the text of an instruction begins.                            *)
(***************************************************************************)
EXTENDS Frame

VARIABLES
  asm,       \* the lines written
  emitted    \* the instruction whose text is written next

Line(mnemonic, to, from) == [mnemonic |-> mnemonic, to |-> to, from |-> from]
NoOperand   == <<"none", 0>>
Number(n)   == <<"number", n>>
Reg(r)      == <<"reg", r>>
Rax         == Reg(0)
RdxReg      == Reg(Rdx)
CodeLabel(name) == <<"code", name>>
Generated(name, k) == <<name, k>>    \* generate_jmp_label counts these

Jump(mnemonic, label) == Line(mnemonic, label, NoOperand)
LabelLine(label)      == Line("label", label, NoOperand)
Mov(to, from)         == Line("mov", to, from)

Slot(op)    == <<"frame", frame_byte_offset[op]>>
Place(op)   == IF InFrame(op) THEN Slot(op) ELSE Reg(assigned_register[op])
(* The register an operation works in. *)
Working(op) == Reg(IF InFrame(op) THEN temp_register[op] ELSE assigned_register[op])

------------------------------------------------------------------------------
(* emit_spills and emit_reloads.                                             *)

EntryLine(e) ==
  CASE e.direction = "push"  -> Line("push", Reg(e.reg), NoOperand)
    [] e.direction = "pop"   -> Line("pop", Reg(e.reg), NoOperand)
    [] e.direction = "store" -> Mov(<<"frame", e.offset>>, Reg(e.reg))
    [] e.direction = "load"  -> Mov(Reg(e.reg), <<"frame", e.offset>>)

Matching(schedule, k) ==
  LET places == InOrder({n \in DOMAIN schedule : /\ schedule[n].index = k
                                                 /\ schedule[n].block = BlockOf(blocks, k)})
  IN  [n \in DOMAIN places |-> schedule[places[n]]]

Lines(entries) == [n \in DOMAIN entries |-> EntryLine(entries[n])]

Reversed(s) == [n \in DOMAIN s |-> s[Len(s) + 1 - n]]

SpillLines(k)  == Lines(Matching(spills, k))
ReloadLines(k) == Lines(Reversed(Matching(reloads, k)))

------------------------------------------------------------------------------
(* Conditions.                                                               *)

(* An IF_FALSE right after a condition in its block is handled with it. *)
Conditional(k) ==
  \/ code[k].kind = "LESS"
  \/ code[k].op \in {"not", "and", "or"}

HandlesJump(k) ==
  /\ Conditional(k)
  /\ k + 1 \in blocks[BlockOf(blocks, k)]
  /\ code[k + 1].kind = "IF_FALSE"

Handled(k) == k > 1 /\ HandlesJump(k - 1)

(* With nothing after it in its block a condition's result is not written. *)
LastInBlock(k) == k = LastOf(blocks[BlockOf(blocks, k)])

(* Mutant: a jump when the comparison holds with equality too. *)
MutantJumpOnTrue(op) ==
  CASE op \in {"<", "<="} -> "jle"
    [] op \in {">", ">="} -> "jge"
    [] op = "=="          -> "jne"
    [] op = "!="          -> "je"

(* generate_corresponding_jump: to the else branch. *)
generate_corresponding_jump(op) ==
  CASE op \in {"<", "<="} -> "jge"
    [] op \in {">", ">="} -> "jle"
    [] op = "=="          -> "jne"
    [] op = "!="          -> "je"

get_op_code(op) ==
  CASE op = "<"  -> "jge" [] op = "<=" -> "jg"
    [] op = ">"  -> "jle" [] op = ">=" -> "jl"
    [] op = "==" -> "jne" [] op = "!=" -> "je"

(* Tests that jump to the false label, then the result as a number. *)
Materialize(k, tests) ==
  LET result == Place(code[k].result)
  IN  tests \o <<LabelLine(Generated("true", k)), Mov(result, Number(1)),
                 Jump("jmp", Generated("end", k)),
                 LabelLine(Generated("false", k)), Mov(result, Number(0)),
                 LabelLine(Generated("end", k))>>

FalseLabel(k) == Generated("false", k)
Otherwise(k)  == CodeLabel(code[k + 1].op2)

NotText(k) ==
  LET op    == Working(code[k].op1)
      flip  == <<Line("xor", op, Number(1)), Line("test", op, op)>>
  IN  CASE HandlesJump(k) -> Append(flip, Jump("jz", Otherwise(k)))
        [] LastInBlock(k) -> flip
        [] OTHER          -> Materialize(k, Append(flip, Jump("jz", FalseLabel(k))))

CompareText(k) ==
  LET ins == code[k]
      cmp == <<IF InFrame(ins.op1) /\ InFrame(ins.op2)
               THEN Line("cmp", Slot(ins.op1), Working(ins.op2))
               ELSE Line("cmp", Place(ins.op1), Place(ins.op2))>>
  IN  CASE HandlesJump(k) ->
             Append(cmp, Jump(generate_corresponding_jump(ins.op), Otherwise(k)))
        [] LastInBlock(k) -> cmp
        [] OTHER          -> Materialize(k, Append(cmp, Jump(get_op_code(ins.op), FalseLabel(k))))

(* Both operands compared with one value, with a jump on equality each. *)
TestEach(first, second, value, label) ==
  <<Line("cmp", first, Number(value)), Jump("je", label),
    Line("cmp", second, Number(value)), Jump("je", label)>>

(* Mutant: as in the branch for or, the first operand is compared twice. *)
MutantAndText(k) ==
  LET first  == Place(code[k].op1)
  IN  CASE HandlesJump(k) -> TestEach(first, first, 0, Otherwise(k))
        [] LastInBlock(k) -> <<>>
        [] OTHER          -> Materialize(k, TestEach(first, first, 0, FalseLabel(k)))

AndText(k) ==
  LET first  == Place(code[k].op1)
      second == Place(code[k].op2)
  IN  CASE HandlesJump(k) -> TestEach(first, second, 0, Otherwise(k))
        [] LastInBlock(k) -> <<>>
        [] OTHER          -> Materialize(k, TestEach(first, second, 0, FalseLabel(k)))

(* Before a jump, or jumps away from the true branch when an operand is    *)
(* true, and takes the first operand for the second if that has a register.*)
OrText(k) ==
  LET first  == Place(code[k].op1)
      second == Place(code[k].op2)
      again  == IF InFrame(code[k].op2) THEN second ELSE Reg(assigned_register[code[k].op1])
      result == Place(code[k].result)
  IN  CASE HandlesJump(k) -> TestEach(first, again, 1, Otherwise(k))
        [] LastInBlock(k) -> <<>>
        [] OTHER ->
             TestEach(first, second, 1, Generated("true", k))
               \o <<LabelLine(FalseLabel(k)), Mov(result, Number(0)),
                    Jump("jmp", Generated("end", k)),
                    LabelLine(Generated("true", k)), Mov(result, Number(1)),
                    LabelLine(Generated("end", k))>>

------------------------------------------------------------------------------
(* The other cases of the switch.                                            *)

(* The one line that writes a number to the frame and says of what size. *)
ConstText(k) ==
  LET to == Place(code[k].result)
  IN  <<Line(IF to[1] = "frame" THEN "mov qword" ELSE "mov", to, Number(code[k].val))>>

AssignText(k) ==
  LET ins == code[k]
  IN  IF ins.op2 = Ret THEN <<Mov(Place(ins.result), Rax)>>
      ELSE IF InFrame(ins.result) THEN <<Mov(Slot(ins.result), Working(ins.op2))>>
      ELSE <<Mov(Place(ins.result), Place(ins.op2))>>

ArithmeticText(k) ==
  LET ins == code[k]
  IN  <<Line(ins.op, Working(ins.op1), Place(ins.op2)),
        Mov(Place(ins.result), Working(ins.op1))>>

NegateText(k) ==
  LET ins == code[k]
  IN  <<Line("neg", Place(ins.op1), NoOperand),
        Mov(Place(ins.result),
            IF InFrame(ins.result) THEN Working(ins.op1) ELSE Place(ins.op1))>>

DivideText(k) ==
  LET ins == code[k]
  IN  <<Mov(Rax, Place(ins.op1)), Line("xor", RdxReg, RdxReg),
        Line("div", Place(ins.op2), NoOperand),
        Mov(Place(ins.result), IF ins.op = "mod" THEN RdxReg ELSE Rax)>>

(* populate_call_instr_list: the arguments right before the call. *)
ArgumentsOf(k) ==
  {m \in blocks[BlockOf(blocks, k)] : \A n \in m..(k - 1) : m < k /\ code[n].kind = "ARG"}
    \cap 1..(k - 1)

CallText(k) ==
  LET args == InOrder(ArgumentsOf(k))
      inRegisters == {n \in DOMAIN args : n <= NumArgs}
  IN  [n \in inRegisters |-> Mov(Reg(ArgOffset + n - 1), Place(code[args[n]].op1))]
        \o <<Line("call", NoOperand, Number(Len(args)))>>

(* schedule_callee_reloads: popped in reverse before every return. *)
CalleeReloads ==
  Lines(Reversed([n \in DOMAIN CalleeSpills |-> [CalleeSpills[n] EXCEPT !.direction = "pop"]]))

ReturnText(k) ==
  LET op == code[k].op1
  IN  (IF Place(op) = Rax THEN <<>> ELSE <<Mov(Rax, Place(op))>>)
        \o (IF is_main THEN <<>> ELSE CalleeReloads)
        \o <<Line("leave", NoOperand, NoOperand), Line("ret", NoOperand, NoOperand)>>

Body(k) ==
  LET ins == code[k]
  IN  CASE ins.kind = "CONST"  -> ConstText(k)
        [] ins.kind = "LABEL"  -> <<LabelLine(CodeLabel(ins.result))>>
        [] ins.kind = "GOTO"   -> <<Jump("jmp", CodeLabel(ins.result))>>
        [] ins.kind = "ASSIGN" -> AssignText(k)
        [] ins.kind = "RETURN" -> ReturnText(k)
        [] ins.kind = "LESS"   -> CompareText(k)
        [] ins.kind = "DIV"    -> DivideText(k)
        [] ins.kind = "CALL"   -> CallText(k)
        [] ins.op = "not"      -> NotText(k)
        [] ins.op = "neg"      -> NegateText(k)
        [] ins.op = "and"      -> AndText(k)
        [] ins.op = "or"       -> OrText(k)
        [] ins.op \in {"add", "sub", "mul"} -> ArithmeticText(k)
        [] OTHER               -> <<>>    \* PARAM, ARG, unary plus, IF_FALSE

Mark(k) == Line("mark", <<"code", k>>, NoOperand)

(* A text that names registers[-1]: ADD, SUB and MUL assert against it, the *)
(* others read before the array, which is taken for a failure too.          *)
NamesNoRegister(k) ==
  \E n \in DOMAIN Body(k) : Reg(Unassigned) \in {Body(k)[n].to, Body(k)[n].from}

EmitInstruction ==
  /\ LaidOut /\ ~failed /\ emitted \in Indices(code)
  /\ IF ~Handled(emitted) /\ NamesNoRegister(emitted)
     THEN failed' = TRUE /\ UNCHANGED <<asm, emitted>>
     ELSE /\ asm' = asm \o
               (IF Handled(emitted) THEN <<>>
                ELSE <<Mark(emitted)>> \o SpillLines(emitted) \o ReloadLines(emitted)
                       \o Body(emitted))
          /\ emitted' = emitted + 1
          /\ UNCHANGED failed
  /\ UNCHANGED <<function, at, spills, reloads, frame_byte_offset, temp_register,
                 total_frame_bytes, symbols_set>>

StartEmitting == asm = <<>> /\ emitted = 1

Emitted == emitted = Len(code) + 1

(* fasm cannot tell the size of a number, or of an only operand, in the frame. *)
Sized(line) ==
  line.to[1] = "frame" =>
    /\ line.mnemonic \notin {"neg", "div", "not"}
    /\ line.mnemonic \in {"mov", "cmp"} => line.from[1] # "number"

Jumps == {"jmp", "je", "jz", "jne", "jge", "jg", "jle", "jl"}

(* Nor does it know a label that is not there. *)
Labelled(line) ==
  line.mnemonic \in Jumps => \E n \in DOMAIN asm : asm[n].mnemonic = "label" /\ asm[n].to = line.to

Assembles == \A n \in DOMAIN asm : Sized(asm[n]) /\ Labelled(asm[n])
==============================================================================
