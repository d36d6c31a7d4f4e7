-------------------------------- MODULE Codegen --------------------------------
(***************************************************************************)
(* The code generator, and the machine its output runs on.  Frame lays the *)
(* function out, Assembly writes its lines; then the lines are run, and    *)
(* beside them the three-address code they stand for: whenever the machine *)
(* comes to the text of an instruction, that instruction is interpreted.   *)
(*                                                                         *)
(* Numbers are words of three bits, Junk is any value nobody vouches for,  *)
(* and a register of the caller holds a value of its own.  A called        *)
(* function returns a word that depends on its arguments, keeps the callee *)
(* saved registers and leaves Junk in the others.                          *)
(***************************************************************************)
EXTENDS Assembly, Functions

VARIABLES
  ip, regs, frame, stack, flags, rbp,     \* the machine
  pc, env, result,                        \* the interpreter of code
  params,                                 \* what the function is called with
  outcome

machine == <<ip, regs, frame, stack, flags, rbp>>
tac     == <<pc, env, result>>
written == <<asm, emitted>>
vars    == <<function, layout, written, machine, tac, params, outcome>>

Words      == 0..7
Junk       == 8
Callers(r) == 10 + r      \* what the caller keeps in register r
CallersRbp == 9
OwnRbp     == 50

IsWord(v) == v \in Words
Signed(v) == IF v < 4 THEN v ELSE v - 8

MaxSlots == 8             \* bound: slots of a frame

StartRunning ==
  /\ ip = 1
  /\ regs = [r \in Registers |-> IF r \in CalleeSaved THEN Callers(r)
                                 ELSE IF r - ArgOffset + 1 \in DOMAIN params
                                 THEN params[r - ArgOffset + 1] ELSE Junk]
  /\ frame = [s \in 0..MaxSlots |-> IF s = 0 THEN CallersRbp ELSE Junk]
  /\ stack = <<>>
  /\ flags = <<Junk, Junk>>
  /\ rbp = OwnRbp
  /\ pc = 1
  /\ env = [op \in Operands |-> Junk]
  /\ result = Junk
  /\ outcome = "compiling"

------------------------------------------------------------------------------
(* What instructions and lines compute.                                      *)

Truth(p) == IF p THEN 1 ELSE 0

Quotient(a, b) ==
  LET abs(n) == IF n < 0 THEN -n ELSE n
      size == abs(Signed(a)) \div abs(Signed(b))
  IN  (IF (Signed(a) < 0) = (Signed(b) < 0) THEN size ELSE -size) % 8

Holds(op, a, b) ==
  CASE op = "<"  -> Signed(a) < Signed(b)  [] op = "<=" -> Signed(a) <= Signed(b)
    [] op = ">"  -> Signed(a) > Signed(b)  [] op = ">=" -> Signed(a) >= Signed(b)
    [] op = "==" -> a = b                  [] op = "!=" -> a # b

(* The value of an instruction's operator on words. *)
Value(op, a, b) ==
  CASE op = "add" -> (a + b) % 8
    [] op = "sub" -> (a - b) % 8
    [] op = "mul" -> (a * b) % 8
    [] op = "neg" -> (-a) % 8
    [] op = "not" -> 1 - a
    [] op = "and" -> Truth(a = 1 /\ b = 1)
    [] op = "or"  -> Truth(a = 1 \/ b = 1)
    [] op = "div" -> Quotient(a, b)
    [] op = "mod" -> (Signed(a) - Signed(Quotient(a, b)) * Signed(b)) % 8
    [] OTHER      -> Truth(Holds(op, a, b))

Answer(args) ==
  IF \E n \in DOMAIN args : ~IsWord(args[n]) THEN Junk
  ELSE (1 + (IF Len(args) > 0 THEN args[1] ELSE 0) + (IF Len(args) > 1 THEN 2 * args[2] ELSE 0)) % 8

Calculate(mnemonic, a, b) ==
  IF ~IsWord(a) \/ ~IsWord(b) THEN Junk
  ELSE CASE mnemonic = "xor" -> IF a = b THEN 0 ELSE IF b = 1 THEN a + 1 - 2 * (a % 2) ELSE Junk
         [] OTHER            -> Value(mnemonic, a, b)

------------------------------------------------------------------------------
(* The interpreter: one instruction, with the jump that it answers for.      *)

(* A jump comes in at the line of the label, past the mark of the LABEL. *)
BeyondLabel(label) == 1 + CHOOSE k \in LabelAt(code, label) : TRUE

Argument(n) == env[code[InOrder(ArgumentsOf(pc))[n]].op1]

PassedIn(op) ==
  params[Cardinality({k \in 1..pc : code[k].kind = "PARAM"})]

NewEnv ==
  LET ins == code[pc]
      val(op) == IF op = Ret THEN result ELSE env[op]
  IN  CASE ins.kind = "PARAM"  -> [env EXCEPT ![ins.op1] = PassedIn(ins.op1)]
        [] ins.kind = "CONST"  -> [env EXCEPT ![ins.result] = ins.val]
        [] ins.kind = "ASSIGN" -> [env EXCEPT ![ins.result] = val(ins.op2)]
        [] ins.op = "plus"     -> [env EXCEPT ![ins.result] = val(ins.op1)]
        [] ins.op \in {"neg", "not"} -> [env EXCEPT ![ins.result] = Value(ins.op, val(ins.op1), 0)]
        [] ins.kind \in Binary -> [env EXCEPT ![ins.result] =
                                     Value(ins.op, val(ins.op1), val(ins.op2))]
        [] OTHER               -> env

After(k, truth) == IF truth = 0 THEN BeyondLabel(code[k].op2) ELSE k + 1

Interpret ==
  /\ env' = NewEnv
  /\ result' = CASE code[pc].kind = "CALL" ->
                      Answer([n \in 1..Cardinality(ArgumentsOf(pc)) |-> Argument(n)])
                 [] code[pc].kind = "RETURN" -> env[code[pc].op1]
                 [] OTHER -> result
  /\ pc' = CASE HandlesJump(pc)             -> After(pc + 1, env'[code[pc].result])
             [] code[pc].kind = "IF_FALSE"  -> After(pc, env[code[pc].op1])
             [] code[pc].kind = "GOTO"      -> BeyondLabel(code[pc].result)
             [] OTHER                       -> pc + 1

------------------------------------------------------------------------------
(* The machine, one line at a time.                                          *)

(* fasm *)
Assemble ==
  /\ Emitted /\ ~failed /\ outcome = "compiling"
  /\ outcome' = IF Assembles THEN "running" ELSE "rejected"
  /\ UNCHANGED <<machine, tac>>

Running == outcome = "running"
Current == asm[ip]
At(mnemonics) == Running /\ ip <= Len(asm) /\ Current.mnemonic \in mnemonics

Read(operand) ==
  CASE operand[1] = "reg"    -> regs[operand[2]]
    [] operand[1] = "number" -> operand[2] % 8
    [] operand[1] = "frame"  -> IF operand[2] = NoSlot THEN Junk ELSE frame[operand[2]]

Write(operand, value) ==
  CASE operand[1] = "reg" ->
         regs' = [regs EXCEPT ![operand[2]] = value] /\ UNCHANGED <<frame, outcome>>
    [] operand[1] = "frame" /\ operand[2] # NoSlot ->
         frame' = [frame EXCEPT ![operand[2]] = value] /\ UNCHANGED <<regs, outcome>>
    [] OTHER -> outcome' = "wild" /\ UNCHANGED <<regs, frame>>

Forward == ip' = ip + 1

AtMark ==
  /\ At({"mark"})
  /\ \/ /\ Current.to[2] = pc
        /\ Interpret
        /\ UNCHANGED outcome
     \/ /\ Current.to[2] # pc
        /\ outcome' = "diverged"
        /\ UNCHANGED tac
  /\ Forward
  /\ UNCHANGED <<regs, frame, stack, flags, rbp>>

DoMove ==
  /\ At({"mov", "mov qword"})
  /\ Write(Current.to, Read(Current.from))
  /\ Forward
  /\ UNCHANGED <<stack, flags, rbp, tac>>

DoArithmetic ==
  /\ At({"add", "sub", "mul", "neg", "xor"})
  /\ Write(Current.to,
           IF Current.mnemonic = "xor" /\ Current.from = Current.to THEN 0
           ELSE Calculate(Current.mnemonic, Read(Current.to),
                          IF Current.mnemonic = "neg" THEN 0 ELSE Read(Current.from)))
  /\ Forward
  /\ UNCHANGED <<stack, flags, rbp, tac>>

(* div takes rdx:rax, unsigned; rdx has been cleared. *)
DoDivide ==
  /\ At({"div"})
  /\ LET by == Read(Current.to)
     IN  IF by = 0
         THEN outcome' = "fault" /\ UNCHANGED regs
         ELSE /\ regs' = IF IsWord(by) /\ IsWord(regs[0])
                         THEN [regs EXCEPT ![0] = @ \div by, ![Rdx] = regs[0] % by]
                         ELSE [regs EXCEPT ![0] = Junk, ![Rdx] = Junk]
              /\ UNCHANGED outcome
  /\ Forward
  /\ UNCHANGED <<frame, stack, flags, rbp, tac>>

DoCompare ==
  /\ At({"cmp", "test"})
  /\ flags' = IF Current.mnemonic = "test" THEN <<Read(Current.to), 0>>
              ELSE <<Read(Current.to), Read(Current.from)>>
  /\ Forward
  /\ UNCHANGED <<regs, frame, stack, rbp, tac, outcome>>

Taken ==
  CASE Current.mnemonic = "jmp"         -> TRUE
    [] Current.mnemonic \in {"je", "jz"} -> flags[1] = flags[2]
    [] Current.mnemonic = "jne"         -> flags[1] # flags[2]
    [] Current.mnemonic = "jge"         -> Signed(flags[1]) >= Signed(flags[2])
    [] Current.mnemonic = "jg"          -> Signed(flags[1]) > Signed(flags[2])
    [] Current.mnemonic = "jle"         -> Signed(flags[1]) <= Signed(flags[2])
    [] Current.mnemonic = "jl"          -> Signed(flags[1]) < Signed(flags[2])

Unknown == Current.mnemonic # "jmp" /\ ~(IsWord(flags[1]) /\ IsWord(flags[2]))

TargetOf(label) ==
  CHOOSE n \in DOMAIN asm : asm[n].mnemonic = "label" /\ asm[n].to = label

DoJump ==
  /\ At(Jumps)
  /\ \/ (Unknown \/ Taken) /\ ip' = TargetOf(Current.to)
     \/ (Unknown \/ ~Taken) /\ ip' = ip + 1
  /\ UNCHANGED <<regs, frame, stack, flags, rbp, tac, outcome>>

AtLabel ==
  /\ At({"label"})
  /\ Forward
  /\ UNCHANGED <<regs, frame, stack, flags, rbp, tac, outcome>>

DoPush ==
  /\ At({"push"})
  /\ stack' = Append(stack, Read(Current.to))
  /\ Forward
  /\ UNCHANGED <<regs, frame, flags, rbp, tac, outcome>>

DoPop ==
  /\ At({"pop"})
  /\ IF stack = <<>>
     THEN regs' = [regs EXCEPT ![Current.to[2]] = Junk] /\ UNCHANGED stack
     ELSE /\ regs' = [regs EXCEPT ![Current.to[2]] = stack[Len(stack)]]
          /\ stack' = SubSeq(stack, 1, Len(stack) - 1)
  /\ Forward
  /\ UNCHANGED <<frame, flags, rbp, tac, outcome>>

DoCall ==
  /\ At({"call"})
  /\ regs' = [r \in Registers |->
                CASE r = 0 -> Answer([n \in 1..Current.from[2] |-> regs[ArgOffset + n - 1]])
                  [] r \in CallerSaved \ {0} -> Junk
                  [] OTHER -> regs[r]]
  /\ Forward
  /\ UNCHANGED <<frame, stack, flags, rbp, tac, outcome>>

DoLeave ==
  /\ At({"leave"})
  /\ stack' = <<>>
  /\ rbp' = frame[0]
  /\ Forward
  /\ UNCHANGED <<regs, frame, flags, tac, outcome>>

DoReturn ==
  /\ At({"ret"})
  /\ outcome' = "returned"
  /\ UNCHANGED <<machine, tac>>

Run ==
  /\ \/ Assemble \/ AtMark \/ DoMove \/ DoArithmetic \/ DoDivide \/ DoCompare \/ DoJump \/ AtLabel
     \/ DoPush \/ DoPop \/ DoCall \/ DoLeave \/ DoReturn
  /\ UNCHANGED <<function, layout, written, params>>

Next ==
  \/ FrameNext /\ UNCHANGED <<written, machine, tac, params, outcome>>
  \/ EmitInstruction /\ UNCHANGED <<machine, tac, params, outcome>>
  \/ Run

(* The generator and the machine both go on by themselves. *)
Steps == [][Next]_vars /\ WF_vars(Next)

------------------------------------------------------------------------------
(* What the code generator copes with: the programs and allocations for     *)
(* which its output does what the three-address code says.                  *)

(* Conditions whose jump is written, and is the right one. *)
SimpleJumps ==
  \A k \in Indices(code) :
    /\ HandlesJump(k) => code[k].op \notin {"<=", ">=", "or"}
    /\ code[k].kind = "IF_FALSE" => Handled(k)

Pushes == {e \in Range(spills) : e.direction = "push" /\ ~(e.index = 1 /\ e.reg \in CalleeSaved)}
Pops   == {e \in Range(reloads) : e.direction = "pop"}

(* The register is pushed by the time of k, and popped after it. *)
KeptAcross(reg, k) ==
  /\ \E e \in Pushes : e.index <= k /\ e.reg = reg
  /\ \E e \in Pops : e.index > k /\ e.reg = reg

LiveAfter(k) == IF code[k].kind = "RETURN" THEN {} ELSE live_out[k + 1]

(* Arithmetic destroys its first operand, unless it is saved for a call. *)
InPlace(k) == code[k].op \in {"add", "sub", "mul", "neg", "not"}

OperandsSurvive ==
  \A k \in Indices(code) : InPlace(k) /\ code[k].op1 \in LiveAfter(k) =>
    KeptAcross(assigned_register[code[k].op1], k)

(* Only arithmetic and assignments before a call save what it destroys. *)
CallsPreserve ==
  \A k \in Indices(code), op \in Operands :
    code[k].kind = "CALL" /\ op \in LiveAfter(k) =>
      InFrame(op) \/ ~InCallerSaved(op) \/ KeptAcross(assigned_register[op], k)

(* No argument is read after its register was given to an earlier one. *)
ArgumentsInOrder ==
  \A k \in Indices(code) : code[k].kind = "CALL" =>
    LET args == InOrder(ArgumentsOf(k))
    IN  \A n \in DOMAIN args : \A m \in 1..(n - 1) :
          Place(code[args[n]].op1) # Reg(ArgOffset + m - 1)

(* An assignment whose target outlives the next call asserts that target and *)
(* source are both used after it.                                            *)
SourcesAreUsed ==
  \A k \in Indices(code) : code[k].kind = "ASSIGN" /\ code[k].op2 # Ret =>
    LET block == blocks[BlockOf(blocks, k)]
        calls == {m \in block : m > k /\ code[m].kind = "CALL"}
        used(op) == \E m \in block : m > FirstOf(calls) /\ op \in Reads(code[m])
    IN  calls # {} /\ code[k].result \in live_out[FirstOf(calls)] =>
          \A op \in {code[k].result, code[k].op2} : InCallerSaved(op) => used(op)

(* An operand of the frame is read or written by a plain line only. *)
FrameIsPlain ==
  \A k \in Indices(code) :
    LET ins == code[k]
    IN  /\ InPlace(k) => ~InFrame(ins.op1)
        /\ ins.kind = "DIV" => ~InFrame(ins.result) /\ ~InFrame(ins.op2)
        /\ ins.kind = "ASSIGN" => ~InFrame(ins.result) \/ ins.op2 = Ret \/ ~InFrame(ins.op2)
        /\ ins.kind = "LESS" => ~InFrame(ins.op1) \/ ~InFrame(ins.op2)
        /\ Conditional(k) => ~InFrame(ins.result)
        /\ ins.op \in {"and", "or"} => ~InFrame(ins.op1) /\ ~InFrame(ins.op2)

(* Without a call the first operand's use later in the block swaps the load *)
(* and the store that should keep it.                                       *)
NoSwappedStores == \A e \in Range(reloads) : e.direction # "store"

PopsNest ==
  \A e, f \in Pushes : e.index < f.index =>
     \A g, h \in Pops : g.reg = e.reg /\ h.reg = f.reg => h.index <= g.index

(* No code is generated for a unary plus. *)
AllTranslated == \A k \in Indices(code) : code[k].op # "plus"

(* div is unsigned. *)
DividesNaturals ==
  (\E k \in Indices(code) : code[k].kind = "DIV") => \A n \in DOMAIN params : Signed(params[n]) >= 0

Supported ==
  /\ SimpleJumps /\ OperandsSurvive /\ CallsPreserve /\ ArgumentsInOrder
  /\ SourcesAreUsed /\ AllTranslated /\ FrameIsPlain /\ NoSwappedStores /\ PopsNest /\ DividesNaturals

------------------------------------------------------------------------------
(* What the generator copes with is compiled, assembled and run along the   *)
(* three-address code, and returns its value: the spills, reloads, jumps,   *)
(* argument moves and in-place operations together compute what it says.    *)
GoesWrong ==
  \/ failed
  \/ outcome \in {"diverged", "wild", "fault", "rejected"}
  \/ outcome = "returned" /\ regs[0] # result

FollowsTac == GoesWrong => ~Supported

(* It also gets there: the jumps written for a loop end when the code's do. *)
Returns == (Emitted /\ outcome = "compiling" /\ Supported) ~> (outcome = "returned")

(* The caller gets back rbp, whatever else went wrong: no operand's slot is  *)
(* where it was saved.                                                      *)
RbpRestored == outcome = "returned" => rbp = CallersRbp

(* If every register pushed around an instruction is popped again, and the  *)
(* pairs nest, it gets back its callee saved registers too:                 *)
(* schedule_callee_reloads finds its own pushes.                            *)
PushesAnswered ==
  \A e \in Pushes : \E g \in Pops : g.reg = e.reg /\ g.index > e.index

CalleeSavedRestored ==
  /\ RbpRestored
  /\ outcome = "returned" /\ PushesAnswered /\ PopsNest => \A r \in CalleeSaved : regs[r] = Callers(r)

(* A slot of the frame belongs to one operand and lies within the frame, so *)
(* get_bytes_from_operand and the division's copy never share one.          *)
SlotsAreOwn ==
  \A o1, o2 \in Operands :
    frame_byte_offset[o1] # NoSlot =>
      /\ frame_byte_offset[o1] \in 1..total_frame_bytes
      /\ frame_byte_offset[o1] = frame_byte_offset[o2] => o1 = o2

(* The test quad_or_triple: the branch taken is the one the condition picks. *)
BranchesFollowConditions == outcome # "diverged"
==============================================================================
