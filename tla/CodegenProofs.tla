----------------------------- MODULE CodegenProofs -----------------------------
(***************************************************************************)
(* What holds of the frame of every function, however many instructions,   *)
(* operands and registers it has, and wherever the generator or the        *)
(* machine stands: nobody writes to a slot of somebody else.               *)
(*                                                                         *)
(* The slots are handed out by two lines that count on their own, in       *)
(* get_bytes_from_operand and in the case of a division.  What they share  *)
(* is total_frame_bytes, and the invariant says that no offset is beyond   *)
(* it: the next one is new.                                                *)
(*                                                                         *)
(* From that follows that a function gives rbp back.  The caller's is in   *)
(* slot 0, which is no operand's; so no line of the file writes there, and *)
(* leave, which stands before every ret, finds it.                         *)
(***************************************************************************)
EXTENDS Codegen, FiniteSetTheorems, SequenceTheorems, TLAPS

Spec == Start /\ [][Next]_vars

FrameTypes ==
  /\ total_frame_bytes \in Nat
  /\ frame_byte_offset \in [Operands -> Nat \cup {NoSlot}]

FrameInv == FrameTypes /\ SlotsAreOwn

(* The two variables the invariant is about. *)
sizes == <<total_frame_bytes, frame_byte_offset>>

------------------------------------------------------------------------------
(* A step that gives the operand the next slot keeps the invariant, and so  *)
(* does one that only makes the frame larger.                               *)
LEMMA NextSlotIsNew ==
  ASSUME FrameInv, NEW op,
         total_frame_bytes' = total_frame_bytes + 1,
         frame_byte_offset' = [frame_byte_offset EXCEPT ![op] = total_frame_bytes + 1]
  PROVE  FrameInv'
  <1>1. FrameTypes'
    <2>1. total_frame_bytes \in Nat /\ frame_byte_offset \in [Operands -> Nat \cup {NoSlot}]
      BY DEF FrameInv, FrameTypes
    <2>2. total_frame_bytes + 1 \in Nat
      BY <2>1
    <2>3. frame_byte_offset' \in [Operands -> Nat \cup {NoSlot}]
      BY <2>1, <2>2, Zenon
    <2> QED BY <2>2, <2>3 DEF FrameTypes, NoSlot
  <1>2. ASSUME NEW o1 \in Operands, NEW o2 \in Operands, frame_byte_offset'[o1] # NoSlot
        PROVE  /\ frame_byte_offset'[o1] \in 1..total_frame_bytes'
               /\ frame_byte_offset'[o1] = frame_byte_offset'[o2] => o1 = o2
    <2>1. \A o \in Operands : frame_byte_offset[o] # NoSlot =>
            frame_byte_offset[o] \in 1..total_frame_bytes
      BY DEF FrameInv, SlotsAreOwn
    <2>2. \A o \in Operands :
            frame_byte_offset'[o] = IF o = op THEN total_frame_bytes + 1 ELSE frame_byte_offset[o]
      BY DEF FrameInv, FrameTypes
    <2>3. frame_byte_offset'[o1] \in 1..total_frame_bytes'
      BY <1>2, <2>1, <2>2 DEF FrameInv, FrameTypes
    <2>4. ASSUME frame_byte_offset'[o1] = frame_byte_offset'[o2]
          PROVE  o1 = o2
      <3>1. CASE o1 = op \/ o2 = op
        BY <3>1, <1>2, <2>1, <2>2, <2>4 DEF FrameInv, FrameTypes, NoSlot
      <3>2. CASE o1 # op /\ o2 # op
        BY <3>2, <1>2, <2>2, <2>4 DEF FrameInv, SlotsAreOwn
      <3> QED BY <3>1, <3>2
    <2> QED BY <2>3, <2>4
  <1>3. SlotsAreOwn'
    BY <1>2 DEF SlotsAreOwn
  <1> QED BY <1>1, <1>3 DEF FrameInv

LEMMA LargerFrame ==
  ASSUME FrameInv,
         total_frame_bytes' \in Nat, total_frame_bytes' >= total_frame_bytes,
         frame_byte_offset' = frame_byte_offset
  PROVE  FrameInv'
  BY DEF FrameInv, FrameTypes, SlotsAreOwn

LEMMA SameFrame ==
  ASSUME FrameInv, UNCHANGED sizes
  PROVE  FrameInv'
  BY LargerFrame DEF sizes, FrameInv, FrameTypes

(* get_bytes_from_operand, for whichever operand it is called. *)
LEMMA OperandGetsOwnSlot ==
  ASSUME FrameInv, NEW op, get_bytes_from_operand(op)
  PROVE  FrameInv'
  <1>1. CASE InFrame(op) /\ op \notin symbols_set
    BY <1>1, NextSlotIsNew DEF get_bytes_from_operand
  <1>2. CASE ~(InFrame(op) /\ op \notin symbols_set)
    BY <1>2, SameFrame DEF get_bytes_from_operand, sizes
  <1> QED BY <1>1, <1>2

------------------------------------------------------------------------------
(* get_bytes_for_stack_frames keeps the invariant.                           *)
LEMMA LayoutKeeps ==
  ASSUME FrameInv, FrameNext
  PROVE  FrameInv'
  <1>1. CASE ScheduleCallee
    BY <1>1, SameFrame DEF ScheduleCallee, sizes
  <1>2. CASE FrameConst
    BY <1>2, OperandGetsOwnSlot DEF FrameConst
  <1>3. CASE FrameAssign
    <2>1. Fail \/ get_bytes_from_operand(Result)
      BY <1>3 DEF FrameAssign, AssignAroundCall
    <2> QED BY <2>1, SameFrame, OperandGetsOwnSlot DEF Fail, sizes
  <1>4. CASE FrameNot
    <2>1. Fail \/ get_bytes_from_operand(Result)
      BY <1>4 DEF FrameNot
    <2> QED BY <2>1, SameFrame, OperandGetsOwnSlot DEF Fail, sizes
  <1>5. CASE FrameNegate
    BY <1>5, OperandGetsOwnSlot DEF FrameNegate
  <1>6. CASE FrameArithmetic
    <2>1. Fail \/ get_bytes_from_operand(Result)
      BY <1>6 DEF FrameArithmetic
    <2> QED BY <2>1, SameFrame, OperandGetsOwnSlot DEF Fail, sizes
  <1>7. CASE FrameDivide
    <2>1. \/ /\ total_frame_bytes' = total_frame_bytes + 1
             /\ frame_byte_offset' = [frame_byte_offset EXCEPT ![Op1] = total_frame_bytes + 1]
          \/ UNCHANGED sizes
      BY <1>7 DEF FrameDivide, sizes
    <2> QED BY <2>1, NextSlotIsNew, SameFrame
  <1>8. CASE FrameCompare
    <2>1. Fail \/ get_bytes_from_operand(Result)
      BY <1>8 DEF FrameCompare
    <2> QED BY <2>1, SameFrame, OperandGetsOwnSlot DEF Fail, sizes
  <1>9. CASE FrameNothing
    BY <1>9, SameFrame DEF FrameNothing, sizes
  <1>10. CASE FrameDone
    <2>1. total_frame_bytes \in Nat
      BY DEF FrameInv, FrameTypes
    <2>2. total_frame_bytes % 2 \in 0..1
      BY <2>1
    <2>3. /\ total_frame_bytes' = total_frame_bytes + (total_frame_bytes % 2)
          /\ frame_byte_offset' = frame_byte_offset
      BY <1>10 DEF FrameDone
    <2>4. total_frame_bytes' \in Nat /\ total_frame_bytes' >= total_frame_bytes
      BY <2>1, <2>2, <2>3
    <2> QED BY <2>3, <2>4, LargerFrame
  <1> QED
    BY <1>1, <1>2, <1>3, <1>4, <1>5, <1>6, <1>7, <1>8, <1>9, <1>10 DEF FrameNext

(* A slot of the frame belongs to one operand and lies within the frame, for *)
(* every function and every allocation: two operands never share one.        *)
THEOREM SlotsStayOwn == Spec => []SlotsAreOwn
  <1>1. Start => FrameInv
    BY DEF Start, FrameInv, FrameTypes, SlotsAreOwn, NoSlot
  <1>2. FrameInv /\ [Next]_vars => FrameInv'
    <2> SUFFICES ASSUME FrameInv, [Next]_vars
                 PROVE  FrameInv'
      OBVIOUS
    <2>1. CASE FrameNext
      BY <2>1, LayoutKeeps
    <2>2. CASE EmitInstruction
      BY <2>2, SameFrame DEF EmitInstruction, sizes
    <2>3. CASE Run
      BY <2>3, SameFrame DEF Run, layout, sizes
    <2>4. CASE UNCHANGED vars
      BY <2>4, SameFrame DEF vars, layout, sizes
    <2> QED BY <2>1, <2>2, <2>3, <2>4 DEF Next
  <1>3. FrameInv => SlotsAreOwn
    BY DEF FrameInv
  <1> QED BY <1>1, <1>2, <1>3, PTL DEF Spec

------------------------------------------------------------------------------
(* The caller's rbp.  It is saved in slot 0, where leave finds it: so no     *)
(* line may write there, and no ret may stand without a leave before it.    *)
(* First what it takes to put such texts together.                          *)

(* The caller's rbp is in slot 0 of the frame. *)
Spares(place) == place[1] = "frame" => place[2] # 0

(* A text and its lines: none of them writes to the caller's rbp, and every  *)
(* ret stands behind a leave.                                                *)
IsText(text) == \E S : text \in Seq(S) /\ \A line \in S : Spares(line.to)
Leaves(text) ==
  \A n \in DOMAIN text : text[n].mnemonic = "ret" => n > 1 /\ text[n - 1].mnemonic = "leave"
Sound(text) == IsText(text) /\ Leaves(text)

(* A sequence over a set is one over a larger set.                          *)
LEMMA Widened ==
  ASSUME NEW S, NEW T, S \subseteq T, NEW q \in Seq(S)
  PROVE  q \in Seq(T)
  OBVIOUS

(* Two such texts one after the other make one.                             *)
LEMMA TextsJoin ==
  ASSUME NEW s, NEW t, Sound(s), Sound(t)
  PROVE  Sound(s \o t)
  <1>1. PICK S : s \in Seq(S) /\ \A line \in S : Spares(line.to)
    BY DEF Sound, IsText
  <1>2. PICK T : t \in Seq(T) /\ \A line \in T : Spares(line.to)
    BY DEF Sound, IsText
  <1> DEFINE U == S \cup T
             st == s \o t
  <1>3. s \in Seq(U) /\ t \in Seq(U)
    BY <1>1, <1>2, Widened, Zenon
  <1>4. \A line \in U : Spares(line.to)
    BY <1>1, <1>2
  <1> HIDE DEF U
  <1>5. /\ st \in Seq(U) /\ Len(st) = Len(s) + Len(t)
        /\ \A n \in 1..(Len(s) + Len(t)) : st[n] = IF n <= Len(s) THEN s[n] ELSE t[n - Len(s)]
        /\ Len(s) \in Nat /\ Len(t) \in Nat /\ DOMAIN s = 1..Len(s) /\ DOMAIN t = 1..Len(t)
        /\ DOMAIN st = 1..(Len(s) + Len(t))
    BY <1>3, ConcatProperties, LenProperties
  <1>6. IsText(st)
    BY <1>4, <1>5 DEF IsText
  <1> HIDE DEF st
  <1>7. ASSUME NEW n \in DOMAIN st, st[n].mnemonic = "ret"
        PROVE  n > 1 /\ st[n - 1].mnemonic = "leave"
    <2>1. n \in 1..(Len(s) + Len(t))
      BY <1>5
    <2>2. CASE n <= Len(s)
      <3>1. n \in DOMAIN s /\ st[n] = s[n]
        BY <1>5, <2>1, <2>2
      <3>2. n > 1 /\ s[n - 1].mnemonic = "leave"
        BY <1>7, <3>1 DEF Sound, Leaves
      <3>3. n - 1 \in 1..(Len(s) + Len(t)) /\ n - 1 <= Len(s)
        BY <1>5, <2>1, <2>2, <3>2
      <3>4. st[n - 1] = s[n - 1]
        BY <1>5, <3>3
      <3> QED
        BY <3>2, <3>4
    <2>3. CASE n > Len(s)
      <3> DEFINE m == n - Len(s)
      <3>1. m \in DOMAIN t /\ st[n] = t[m]
        BY <1>5, <2>1, <2>3
      <3>2. m > 1 /\ t[m - 1].mnemonic = "leave"
        BY <1>7, <3>1 DEF Sound, Leaves
      <3>3. n - 1 \in 1..(Len(s) + Len(t)) /\ ~(n - 1 <= Len(s)) /\ n > 1 /\ (n - 1) - Len(s) = m - 1
        BY <1>5, <2>1, <2>3, <3>2
      <3>4. st[n - 1] = t[m - 1]
        BY <1>5, <3>3
      <3> QED
        BY <3>2, <3>3, <3>4
    <2> QED
      BY <1>5, <2>1, <2>2, <2>3
  <1> QED
    BY <1>6, <1>7 DEF Sound, Leaves, st

(* A line that does not return. *)
Plain(line) == Spares(line.to) /\ line.mnemonic # "ret"

(* A text of lines that do not return, however many there are.              *)
LEMMA PlainText ==
  ASSUME NEW S, \A line \in S : Plain(line), NEW text \in Seq(S)
  PROVE  Sound(text)
  <1>1. \A n \in DOMAIN text : text[n] \in S
    OBVIOUS
  <1>2. \A n \in DOMAIN text : text[n].mnemonic # "ret"
    BY <1>1 DEF Plain
  <1>3. \A line \in S : Spares(line.to)
    BY DEF Plain
  <1> QED
    BY <1>2, <1>3 DEF Sound, IsText, Leaves

(* The texts of one line, of two, and so on.                                *)
LEMMA NoText == Sound(<<>>)
  <1>1. <<>> \in Seq({})
    OBVIOUS
  <1> QED
    BY <1>1, PlainText

LEMMA OneLine ==
  ASSUME NEW a, Plain(a)
  PROVE  Sound(<<a>>)
  <1>1. <<a>> \in Seq({a})
    OBVIOUS
  <1> QED
    BY <1>1, PlainText

LEMMA TwoLines ==
  ASSUME NEW a, NEW b, Plain(a), Plain(b)
  PROVE  Sound(<<a, b>>)
  <1>1. <<a, b>> \in Seq({a, b})
    OBVIOUS
  <1> QED
    BY <1>1, PlainText

LEMMA FourLines ==
  ASSUME NEW a, NEW b, NEW c, NEW d, Plain(a), Plain(b), Plain(c), Plain(d)
  PROVE  Sound(<<a, b, c, d>>)
  <1>1. <<a, b, c, d>> \in Seq({a, b, c, d})
    OBVIOUS
  <1> QED
    BY <1>1, PlainText

LEMMA SixLines ==
  ASSUME NEW a, NEW b, NEW c, NEW d, NEW e, NEW f,
         Plain(a), Plain(b), Plain(c), Plain(d), Plain(e), Plain(f)
  PROVE  Sound(<<a, b, c, d, e, f>>)
  <1>1. <<a, b, c, d, e, f>> \in Seq({a, b, c, d, e, f})
    OBVIOUS
  <1> QED
    BY <1>1, PlainText

(* One more line for a text that does not return.                           *)
LEMMA OneMore ==
  ASSUME NEW S, \A line \in S : Plain(line), NEW text \in Seq(S), NEW a, Plain(a)
  PROVE  Sound(Append(text, a))
  <1>1. text \in Seq(S \cup {a})
    BY Widened
  <1>2. Append(text, a) \in Seq(S \cup {a})
    BY <1>1
  <1> QED
    BY <1>2, PlainText, Zenon

------------------------------------------------------------------------------
(* The text of each instruction, for the programs of the builder.            *)

(* An instruction as the builder makes it: its operands, and the operators  *)
(* that its kind has.                                                       *)
IsInstruction(ins) ==
  /\ Writes(ins) \subseteq Operands
  /\ ins.kind \in Binary \cup {"NOT"} => ins.op1 \in Operands
  /\ ins.kind \in Binary => ins.op2 \in Operands
  /\ ins.kind = "LESS" => ins.op \in {"<", "<=", ">", ">=", "==", "!="}
  /\ ins.op \in {"add", "sub", "mul", "and", "or"} => ins.kind = "ADD"
  /\ ins.op \in {"neg", "not"} => ins.kind = "NOT"

IsProgram == Len(code) \in Nat /\ \A k \in Indices(code) : IsInstruction(code[k])

(* An operand has no slot or one of the frame, and slot 0 is not one.       *)
LEMMA Offsets ==
  ASSUME FrameInv, NEW op \in Operands
  PROVE  frame_byte_offset[op] # 0
  <1>1. frame_byte_offset[op] \in Nat \cup {NoSlot} /\ total_frame_bytes \in Nat
    BY DEF FrameInv, FrameTypes
  <1>2. frame_byte_offset[op] # NoSlot => frame_byte_offset[op] \in 1..total_frame_bytes
    BY DEF FrameInv, SlotsAreOwn
  <1> QED
    BY <1>1, <1>2 DEF NoSlot

(* What the texts write to: places and working registers of operands,       *)
(* registers, and no place.                                                 *)
LEMMA PlacesSpare ==
  ASSUME FrameInv
  PROVE  /\ \A op \in Operands : Spares(Slot(op)) /\ Spares(Place(op)) /\ Spares(Working(op))
         /\ \A r : Spares(Reg(r))
         /\ \A n : Spares(Number(n)) /\ Spares(CodeLabel(n))
         /\ \A k : Spares(Generated("true", k)) /\ Spares(Generated("false", k))
                     /\ Spares(Generated("end", k))
         /\ Spares(NoOperand)
  <1>1. \A r : Spares(Reg(r))
    BY Zenon DEF Reg, Spares
  <1>2. \A op \in Operands : Spares(Slot(op))
    BY Offsets, Zenon DEF Slot, Spares
  <1>3. \A op \in Operands : Spares(Place(op)) /\ Spares(Working(op))
    BY <1>1, <1>2, Zenon DEF Place, Working
  <1>4. \A n : Spares(Number(n)) /\ Spares(CodeLabel(n))
    BY Zenon DEF Number, CodeLabel, Spares
  <1>5. \A k : Spares(Generated("true", k)) /\ Spares(Generated("false", k)) /\ Spares(Generated("end", k))
    BY Zenon DEF Generated, Spares
  <1>6. Spares(NoOperand)
    BY Zenon DEF NoOperand, Spares
  <1> QED
    BY <1>1, <1>2, <1>3, <1>4, <1>5, <1>6

(* The lines the texts are made of. *)
LEMMA PlainLines ==
  /\ \A mnemonic, to, from : Spares(to) /\ mnemonic # "ret" => Plain(Line(mnemonic, to, from))
  /\ \A mnemonic, to : Spares(to) /\ mnemonic # "ret" => Plain(Jump(mnemonic, to))
  /\ \A to : Spares(to) => Plain(LabelLine(to))
  /\ \A to, from : Spares(to) => Plain(Mov(to, from))
  <1>1. \A mnemonic, to, from : Spares(to) /\ mnemonic # "ret" => Plain(Line(mnemonic, to, from))
    BY DEF Plain, Line
  <1> QED
    BY <1>1 DEF Jump, LabelLine, Mov

(* A condition whose result is written as a number.                         *)
LEMMA Materialized ==
  ASSUME FrameInv, NEW k, code[k].result \in Operands, NEW tests, Sound(tests)
  PROVE  Sound(Materialize(k, tests))
  <1> DEFINE into   == Place(code[k].result)
             rest == <<LabelLine(Generated("true", k)), Mov(into, Number(1)),
                       Jump("jmp", Generated("end", k)),
                       LabelLine(Generated("false", k)), Mov(into, Number(0)),
                       LabelLine(Generated("end", k))>>
  <1>1. Spares(into)
    BY PlacesSpare
  <1>2. /\ Plain(LabelLine(Generated("true", k))) /\ Plain(Mov(into, Number(1)))
        /\ Plain(Jump("jmp", Generated("end", k))) /\ Plain(LabelLine(Generated("false", k)))
        /\ Plain(Mov(into, Number(0))) /\ Plain(LabelLine(Generated("end", k)))
    <2> HIDE DEF into
    <2>1. "jmp" # "ret"
      OBVIOUS
    <2> QED
      BY <1>1, <2>1, PlacesSpare, PlainLines, Zenon
  <1>3. Sound(rest)
    BY <1>2, SixLines, Zenon
  <1>4. Materialize(k, tests) = tests \o rest
    BY DEF Materialize
  <1> QED
    BY <1>3, <1>4, TextsJoin, Zenon

(* Both operands compared with one value.                                   *)
LEMMA EachTested ==
  ASSUME NEW first, NEW second, NEW value, NEW label,
         Spares(first), Spares(second), Spares(label)
  PROVE  Sound(TestEach(first, second, value, label))
  <1>1. /\ Plain(Line("cmp", first, Number(value))) /\ Plain(Line("cmp", second, Number(value)))
        /\ Plain(Jump("je", label))
    BY PlainLines
  <1> QED
    BY <1>1, FourLines, Zenon DEF TestEach

(* The text of a negated condition, before a jump and without one.          *)
LEMMA NotSound ==
  ASSUME FrameInv, NEW k, code[k].result \in Operands, code[k].op1 \in Operands
  PROVE  Sound(NotText(k))
  <1> DEFINE op == Working(code[k].op1)
             x  == Line("xor", op, Number(1))
             t  == Line("test", op, op)
             flip == <<x, t>>
  <1>1. Spares(op)
    BY PlacesSpare
  <1>2. Plain(x) /\ Plain(t)
    BY <1>1, PlainLines
  <1>3. flip \in Seq({x, t})
    OBVIOUS
  <1>4. \A label : Spares(label) => Sound(Append(flip, Jump("jz", label)))
    <2> SUFFICES ASSUME NEW label, Spares(label) PROVE Sound(Append(flip, Jump("jz", label)))
      OBVIOUS
    <2>1. Plain(Jump("jz", label))
      BY PlainLines
    <2>2. \A line \in {x, t} : Plain(line)
      BY <1>2
    <2> HIDE DEF flip, x, t
    <2> QED
      BY <1>3, <2>1, <2>2, OneMore, Zenon
  <1>5. Sound(flip)
    BY <1>2, TwoLines, Zenon
  <1>6. Spares(Otherwise(k)) /\ Spares(FalseLabel(k))
    BY PlacesSpare DEF Otherwise, FalseLabel
  <1>7. Sound(Materialize(k, Append(flip, Jump("jz", FalseLabel(k)))))
    BY <1>4, <1>6, Materialized, Zenon
  <1>8. NotText(k) \in {Append(flip, Jump("jz", Otherwise(k))), flip,
                        Materialize(k, Append(flip, Jump("jz", FalseLabel(k))))}
    BY DEF NotText
  <1> HIDE DEF flip
  <1> QED
    BY <1>4, <1>5, <1>6, <1>7, <1>8

(* The text of a comparison.                                                *)
LEMMA CompareSound ==
  ASSUME FrameInv, NEW k, code[k].result \in Operands, code[k].op1 \in Operands,
         code[k].op2 \in Operands, code[k].op \in {"<", "<=", ">", ">=", "==", "!="}
  PROVE  Sound(CompareText(k))
  <1> DEFINE ins == code[k]
             c == IF InFrame(ins.op1) /\ InFrame(ins.op2)
                  THEN Line("cmp", Slot(ins.op1), Working(ins.op2))
                  ELSE Line("cmp", Place(ins.op1), Place(ins.op2))
             cmp == <<c>>
             jump == Jump(generate_corresponding_jump(ins.op), Otherwise(k))
             jump2 == Jump(get_op_code(ins.op), FalseLabel(k))
  <1>1. Plain(c)
    BY PlacesSpare, PlainLines
  <1>2. cmp \in Seq({c})
    OBVIOUS
  <1>3. Spares(Otherwise(k)) /\ Spares(FalseLabel(k))
    BY PlacesSpare DEF Otherwise, FalseLabel
  <1>4. CompareText(k) \in {Append(cmp, jump), cmp, Materialize(k, Append(cmp, jump2))}
    BY DEF CompareText
  <1>5. generate_corresponding_jump(ins.op) # "ret" /\ get_op_code(ins.op) # "ret"
    BY DEF generate_corresponding_jump, get_op_code
  <1>6. Plain(jump) /\ Plain(jump2)
    BY <1>3, <1>5, PlainLines
  <1>7. Sound(Append(cmp, jump)) /\ Sound(Append(cmp, jump2)) /\ Sound(cmp)
    <2>1. \A line \in {c} : Plain(line)
      BY <1>1
    <2>2. Sound(cmp)
      BY <1>2, <2>1, PlainText
    <2> HIDE DEF cmp, c, jump, jump2
    <2> QED
      BY <1>2, <1>6, <2>1, <2>2, OneMore, Zenon
  <1>8. Sound(Materialize(k, Append(cmp, jump2)))
    BY <1>7, Materialized, Zenon
  <1> HIDE DEF cmp, jump, jump2
  <1> QED
    BY <1>4, <1>7, <1>8

(* The texts of and and or.                                                 *)
LEMMA LogicSound ==
  ASSUME FrameInv, NEW k, code[k].result \in Operands, code[k].op1 \in Operands,
         code[k].op2 \in Operands
  PROVE  Sound(AndText(k)) /\ Sound(OrText(k))
  <1> DEFINE first  == Place(code[k].op1)
             second == Place(code[k].op2)
             again  == IF InFrame(code[k].op2) THEN second ELSE Reg(assigned_register[code[k].op1])
             into   == Place(code[k].result)
             rest == <<LabelLine(FalseLabel(k)), Mov(into, Number(0)),
                       Jump("jmp", Generated("end", k)),
                       LabelLine(Generated("true", k)), Mov(into, Number(1)),
                       LabelLine(Generated("end", k))>>
             either == TestEach(first, second, 1, Generated("true", k))
  <1>1. /\ Spares(first) /\ Spares(second) /\ Spares(into) /\ Spares(again)
        /\ Spares(Otherwise(k)) /\ Spares(FalseLabel(k)) /\ Spares(Generated("true", k))
        /\ Spares(Generated("end", k))
    BY PlacesSpare DEF Otherwise, FalseLabel
  <1>2. AndText(k) \in {TestEach(first, second, 0, Otherwise(k)), <<>>,
                        Materialize(k, TestEach(first, second, 0, FalseLabel(k)))}
    BY DEF AndText
  <1>3. OrText(k) \in {TestEach(first, again, 1, Otherwise(k)), <<>>, either \o rest}
    BY DEF OrText
  <1> HIDE DEF first, second, again, into
  <1>4. /\ Plain(LabelLine(FalseLabel(k))) /\ Plain(Mov(into, Number(0)))
        /\ Plain(Jump("jmp", Generated("end", k))) /\ Plain(LabelLine(Generated("true", k)))
        /\ Plain(Mov(into, Number(1))) /\ Plain(LabelLine(Generated("end", k)))
    <2>1. "jmp" # "ret"
      OBVIOUS
    <2> QED
      BY <1>1, <2>1, PlainLines, Zenon
  <1>5. Sound(rest)
    BY <1>4, SixLines, Zenon
  <1>6. /\ Sound(TestEach(first, second, 0, Otherwise(k)))
        /\ Sound(TestEach(first, second, 0, FalseLabel(k)))
        /\ Sound(TestEach(first, again, 1, Otherwise(k))) /\ Sound(either)
    BY <1>1, EachTested, Zenon
  <1>7. Sound(Materialize(k, TestEach(first, second, 0, FalseLabel(k))))
    BY <1>6, Materialized, Zenon
  <1> HIDE DEF either, rest
  <1>8. Sound(either \o rest)
    BY <1>5, <1>6, TextsJoin, Zenon
  <1> QED
    BY <1>2, <1>3, <1>6, <1>7, <1>8, NoText

(* The text of a constant.                                                  *)
LEMMA ConstSound ==
  ASSUME FrameInv, NEW k, code[k].result \in Operands
  PROVE  Sound(ConstText(k))
  <1> DEFINE to == Place(code[k].result)
             l == Line(IF to[1] = "frame" THEN "mov qword" ELSE "mov", to, Number(code[k].val))
  <1>1. Spares(to)
    BY PlacesSpare
  <1>2. (IF to[1] = "frame" THEN "mov qword" ELSE "mov") # "ret"
    OBVIOUS
  <1> HIDE DEF to
  <1>3. Plain(l)
    BY <1>1, <1>2, PlainLines, Zenon
  <1>4. ConstText(k) = <<l>>
    BY DEF ConstText, to
  <1> HIDE DEF l
  <1> QED
    BY <1>3, <1>4, OneLine

(* The text of an assignment.                                               *)
LEMMA AssignSound ==
  ASSUME FrameInv, NEW k, code[k].result \in Operands
  PROVE  Sound(AssignText(k))
  <1> DEFINE ins == code[k]
  <1>1. \E to, from : Spares(to) /\ AssignText(k) = <<Mov(to, from)>>
    BY PlacesSpare DEF AssignText
  <1> QED
    BY <1>1, PlainLines, OneLine

(* The text of an addition, a subtraction or a multiplication.              *)
LEMMA ArithmeticSound ==
  ASSUME FrameInv, NEW k, code[k].result \in Operands, code[k].op1 \in Operands,
         code[k].op # "ret"
  PROVE  Sound(ArithmeticText(k))
  <1>1. /\ Plain(Line(code[k].op, Working(code[k].op1), Place(code[k].op2)))
        /\ Plain(Mov(Place(code[k].result), Working(code[k].op1)))
    BY PlacesSpare, PlainLines, Zenon
  <1> QED
    BY <1>1, TwoLines, Zenon DEF ArithmeticText

(* The text of a unary minus.                                               *)
LEMMA NegateSound ==
  ASSUME FrameInv, NEW k, code[k].result \in Operands, code[k].op1 \in Operands
  PROVE  Sound(NegateText(k))
  <1> DEFINE ins == code[k]
             from == IF InFrame(ins.result) THEN Working(ins.op1) ELSE Place(ins.op1)
  <1>1. "neg" # "ret"
    OBVIOUS
  <1> HIDE DEF from
  <1>2. Plain(Line("neg", Place(ins.op1), NoOperand)) /\ Plain(Mov(Place(ins.result), from))
    BY <1>1, PlacesSpare, PlainLines, Zenon
  <1> QED
    BY <1>2, TwoLines, Zenon DEF NegateText, from

(* The text of a division, whose lines write to rax, rdx and the result.    *)
LEMMA DivideSound ==
  ASSUME FrameInv, NEW k, code[k].result \in Operands, code[k].op2 \in Operands
  PROVE  Sound(DivideText(k))
  <1> DEFINE ins == code[k]
             from == IF ins.op = "mod" THEN RdxReg ELSE Rax
  <1>1. "xor" # "ret" /\ "div" # "ret"
    OBVIOUS
  <1>2. Spares(Rax) /\ Spares(RdxReg) /\ Spares(Place(ins.op2)) /\ Spares(Place(ins.result))
    BY PlacesSpare, Zenon DEF Rax, RdxReg
  <1> HIDE DEF from
  <1>3. /\ Plain(Mov(Rax, Place(ins.op1))) /\ Plain(Line("xor", RdxReg, RdxReg))
        /\ Plain(Line("div", Place(ins.op2), NoOperand)) /\ Plain(Mov(Place(ins.result), from))
    BY <1>1, <1>2, PlainLines, Zenon
  <1> QED
    BY <1>3, FourLines, Zenon DEF DivideText, from

------------------------------------------------------------------------------
(* What InOrder lists, if the set is finite.                                 *)
LEMMA Listed ==
  ASSUME NEW S, IsFiniteSet(S)
  PROVE  DOMAIN InOrder(S) = 1..Cardinality(S) /\ Cardinality(S) \in Nat
  BY FS_CardinalityType DEF InOrder

(* A function on 1..m is a sequence of length m.                            *)
LEMMA Counted ==
  ASSUME NEW S, NEW m \in Nat, NEW f \in [1..m -> S]
  PROVE  f \in Seq(S) /\ Len(f) = m
  OBVIOUS

(* The text of a call moves arguments to registers, as many as there are    *)
(* for them.                                                                *)
LEMMA CallSound ==
  ASSUME FrameInv, IsProgram, NumArgs \in Nat, NEW k \in Indices(code)
  PROVE  Sound(CallText(k))
  <1> DEFINE args == InOrder(ArgumentsOf(k))
             inRegisters == {n \in DOMAIN args : n <= NumArgs}
             move(n) == Mov(Reg(ArgOffset + n - 1), Place(code[args[n]].op1))
             moves == [n \in inRegisters |-> move(n)]
             S == {move(n) : n \in inRegisters}
             call == Line("call", NoOperand, Number(Len(args)))
  <1>1. CallText(k) = moves \o <<call>>
    BY DEF CallText
  <1>2. Plain(call)
    <2>1. "call" # "ret"
      OBVIOUS
    <2> QED
      BY <2>1, PlacesSpare, PlainLines, Zenon
  <1>3. \A n : Plain(move(n))
    BY PlacesSpare, PlainLines, Zenon
  <1>4. DOMAIN args = 1..Cardinality(ArgumentsOf(k)) /\ Cardinality(ArgumentsOf(k)) \in Nat
    <2>1. ArgumentsOf(k) \in SUBSET (1..(k - 1))
      BY DEF ArgumentsOf
    <2>2. IsFiniteSet(1..(k - 1))
      BY FS_Interval DEF Indices, IsProgram
    <2>3. IsFiniteSet(ArgumentsOf(k))
      BY <2>1, <2>2, FS_Subset
    <2> HIDE DEF args
    <2> QED
      BY <2>3, Listed DEF args
  <1>5. \A line \in S : Plain(line)
    BY <1>3
  <1>6. \E m \in Nat : inRegisters = 1..m
    <2> DEFINE N == Cardinality(ArgumentsOf(k))
    <2>1. N \in Nat /\ inRegisters = {n \in 1..N : n <= NumArgs}
      BY <1>4
    <2> HIDE DEF N, inRegisters
    <2>2. CASE N <= NumArgs
      <3>1. inRegisters = 1..N
        BY <2>1, <2>2
      <3> QED
        BY <2>1, <3>1
    <2>3. CASE N > NumArgs
      <3>1. inRegisters = 1..NumArgs
        BY <2>1, <2>3
      <3> QED
        BY <3>1
    <2> QED
      BY <2>1, <2>2, <2>3
  <1>7. moves \in [inRegisters -> S]
    OBVIOUS
  <1> HIDE DEF moves, S, inRegisters, call
  <1>8. moves \in Seq(S)
    BY <1>6, <1>7, Counted
  <1>9. Sound(moves) /\ Sound(<<call>>)
    BY <1>2, <1>5, <1>8, PlainText, OneLine
  <1> QED
    BY <1>1, <1>9, TextsJoin, Zenon

------------------------------------------------------------------------------
(* The schedules: what is stored is stored in the slot of an operand.        *)
GoodEntry(e) ==
  \/ e.direction \in {"push", "pop", "load"}
  \/ e.direction = "store" /\ e.offset # 0

GoodSchedule(s) == \E S : s \in Seq(S) /\ \A e \in S : GoodEntry(e)

(* An entry makes a line that does not return.                              *)
LEMMA EntryLines ==
  ASSUME NEW e, GoodEntry(e)
  PROVE  Plain(EntryLine(e))
  <1>1. \A r : Spares(Reg(r))
    BY Zenon DEF Reg, Spares
  <1>2. e.direction = "store" => Spares(<<"frame", e.offset>>)
    BY Zenon DEF GoodEntry, Spares
  <1>3. "push" # "ret" /\ "pop" # "ret"
    OBVIOUS
  <1>4. CASE e.direction = "push"
    <2>1. EntryLine(e) = Line("push", Reg(e.reg), NoOperand)
      BY <1>4 DEF EntryLine
    <2> QED
      BY <1>1, <1>3, <2>1, PlainLines, Zenon
  <1>5. CASE e.direction = "pop"
    <2>1. EntryLine(e) = Line("pop", Reg(e.reg), NoOperand)
      BY <1>5 DEF EntryLine
    <2> QED
      BY <1>1, <1>3, <2>1, PlainLines, Zenon
  <1>6. CASE e.direction = "load"
    <2>1. EntryLine(e) = Mov(Reg(e.reg), <<"frame", e.offset>>)
      BY <1>6 DEF EntryLine
    <2> QED
      BY <1>1, <2>1, PlainLines, Zenon
  <1>7. CASE e.direction = "store"
    <2>1. EntryLine(e) = Mov(<<"frame", e.offset>>, Reg(e.reg))
      BY <1>7 DEF EntryLine
    <2> QED
      BY <1>2, <1>7, <2>1, PlainLines, Zenon
  <1> QED
    BY <1>4, <1>5, <1>6, <1>7 DEF GoodEntry

(* The lines of a schedule.                                                 *)
LEMMA LinesSound ==
  ASSUME NEW entries, GoodSchedule(entries)
  PROVE  Sound(Lines(entries))
  <1>1. PICK S : entries \in Seq(S) /\ \A e \in S : GoodEntry(e)
    BY DEF GoodSchedule
  <1> DEFINE L == {EntryLine(e) : e \in S}
  <1>2. \A line \in L : Plain(line)
    BY <1>1, EntryLines
  <1>3. \A e \in S : EntryLine(e) \in L
    OBVIOUS
  <1> HIDE DEF L
  <1>4. /\ Len(entries) \in Nat /\ DOMAIN entries = 1..Len(entries)
        /\ \A n \in 1..Len(entries) : entries[n] \in S
    BY <1>1
  <1>5. Lines(entries) \in [1..Len(entries) -> L]
    BY <1>3, <1>4 DEF Lines
  <1> QED
    BY <1>2, <1>4, <1>5, Counted, PlainText

(* A schedule read backwards.                                               *)
LEMMA GoodReversed ==
  ASSUME NEW entries, GoodSchedule(entries)
  PROVE  GoodSchedule(Reversed(entries))
  <1>1. PICK S : entries \in Seq(S) /\ \A e \in S : GoodEntry(e)
    BY DEF GoodSchedule
  <1>2. /\ Len(entries) \in Nat /\ DOMAIN entries = 1..Len(entries)
        /\ \A n \in 1..Len(entries) : entries[n] \in S
    BY <1>1
  <1>3. \A n \in 1..Len(entries) : Len(entries) + 1 - n \in 1..Len(entries)
    BY <1>2
  <1>4. Reversed(entries) \in [1..Len(entries) -> S]
    BY <1>2, <1>3 DEF Reversed
  <1>5. Reversed(entries) \in Seq(S)
    BY <1>2, <1>4, Counted
  <1> QED
    BY <1>1, <1>5 DEF GoodSchedule

(* InOrder lists a finite set of numbers in increasing order.               *)
Rank(S, k) == Cardinality({m \in S : m <= k})

(* The rank of an element is a place of the list, and larger for a larger   *)
(* element.                                                                 *)
LEMMA RankIncreases ==
  ASSUME NEW S \in SUBSET Nat, IsFiniteSet(S), NEW k \in S
  PROVE  /\ Rank(S, k) \in 1..Cardinality(S)
         /\ \A m \in S : m < k => Rank(S, m) < Rank(S, k)
  <1>1. ASSUME NEW m \in S
        PROVE  /\ IsFiniteSet({l \in S : l <= m})
               /\ Rank(S, m) \in Nat
               /\ Rank(S, m) <= Cardinality(S)
    <2>1. {l \in S : l <= m} \in SUBSET S
      OBVIOUS
    <2>2. QED
      BY <2>1, FS_Subset, FS_CardinalityType DEF Rank
  <1>2. Rank(S, k) # 0
    BY <1>1, FS_EmptySet, k \in {l \in S : l <= k} DEF Rank
  <1>3. ASSUME NEW m \in S, m < k
        PROVE  Rank(S, m) < Rank(S, k)
    <2>1. \A l \in S : l <= m => l <= k
      BY <1>3, S \subseteq Nat
    <2>2. k \in {l \in S : l <= k} /\ k \notin {l \in S : l <= m}
      BY <1>3
    <2>3. Rank(S, m) <= Rank(S, k) /\ Rank(S, m) # Rank(S, k)
      <3>1. {l \in S : l <= m} \in SUBSET {l \in S : l <= k}
        BY <2>1
      <3>2. QED
        BY <1>1, <2>2, <3>1, FS_Subset DEF Rank
    <2>4. Rank(S, m) \in Nat /\ Rank(S, k) \in Nat
      BY <1>1
    <2>5. QED
      BY <2>3, <2>4
  <1>4. QED
    <2>1. Cardinality(S) \in Nat
      BY FS_CardinalityType
    <2>2. Rank(S, k) \in Nat /\ Rank(S, k) <= Cardinality(S)
      BY <1>1
    <2>3. Rank(S, k) \in 1..Cardinality(S)
      BY <1>2, <2>1, <2>2
    <2>4. QED
      BY <1>3, <2>3

(* Every place of the list has an element.                                  *)
LEMMA EveryRankIsTaken ==
  ASSUME NEW S \in SUBSET Nat, IsFiniteSet(S), NEW n \in 1..Cardinality(S)
  PROVE  \E k \in S : Rank(S, k) = n
  <1> DEFINE N == Cardinality(S)
             f == [k \in S |-> Rank(S, k)]
  <1>1. N \in Nat
    BY FS_CardinalityType
  <1>2. IsFiniteSet(1..N) /\ Cardinality(1..N) = N
    BY <1>1, FS_Interval
  <1>3. f \in Injection(S, 1..N)
    <2>1. f \in [S -> 1..N]
      BY RankIncreases
    <2>2. ASSUME NEW k \in S, NEW m \in S, f[k] = f[m]
          PROVE  k = m
      <3>1. ~(k < m) /\ ~(m < k)
        BY <2>2, RankIncreases
      <3>2. QED
        BY <3>1
    <2>3. QED
      BY <2>1, <2>2 DEF Injection, IsInjective
  <1>4. f \in Surjection(S, 1..N)
    <2> HIDE DEF f
    <2>1. QED
      BY <1>2, <1>3, FS_Injection
  <1>5. QED
    BY <1>4 DEF Surjection

(* What is listed is in the set.                                            *)
LEMMA ListedElements ==
  ASSUME NEW S \in SUBSET Nat, IsFiniteSet(S), NEW n \in 1..Cardinality(S)
  PROVE  InOrder(S)[n] \in S
  <1>1. InOrder(S)[n] = CHOOSE k \in S : Rank(S, k) = n
    BY DEF InOrder, Rank
  <1> QED
    BY <1>1, EveryRankIsTaken

(* The entries of a schedule for one instruction. *)
LEMMA GoodMatching ==
  ASSUME NEW schedule, GoodSchedule(schedule), NEW k
  PROVE  GoodSchedule(Matching(schedule, k))
  <1>1. PICK S : schedule \in Seq(S) /\ \A e \in S : GoodEntry(e)
    BY DEF GoodSchedule
  <1>2. /\ Len(schedule) \in Nat /\ DOMAIN schedule = 1..Len(schedule)
        /\ \A n \in 1..Len(schedule) : schedule[n] \in S
    BY <1>1
  <1> DEFINE P == {n \in DOMAIN schedule : /\ schedule[n].index = k
                                           /\ schedule[n].block = BlockOf(blocks, k)}
             places == InOrder(P)
             m == Cardinality(P)
  <1>3. P \in SUBSET Nat /\ P \in SUBSET (1..Len(schedule))
    BY <1>2
  <1>4. IsFiniteSet(P)
    <2>1. IsFiniteSet(1..Len(schedule))
      BY <1>2, FS_Interval
    <2> HIDE DEF P
    <2> QED
      BY <1>3, <2>1, FS_Subset
  <1>5. Matching(schedule, k) = [n \in DOMAIN places |-> schedule[places[n]]]
    BY DEF Matching
  <1> HIDE DEF P
  <1>6. DOMAIN places = 1..m /\ m \in Nat
    BY <1>4, Listed
  <1>7. \A n \in 1..m : places[n] \in 1..Len(schedule)
    BY <1>3, <1>4, ListedElements
  <1> HIDE DEF places, m
  <1>8. Matching(schedule, k) \in [1..m -> S]
    BY <1>2, <1>5, <1>6, <1>7
  <1>9. Matching(schedule, k) \in Seq(S)
    BY <1>6, <1>8, Counted
  <1> QED
    BY <1>1, <1>9 DEF GoodSchedule

(* schedule_callee_register_spills, and what undoes it before a return. *)
LEMMA CalleeListed ==
  \E m \in Nat : DOMAIN CalleeSpills = 1..m
  <1> DEFINE W == WrittenCalleeSaved
             firsts == {FirstOf(FirstWriter(reg)) : reg \in W}
             f == [reg \in W |-> FirstOf(FirstWriter(reg))]
  <1>1. IsFiniteSet(W)
    <2>1. IsFiniteSet(10..13) /\ IsFiniteSet({1})
      <3>1. \A a, b \in Int : IsFiniteSet(a..b)
        BY FS_Interval
      <3>2. 10 \in Int /\ 13 \in Int
        OBVIOUS
      <3>3. IsFiniteSet(10..13)
        BY <3>1, <3>2, Zenon
      <3> QED
        BY <3>3, FS_Singleton, Zenon
    <2>2. IsFiniteSet({1} \cup 10..13)
      BY <2>1, FS_Union
    <2>3. W \in SUBSET ({1} \cup 10..13)
      BY DEF WrittenCalleeSaved, CalleeSaved
    <2> HIDE DEF W
    <2> QED
      BY <2>2, <2>3, FS_Subset
  <1>2. f \in Surjection(W, firsts)
    BY DEF Surjection
  <1>3. IsFiniteSet(firsts)
    <2> HIDE DEF f, W, firsts
    <2> QED
      BY <1>1, <1>2, FS_Surjection
  <1>4. DOMAIN CalleeSpills = DOMAIN InOrder(firsts)
    BY DEF CalleeSpills
  <1> HIDE DEF firsts
  <1> QED
    BY <1>3, <1>4, Listed

(* What is pushed on entry and popped before a return.                      *)
LEMMA CalleeEntries ==
  /\ GoodSchedule(CalleeSpills)
  /\ Sound(CalleeReloads)
  <1> DEFINE pops == [n \in DOMAIN CalleeSpills |-> [CalleeSpills[n] EXCEPT !.direction = "pop"]]
  <1>1. PICK m \in Nat : DOMAIN CalleeSpills = 1..m
    BY CalleeListed
  <1>2. \A n \in 1..m : /\ CalleeSpills[n].direction = "push"
                        /\ CalleeSpills[n] = [CalleeSpills[n] EXCEPT !.direction = "push"]
                        /\ pops[n].direction = "pop"
    <2>1. \A n \in 1..m : \E reg : CalleeSpills[n] = Entry(1, 1, "push", reg, NoSlot)
      BY <1>1 DEF CalleeSpills
    <2> QED
      BY <1>1, <2>1 DEF Entry
  <1>3. /\ CalleeSpills = [n \in 1..m |-> CalleeSpills[n]]
        /\ pops = [n \in 1..m |-> pops[n]]
    BY <1>1 DEF CalleeSpills
  <1> DEFINE S == {CalleeSpills[n] : n \in 1..m}
             T == {pops[n] : n \in 1..m}
  <1>4. CalleeSpills \in [1..m -> S] /\ pops \in [1..m -> T]
    BY <1>3
  <1>5. (\A e \in S : GoodEntry(e)) /\ (\A e \in T : GoodEntry(e))
    BY <1>2 DEF GoodEntry
  <1>6. CalleeReloads = Lines(Reversed(pops))
    BY DEF CalleeReloads
  <1> HIDE DEF S, T, pops
  <1>7. GoodSchedule(CalleeSpills) /\ GoodSchedule(pops)
    BY <1>4, <1>5, Counted DEF GoodSchedule
  <1> QED
    BY <1>6, <1>7, GoodReversed, LinesSound

(* The text of a return: the one that returns, behind its leave.            *)
LEMMA ReturnSound ==
  ASSUME FrameInv, NEW k
  PROVE  Sound(ReturnText(k))
  <1> DEFINE value == IF Place(code[k].op1) = Rax THEN <<>> ELSE <<Mov(Rax, Place(code[k].op1))>>
             pops  == IF is_main THEN <<>> ELSE CalleeReloads
             leave == Line("leave", NoOperand, NoOperand)
             ret   == Line("ret", NoOperand, NoOperand)
             end   == <<leave, ret>>
  <1>1. Sound(value)
    <2>1. Plain(Mov(Rax, Place(code[k].op1)))
      BY PlacesSpare, PlainLines, Zenon DEF Rax
    <2> QED
      BY <2>1, NoText, OneLine
  <1>2. Sound(pops)
    BY NoText, CalleeEntries
  <1>3. Sound(end)
    <2>1. leave.mnemonic = "leave" /\ ret.mnemonic = "ret" /\ Spares(leave.to) /\ Spares(ret.to)
      BY PlacesSpare DEF Line
    <2>2. "leave" # "ret"
      OBVIOUS
    <2> HIDE DEF leave, ret
    <2>3. end \in Seq({leave, ret}) /\ DOMAIN end = 1..2 /\ end[1] = leave /\ end[2] = ret
      OBVIOUS
    <2> HIDE DEF end
    <2>4. IsText(end)
      BY <2>1, <2>3 DEF IsText
    <2>5. Leaves(end)
      <3> SUFFICES ASSUME NEW n \in DOMAIN end, end[n].mnemonic = "ret"
                   PROVE  n > 1 /\ end[n - 1].mnemonic = "leave"
        BY DEF Leaves
      <3>1. n = 1 \/ n = 2
        BY <2>3
      <3>2. n # 1
        BY <2>1, <2>2, <2>3
      <3>3. n = 2 /\ n - 1 = 1
        BY <3>1, <3>2
      <3> QED
        BY <2>1, <2>3, <3>3
    <2> QED
      BY <2>4, <2>5 DEF Sound
  <1>4. ReturnText(k) = value \o pops \o end
    BY DEF ReturnText
  <1> HIDE DEF value, pops, end
  <1>5. Sound(value \o pops)
    BY <1>1, <1>2, TextsJoin
  <1> QED
    BY <1>3, <1>4, <1>5, TextsJoin

(* Every text of an instruction. *)
LEMMA BodySound ==
  ASSUME FrameInv, IsProgram, NumArgs \in Nat, NEW k \in Indices(code)
  PROVE  Sound(Body(k))
  <1> DEFINE ins == code[k]
             kind == ins.kind
             op == ins.op
  <1>1. IsInstruction(ins)
    BY DEF IsProgram
  <1>2. kind \in Binary \cup {"CONST", "NOT", "ASSIGN"} => ins.result \in Operands
    BY <1>1 DEF IsInstruction, Writes
  <1>3. /\ kind \in Binary \cup {"NOT"} => ins.op1 \in Operands
        /\ kind \in Binary => ins.op2 \in Operands
        /\ kind = "LESS" => ins.op \in {"<", "<=", ">", ">=", "==", "!="}
        /\ op \in {"add", "sub", "mul", "and", "or"} => kind = "ADD"
        /\ op \in {"neg", "not"} => kind = "NOT"
    BY <1>1 DEF IsInstruction
  <1>4. "ADD" \in Binary /\ "DIV" \in Binary /\ "LESS" \in Binary
    BY DEF Binary
  <1>5. CASE op \notin {"add", "sub", "mul", "and", "or", "neg", "not"}
    <2>1. CASE kind = "CONST"
      <3>1. Body(k) = ConstText(k)
        BY <1>5, <2>1 DEF Body
      <3> QED
        BY <1>2, <2>1, <3>1, ConstSound
    <2>2. CASE kind = "LABEL"
      <3>1. Body(k) = <<LabelLine(CodeLabel(ins.result))>>
        BY <1>5, <2>2 DEF Body
      <3>2. Plain(LabelLine(CodeLabel(ins.result)))
        BY PlacesSpare, PlainLines, Zenon
      <3> QED
        BY <3>1, <3>2, OneLine
    <2>3. CASE kind = "GOTO"
      <3>1. Body(k) = <<Jump("jmp", CodeLabel(ins.result))>>
        BY <1>5, <2>3 DEF Body
      <3>2. "jmp" # "ret"
        OBVIOUS
      <3>3. Plain(Jump("jmp", CodeLabel(ins.result)))
        BY <3>2, PlacesSpare, PlainLines, Zenon
      <3> QED
        BY <3>1, <3>3, OneLine
    <2>4. CASE kind = "ASSIGN"
      <3>1. Body(k) = AssignText(k)
        BY <1>5, <2>4 DEF Body
      <3> QED
        BY <1>2, <2>4, <3>1, AssignSound
    <2>5. CASE kind = "RETURN"
      <3>1. Body(k) = ReturnText(k)
        BY <1>5, <2>5 DEF Body
      <3> QED
        BY <3>1, ReturnSound
    <2>6. CASE kind = "LESS"
      <3>1. Body(k) = CompareText(k)
        BY <1>5, <2>6 DEF Body
      <3> QED
        BY <1>2, <1>3, <1>4, <2>6, <3>1, CompareSound
    <2>7. CASE kind = "DIV"
      <3>1. Body(k) = DivideText(k)
        BY <1>5, <2>7 DEF Body
      <3> QED
        BY <1>2, <1>3, <1>4, <2>7, <3>1, DivideSound
    <2>8. CASE kind = "CALL"
      <3>1. Body(k) = CallText(k)
        BY <1>5, <2>8 DEF Body
      <3> QED
        BY <3>1, CallSound
    <2>9. CASE kind \notin {"CONST", "LABEL", "GOTO", "ASSIGN", "RETURN", "LESS", "DIV", "CALL"}
      <3>1. Body(k) = <<>>
        BY <1>5, <2>9 DEF Body
      <3> QED
        BY <3>1, NoText
    <2> QED
      BY <2>1, <2>2, <2>3, <2>4, <2>5, <2>6, <2>7, <2>8, <2>9
  <1>6. CASE op \in {"neg", "not"}
    <2>1. kind = "NOT" /\ ins.result \in Operands /\ ins.op1 \in Operands
      BY <1>2, <1>3, <1>6
    <2>2. op = "not" => Body(k) = NotText(k)
      BY <2>1 DEF Body
    <2>3. op = "neg" => Body(k) = NegateText(k)
      BY <2>1 DEF Body
    <2> QED
      BY <1>6, <2>1, <2>2, <2>3, NotSound, NegateSound
  <1>7. CASE op \in {"add", "sub", "mul", "and", "or"}
    <2>1. kind = "ADD" /\ ins.result \in Operands /\ ins.op1 \in Operands /\ ins.op2 \in Operands
      BY <1>2, <1>3, <1>4, <1>7
    <2>2. op = "and" => Body(k) = AndText(k)
      BY <2>1 DEF Body
    <2>3. op = "or" => Body(k) = OrText(k)
      BY <2>1 DEF Body
    <2>4. op \in {"add", "sub", "mul"} => Body(k) = ArithmeticText(k) /\ op # "ret"
      BY <2>1 DEF Body
    <2> QED
      BY <1>7, <2>1, <2>2, <2>3, <2>4, LogicSound, ArithmeticSound
  <1> QED
    BY <1>5, <1>6, <1>7

------------------------------------------------------------------------------
(* get_bytes_for_stack_frames schedules nothing else.                        *)

(* What is scheduled so far, and what a case adds to it.                    *)
Schedules == GoodSchedule(spills) /\ GoodSchedule(reloads)

GoodPair(pair) == GoodSchedule(pair[1]) /\ GoodSchedule(pair[2])

(* Two schedules one after the other make one.                              *)
LEMMA SchedulesJoin ==
  ASSUME NEW s, NEW t, GoodSchedule(s), GoodSchedule(t)
  PROVE  GoodSchedule(s \o t)
  <1>1. PICK S : s \in Seq(S) /\ \A e \in S : GoodEntry(e)
    BY DEF GoodSchedule
  <1>2. PICK T : t \in Seq(T) /\ \A e \in T : GoodEntry(e)
    BY DEF GoodSchedule
  <1> DEFINE U == S \cup T
  <1>3. s \in Seq(U) /\ t \in Seq(U)
    BY <1>1, <1>2, Widened, Zenon
  <1>4. \A e \in U : GoodEntry(e)
    BY <1>1, <1>2
  <1> HIDE DEF U
  <1>5. s \o t \in Seq(U)
    BY <1>3, ConcatProperties
  <1> QED
    BY <1>4, <1>5 DEF GoodSchedule

(* A schedule is given by the set its entries come from.                    *)
LEMMA AllGood ==
  ASSUME NEW S, \A e \in S : GoodEntry(e), NEW s \in Seq(S)
  PROVE  GoodSchedule(s)
  BY DEF GoodSchedule

(* The schedules of no entry, of one and of two.                            *)
LEMMA NoEntry == GoodSchedule(<<>>)
  <1>1. <<>> \in Seq({}) /\ \A e \in {} : GoodEntry(e)
    OBVIOUS
  <1> QED
    BY <1>1, AllGood

LEMMA OneEntry ==
  ASSUME NEW e, GoodEntry(e)
  PROVE  GoodSchedule(<<e>>)
  <1>1. <<e>> \in Seq({e}) /\ \A g \in {e} : GoodEntry(g)
    OBVIOUS
  <1> QED
    BY <1>1, AllGood

LEMMA TwoEntries ==
  ASSUME NEW e, NEW f, GoodEntry(e), GoodEntry(f)
  PROVE  GoodSchedule(<<e, f>>)
  <1>1. <<e, f>> \in Seq({e, f}) /\ \A g \in {e, f} : GoodEntry(g)
    OBVIOUS
  <1> QED
    BY <1>1, AllGood

(* The entries the cases make.                                              *)
LEMMA Entries ==
  /\ \A k, op : GoodEntry(Push(k, op)) /\ GoodEntry(Pop(k, op))
  /\ \A k, op, offset : GoodEntry(Load(k, op, offset))
  /\ \A k, op, offset : offset # 0 => GoodEntry(Store(k, op, offset))
  <1>1. \A k, b, r, o : GoodEntry(Entry(k, b, "push", r, o)) /\ GoodEntry(Entry(k, b, "pop", r, o))
    BY DEF GoodEntry, Entry
  <1>2. \A k, b, r, o : GoodEntry(Entry(k, b, "load", r, o))
    BY DEF GoodEntry, Entry
  <1>3. \A k, b, r, o : o # 0 => GoodEntry(Entry(k, b, "store", r, o))
    BY Zenon DEF GoodEntry, Entry
  <1> QED
    BY <1>1, <1>2, <1>3, Zenon DEF Push, Pop, Load, Store

(* Pairs of spills and reloads, and what they are combined with.            *)
LEMMA Pairs ==
  /\ \A p, q : GoodSchedule(p) /\ GoodSchedule(q) => GoodPair(<<p, q>>)
  /\ GoodPair(Nothing)
  /\ \A condition, p : GoodPair(p) => GoodPair(If(condition, p))
  /\ \A p, q : GoodPair(p) /\ GoodPair(q) => GoodPair(Join(p, q))
  <1>1. \A p, q : GoodSchedule(p) /\ GoodSchedule(q) => GoodPair(<<p, q>>)
    BY Zenon DEF GoodPair
  <1>2. GoodPair(Nothing)
    BY <1>1, NoEntry DEF Nothing
  <1>3. \A condition, p : GoodPair(p) => GoodPair(If(condition, p))
    BY <1>2, Zenon DEF If
  <1>4. \A p, q : GoodPair(p) /\ GoodPair(q) => GoodPair(Join(p, q))
    BY <1>1, SchedulesJoin, Zenon DEF Join, GoodPair
  <1> QED
    BY <1>1, <1>2, <1>3, <1>4

(* What the cases schedule. *)
LEMMA Scheduled ==
  /\ \A k, op, from : GoodPair(PushUntilUse(k, op, from))
  /\ \A op, call : GoodPair(AroundCall(op, call))
  /\ GoodPair(DivisionPreserves)
  /\ \A op, use, offset : offset # 0 => GoodPair(StoreThenLoad(op, use, offset))
  /\ \A op, use : frame_byte_offset[op] # 0 => GoodPair(LoadThenStore(op, use))
  <1>1. \A k, op, from : GoodPair(PushUntilUse(k, op, from))
    <2> SUFFICES ASSUME NEW k, NEW op, NEW from
                 PROVE  GoodPair(PushUntilUse(k, op, from))
      BY Zenon
    <2> DEFINE use == determine_operand_use(op, from)
               after == IF use = NoUse THEN <<>> ELSE <<Pop(use, op)>>
    <2>1. GoodSchedule(<<Push(k, op)>>) /\ GoodSchedule(<<Pop(use, op)>>)
      BY Entries, OneEntry, Zenon
    <2>2. GoodSchedule(after)
      BY <2>1, NoEntry, Zenon
    <2>3. PushUntilUse(k, op, from) = <<<<Push(k, op)>>, after>>
      BY DEF PushUntilUse
    <2> HIDE DEF after
    <2> QED
      BY <2>1, <2>2, <2>3, Pairs
  <1>2. \A op, call : GoodPair(AroundCall(op, call))
    BY <1>1, Zenon DEF AroundCall
  <1>3. \A reg : GoodPair(Preserved(reg))
    BY <1>1, Pairs, Zenon DEF Preserved
  <1>4. GoodPair(DivisionPreserves)
    BY <1>3, Pairs, Zenon DEF DivisionPreserves
  <1>5. \A op, use, offset : offset # 0 => GoodPair(StoreThenLoad(op, use, offset))
    BY Entries, OneEntry, Pairs, Zenon DEF StoreThenLoad
  <1>6. \A op, use : frame_byte_offset[op] # 0 => GoodPair(LoadThenStore(op, use))
    BY Entries, OneEntry, Pairs, Zenon DEF LoadThenStore
  <1> QED
    BY <1>1, <1>2, <1>4, <1>5, <1>6

(* Adding such a pair keeps the schedules.                                  *)
LEMMA ScheduleKeeps ==
  ASSUME Schedules, NEW pair, GoodPair(pair), Schedule(pair)
  PROVE  Schedules'
  <1>1. spills' = spills \o pair[1] /\ reloads' = reloads \o pair[2]
    BY DEF Schedule
  <1>2. GoodSchedule(spills \o pair[1]) /\ GoodSchedule(reloads \o pair[2])
    BY SchedulesJoin DEF Schedules, GoodPair
  <1> QED
    BY <1>1, <1>2 DEF Schedules

(* So does a step that adds nothing.                                        *)
LEMMA SameSchedules ==
  ASSUME Schedules, UNCHANGED <<spills, reloads>>
  PROVE  Schedules'
  BY DEF Schedules

(* So does borrowing a register.                                            *)
LEMMA BorrowKeeps ==
  ASSUME Schedules, NEW op, Borrow(op)
  PROVE  Schedules'
  <1>1. CASE UNCHANGED <<spills, reloads, temp_register>>
    BY <1>1, SameSchedules
  <1>2. ASSUME NEW lender,
               Schedule(<<<<Push(at, lender), Load(at, lender, frame_byte_offset'[op])>>,
                         <<Pop(at + 1, lender)>>>>)
        PROVE  Schedules'
    <2> DEFINE before == <<Push(at, lender), Load(at, lender, frame_byte_offset'[op])>>
               after  == <<Pop(at + 1, lender)>>
    <2>1. GoodSchedule(before) /\ GoodSchedule(after)
      BY Entries, OneEntry, TwoEntries, Zenon
    <2> HIDE DEF before, after
    <2>2. GoodPair(<<before, after>>)
      BY <2>1, Pairs
    <2>3. Schedule(<<before, after>>)
      BY <1>2 DEF before, after
    <2> QED
      BY <2>2, <2>3, ScheduleKeeps
  <1> QED
    BY <1>1, <1>2 DEF Borrow

(* Every step of the layout keeps the schedules.                            *)
LEMMA LayoutSchedules ==
  ASSUME Schedules, FrameInv, IsProgram, FrameNext
  PROVE  Schedules'
  <1>1. CASE ScheduleCallee
    <2>1. spills' = (IF is_main THEN <<>> ELSE CalleeSpills) /\ reloads' = reloads
      BY <1>1 DEF ScheduleCallee
    <2>2. GoodSchedule(IF is_main THEN <<>> ELSE CalleeSpills)
      BY CalleeEntries, NoEntry
    <2> QED
      BY <2>1, <2>2 DEF Schedules
  <1>2. CASE FrameConst
    BY <1>2, SameSchedules DEF FrameConst, Keep
  <1>3. CASE FrameAssign
    <2>1. ASSUME NEW call, AssignAroundCall(call)
          PROVE  Schedules'
      <3>1. CASE Fail
        BY <3>1, SameSchedules DEF Fail
      <3>2. CASE ~Fail
        <4>1. \E c1, c2 : Schedule(Join(If(c1, PushUntilUse(at + 1, Result, call + 1)),
                                        If(c2, PushUntilUse(at + 1, Op2, call + 1))))
          BY <2>1, <3>2 DEF AssignAroundCall
        <4> QED
          BY <4>1, Scheduled, Pairs, ScheduleKeeps
      <3> QED
        BY <3>1, <3>2
    <2>2. \/ Borrow(Op2)
          \/ \E call : AssignAroundCall(call)
          \/ Keep
      BY <1>3 DEF FrameAssign
    <2> QED
      BY <2>1, <2>2, BorrowKeeps, SameSchedules DEF Keep
  <1>4. CASE FrameNot
    <2>1. \/ Fail
          \/ Keep
          \/ \E used : Schedule(If(used, PushUntilUse(at, Op1, at + 1)))
      BY <1>4 DEF FrameNot
    <2>2. CASE Fail
      BY <2>2, SameSchedules DEF Fail
    <2>3. CASE Keep
      BY <2>3, SameSchedules DEF Keep
    <2> QED
      BY <2>1, <2>2, <2>3, Scheduled, Pairs, ScheduleKeeps
  <1>5. CASE FrameNegate
    <2>1. Borrow(Op1) \/ Keep
      BY <1>5 DEF FrameNegate
    <2> QED
      BY <2>1, BorrowKeeps, SameSchedules DEF Keep
  <1>6. CASE FrameArithmetic
    <2>1. Op1 \in Operands
      <3>1. at \in Indices(code) /\ code[at].kind = "ADD"
        BY <1>6 DEF FrameArithmetic, Is
      <3> QED
        BY <3>1 DEF Op1, IsProgram, IsInstruction, Binary
    <2>2. frame_byte_offset[Op1] # 0
      BY <2>1, Offsets
    <2>3. \/ Borrow(Op1)
          \/ \E c, use : Schedule(If(c, LoadThenStore(Op1, use)))
          \/ \E use : Schedule(StoreThenLoad(Op1, use, frame_byte_offset[Op1]))
          \/ Fail
          \/ \E c1, c2, call : Schedule(Join(If(c1, AroundCall(Op1, call)), If(c2, AroundCall(Op2, call))))
      BY <1>6 DEF FrameArithmetic
    <2>4. CASE Borrow(Op1)
      BY <2>4, BorrowKeeps
    <2>5. CASE \E c, use : Schedule(If(c, LoadThenStore(Op1, use)))
      BY <2>2, <2>5, Scheduled, Pairs, ScheduleKeeps
    <2>6. CASE \E use : Schedule(StoreThenLoad(Op1, use, frame_byte_offset[Op1]))
      BY <2>2, <2>6, Scheduled, ScheduleKeeps
    <2>7. CASE Fail
      BY <2>7, SameSchedules DEF Fail
    <2>8. CASE \E c1, c2, call : Schedule(Join(If(c1, AroundCall(Op1, call)), If(c2, AroundCall(Op2, call))))
      BY <2>8, Scheduled, Pairs, ScheduleKeeps
    <2> QED
      BY <2>3, <2>4, <2>5, <2>6, <2>7, <2>8
  <1>7. CASE FrameDivide
    <2>1. total_frame_bytes + 1 # 0
      BY DEF FrameInv, FrameTypes
    <2>2. \/ \E use : Schedule(Join(DivisionPreserves, StoreThenLoad(Op1, use, total_frame_bytes + 1)))
          \/ \E c1, c2, c3, call :
                Schedule(Join(DivisionPreserves,
                              If(c1, Join(If(c2, AroundCall(Op1, call)), If(c3, AroundCall(Op2, call))))))
      BY <1>7 DEF FrameDivide
    <2> DEFINE slot == total_frame_bytes + 1
    <2>3. CASE \E use : Schedule(Join(DivisionPreserves, StoreThenLoad(Op1, use, slot)))
      <3>1. PICK use : Schedule(Join(DivisionPreserves, StoreThenLoad(Op1, use, slot)))
        BY <2>3
      <3>2. slot # 0
        BY <2>1
      <3> HIDE DEF slot
      <3>3. GoodPair(Join(DivisionPreserves, StoreThenLoad(Op1, use, slot)))
        BY <3>2, Scheduled, Pairs, Zenon
      <3> QED
        BY <3>1, <3>3, ScheduleKeeps
    <2>4. CASE \E c1, c2, c3, call :
                 Schedule(Join(DivisionPreserves,
                               If(c1, Join(If(c2, AroundCall(Op1, call)), If(c3, AroundCall(Op2, call))))))
      BY <2>4, Scheduled, Pairs, ScheduleKeeps
    <2> QED
      BY <2>2, <2>3, <2>4
  <1>8. CASE FrameCompare
    <2>1. Fail \/ Borrow(Op2) \/ Keep
      BY <1>8 DEF FrameCompare
    <2>2. CASE Fail
      BY <2>2, SameSchedules DEF Fail
    <2> QED
      BY <2>1, <2>2, BorrowKeeps, SameSchedules DEF Keep
  <1>9. CASE FrameNothing
    BY <1>9, SameSchedules DEF FrameNothing, Keep
  <1>10. CASE FrameDone
    BY <1>10, SameSchedules DEF FrameDone
  <1> QED
    BY <1>1, <1>2, <1>3, <1>4, <1>5, <1>6, <1>7, <1>8, <1>9, <1>10 DEF FrameNext

------------------------------------------------------------------------------
(* generate_function_body writes such lines.                                 *)

(* Writing an instruction keeps the file: mark, spills, reloads and text.   *)
LEMMA EmitSound ==
  ASSUME FrameInv, IsProgram, NumArgs \in Nat, Schedules, Sound(asm), EmitInstruction
  PROVE  Sound(asm')
  <1> DEFINE k == emitted
             mark == Mark(k)
             text == <<mark>> \o SpillLines(k) \o ReloadLines(k) \o Body(k)
  <1>1. k \in Indices(code) /\ asm' \in {asm, asm \o <<>>, asm \o text}
    BY DEF EmitInstruction
  <1>2. Plain(mark)
    <2>1. Spares(<<"code", k>>)
      BY Zenon DEF Spares
    <2>2. "mark" # "ret"
      OBVIOUS
    <2> QED
      BY <2>1, <2>2, PlainLines, Zenon DEF Mark
  <1>3. Sound(SpillLines(k)) /\ Sound(ReloadLines(k))
    BY GoodMatching, GoodReversed, LinesSound, Zenon DEF Schedules, SpillLines, ReloadLines
  <1>4. Sound(Body(k))
    BY <1>1, BodySound
  <1>5. Sound(<<mark>>)
    BY <1>2, OneLine, Zenon
  <1>6. Sound(text)
    BY <1>3, <1>4, <1>5, TextsJoin, Zenon
  <1>7. Sound(asm \o text) /\ Sound(asm \o <<>>)
    BY <1>6, NoText, TextsJoin, Zenon
  <1> HIDE DEF text
  <1> QED
    BY <1>1, <1>7

------------------------------------------------------------------------------
(* The machine keeps the saved rbp, and comes to a ret by its leave only.    *)

(* At a ret rbp is the caller's. *)
ReadyToReturn ==
  outcome = "running" /\ ip \in DOMAIN asm /\ asm[ip].mnemonic = "ret" => rbp = CallersRbp

(* The frame still has it.                                                  *)
SavedRbp == DOMAIN frame = 0..MaxSlots /\ frame[0] = CallersRbp

(* The inductive invariant.  That every jump has its label is what fasm      *)
(* checks: without it the machine could come to a ret from anywhere.        *)
Kept ==
  /\ IsProgram /\ FrameInv /\ Schedules /\ Sound(asm)
  /\ ip \in Nat \ {0}
  /\ outcome = "compiling" => ip = 1
  /\ outcome # "compiling" => Emitted
  /\ outcome = "running" => Assembles
  /\ SavedRbp
  /\ ReadyToReturn
  /\ RbpRestored

(* What Sound says, line by line.                                           *)
LEMMA TextShape ==
  ASSUME Sound(asm)
  PROVE  /\ Len(asm) \in Nat /\ DOMAIN asm = 1..Len(asm)
         /\ \A n \in 1..Len(asm) : Spares(asm[n].to)
         /\ \A n \in 1..Len(asm) : asm[n].mnemonic = "ret" => n > 1 /\ asm[n - 1].mnemonic = "leave"
  <1>1. PICK S : asm \in Seq(S) /\ \A line \in S : Spares(line.to)
    BY DEF Sound, IsText
  <1>2. /\ Len(asm) \in Nat /\ DOMAIN asm = 1..Len(asm)
        /\ \A n \in 1..Len(asm) : asm[n] \in S
    BY <1>1
  <1> QED
    BY <1>1, <1>2 DEF Sound, Leaves

(* A write to a place that spares slot 0 keeps what is saved there.         *)
LEMMA WriteSpares ==
  ASSUME NEW operand, NEW value, Write(operand, value), Spares(operand), SavedRbp
  PROVE  SavedRbp' /\ outcome' \in {outcome, "wild"}
  <1>1. CASE operand[1] = "reg"
    <2>1. frame' = frame /\ outcome' = outcome
      BY <1>1 DEF Write
    <2> QED
      BY <2>1 DEF SavedRbp
  <1>2. CASE operand[1] = "frame" /\ operand[2] # NoSlot
    <2>1. frame' = [frame EXCEPT ![operand[2]] = value] /\ outcome' = outcome
      BY <1>2 DEF Write
    <2>2. operand[2] # 0
      BY <1>2 DEF Spares
    <2>3. 0 \in 0..MaxSlots
      BY DEF MaxSlots
    <2> QED
      BY <2>1, <2>2, <2>3, Zenon DEF SavedRbp
  <1>3. CASE operand[1] # "reg" /\ ~(operand[1] = "frame" /\ operand[2] # NoSlot)
    <2>1. frame' = frame /\ outcome' = "wild"
      BY <1>3 DEF Write
    <2> QED
      BY <2>1 DEF SavedRbp
  <1> QED
    BY <1>1, <1>2, <1>3

(* What a step of the machine leaves alone. *)
LEMMA Stays ==
  ASSUME Kept, UNCHANGED <<function, layout, written>>
  PROVE  /\ IsProgram' /\ FrameInv' /\ Schedules' /\ Sound(asm)' /\ asm' = asm
         /\ Emitted' = Emitted /\ Assembles' = Assembles
  <1>1. code' = code /\ asm' = asm /\ emitted' = emitted
    BY DEF function, written
  <1>2. UNCHANGED sizes /\ UNCHANGED <<spills, reloads>>
    BY DEF layout, sizes
  <1>3. IsProgram'
    BY <1>1 DEF Kept, IsProgram
  <1>4. FrameInv'
    BY <1>2, SameFrame DEF Kept
  <1>5. Schedules'
    BY <1>2, SameSchedules DEF Kept
  <1>6. Sound(asm)'
    BY <1>1 DEF Kept, Sound, IsText, Leaves
  <1>7. Emitted' = Emitted
    BY <1>1 DEF Emitted
  <1>8. Assembles' = Assembles
    BY <1>1 DEF Assembles, Labelled
  <1> QED
    BY <1>1, <1>3, <1>4, <1>5, <1>6, <1>7, <1>8

(* A line that goes on to the next one, and is no leave. *)
LEMMA GoesOn ==
  ASSUME Kept, UNCHANGED <<function, layout, written>>, NEW mnemonics, At(mnemonics),
         "leave" \notin mnemonics, ip' = ip + 1, rbp' = rbp, SavedRbp',
         outcome' \in {"running", "wild", "diverged", "fault"}
  PROVE  Kept'
  <1>1. outcome = "running" /\ ip \in 1..Len(asm) /\ asm[ip].mnemonic # "leave"
    BY TextShape DEF At, Running, Current, Kept
  <1>2. ReadyToReturn'
    <2>1. ASSUME ip + 1 \in 1..Len(asm), asm[ip + 1].mnemonic = "ret"
          PROVE  FALSE
      <3>1. asm[(ip + 1) - 1].mnemonic = "leave"
        BY <2>1, TextShape DEF Kept
      <3>2. (ip + 1) - 1 = ip
        BY <1>1
      <3> QED
        BY <1>1, <3>1, <3>2
    <2>2. asm' = asm /\ DOMAIN asm = 1..Len(asm)
      BY Stays, TextShape DEF Kept
    <2> QED
      BY <2>1, <2>2 DEF ReadyToReturn
  <1>3. ip' \in Nat \ {0}
    BY DEF Kept
  <1>4. Emitted' /\ Assembles'
    BY <1>1, Stays DEF Kept
  <1>5. RbpRestored' /\ outcome' # "compiling"
    BY DEF RbpRestored
  <1> QED
    BY <1>2, <1>3, <1>4, <1>5, Stays DEF Kept

(* Where the machine is when it steps. *)
LEMMA AtALine ==
  ASSUME Kept, NEW mnemonics, At(mnemonics)
  PROVE  /\ outcome = "running" /\ ip \in 1..Len(asm)
         /\ Spares(Current.to) /\ asm[ip].mnemonic \in mnemonics
  <1>1. ip \in 1..Len(asm)
    <2>1. ip <= Len(asm) /\ ip \in Nat \ {0}
      BY DEF At, Kept
    <2>2. Len(asm) \in Nat
      BY TextShape DEF Kept
    <2> QED
      BY <2>1, <2>2
  <1>2. Spares(asm[ip].to)
    BY <1>1, TextShape DEF Kept
  <1> QED
    BY <1>1, <1>2 DEF At, Running, Current

(* Marks, moves and arithmetic.                                             *)
LEMMA MarkKeeps ==
  ASSUME Kept, UNCHANGED <<function, layout, written>>, AtMark \/ DoMove \/ DoArithmetic
  PROVE  Kept'
  <1>1. CASE AtMark
    <2>1. /\ At({"mark"}) /\ ip' = ip + 1 /\ rbp' = rbp /\ frame' = frame
          /\ outcome' \in {outcome, "diverged"}
      BY <1>1 DEF AtMark, Forward
    <2>2. outcome' \in {"running", "diverged"}
      BY <2>1 DEF At, Running
    <2>3. SavedRbp'
      BY <2>1 DEF SavedRbp, Kept
    <2>4. "leave" \notin {"mark"}
      OBVIOUS
    <2> QED
      BY <2>1, <2>2, <2>3, <2>4, GoesOn
  <1>2. CASE DoMove
    <2>1. At({"mov", "mov qword"}) /\ ip' = ip + 1 /\ rbp' = rbp /\ \E value : Write(Current.to, value)
      BY <1>2 DEF DoMove, Forward
    <2>2. Spares(Current.to) /\ outcome = "running"
      BY <2>1, AtALine
    <2>3. SavedRbp' /\ outcome' \in {outcome, "wild"}
      BY <2>1, <2>2, WriteSpares DEF Kept
    <2>4. "leave" \notin {"mov", "mov qword"}
      OBVIOUS
    <2> QED
      BY <2>1, <2>2, <2>3, <2>4, GoesOn
  <1>3. CASE DoArithmetic
    <2>1. /\ At({"add", "sub", "mul", "neg", "xor"}) /\ ip' = ip + 1 /\ rbp' = rbp
          /\ \E value : Write(Current.to, value)
      BY <1>3 DEF DoArithmetic, Forward
    <2>2. Spares(Current.to) /\ outcome = "running"
      BY <2>1, AtALine
    <2>3. SavedRbp' /\ outcome' \in {outcome, "wild"}
      BY <2>1, <2>2, WriteSpares DEF Kept
    <2>4. "leave" \notin {"add", "sub", "mul", "neg", "xor"}
      OBVIOUS
    <2> QED
      BY <2>1, <2>2, <2>3, <2>4, GoesOn
  <1> QED
    BY <1>1, <1>2, <1>3

(* The other lines that go on to the next one.                              *)
LEMMA OthersKeep ==
  ASSUME Kept, UNCHANGED <<function, layout, written>>,
         DoDivide \/ DoCompare \/ AtLabel \/ DoPush \/ DoPop \/ DoCall
  PROVE  Kept'
  <1>1. \E mnemonics : /\ At(mnemonics) /\ "leave" \notin mnemonics
                       /\ ip' = ip + 1 /\ rbp' = rbp /\ frame' = frame
                       /\ outcome' \in {outcome, "fault"}
    <2>1. CASE DoDivide
      <3>1. At({"div"}) /\ ip' = ip + 1 /\ rbp' = rbp /\ frame' = frame /\ outcome' \in {outcome, "fault"}
        BY <2>1 DEF DoDivide, Forward
      <3>2. "leave" \notin {"div"}
        OBVIOUS
      <3> QED
        BY <3>1, <3>2
    <2>2. CASE DoCompare
      <3>1. At({"cmp", "test"}) /\ ip' = ip + 1 /\ rbp' = rbp /\ frame' = frame /\ outcome' = outcome
        BY <2>2 DEF DoCompare, Forward
      <3>2. "leave" \notin {"cmp", "test"}
        OBVIOUS
      <3> QED
        BY <3>1, <3>2
    <2>3. CASE AtLabel
      <3>1. At({"label"}) /\ ip' = ip + 1 /\ rbp' = rbp /\ frame' = frame /\ outcome' = outcome
        BY <2>3 DEF AtLabel, Forward
      <3>2. "leave" \notin {"label"}
        OBVIOUS
      <3> QED
        BY <3>1, <3>2
    <2>4. CASE DoPush
      <3>1. At({"push"}) /\ ip' = ip + 1 /\ rbp' = rbp /\ frame' = frame /\ outcome' = outcome
        BY <2>4 DEF DoPush, Forward
      <3>2. "leave" \notin {"push"}
        OBVIOUS
      <3> QED
        BY <3>1, <3>2
    <2>5. CASE DoPop
      <3>1. At({"pop"}) /\ ip' = ip + 1 /\ rbp' = rbp /\ frame' = frame /\ outcome' = outcome
        BY <2>5 DEF DoPop, Forward
      <3>2. "leave" \notin {"pop"}
        OBVIOUS
      <3> QED
        BY <3>1, <3>2
    <2>6. CASE DoCall
      <3>1. At({"call"}) /\ ip' = ip + 1 /\ rbp' = rbp /\ frame' = frame /\ outcome' = outcome
        BY <2>6 DEF DoCall, Forward
      <3>2. "leave" \notin {"call"}
        OBVIOUS
      <3> QED
        BY <3>1, <3>2
    <2> QED
      BY <2>1, <2>2, <2>3, <2>4, <2>5, <2>6
  <1>2. outcome = "running"
    BY <1>1 DEF At, Running
  <1>3. SavedRbp'
    BY <1>1 DEF SavedRbp, Kept
  <1> QED
    BY <1>1, <1>2, <1>3, GoesOn

(* A jump comes to the line of a label, which no ret is. *)
LEMMA JumpKeeps ==
  ASSUME Kept, UNCHANGED <<function, layout, written>>, DoJump
  PROVE  Kept'
  <1>1. /\ At(Jumps) /\ UNCHANGED <<frame, rbp, outcome>>
        /\ ip' \in {TargetOf(Current.to), ip + 1}
    BY DEF DoJump
  <1>2. outcome = "running" /\ ip \in 1..Len(asm) /\ asm[ip].mnemonic \in Jumps
    BY <1>1, AtALine
  <1>3. SavedRbp'
    BY <1>1 DEF SavedRbp, Kept
  <1>4. CASE ip' = ip + 1
    <2>1. "leave" \notin Jumps
      BY DEF Jumps
    <2>2. outcome' \in {"running", "wild", "diverged", "fault"} /\ rbp' = rbp
      BY <1>1, <1>2
    <2> QED
      BY <1>1, <1>3, <1>4, <2>1, <2>2, GoesOn
  <1>5. CASE ip' = TargetOf(Current.to)
    <2> DEFINE IsTarget(n) == asm[n].mnemonic = "label" /\ asm[n].to = Current.to
    <2>1. DOMAIN asm = 1..Len(asm) /\ Len(asm) \in Nat
      BY TextShape DEF Kept
    <2>2. Labelled(asm[ip])
      BY <1>2, <2>1 DEF Kept, Assembles
    <2>3. \E n \in DOMAIN asm : IsTarget(n)
      BY <1>2, <2>2 DEF Labelled, Current
    <2>4. TargetOf(Current.to) = CHOOSE n \in DOMAIN asm : IsTarget(n)
      BY DEF TargetOf
    <2>5. ip' \in DOMAIN asm /\ IsTarget(ip')
      <3> HIDE DEF IsTarget
      <3> QED
        BY <1>5, <2>3, <2>4, Zenon
    <2>6. asm[ip'].mnemonic # "ret"
      BY <2>5
    <2>7. asm' = asm
      BY Stays
    <2>8. ReadyToReturn'
      BY <2>6, <2>7 DEF ReadyToReturn
    <2>9. ip' \in Nat \ {0}
      BY <2>1, <2>5
    <2>10. RbpRestored' /\ outcome' = "running"
      BY <1>1, <1>2 DEF RbpRestored
    <2>11. Emitted' /\ Assembles'
      BY <1>2, Stays DEF Kept
    <2> QED
      BY <1>3, <2>8, <2>9, <2>10, <2>11, Stays DEF Kept
  <1> QED
    BY <1>1, <1>4, <1>5

(* leave takes rbp from where it was saved, and ret finds it there. *)
LEMMA LeaveKeeps ==
  ASSUME Kept, UNCHANGED <<function, layout, written>>, DoLeave
  PROVE  Kept'
  <1>1. /\ At({"leave"}) /\ UNCHANGED <<frame, outcome>>
        /\ ip' = ip + 1 /\ rbp' = frame[0]
    BY DEF DoLeave, Forward
  <1>2. outcome = "running" /\ ip \in 1..Len(asm)
    BY <1>1, AtALine
  <1>3. SavedRbp'
    BY <1>1 DEF SavedRbp, Kept
  <1>4. rbp' = CallersRbp
    BY <1>1 DEF SavedRbp, Kept
  <1>5. CallersRbp' = CallersRbp
    BY DEF CallersRbp
  <1>6. ReadyToReturn' /\ RbpRestored'
    BY <1>4, <1>5 DEF ReadyToReturn, RbpRestored
  <1>7. ip' \in Nat \ {0}
    BY <1>1 DEF Kept
  <1>8. Emitted' /\ Assembles' /\ outcome' = "running"
    BY <1>1, <1>2, Stays DEF Kept
  <1> QED
    BY <1>3, <1>6, <1>7, <1>8, Stays DEF Kept

(* ret finds the caller's rbp in place.                                     *)
LEMMA ReturnKeeps ==
  ASSUME Kept, UNCHANGED <<function, layout, written>>, DoReturn
  PROVE  Kept'
  <1>1. At({"ret"}) /\ outcome' = "returned" /\ UNCHANGED <<ip, frame, rbp>>
    BY DEF DoReturn, machine
  <1>2. outcome = "running" /\ ip \in 1..Len(asm) /\ asm[ip].mnemonic = "ret"
    BY <1>1, AtALine
  <1>3. rbp = CallersRbp
    BY <1>2, TextShape DEF Kept, ReadyToReturn
  <1>4. RbpRestored'
    BY <1>1, <1>3 DEF RbpRestored, CallersRbp
  <1>5. ReadyToReturn' /\ ip' \in Nat \ {0} /\ SavedRbp'
    BY <1>1 DEF Kept, ReadyToReturn, SavedRbp
  <1>6. Emitted' /\ Assembles'
    BY <1>2, Stays DEF Kept
  <1> QED
    BY <1>1, <1>4, <1>5, <1>6, Stays DEF Kept

(* fasm starts the machine at the first line, which is no ret.              *)
LEMMA AssembleKeeps ==
  ASSUME Kept, UNCHANGED <<function, layout, written>>, Assemble
  PROVE  Kept'
  <1>1. /\ Emitted /\ outcome = "compiling" /\ UNCHANGED <<ip, frame, rbp>>
        /\ outcome' = IF Assembles THEN "running" ELSE "rejected"
    BY DEF Assemble, machine
  <1>2. ip = 1
    BY <1>1 DEF Kept
  <1>3. ReadyToReturn'
    <2>1. 1 \in 1..Len(asm) => asm[1].mnemonic # "ret"
      BY TextShape DEF Kept
    <2>2. asm' = asm /\ DOMAIN asm = 1..Len(asm)
      BY Stays, TextShape DEF Kept
    <2> QED
      BY <1>1, <1>2, <2>1, <2>2 DEF ReadyToReturn
  <1>4. RbpRestored' /\ outcome' # "compiling" /\ ip' \in Nat \ {0} /\ SavedRbp'
    BY <1>1 DEF Kept, RbpRestored, SavedRbp
  <1>5. Emitted' /\ (outcome' = "running" => Assembles')
    BY <1>1, Stays
  <1> QED
    BY <1>3, <1>4, <1>5, Stays DEF Kept

(* Every step of the machine.                                               *)
LEMMA RunKeeps ==
  ASSUME Kept, Run
  PROVE  Kept'
  <1>1. UNCHANGED <<function, layout, written>>
    BY DEF Run
  <1>2. \/ AtMark \/ DoMove \/ DoArithmetic
        \/ DoDivide \/ DoCompare \/ AtLabel \/ DoPush \/ DoPop \/ DoCall
        \/ DoJump \/ DoLeave \/ DoReturn \/ Assemble
    BY DEF Run
  <1> QED
    BY <1>1, <1>2, MarkKeeps, OthersKeep, JumpKeeps, LeaveKeeps, ReturnKeeps, AssembleKeeps

(* The generator goes on before the machine has been started. *)
LEMMA FrameKeeps ==
  ASSUME Kept, NumArgs \in Nat, FrameNext, UNCHANGED <<written, machine, outcome>>
  PROVE  Kept'
  <1>1. /\ code' = code /\ asm' = asm /\ emitted' = emitted
        /\ UNCHANGED <<ip, frame, rbp, outcome>>
    BY DEF FrameNext, function, written, machine
  <1>2. FrameInv'
    BY LayoutKeeps DEF Kept
  <1>3. Schedules'
    BY LayoutSchedules DEF Kept
  <1>4. IsProgram' /\ Sound(asm)'
    BY <1>1 DEF Kept, IsProgram, Sound, IsText, Leaves
  <1>5. Emitted' = Emitted /\ Assembles' = Assembles
    BY <1>1 DEF Emitted, Assembles, Labelled
  <1>6. ReadyToReturn' /\ RbpRestored' /\ SavedRbp'
    BY <1>1 DEF Kept, ReadyToReturn, RbpRestored, SavedRbp
  <1> QED
    BY <1>1, <1>2, <1>3, <1>4, <1>5, <1>6 DEF Kept

(* So does the writer of the file.                                          *)
LEMMA EmitKeeps ==
  ASSUME Kept, NumArgs \in Nat, EmitInstruction, UNCHANGED <<machine, outcome>>
  PROVE  Kept'
  <1>1. /\ emitted \in Indices(code) /\ UNCHANGED <<code, spills, reloads>> /\ UNCHANGED sizes
        /\ UNCHANGED <<ip, frame, rbp, outcome>>
    BY DEF EmitInstruction, function, machine, sizes
  <1>2. ~Emitted
    <2>1. Len(code) \in Nat
      BY DEF Kept, IsProgram
    <2>2. emitted <= Len(code)
      BY <1>1, <2>1 DEF Indices
    <2> QED
      BY <2>1, <2>2 DEF Emitted
  <1>3. outcome = "compiling" /\ outcome' = "compiling"
    BY <1>1, <1>2 DEF Kept
  <1>4. Sound(asm')
    BY EmitSound DEF Kept
  <1>5. FrameInv' /\ Schedules' /\ IsProgram'
    BY <1>1, SameFrame, SameSchedules DEF Kept, IsProgram
  <1>6. ReadyToReturn' /\ RbpRestored' /\ SavedRbp'
    BY <1>1, <1>3 DEF Kept, ReadyToReturn, RbpRestored, SavedRbp
  <1> QED
    BY <1>1, <1>3, <1>4, <1>5, <1>6 DEF Kept

(* Every step of the generator and of the machine.                          *)
LEMMA NextKeeps ==
  ASSUME Kept, NumArgs \in Nat, [Next]_vars
  PROVE  Kept'
  <1>1. CASE FrameNext /\ UNCHANGED <<written, machine, tac, params, outcome>>
    BY <1>1, FrameKeeps
  <1>2. CASE EmitInstruction /\ UNCHANGED <<machine, tac, params, outcome>>
    BY <1>2, EmitKeeps
  <1>3. CASE Run
    BY <1>3, RunKeeps
  <1>4. CASE UNCHANGED vars
    <2>1. UNCHANGED <<function, layout, written>> /\ UNCHANGED <<ip, frame, rbp, outcome>>
      BY <1>4 DEF vars, machine
    <2>2. ReadyToReturn' /\ RbpRestored' /\ SavedRbp'
      BY <2>1 DEF written, Kept, ReadyToReturn, RbpRestored, SavedRbp
    <2> QED
      BY <2>1, <2>2, Stays DEF Kept
  <1> QED
    BY <1>1, <1>2, <1>3, <1>4 DEF Next

(* Before the first step nothing is laid out, written or run.               *)
LEMMA KeptAtStart ==
  ASSUME IsProgram, Start, StartEmitting, StartRunning
  PROVE  Kept
  <1>1. FrameInv
    BY DEF Start, FrameInv, FrameTypes, SlotsAreOwn, NoSlot
  <1>2. Schedules
    BY NoEntry DEF Start, Schedules
  <1>3. Sound(asm)
    BY NoText DEF StartEmitting
  <1>4. SavedRbp
    BY DEF StartRunning, SavedRbp, MaxSlots
  <1>5. ip = 1 /\ outcome = "compiling"
    BY DEF StartRunning
  <1>6. ReadyToReturn /\ RbpRestored
    BY <1>5 DEF ReadyToReturn, RbpRestored
  <1> QED
    BY <1>1, <1>2, <1>3, <1>4, <1>5, <1>6 DEF Kept

(* Whatever the allocator decided and whatever else goes wrong, a function   *)
(* that returns gives its caller back rbp: no spill, no store and no result *)
(* is written over it, and every way to a ret leads through a leave.        *)
THEOREM RbpIsRestored ==
  IsProgram /\ Start /\ StartEmitting /\ StartRunning /\ [][Next]_vars => []RbpRestored
  <1>1. IsProgram /\ Start /\ StartEmitting /\ StartRunning => Kept
    BY KeptAtStart
  <1>2. Kept /\ [Next]_vars => Kept'
    BY ArgumentsAssumption, NextKeeps
  <1>3. Kept => RbpRestored
    BY DEF Kept
  <1> QED
    BY <1>1, <1>2, <1>3, PTL
==============================================================================
