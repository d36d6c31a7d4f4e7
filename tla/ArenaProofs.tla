----------------------------- MODULE ArenaProofs -----------------------------
(***************************************************************************)
(* The bump allocator hands out memory inside its blocks and no byte       *)
(* twice, for every block capacity, alignment and sequence of requests.    *)
(* What it handed out stays where it is, and begins at a multiple of the   *)
(* alignment.                                                              *)
(* The strengthening, Packed: what was handed out of a block lies below    *)
(* the block's offset, and the offset inside the block.                    *)
(***************************************************************************)
EXTENDS Arena, TLAPS

Packed ==
  alive =>
    /\ \A b \in 1..Len(blocks) : blocks[b].offset <= blocks[b].capacity
    /\ \A n \in 1..Len(allocations) :
         /\ allocations[n].block \in 1..Len(blocks)
         /\ allocations[n].start + allocations[n].size <= blocks[allocations[n].block].offset

Inv == TypeOK /\ Packed /\ Disjoint

LEMMA PaddingNat ==
  ASSUME NEW offset \in Nat
  PROVE  padding(offset) \in Nat
<1>1. offset % ByteAlignment \in 0..(ByteAlignment - 1)
  BY ArenaAssumption
<1>2. ByteAlignment - (offset % ByteAlignment) \in Nat
  BY <1>1, ArenaAssumption
<1> DEFINE rest == ByteAlignment - (offset % ByteAlignment)
<1> HIDE DEF rest
<1>3. rest % ByteAlignment \in 0..(ByteAlignment - 1)
  BY <1>2, ArenaAssumption DEF rest
<1>4. QED
  BY <1>3, ArenaAssumption DEF padding, rest

(* What both allocating branches do: they append one allocation, which lies *)
(* below the new offset of its block and above the old one.                 *)
LEMMA AppendKeepsInv ==
  ASSUME Inv, alive, alive',
         NEW A \in Allocation, allocations' = Append(allocations, A),
         blocks' \in Seq(MemoryBlock),
         Len(blocks) <= Len(blocks'),
         A.block \in 1..Len(blocks'),
         A.block <= Len(blocks) => blocks[A.block].offset <= A.start,
         A.start + A.size <= blocks'[A.block].offset,
         \A b \in 1..Len(blocks') : blocks'[b].offset <= blocks'[b].capacity,
         \A b \in 1..Len(blocks) : blocks[b].offset <= blocks'[b].offset
  PROVE  Inv'
<1>1. TypeOK'
  BY DEF Inv, TypeOK
<1>2. /\ Len(allocations') = Len(allocations) + 1
      /\ \A n \in 1..Len(allocations) : allocations'[n] = allocations[n]
      /\ allocations'[Len(allocations) + 1] = A
      /\ Len(allocations) \in Nat
      /\ \A n \in 1..Len(allocations) : allocations[n] \in Allocation
  BY DEF Inv, TypeOK
<1>3. /\ Len(blocks) \in Nat /\ Len(blocks') \in Nat
      /\ \A b \in 1..Len(blocks) : blocks[b].offset \in Nat
      /\ \A b \in 1..Len(blocks') : blocks'[b].offset \in Nat
  <2>1. \A b \in 1..Len(blocks) : blocks[b] \in MemoryBlock
    BY DEF Inv, TypeOK
  <2>2. \A b \in 1..Len(blocks') : blocks'[b] \in MemoryBlock
    OBVIOUS
  <2>3. Len(blocks) \in Nat /\ Len(blocks') \in Nat
    BY DEF Inv, TypeOK
  <2>4. \A m \in MemoryBlock : m.offset \in Nat
    BY DEF MemoryBlock
  <2>5. QED
    BY <2>1, <2>2, <2>3, <2>4
<1>4. \A n \in 1..Len(allocations) :
        /\ allocations[n].block \in 1..Len(blocks)
        /\ allocations[n].start + allocations[n].size <= blocks[allocations[n].block].offset
  BY DEF Inv, Packed
<1>5. Packed'
  <2> SUFFICES ASSUME NEW n \in 1..Len(allocations')
               PROVE  /\ allocations'[n].block \in 1..Len(blocks')
                      /\ allocations'[n].start + allocations'[n].size
                           <= blocks'[allocations'[n].block].offset
    BY DEF Packed
  <2>1. CASE n = Len(allocations) + 1
    BY <1>2, <2>1
  <2>2. CASE n \in 1..Len(allocations)
    <3> DEFINE B == allocations[n]
    <3>1. B \in Allocation /\ allocations'[n] = B
      BY <1>2, <2>2
    <3>2. B.block \in 1..Len(blocks) /\ B.start + B.size <= blocks[B.block].offset
      BY <1>4, <2>2
    <3>3. B.block \in 1..Len(blocks') /\ blocks[B.block].offset <= blocks'[B.block].offset
      BY <1>3, <3>2
    <3>4. B.start \in Nat /\ B.size \in Nat
      BY <3>1 DEF Allocation
    <3> HIDE DEF B
    <3>5. B.start + B.size <= blocks'[B.block].offset
      BY <1>3, <3>2, <3>3, <3>4
    <3>6. QED
      BY <3>1, <3>3, <3>5
  <2>3. QED
    BY <1>2, <2>1, <2>2
<1>6. \A n \in 1..Len(allocations) : ~Overlap(allocations[n], A) /\ ~Overlap(A, allocations[n])
  <2>0. /\ \A n \in 1..Len(allocations) : allocations[n].start \in Nat /\ allocations[n].size \in Nat
        /\ A.start \in Nat /\ A.size \in Nat
    BY <1>2 DEF Allocation
  <2> SUFFICES ASSUME NEW n \in 1..Len(allocations), allocations[n].block = A.block
               PROVE  allocations[n].start + allocations[n].size <= A.start
    BY <2>0 DEF Overlap
  <2>1. A.block <= Len(blocks)
    BY <1>3, <1>4
  <2>2. blocks[A.block].offset <= A.start /\ blocks[A.block].offset \in Nat
    BY <1>3, <1>4, <2>1
  <2>3. allocations[n].start \in Nat /\ allocations[n].size \in Nat /\ A.start \in Nat
    BY <1>2 DEF Allocation
  <2>4. allocations[n].start + allocations[n].size <= blocks[A.block].offset
    BY <1>4
  <2>5. QED
    BY <2>2, <2>3, <2>4
<1>7. Disjoint'
  <2> SUFFICES ASSUME NEW m \in 1..Len(allocations'), NEW n \in 1..Len(allocations'), m # n
               PROVE  ~Overlap(allocations'[m], allocations'[n])
    BY DEF Disjoint, Overlap
  <2>1. \/ m \in 1..Len(allocations) /\ n \in 1..Len(allocations)
        \/ m \in 1..Len(allocations) /\ n = Len(allocations) + 1
        \/ m = Len(allocations) + 1 /\ n \in 1..Len(allocations)
    BY <1>2
  <2>2. QED
    BY <1>2, <1>6, <2>1 DEF Inv, Disjoint
<1>8. QED
  BY <1>1, <1>5, <1>7 DEF Inv

LEMMA CurrentTyped ==
  ASSUME Inv, alive
  PROVE  /\ Len(blocks) \in Nat \ {0}
         /\ current.offset \in Nat /\ current.capacity \in Nat
         /\ current.offset <= current.capacity
<1>1. Len(blocks) \in Nat \ {0}
  BY DEF Inv, TypeOK
<1>2. Len(blocks) \in 1..Len(blocks)
  BY <1>1
<1>3. current \in MemoryBlock
  BY <1>2 DEF current, Inv, TypeOK
<1>4. current.offset \in Nat /\ current.capacity \in Nat
  BY <1>3 DEF MemoryBlock
<1>5. QED
  BY <1>1, <1>2, <1>4 DEF current, Inv, Packed

LEMMA InCurrentStep ==
  ASSUME Inv, NEW req_size \in RequestSizes, AllocateInCurrent(req_size)
  PROVE  Inv'
<1> DEFINE start == current.offset + padding(current.offset)
           A     == Carved(Len(blocks), start, req_size)
           last  == Len(blocks)
<1>1. alive /\ alive' /\ req_size \in Nat \ {0}
  BY ArenaAssumption DEF AllocateInCurrent
<1>2. last \in Nat \ {0} /\ current.offset \in Nat /\ current.capacity \in Nat
  BY <1>1, CurrentTyped
<1>0. padding(current.offset) \in Nat
  BY <1>2, PaddingNat
<1>3. start \in Nat /\ current.offset <= start
  BY <1>0, <1>2
<1>4. A \in Allocation /\ A.block = last /\ A.start = start /\ A.size = req_size
  BY <1>1, <1>2, <1>3 DEF Carved, Allocation
<1>5. start + req_size <= current.capacity
  BY <1>0, <1>1, <1>2 DEF AllocateInCurrent, Fits
<1>6. blocks \in Seq(MemoryBlock)
  BY DEF Inv, TypeOK
<1>7. blocks' = [blocks EXCEPT ![last].offset = start + req_size]
  BY DEF AllocateInCurrent
<1>8. allocations' = Append(allocations, A)
  BY DEF AllocateInCurrent
<1> HIDE DEF start, A
<1>9. /\ blocks' \in Seq(MemoryBlock)
      /\ Len(blocks') = Len(blocks)
      /\ blocks'[last].offset = start + req_size
      /\ blocks'[last].capacity = current.capacity
      /\ \A b \in 1..Len(blocks) : b # last => blocks'[b] = blocks[b]
  <2> DEFINE moved == [blocks[last] EXCEPT !.offset = start + req_size]
  <2>1. blocks[last] \in MemoryBlock
    BY <1>2, <1>6
  <2>2. moved \in MemoryBlock /\ moved.offset = start + req_size
        /\ moved.capacity = blocks[last].capacity
    BY <1>1, <1>3, <2>1 DEF MemoryBlock
  <2>3. blocks' = [blocks EXCEPT ![last] = moved]
    BY <1>7
  <2> HIDE DEF moved
  <2>4. blocks' \in Seq(MemoryBlock) /\ Len(blocks') = Len(blocks)
    BY <1>2, <1>6, <2>2, <2>3
  <2>5. blocks'[last] = moved /\ \A b \in 1..Len(blocks) : b # last => blocks'[b] = blocks[b]
    BY <1>2, <1>6, <2>3
  <2>6. QED
    BY <2>2, <2>4, <2>5 DEF current
<1>10. \A b \in 1..Len(blocks) : blocks[b] \in MemoryBlock
  BY <1>6
<1>11. \A b \in 1..Len(blocks') : blocks'[b].offset <= blocks'[b].capacity
  BY <1>1, <1>5, <1>9 DEF Inv, Packed
<1>12. \A b \in 1..Len(blocks) : blocks[b].offset <= blocks'[b].offset
  <2>1. \A b \in 1..Len(blocks) : blocks[b].offset \in Nat
    BY <1>10 DEF MemoryBlock
  <2>2. blocks[last].offset <= start + req_size
    BY <1>1, <1>2, <1>3 DEF current
  <2>3. QED
    BY <1>9, <2>1, <2>2
<1>13. blocks[A.block].offset <= A.start
  BY <1>3, <1>4 DEF current
<1>14. A.block \in 1..Len(blocks') /\ Len(blocks) <= Len(blocks')
  BY <1>2, <1>4, <1>9
<1>15. A.start + A.size <= blocks'[A.block].offset
  BY <1>1, <1>3, <1>4, <1>9
<1> HIDE DEF last
<1>16. QED
  BY <1>1, <1>4, <1>8, <1>9, <1>11, <1>12, <1>13, <1>14, <1>15, AppendKeepsInv

LEMMA InNewStep ==
  ASSUME Inv, NEW req_size \in RequestSizes, AllocateInNew(req_size)
  PROVE  Inv'
<1> DEFINE total == req_size + padding(current.offset)
           cap   == Larger(total, MemBlockCapacity)
           fresh == [capacity |-> cap, offset |-> req_size]
           A     == Carved(Len(blocks) + 1, 0, req_size)
<1>1. alive /\ alive' /\ req_size \in Nat \ {0}
  BY ArenaAssumption DEF AllocateInNew
<1>2. Len(blocks) \in Nat \ {0} /\ current.offset \in Nat
  BY <1>1, CurrentTyped
<1>0. padding(current.offset) \in Nat
  BY <1>2, PaddingNat
<1>3. total \in Nat /\ req_size <= total
  BY <1>0, <1>1
<1>4. cap \in Nat /\ req_size <= cap
  BY <1>1, <1>3, ArenaAssumption DEF Larger
<1>5. A \in Allocation /\ A.block = Len(blocks) + 1 /\ A.start = 0 /\ A.size = req_size
  BY <1>1, <1>2 DEF Carved, Allocation
<1>6. fresh \in MemoryBlock /\ fresh.offset = req_size /\ fresh.capacity = cap
  BY <1>1, <1>4 DEF MemoryBlock
<1>7. blocks \in Seq(MemoryBlock)
  BY DEF Inv, TypeOK
<1>8. blocks' = Append(blocks, fresh)
  BY DEF AllocateInNew, NewBlock
<1>9. allocations' = Append(allocations, A)
  BY DEF AllocateInNew
<1> HIDE DEF total, cap, fresh, A
<1>10. /\ blocks' \in Seq(MemoryBlock)
       /\ Len(blocks') = Len(blocks) + 1
       /\ blocks'[Len(blocks) + 1] = fresh
       /\ \A b \in 1..Len(blocks) : blocks'[b] = blocks[b]
       /\ \A b \in 1..Len(blocks) : blocks[b] \in MemoryBlock
  BY <1>6, <1>7, <1>8
<1>11. \A b \in 1..Len(blocks') : blocks'[b].offset <= blocks'[b].capacity
  <2> SUFFICES ASSUME NEW b \in 1..Len(blocks')
               PROVE  blocks'[b].offset <= blocks'[b].capacity
    OBVIOUS
  <2>1. b \in 1..Len(blocks) \/ b = Len(blocks) + 1
    BY <1>2, <1>10
  <2>2. QED
    BY <1>1, <1>4, <1>6, <1>10, <2>1 DEF Inv, Packed
<1>12. \A b \in 1..Len(blocks) : blocks[b].offset <= blocks'[b].offset
  BY <1>2, <1>10 DEF MemoryBlock
<1>13. QED
  BY <1>1, <1>2, <1>5, <1>6, <1>9, <1>10, <1>11, <1>12, AppendKeepsInv

(* The inductive invariant. *)
THEOREM Invariant == Spec => []Inv
<1>1. Init => Inv
  <2> SUFFICES ASSUME Init
               PROVE  Inv
    OBVIOUS
  <2>1. blocks = <<>> /\ allocations = <<>> /\ alive = FALSE
    BY DEF Init
  <2>2. TypeOK
    <3>1. <<>> \in Seq(MemoryBlock) /\ <<>> \in Seq(Allocation)
      OBVIOUS
    <3>2. QED
      BY <2>1, <3>1 DEF TypeOK
  <2>3. QED
    BY <2>1, <2>2 DEF Inv, Packed, Disjoint
<1>2. Inv /\ [Next]_vars => Inv'
  <2> SUFFICES ASSUME Inv, [Next]_vars
               PROVE  Inv'
    OBVIOUS
  <2>1. CASE CreateArena
    <3>1. blocks' = <<[capacity |-> MemBlockCapacity, offset |-> 0]>> /\ allocations' = <<>>
      BY <2>1 DEF CreateArena, NewBlock
    <3>2. TypeOK'
      <4>1. [capacity |-> MemBlockCapacity, offset |-> 0] \in MemoryBlock
        BY ArenaAssumption DEF MemoryBlock
      <4>2. alive' \in BOOLEAN
        BY <2>1 DEF CreateArena
      <4>3. QED
        BY <3>1, <4>1, <4>2 DEF TypeOK
    <3>3. QED
      BY <3>1, <3>2, ArenaAssumption DEF Inv, Packed, Disjoint
  <2>2. CASE FreeArena
    <3>1. blocks' = <<>> /\ allocations' = allocations /\ alive' = FALSE
      BY <2>2 DEF FreeArena
    <3>2. TypeOK'
      <4>1. <<>> \in Seq(MemoryBlock) /\ allocations \in Seq(Allocation)
        BY DEF Inv, TypeOK
      <4>2. QED
        BY <3>1, <4>1 DEF TypeOK
    <3>3. QED
      BY <3>1, <3>2 DEF Inv, Packed, Disjoint, Overlap
  <2>3. CASE UNCHANGED vars
    BY <2>3 DEF vars, Inv, TypeOK, Packed, Disjoint, Overlap
  <2>4. QED
    BY <2>1, <2>2, <2>3, InCurrentStep, InNewStep DEF Next
<1>3. QED
  BY <1>1, <1>2, PTL DEF Spec

(* The arena's bookkeeping keeps its types. *)
THEOREM TypeCorrect == Spec => []TypeOK
<1>1. Inv => TypeOK
  BY DEF Inv
<1>2. QED
  BY <1>1, Invariant, PTL

(* No two allocations share a byte. *)
THEOREM NeverOverlap == Spec => []Disjoint
<1>1. Inv => Disjoint
  BY DEF Inv
<1>2. QED
  BY <1>1, Invariant, PTL

(* No allocation reaches past the end of its block. *)
THEOREM NeverPastTheEnd == Spec => []InBounds
<1>1. Inv => InBounds
  <2> SUFFICES ASSUME Inv, alive, NEW n \in 1..Len(allocations)
               PROVE  /\ allocations[n].block \in 1..Len(blocks)
                      /\ allocations[n].start + allocations[n].size
                           <= blocks[allocations[n].block].capacity
    BY DEF InBounds
  <2> DEFINE A == allocations[n]
  <2>1. A \in Allocation
    BY DEF Inv, TypeOK
  <2>2. A.block \in 1..Len(blocks) /\ A.start + A.size <= blocks[A.block].offset
    BY DEF Inv, Packed
  <2>3. blocks[A.block] \in MemoryBlock
    BY <2>2 DEF Inv, TypeOK
  <2>4. blocks[A.block].offset <= blocks[A.block].capacity
    BY <2>2 DEF Inv, Packed
  <2>5. A.start \in Nat /\ A.size \in Nat
    BY <2>1 DEF Allocation
  <2>8. blocks[A.block].offset \in Nat /\ blocks[A.block].capacity \in Nat
    BY <2>3 DEF MemoryBlock
  <2> HIDE DEF A
  <2>6. A.start + A.size <= blocks[A.block].capacity
    BY <2>2, <2>4, <2>5, <2>8
  <2>7. QED
    BY <2>2, <2>6 DEF A
<1>2. QED
  BY <1>1, Invariant, PTL

------------------------------------------------------------------------------
(* What a step of a living arena keeps. *)
Keeps ==
  /\ Len(blocks) <= Len(blocks')
  /\ \A b \in 1..Len(blocks) : /\ blocks'[b].capacity = blocks[b].capacity
                               /\ blocks'[b].offset >= blocks[b].offset
  /\ allocations = SubSeq(allocations', 1, Len(allocations))

LEMMA AppendIsPrefix ==
  ASSUME NEW S, NEW s \in Seq(S), NEW e \in S
  PROVE  s = SubSeq(Append(s, e), 1, Len(s))
  OBVIOUS

LEMMA CurrentKeeps ==
  ASSUME Inv, NEW req_size \in RequestSizes, AllocateInCurrent(req_size)
  PROVE  Keeps
<1> DEFINE start == current.offset + padding(current.offset)
           A     == Carved(Len(blocks), start, req_size)
           last  == Len(blocks)
<1>1. last \in Nat \ {0} /\ current.offset \in Nat /\ req_size \in Nat \ {0}
  BY CurrentTyped, ArenaAssumption DEF AllocateInCurrent
<1>0. padding(current.offset) \in Nat
  BY <1>1, PaddingNat
<1>2. start \in Nat /\ current.offset <= start + req_size
  BY <1>0, <1>1
<1>3. blocks \in Seq(MemoryBlock) /\ allocations \in Seq(Allocation)
  BY DEF Inv, TypeOK
<1>4. A \in Allocation
  BY <1>1, <1>2 DEF Carved, Allocation
<1>5. allocations' = Append(allocations, A) /\ blocks' = [blocks EXCEPT ![last].offset = start + req_size]
  BY DEF AllocateInCurrent
<1>6. allocations = SubSeq(allocations', 1, Len(allocations))
  BY <1>3, <1>4, <1>5, AppendIsPrefix
<1> HIDE DEF start, A
<1>7. Len(blocks') = Len(blocks)
  BY <1>1, <1>3, <1>5
<1>8. ASSUME NEW b \in 1..Len(blocks)
      PROVE  blocks'[b].capacity = blocks[b].capacity /\ blocks'[b].offset >= blocks[b].offset
  <2>1. blocks[b] \in MemoryBlock
    BY <1>3
  <2>2. CASE b = last
    <3>1. blocks'[b] = [blocks[b] EXCEPT !.offset = start + req_size]
      BY <1>3, <1>5, <2>2
    <3>2. QED
      BY <1>2, <2>1, <2>2, <3>1 DEF current, MemoryBlock
  <2>3. CASE b # last
    <3>1. blocks'[b] = blocks[b]
      BY <1>3, <1>5, <2>3
    <3>2. QED
      BY <2>1, <3>1 DEF MemoryBlock
  <2>4. QED
    BY <2>2, <2>3
<1>9. QED
  BY <1>1, <1>6, <1>7, <1>8 DEF Keeps

LEMMA NewKeeps ==
  ASSUME Inv, NEW req_size \in RequestSizes, AllocateInNew(req_size)
  PROVE  Keeps
<1> DEFINE total == req_size + padding(current.offset)
           fresh == [NewBlock(Larger(total, MemBlockCapacity)) EXCEPT !.offset = req_size]
           A     == Carved(Len(blocks) + 1, 0, req_size)
<1>1. Len(blocks) \in Nat /\ current.offset \in Nat /\ req_size \in Nat \ {0}
  BY CurrentTyped, ArenaAssumption DEF AllocateInNew
<1>0. padding(current.offset) \in Nat
  BY <1>1, PaddingNat
<1>2. total \in Nat
  BY <1>0, <1>1
<1>3. fresh \in MemoryBlock
  BY <1>1, <1>2, ArenaAssumption DEF NewBlock, Larger, MemoryBlock
<1>4. A \in Allocation
  BY <1>1 DEF Carved, Allocation
<1>5. blocks \in Seq(MemoryBlock) /\ allocations \in Seq(Allocation)
  BY DEF Inv, TypeOK
<1>6. allocations' = Append(allocations, A) /\ blocks' = Append(blocks, fresh)
  BY DEF AllocateInNew
<1> HIDE DEF total, fresh, A
<1>7. allocations = SubSeq(allocations', 1, Len(allocations))
  BY <1>4, <1>5, <1>6, AppendIsPrefix
<1>8. Len(blocks') = Len(blocks) + 1 /\ \A b \in 1..Len(blocks) : blocks'[b] = blocks[b]
  BY <1>3, <1>5, <1>6
<1>9. \A b \in 1..Len(blocks) : blocks[b].offset \in Nat
  <2>1. \A b \in 1..Len(blocks) : blocks[b] \in MemoryBlock
    BY <1>5
  <2>2. QED
    BY <2>1 DEF MemoryBlock
<1>10. QED
  BY <1>1, <1>7, <1>8, <1>9 DEF Keeps

(* While the arena lives no block that holds an allocation moves, shrinks   *)
(* or leaves the chain, and no allocation is forgotten.                     *)
THEOREM StaysValid == Spec => PointersStayValid
<1>1. Inv /\ [Next]_vars => [alive /\ alive' => Keeps]_vars
  <2> SUFFICES ASSUME Inv, Next, alive, alive'
               PROVE  Keeps
    OBVIOUS
  <2>1. CASE CreateArena \/ FreeArena
    BY <2>1 DEF CreateArena, FreeArena
  <2>2. QED
    BY <2>1, CurrentKeeps, NewKeeps DEF Next
<1>2. QED
  BY <1>1, Invariant, PTL DEF Spec, PointersStayValid, Keeps

------------------------------------------------------------------------------
(* A remainder is told by any quotient that leaves one. *)
LEMMA RemainderOf ==
  ASSUME NEW B \in Nat \ {0}, NEW q \in Nat, NEW r \in 0..(B - 1), NEW x \in Nat, x = B * q + r
  PROVE  x % B = r
  OBVIOUS

LEMMA Quotient ==
  ASSUME NEW B \in Nat \ {0}, NEW x \in Nat
  PROVE  /\ x \div B \in Nat
         /\ x % B \in 0..(B - 1)
         /\ x = B * (x \div B) + (x % B)
  OBVIOUS

(* The padding of arena_allocate ends where an aligned address begins. *)
LEMMA PaddingAligns ==
  ASSUME NEW offset \in Nat
  PROVE  (offset + padding(offset)) % ByteAlignment = 0
<1> DEFINE B == ByteAlignment
           q == offset \div ByteAlignment
           r == offset % ByteAlignment
<1>1. B \in Nat \ {0}
  BY ArenaAssumption
<1>2. q \in Nat /\ r \in 0..(B - 1) /\ offset = B * q + r
  BY <1>1, Quotient
<1>3. padding(offset) = (B - r) % B
  BY DEF padding
<1> HIDE DEF B, q, r
<1>4. CASE r = 0
  <2>1. B - r = B * 1 + 0 /\ B - r \in Nat /\ 0 \in 0..(B - 1)
    BY <1>1, <1>4
  <2>2. padding(offset) = 0
    BY <1>1, <1>3, <2>1, RemainderOf
  <2>3. offset % B = 0
    BY <1>1, <1>2, <1>4, RemainderOf
  <2>4. QED
    BY <2>2, <2>3 DEF B
<1>5. CASE r # 0
  <2>1. B - r \in 0..(B - 1) /\ B - r \in Nat /\ B - r = B * 0 + (B - r)
    BY <1>1, <1>2, <1>5
  <2>2. padding(offset) = B - r
    BY <1>1, <1>3, <2>1, RemainderOf
  <2>3. q + 1 \in Nat /\ B * (q + 1) = B * q + B
    BY <1>1, <1>2
  <2>4. B * q \in Nat
    BY <1>1, <1>2
  <2>5. offset + (B - r) = B * (q + 1) + 0 /\ offset + (B - r) \in Nat /\ 0 \in 0..(B - 1)
    BY <1>1, <1>2, <2>3, <2>4
  <2>6. (offset + (B - r)) % B = 0
    BY <1>1, <2>3, <2>5, RemainderOf
  <2>7. QED
    BY <2>2, <2>6 DEF B
<1>6. QED
  BY <1>4, <1>5

LEMMA AppendKeepsAligned ==
  ASSUME Inv, Aligned, NEW A \in Allocation,
         allocations' = Append(allocations, A), A.start % ByteAlignment = 0
  PROVE  Aligned'
<1>1. allocations \in Seq(Allocation)
  BY DEF Inv, TypeOK
<1>2. /\ Len(allocations') = Len(allocations) + 1
      /\ \A n \in 1..Len(allocations) : allocations'[n] = allocations[n]
      /\ allocations'[Len(allocations) + 1] = A
      /\ Len(allocations) \in Nat
  BY <1>1
<1>3. \A n \in 1..Len(allocations') : n \in 1..Len(allocations) \/ n = Len(allocations) + 1
  BY <1>2
<1>4. QED
  BY <1>2, <1>3, Zenon DEF Aligned

(* Every pointer is aligned, for every alignment and sequence of requests. *)
THEOREM AlwaysAligned == Spec => []Aligned
<1>1. Init => Aligned
  BY DEF Init, Aligned
<1>2. Inv /\ Aligned /\ [Next]_vars => Aligned'
  <2> SUFFICES ASSUME Inv, Aligned, [Next]_vars
               PROVE  Aligned'
    OBVIOUS
  <2>1. CASE CreateArena \/ FreeArena \/ UNCHANGED vars
    <3>1. allocations' = allocations
      BY <2>1 DEF CreateArena, FreeArena, vars
    <3>2. QED
      BY <3>1 DEF Aligned
  <2>2. ASSUME NEW req_size \in RequestSizes, AllocateInCurrent(req_size)
        PROVE  Aligned'
    <3> DEFINE start == current.offset + padding(current.offset)
               A     == Carved(Len(blocks), start, req_size)
    <3>1. Len(blocks) \in Nat \ {0} /\ current.offset \in Nat /\ req_size \in Nat \ {0}
      BY <2>2, CurrentTyped, ArenaAssumption DEF AllocateInCurrent
    <3>2. padding(current.offset) \in Nat
      BY <3>1, PaddingNat
    <3>3. start % ByteAlignment = 0
      BY <3>1, PaddingAligns
    <3>4. A \in Allocation /\ A.start = start
      BY <3>1, <3>2 DEF Carved, Allocation
    <3>5. allocations' = Append(allocations, A)
      BY <2>2 DEF AllocateInCurrent
    <3> HIDE DEF start, A
    <3>6. QED
      BY <3>3, <3>4, <3>5, AppendKeepsAligned
  <2>3. ASSUME NEW req_size \in RequestSizes, AllocateInNew(req_size)
        PROVE  Aligned'
    <3> DEFINE A == Carved(Len(blocks) + 1, 0, req_size)
    <3>1. Len(blocks) \in Nat /\ req_size \in Nat \ {0}
      BY <2>3, CurrentTyped, ArenaAssumption DEF AllocateInNew
    <3>2. A \in Allocation /\ A.start = 0
      BY <3>1 DEF Carved, Allocation
    <3>3. 0 % ByteAlignment = 0
      <4>1. ByteAlignment \in Nat \ {0} /\ 0 \in 0..(ByteAlignment - 1) /\ 0 = ByteAlignment * 0 + 0
        BY ArenaAssumption
      <4>2. QED
        BY <4>1, RemainderOf
    <3>4. allocations' = Append(allocations, A)
      BY <2>3 DEF AllocateInNew
    <3> HIDE DEF A
    <3>5. QED
      BY <3>2, <3>3, <3>4, AppendKeepsAligned
  <2>4. QED
    BY <2>1, <2>2, <2>3 DEF Next
<1>3. QED
  BY <1>1, <1>2, Invariant, PTL DEF Spec
==============================================================================
