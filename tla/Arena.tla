-------------------------------- MODULE Arena --------------------------------
(***************************************************************************)
(* The bump allocator every phase takes its memory from                    *)
(* (bumpallocator.c).  An arena is a chain of memory blocks; the last one  *)
(* is current_block, and an allocation is carved off its end or, when it   *)
(* does not fit, off the start of a new block.  Nothing is given back      *)
(* before free_arena frees the whole chain.                                *)
(*                                                                         *)
(* A block is [capacity, offset]; malloc, external, returns memory of its  *)
(* own whose address is a multiple of BYTE_ALIGNMENT, so that an address   *)
(* is aligned when its offset in the block is.  An allocation is           *)
(* [block, start, size], the bytes arena_allocate returned.                *)
(***************************************************************************)
EXTENDS Integers, Sequences

CONSTANTS
  MemBlockCapacity,  \* MEM_BLOCK_CAPACITY, 8000
  ByteAlignment,     \* BYTE_ALIGNMENT, 8
  RequestSizes,      \* the sizes asked for
  NumAllocations     \* bound: how many allocations are made

ASSUME ArenaAssumption ==
  /\ MemBlockCapacity \in Nat \ {0}
  /\ ByteAlignment \in Nat \ {0}
  /\ RequestSizes \subseteq Nat
  /\ NumAllocations \in Nat

VARIABLES
  blocks,       \* from head to current_block; <<>> before and after the arena's life
  allocations,  \* everything arena_allocate returned, in order
  alive         \* create_arena succeeded and free_arena was not called

vars == <<blocks, allocations, alive>>

current == blocks[Len(blocks)]

NewBlock(req_size) == [capacity |-> req_size, offset |-> 0]

Larger(m, n) == IF m < n THEN n ELSE m

padding(offset) == (ByteAlignment - (offset % ByteAlignment)) % ByteAlignment

------------------------------------------------------------------------------
Init ==
  /\ blocks = <<>>
  /\ allocations = <<>>
  /\ alive = FALSE

(* Mutant: the arena is returned though it has no head block. *)
MutantNoHead ==
  /\ ~alive /\ blocks = <<>> /\ allocations = <<>>
  /\ alive' = TRUE
  /\ UNCHANGED <<blocks, allocations>>

(* create_arena; when malloc fails there is no arena. *)
CreateArena ==
  /\ ~alive /\ blocks = <<>> /\ allocations = <<>>
  /\ blocks' = <<NewBlock(MemBlockCapacity)>>
  /\ alive' = TRUE
  /\ UNCHANGED allocations

(* Mutant: the padding is forgotten in the test for room. *)
MutantFits(req_size) == current.offset + req_size <= current.capacity

Fits(req_size) == current.offset + req_size + padding(current.offset) <= current.capacity

(* The allocation of req_size bytes at the given offset of block number b. *)
Carved(b, start, req_size) == [block |-> b, start |-> start, size |-> req_size]

(* Mutants: the allocation is not padded; the offset stays before it. *)
MutantNoPadding(req_size) ==
  /\ alive /\ req_size # 0 /\ Len(allocations) < NumAllocations
  /\ Fits(req_size)
  /\ allocations' = Append(allocations, Carved(Len(blocks), current.offset, req_size))
  /\ blocks' = [blocks EXCEPT ![Len(blocks)].offset = @ + req_size]
  /\ UNCHANGED alive

MutantOffsetNotMoved(req_size) ==
  LET start == current.offset + padding(current.offset)
  IN  /\ alive /\ req_size # 0 /\ Len(allocations) < NumAllocations
      /\ Fits(req_size)
      /\ allocations' = Append(allocations, Carved(Len(blocks), start, req_size))
      /\ blocks' = [blocks EXCEPT ![Len(blocks)].offset = start]
      /\ UNCHANGED alive

(* arena_allocate, the current block has room. *)
AllocateInCurrent(req_size) ==
  LET start == current.offset + padding(current.offset)
  IN  /\ alive /\ req_size # 0 /\ Len(allocations) < NumAllocations
      /\ Fits(req_size)
      /\ allocations' = Append(allocations, Carved(Len(blocks), start, req_size))
      /\ blocks' = [blocks EXCEPT ![Len(blocks)].offset = start + req_size]
      /\ UNCHANGED alive

(* Mutant: the new block takes the place of the full one in the chain. *)
MutantUnchained(req_size) ==
  LET total_needed == req_size + padding(current.offset)
      block        == NewBlock(Larger(total_needed, MemBlockCapacity))
  IN  /\ alive /\ req_size # 0 /\ Len(allocations) < NumAllocations
      /\ ~Fits(req_size)
      /\ allocations' = Append(allocations, Carved(Len(blocks), 0, req_size))
      /\ blocks' = [blocks EXCEPT ![Len(blocks)] = [block EXCEPT !.offset = req_size]]
      /\ UNCHANGED alive

(* arena_allocate, the current block is full: a new one, large enough for   *)
(* the request and the padding it would have needed in the old one.         *)
AllocateInNew(req_size) ==
  LET total_needed == req_size + padding(current.offset)
      block        == NewBlock(Larger(total_needed, MemBlockCapacity))
  IN  /\ alive /\ req_size # 0 /\ Len(allocations) < NumAllocations
      /\ ~Fits(req_size)
      /\ allocations' = Append(allocations, Carved(Len(blocks) + 1, 0, req_size))
      /\ blocks' = Append(blocks, [block EXCEPT !.offset = req_size])
      /\ UNCHANGED alive

(* free_arena walks the chain from head. *)
FreeArena ==
  /\ alive
  /\ blocks' = <<>>
  /\ alive' = FALSE
  /\ UNCHANGED allocations

Next ==
  \/ CreateArena
  \/ \E req_size \in RequestSizes : AllocateInCurrent(req_size) \/ AllocateInNew(req_size)
  \/ FreeArena

Spec == Init /\ [][Next]_vars

------------------------------------------------------------------------------
MemoryBlock == [capacity : Nat, offset : Nat]
Allocation  == [block : Nat \ {0}, start : Nat, size : Nat \ {0}]

TypeOK ==
  /\ blocks \in Seq(MemoryBlock)
  /\ allocations \in Seq(Allocation)
  /\ alive \in BOOLEAN
  /\ alive => Len(blocks) > 0

(* Every pointer handed out lies inside the memory of its block, also when  *)
(* the request was larger than a block.                                     *)
InBounds ==
  alive => \A n \in 1..Len(allocations) :
    LET A == allocations[n]
    IN  A.block \in 1..Len(blocks) /\ A.start + A.size <= blocks[A.block].capacity

(* No two objects of a phase share a byte. *)
Overlap(A, B) ==
  A.block = B.block /\ A.start < B.start + B.size /\ B.start < A.start + A.size

Disjoint ==
  \A m, n \in 1..Len(allocations) : m # n => ~Overlap(allocations[m], allocations[n])

(* Every pointer is aligned for the widest type the compiler stores. *)
Aligned == \A n \in 1..Len(allocations) : allocations[n].start % ByteAlignment = 0

(* A block that holds an allocation is never moved, shrunk or left behind   *)
(* while the arena lives: pointers stay good until free_arena.              *)
PointersStayValid ==
  [][alive /\ alive' => /\ Len(blocks) <= Len(blocks')
                        /\ \A b \in 1..Len(blocks) :
                             /\ blocks'[b].capacity = blocks[b].capacity
                             /\ blocks'[b].offset >= blocks[b].offset
                        /\ allocations = SubSeq(allocations', 1, Len(allocations))]_vars
==============================================================================
