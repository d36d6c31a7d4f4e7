---------------------------- MODULE BackendProofs ----------------------------
(***************************************************************************)
(* Proofs about the whole back end, for every function of the builder's    *)
(* shape and every number of registers: control moves along the edges of   *)
(* the graph, the live sets recorded miss nothing, and a read of an        *)
(* operand kept in a register finds it there.                              *)
(*                                                                         *)
(* The argument goes from the blocks through the fixed point               *)
(* (LivenessProofs) and the bundles to the coloring (RegAllocProofs):      *)
(* whoever is live when another operand is written is in that operand's    *)
(* bundle, so the two do not share a register.                             *)
(***************************************************************************)
EXTENDS Backend, FiniteSetTheorems, WellFoundedInduction, TLAPS

------------------------------------------------------------------------------
(* The control-flow graph of one function, for every function that is        *)
(* shaped as the builder shapes it: the blocks cut it into intervals, and    *)
(* control moves along the edges.  Induction over indices goes by the        *)
(* smallest or largest counterexample.                                       *)

(* A set of numbers has a smallest one: intervals from 1 are ordered by     *)
(* strict inclusion, which is well-founded on finite sets.                  *)
LEMMA Smallest ==
  ASSUME NEW T \in SUBSET Nat, T # {}
  PROVE  \E n \in T : \A m \in T : n <= m
<1> DEFINE U == {1..n : n \in T}
<1>1. U \subseteq FiniteSubsetsOf(Nat)
  <2>1. ASSUME NEW n \in T
        PROVE  IsFiniteSet(1..n) /\ 1..n \in SUBSET Nat
    BY FS_Interval
  <2>2. QED
    BY <2>1 DEF FiniteSubsetsOf
<1>2. U # {}
  OBVIOUS
<1>3. \E x \in U : \A y \in U : <<y, x>> \notin StrictSubsetOrdering(Nat)
  <2> HIDE DEF U
  <2>1. QED
    BY <1>1, <1>2, FS_StrictSubsetOrderingWellFounded, WFMin
<1>4. PICK n \in T : \A m \in T : <<1..m, 1..n>> \notin StrictSubsetOrdering(Nat)
  BY <1>3
<1>5. ASSUME NEW m \in T, m < n
      PROVE  FALSE
  <2>1. 1..m \subseteq 1..n /\ n \in 1..n /\ n \notin 1..m
    BY <1>5
  <2>2. 1..m \in SUBSET Nat /\ 1..n \in SUBSET Nat
    OBVIOUS
  <2>3. QED
    BY <1>4, <2>1, <2>2 DEF StrictSubsetOrdering
<1>6. QED
  BY <1>5

LEMMA Largest ==
  ASSUME NEW n \in Nat, NEW T \in SUBSET (1..n), T # {}
  PROVE  \E k \in T : \A m \in T : m <= k
<1> DEFINE U == {n - k : k \in T}
<1>1. PICK u \in U : \A v \in U : u <= v
  <2>1. U \in SUBSET Nat /\ U # {}
    <3>1. ASSUME NEW k \in T
          PROVE  n - k \in Nat
      BY k \in 1..n
    <3>2. QED
      BY <3>1
  <2> HIDE DEF U
  <2>2. QED
    BY <2>1, Smallest
<1>2. PICK k \in T : u = n - k
  OBVIOUS
<1>3. ASSUME NEW m \in T
      PROVE  m <= k
  <2>1. n - m \in U
    OBVIOUS
  <2>2. n - k <= n - m
    BY <1>1, <1>2, <2>1
  <2>3. QED
    BY <2>2
<1>4. QED
  BY <1>3

------------------------------------------------------------------------------
(* InOrder lists a finite set of numbers in increasing order.               *)
Rank(S, k) == Cardinality({m \in S : m <= k})

LEMMA RankIncreases ==
  ASSUME NEW S \in SUBSET Nat, IsFiniteSet(S), NEW k \in S
  PROVE  /\ Rank(S, k) \in 1..Cardinality(S)
         /\ \A m \in S : m < k => Rank(S, m) < Rank(S, k)
<1>1. ASSUME NEW m \in S
      PROVE  /\ IsFiniteSet({l \in S : l <= m})
             /\ Rank(S, m) \in Nat
             /\ Rank(S, m) <= Cardinality(S)
  <2>1. {l \in S : l <= m} \in SUBSET S
    OBVIOUS
  <2>2. QED
    BY <2>1, FS_Subset, FS_CardinalityType DEF Rank
<1>2. Rank(S, k) # 0
  BY <1>1, FS_EmptySet, k \in {l \in S : l <= k} DEF Rank
<1>3. ASSUME NEW m \in S, m < k
      PROVE  Rank(S, m) < Rank(S, k)
  <2>1. \A l \in S : l <= m => l <= k
    BY <1>3, S \subseteq Nat
  <2>2. k \in {l \in S : l <= k} /\ k \notin {l \in S : l <= m}
    BY <1>3
  <2>3. Rank(S, m) <= Rank(S, k) /\ Rank(S, m) # Rank(S, k)
    <3>1. {l \in S : l <= m} \in SUBSET {l \in S : l <= k}
      BY <2>1
    <3>2. QED
      BY <1>1, <2>2, <3>1, FS_Subset DEF Rank
  <2>4. Rank(S, m) \in Nat /\ Rank(S, k) \in Nat
    BY <1>1
  <2>5. QED
    BY <2>3, <2>4
<1>4. QED
  <2>1. Cardinality(S) \in Nat
    BY FS_CardinalityType
  <2>2. Rank(S, k) \in Nat /\ Rank(S, k) <= Cardinality(S)
    BY <1>1
  <2>3. Rank(S, k) \in 1..Cardinality(S)
    BY <1>2, <2>1, <2>2
  <2>4. QED
    BY <1>3, <2>3

LEMMA EveryRankIsTaken ==
  ASSUME NEW S \in SUBSET Nat, IsFiniteSet(S), NEW n \in 1..Cardinality(S)
  PROVE  \E k \in S : Rank(S, k) = n
<1> DEFINE N == Cardinality(S)
           f == [k \in S |-> Rank(S, k)]
<1>1. N \in Nat
  BY FS_CardinalityType
<1>2. IsFiniteSet(1..N) /\ Cardinality(1..N) = N
  BY <1>1, FS_Interval
<1>3. f \in Injection(S, 1..N)
  <2>1. f \in [S -> 1..N]
    BY RankIncreases
  <2>2. ASSUME NEW k \in S, NEW m \in S, f[k] = f[m]
        PROVE  k = m
    <3>1. ~(k < m) /\ ~(m < k)
      BY <2>2, RankIncreases
    <3>2. QED
      BY <3>1
  <2>3. QED
    BY <2>1, <2>2 DEF Injection, IsInjective
<1>4. f \in Surjection(S, 1..N)
  <2> HIDE DEF f
  <2>1. QED
    BY <1>2, <1>3, FS_Injection
<1>5. QED
  BY <1>4 DEF Surjection

LEMMA InOrderLists ==
  ASSUME NEW S \in SUBSET Nat, IsFiniteSet(S)
  PROVE  /\ Cardinality(S) \in Nat
         /\ InOrder(S) \in [1..Cardinality(S) -> S]
         /\ \A k \in S : InOrder(S)[Rank(S, k)] = k
         /\ \A n \in 1..Cardinality(S) : Rank(S, InOrder(S)[n]) = n
<1> DEFINE N == Cardinality(S)
<1>1. N \in Nat
  BY FS_CardinalityType
<1>2. ASSUME NEW n \in 1..N
      PROVE  InOrder(S)[n] \in S /\ Rank(S, InOrder(S)[n]) = n
  <2>1. InOrder(S)[n] = CHOOSE k \in S : Rank(S, k) = n
    BY DEF InOrder, Rank
  <2>2. QED
    BY <2>1, EveryRankIsTaken
<1>3. DOMAIN InOrder(S) = 1..N /\ InOrder(S) = [n \in 1..N |-> InOrder(S)[n]]
  BY DEF InOrder
<1>4. ASSUME NEW k \in S
      PROVE  InOrder(S)[Rank(S, k)] = k
  <2>1. PICK m \in S : m = InOrder(S)[Rank(S, k)]
    BY <1>2, RankIncreases
  <2>2. Rank(S, m) = Rank(S, k)
    BY <1>2, <2>1, RankIncreases
  <2>3. ~(k < m) /\ ~(m < k)
    BY <2>2, RankIncreases
  <2>4. QED
    BY <2>1, <2>3
<1>5. QED
  BY <1>1, <1>2, <1>3, <1>4

------------------------------------------------------------------------------
(* The blocks cut the function into intervals, in order.                    *)
Leaders(c) == find_leaders(c) \cap Indices(c)
Starts(c)  == InOrder(Leaders(c))
Count(c)   == Cardinality(Leaders(c))
End(c, b)  == IF b < Count(c) THEN Starts(c)[b + 1] - 1 ELSE Len(c)

LEMMA LeadersListed ==
  ASSUME NEW c, Len(c) \in Nat \ {0}
  PROVE  /\ Leaders(c) \in SUBSET Nat /\ IsFiniteSet(Leaders(c)) /\ 1 \in Leaders(c)
         /\ Leaders(c) \subseteq Indices(c)
         /\ Count(c) \in Nat \ {0}
         /\ Starts(c) \in [1..Count(c) -> Leaders(c)]
         /\ Len(Starts(c)) = Count(c)
         /\ \A k \in Leaders(c) : \E b \in 1..Count(c) : Starts(c)[b] = k
<1>1. Leaders(c) \subseteq 1..Len(c) /\ IsFiniteSet(1..Len(c))
  BY FS_Interval DEF Leaders, Indices
<1>2. Leaders(c) \in SUBSET Nat /\ IsFiniteSet(Leaders(c))
  BY <1>1, FS_Subset
<1>3. 1 \in Leaders(c)
  BY DEF Leaders, find_leaders, Indices
<1>4. /\ Count(c) \in Nat
      /\ Starts(c) \in [1..Count(c) -> Leaders(c)]
      /\ \A k \in Leaders(c) : Starts(c)[Rank(Leaders(c), k)] = k
  BY <1>2, InOrderLists DEF Starts, Count
<1>5. \A k \in Leaders(c) : Rank(Leaders(c), k) \in 1..Count(c)
  BY <1>2, RankIncreases DEF Count
<1>6. Count(c) # 0
  BY <1>3, <1>4, <1>5
<1>7. Len(Starts(c)) = Count(c)
  BY <1>4
<1>8. QED
  BY <1>1, <1>2, <1>3, <1>4, <1>5, <1>6, <1>7 DEF Indices

LEMMA StartsIncrease ==
  ASSUME NEW c, Len(c) \in Nat \ {0}, NEW a \in 1..Count(c), NEW b \in 1..Count(c), a < b
  PROVE  Starts(c)[a] < Starts(c)[b]
<1> DEFINE S == Leaders(c)
<1>1. S \in SUBSET Nat /\ IsFiniteSet(S) /\ Count(c) \in Nat
  BY LeadersListed
<1>2. Starts(c)[a] \in S /\ Starts(c)[b] \in S
  BY LeadersListed
<1>3. Rank(S, Starts(c)[a]) = a /\ Rank(S, Starts(c)[b]) = b
  BY <1>1, InOrderLists DEF Starts, Count
<1>4. ~(Starts(c)[b] < Starts(c)[a]) /\ Starts(c)[a] # Starts(c)[b]
  <2> HIDE DEF S
  <2>1. Starts(c)[b] < Starts(c)[a] => b < a
    BY <1>1, <1>2, <1>3, RankIncreases
  <2>2. QED
    BY <1>1, <1>3, <2>1
<1>5. QED
  BY <1>1, <1>2, <1>4

LEMMA BlockShape ==
  ASSUME NEW c, Len(c) \in Nat \ {0}
  PROVE  /\ DOMAIN make_function_cfgs(c) = 1..Count(c)
         /\ \A b \in 1..Count(c) :
               /\ make_function_cfgs(c)[b] = Starts(c)[b] .. End(c, b)
               /\ Starts(c)[b] \in Indices(c) /\ End(c, b) \in Indices(c)
               /\ Starts(c)[b] <= End(c, b)
<1>1. /\ Count(c) \in Nat \ {0} /\ Len(Starts(c)) = Count(c)
      /\ Starts(c) \in [1..Count(c) -> Leaders(c)] /\ Leaders(c) \subseteq Indices(c)
  BY LeadersListed
<1>2. make_function_cfgs(c) = [b \in 1..Count(c) |-> Starts(c)[b] .. End(c, b)]
  BY <1>1 DEF make_function_cfgs, Starts, Leaders, End
<1>3. ASSUME NEW b \in 1..Count(c)
      PROVE  /\ Starts(c)[b] \in Indices(c) /\ End(c, b) \in Indices(c)
             /\ Starts(c)[b] <= End(c, b)
  <2>1. Starts(c)[b] \in Indices(c)
    BY <1>1
  <2>2. CASE b < Count(c)
    <3>1. b + 1 \in 1..Count(c) /\ b < b + 1
      BY <1>1, <2>2
    <3>2. Starts(c)[b] < Starts(c)[b + 1] /\ Starts(c)[b + 1] \in Indices(c)
      BY <1>1, <3>1, StartsIncrease
    <3>3. QED
      BY <2>1, <2>2, <3>2 DEF End, Indices
  <2>3. CASE ~(b < Count(c))
    BY <2>1, <2>3 DEF End, Indices
  <2>4. QED
    BY <2>2, <2>3
<1>4. QED
  BY <1>2, <1>3

(* Every instruction lies in exactly one block. *)
LEMMA OwnBlock ==
  ASSUME NEW c, Len(c) \in Nat \ {0}, NEW k \in Indices(c)
  PROVE  LET cut == make_function_cfgs(c)
         IN  /\ BlockOf(cut, k) \in DOMAIN cut
             /\ k \in cut[BlockOf(cut, k)]
             /\ \A b \in DOMAIN cut : k \in cut[b] => b = BlockOf(cut, k)
<1> DEFINE cut == make_function_cfgs(c)
           N == Count(c)
<1>1. N \in Nat \ {0} /\ DOMAIN cut = 1..N
  BY LeadersListed, BlockShape
<1>2. \A b \in 1..N : /\ cut[b] = Starts(c)[b] .. End(c, b)
                       /\ Starts(c)[b] \in Nat /\ End(c, b) \in Nat
  BY BlockShape DEF Indices
<1>3. PICK b \in 1..N : /\ Starts(c)[b] <= k
                        /\ \A a \in 1..N : Starts(c)[a] <= k => a <= b
  <2> DEFINE T == {b \in 1..N : Starts(c)[b] <= k}
  <2>1. T # {}
    <3>1. PICK b \in 1..N : Starts(c)[b] = 1
      BY LeadersListed
    <3>2. QED
      BY <3>1 DEF Indices
  <2>2. T \in SUBSET (1..N)
    OBVIOUS
  <2> HIDE DEF T
  <2>3. PICK b \in T : \A a \in T : a <= b
    BY <1>1, <2>1, <2>2, Largest
  <2>4. QED
    BY <2>3 DEF T
<1>4. k \in cut[b]
  <2>1. k <= End(c, b)
    <3>1. CASE b < N
      <4>1. b + 1 \in 1..N /\ Starts(c)[b + 1] \in Nat
        BY <1>1, <1>2, <3>1
      <4>2. ~(Starts(c)[b + 1] <= k)
        BY <1>1, <1>3, <4>1
      <4>3. QED
        BY <3>1, <4>1, <4>2 DEF End, Indices
    <3>2. CASE ~(b < N)
      BY <3>2 DEF End, Indices
    <3>3. QED
      BY <3>1, <3>2
  <2>2. QED
    BY <1>2, <1>3, <2>1 DEF Indices
<1>5. ASSUME NEW a \in 1..N, NEW d \in 1..N, a < d, k \in cut[a], k \in cut[d]
      PROVE  FALSE
  <2>1. a + 1 \in 1..N /\ (a + 1 = d \/ a + 1 < d)
    BY <1>1, <1>5
  <2>2. Starts(c)[a + 1] <= Starts(c)[d]
    BY <1>2, <2>1, StartsIncrease
  <2>3. End(c, a) = Starts(c)[a + 1] - 1
    BY <1>1, <1>5 DEF End
  <2>4. k <= End(c, a) /\ Starts(c)[d] <= k
    BY <1>2, <1>5
  <2>5. Starts(c)[a + 1] \in Nat /\ Starts(c)[d] \in Nat /\ k \in Nat
    BY <1>2, <2>1 DEF Indices
  <2> HIDE DEF cut
  <2>6. QED
    BY <2>2, <2>3, <2>4, <2>5
<1>6. \A a \in 1..N, d \in 1..N : k \in cut[a] /\ k \in cut[d] => a = d
  <2> SUFFICES ASSUME NEW a \in 1..N, NEW d \in 1..N, k \in cut[a], k \in cut[d]
               PROVE  a = d
    OBVIOUS
  <2>1. ~(a < d) /\ ~(d < a)
    BY <1>5
  <2>2. QED
    BY <1>1, <2>1
<1>7. /\ BlockOf(cut, k) \in 1..N
      /\ k \in cut[BlockOf(cut, k)]
  BY <1>1, <1>4 DEF BlockOf
<1>8. QED
  BY <1>1, <1>6, <1>7

LEMMA BlockEnds ==
  ASSUME NEW c, Len(c) \in Nat \ {0}, NEW b \in 1..Count(c)
  PROVE  /\ FirstOf(make_function_cfgs(c)[b]) = Starts(c)[b]
         /\ LastOf(make_function_cfgs(c)[b]) = End(c, b)
<1>1. PICK s, e : s = Starts(c)[b] /\ e = End(c, b)
  OBVIOUS
<1>2. s \in Nat /\ e \in Nat /\ s <= e /\ make_function_cfgs(c)[b] = s .. e
  BY <1>1, BlockShape DEF Indices
<1>3. (CHOOSE k \in s .. e : \A m \in s .. e : k <= m) = s
  BY <1>2
<1>4. (CHOOSE k \in s .. e : \A m \in s .. e : m <= k) = e
  BY <1>2
<1>5. QED
  BY <1>1, <1>2, <1>3, <1>4 DEF FirstOf, LastOf

(* A leader is the first of its block. *)
LEMMA LeaderIsFirst ==
  ASSUME NEW c, Len(c) \in Nat \ {0}, NEW k \in Leaders(c)
  PROVE  FirstOf(make_function_cfgs(c)[BlockOf(make_function_cfgs(c), k)]) = k
<1>1. PICK b \in 1..Count(c) : Starts(c)[b] = k
  BY LeadersListed
<1>2. k \in Indices(c)
  BY LeadersListed
<1>3. k \in make_function_cfgs(c)[b] /\ b \in DOMAIN make_function_cfgs(c)
  <2>1. /\ make_function_cfgs(c)[b] = k .. End(c, b)
        /\ k <= End(c, b) /\ k \in Nat /\ End(c, b) \in Nat
    BY <1>1, BlockShape DEF Indices
  <2>2. k \in k .. End(c, b)
    BY <2>1
  <2>3. DOMAIN make_function_cfgs(c) = 1..Count(c)
    BY BlockShape
  <2>4. QED
    BY <2>1, <2>2, <2>3
<1>4. b = BlockOf(make_function_cfgs(c), k)
  BY <1>2, <1>3, OwnBlock
<1>5. QED
  BY <1>1, <1>4, BlockEnds

(* The next instruction is in the same block unless it is a leader; then    *)
(* the block ends and the next one begins.                                  *)
LEMMA NextInstruction ==
  ASSUME NEW c, Len(c) \in Nat \ {0}, NEW k \in Indices(c)
  PROVE  LET cut == make_function_cfgs(c)
             own    == BlockOf(cut, k)
         IN  /\ k <= LastOf(cut[own]) /\ LastOf(cut[own]) \in Indices(c)
             /\ k # LastOf(cut[own]) =>
                  /\ k + 1 \in Indices(c) /\ BlockOf(cut, k + 1) = own
                  /\ k + 1 \notin Leaders(c)
             /\ k = LastOf(cut[own]) /\ k < Len(c) =>
                  /\ own + 1 \in DOMAIN cut
                  /\ BlockOf(cut, k + 1) = own + 1
                  /\ k + 1 = FirstOf(cut[own + 1])
<1> DEFINE cut == make_function_cfgs(c)
           N == Count(c)
<1>1. PICK own : own = BlockOf(cut, k)
  OBVIOUS
<1>2. own \in 1..N /\ k \in cut[own] /\ DOMAIN cut = 1..N /\ N \in Nat
  BY <1>1, OwnBlock, BlockShape, LeadersListed
<1>3. /\ cut[own] = Starts(c)[own] .. End(c, own)
      /\ Starts(c)[own] \in Nat /\ End(c, own) \in Indices(c)
      /\ LastOf(cut[own]) = End(c, own)
  BY <1>2, BlockShape, BlockEnds DEF Indices
<1>4. k <= End(c, own) /\ Starts(c)[own] <= k /\ k \in Nat
  BY <1>2, <1>3 DEF Indices
<1>5. ASSUME k # End(c, own)
      PROVE  k + 1 \in Indices(c) /\ BlockOf(cut, k + 1) = own /\ k + 1 \notin Leaders(c)
  <2>1. k + 1 \in Indices(c) /\ k + 1 \in cut[own]
    BY <1>3, <1>4, <1>5 DEF Indices
  <2>2. BlockOf(cut, k + 1) = own
    BY <1>2, <2>1, OwnBlock
  <2>3. ASSUME k + 1 \in Leaders(c)
        PROVE  FALSE
    <3>1. Starts(c)[own] = k + 1
      BY <1>2, <2>2, <2>3, LeaderIsFirst, BlockEnds
    <3>2. QED
      BY <1>4, <3>1
  <2>4. QED
    BY <2>1, <2>2, <2>3
<1>6. ASSUME k = End(c, own), k < Len(c)
      PROVE  /\ own + 1 \in 1..N /\ BlockOf(cut, k + 1) = own + 1
             /\ k + 1 = FirstOf(cut[own + 1])
  <2>1. own < N
    BY <1>2, <1>6 DEF End
  <2>2. own + 1 \in 1..N
    BY <1>2, <2>1
  <2>3. Starts(c)[own + 1] = k + 1
    BY <1>6, <2>1, <2>2, BlockShape DEF End, Indices
  <2>4. k + 1 \in cut[own + 1] /\ k + 1 \in Indices(c)
    <3>1. /\ cut[own + 1] = Starts(c)[own + 1] .. End(c, own + 1)
          /\ Starts(c)[own + 1] <= End(c, own + 1)
          /\ Starts(c)[own + 1] \in Indices(c) /\ End(c, own + 1) \in Indices(c)
      BY <2>2, BlockShape
    <3>2. QED
      BY <2>3, <3>1 DEF Indices
  <2>5. BlockOf(cut, k + 1) = own + 1
    BY <1>2, <2>2, <2>4, OwnBlock
  <2>6. QED
    BY <2>2, <2>3, <2>5, BlockEnds
<1>7. QED
  BY <1>1, <1>2, <1>3, <1>4, <1>5, <1>6

------------------------------------------------------------------------------
(* The bundles are listed in the order of their instructions.               *)
Bundled(c) == {k \in Indices(c) : HasBundle(c, k)}

LEMMA BundlesInOrder ==
  ASSUME NEW c, Len(c) \in Nat, NEW live
  PROVE  LET made == populate_interference_graph(c, live)
             at    == InOrder(Bundled(c))
         IN  /\ Len(made) \in Nat /\ DOMAIN made = 1..Len(made)
             /\ at \in [1..Len(made) -> Bundled(c)]
             /\ \A n \in 1..Len(made) : made[n] = Bundle(c, at[n], live[at[n]])
             /\ \A k \in Bundled(c) : \E n \in 1..Len(made) : at[n] = k
             /\ \A m, n \in 1..Len(made) : at[m] < at[n] <=> m < n
<1> DEFINE S  == Bundled(c)
           at == InOrder(S)
           N  == Cardinality(S)
           made == populate_interference_graph(c, live)
<1>1. S \in SUBSET Nat /\ IsFiniteSet(S)
  <2>1. S \in SUBSET (1..Len(c)) /\ IsFiniteSet(1..Len(c))
    BY FS_Interval DEF Bundled, Indices
  <2>2. QED
    BY <2>1, FS_Subset
<1>2. /\ N \in Nat /\ at \in [1..N -> S]
      /\ \A k \in S : at[Rank(S, k)] = k
      /\ \A n \in 1..N : Rank(S, at[n]) = n
  <2> HIDE DEF S
  <2>1. QED
    BY <1>1, InOrderLists
<1>3. made = [n \in 1..N |-> Bundle(c, at[n], live[at[n]])]
  BY <1>2 DEF populate_interference_graph, Bundled
<1>4. Len(made) = N /\ DOMAIN made = 1..N
  <2> HIDE DEF at, N
  <2>1. QED
    BY <1>2, <1>3
<1>5. \A k \in S : Rank(S, k) \in 1..N /\ \A m \in S : m < k => Rank(S, m) < Rank(S, k)
  <2> HIDE DEF S
  <2>1. QED
    BY <1>1, RankIncreases
<1>6. \A m, n \in 1..N : at[m] < at[n] <=> m < n
  <2> SUFFICES ASSUME NEW m \in 1..N, NEW n \in 1..N
               PROVE  at[m] < at[n] <=> m < n
    OBVIOUS
  <2>1. at[m] \in S /\ at[n] \in S /\ Rank(S, at[m]) = m /\ Rank(S, at[n]) = n
    BY <1>2
  <2>2. at[m] \in Nat /\ at[n] \in Nat
    BY <1>1, <2>1
  <2> HIDE DEF at, S
  <2>3. /\ at[m] < at[n] => m < n
        /\ at[n] < at[m] => n < m
        /\ at[m] = at[n] => m = n
    BY <1>5, <2>1
  <2>4. QED
    BY <2>2, <2>3
<1>7. QED
  BY <1>2, <1>3, <1>4, <1>5, <1>6

------------------------------------------------------------------------------
(* The back end.                                                             *)

LP  == INSTANCE LivenessProofs
RAP == INSTANCE RegAllocProofs

Own(k) == BlockOf(blocks, k)

(* What BuildCfg leaves, and nothing changes. *)
Analysed ==
  /\ WellBuilt(code)
  /\ blocks = make_function_cfgs(code)
  /\ successors = link_function_cfgs(code, blocks)
  /\ use_set = [b \in DOMAIN blocks |-> Uses(code, blocks[b])]
  /\ def_set = [b \in DOMAIN blocks |-> Defs(code, blocks[b])]

------------------------------------------------------------------------------
(* Control.                                                                  *)

LEMMA Leading ==
  ASSUME NEW c, Len(c) \in Nat \ {0}, NEW k \in Indices(c)
  PROVE  /\ c[k].kind = "LABEL" => k \in Leaders(c)
         /\ c[k].kind = "IF_FALSE" /\ k > 1 /\ k < Len(c) => k + 1 \in Leaders(c)
<1> DEFINE made(m) ==
      CASE c[m].kind = "IF_FALSE" -> {m + 1}
        [] c[m].kind = "LABEL" -> {m}
        [] c[m].kind = "GOTO" -> find_label_index(c, c[m].result, m + 1)
        [] c[m].kind = "RETURN" /\ m < Len(c) /\ c[m + 1].kind # "GOTO" -> {m + 1}
        [] OTHER -> {}
<1>1. \A m \in 2..Len(c) : made(m) \subseteq find_leaders(c)
  BY DEF find_leaders
<1>2. 1 \in find_leaders(c)
  BY DEF find_leaders
<1>3. c[k].kind = "LABEL" => k \in find_leaders(c)
  <2>1. c[k].kind = "LABEL" => made(k) = {k}
    OBVIOUS
  <2> HIDE DEF made
  <2>2. QED
    BY <1>1, <1>2, <2>1 DEF Indices
<1>4. c[k].kind = "IF_FALSE" /\ k > 1 => k + 1 \in find_leaders(c)
  <2>1. c[k].kind = "IF_FALSE" => made(k) = {k + 1}
    OBVIOUS
  <2> HIDE DEF made
  <2>2. QED
    BY <1>1, <2>1 DEF Indices
<1>5. QED
  BY <1>3, <1>4 DEF Leaders, Indices

(* The run moves within a block, or along an edge to the block's head. *)
LEMMA EdgeStep ==
  ASSUME Analysed, NEW k \in Indices(code), NEW m \in Nexts(code, k), m \in Indices(code)
  PROVE  \/ m = k + 1 /\ k # LastOf(blocks[Own(k)]) /\ Own(m) = Own(k)
         \/ /\ k = LastOf(blocks[Own(k)])
            /\ Own(m) \in successors[Own(k)]
            /\ m = FirstOf(blocks[Own(m)])
<1>1. Len(code) \in Nat \ {0} /\ JumpsEndBlocks(code)
  BY DEF Analysed, WellBuilt, Typed
<1>2. PICK b, e : b = Own(k) /\ e = LastOf(blocks[b])
  OBVIOUS
<1>3. /\ b \in DOMAIN blocks /\ k <= e /\ e \in Indices(code)
      /\ k # e => k + 1 \in Indices(code) /\ Own(k + 1) = b /\ k + 1 \notin Leaders(code)
      /\ k = e /\ k < Len(code) =>
           b + 1 \in DOMAIN blocks /\ Own(k + 1) = b + 1 /\ k + 1 = FirstOf(blocks[b + 1])
  BY <1>1, <1>2, OwnBlock, NextInstruction DEF Analysed, Own
<1>4. successors[b] =
        LET next(a) == {a + 1} \cap DOMAIN blocks
            last(a) == code[LastOf(blocks[a])]
        IN  CASE last(b).kind = "GOTO" -> find_matching_label_block(code, blocks, last(b).result)
              [] last(b).kind = "IF_FALSE" ->
                   next(b) \cup find_matching_label_block(code, blocks, last(b).op2)
              [] last(b).kind = "RETURN"   -> {}
              [] OTHER                     -> next(b)
  BY <1>3 DEF Analysed, link_function_cfgs
<1>5. ASSUME NEW label, m \in LabelAt(code, label)
      PROVE  /\ m = FirstOf(blocks[Own(m)])
             /\ Own(m) \in find_matching_label_block(code, blocks, label)
  <2>1. m \in Leaders(code)
    BY <1>1, <1>5, Leading DEF LabelAt
  <2>2. m = FirstOf(blocks[Own(m)])
    BY <1>1, <2>1, LeaderIsFirst DEF Analysed, Own
  <2>3. Own(m) \in DOMAIN blocks
    BY <1>1, OwnBlock DEF Analysed, Own
  <2>4. QED
    BY <1>5, <2>2, <2>3 DEF find_matching_label_block
<1>6. CASE code[k].kind = "GOTO"
  <2>1. m \in LabelAt(code, code[k].result)
    BY <1>6 DEF Nexts, Targets
  <2>2. k = e
    <3>1. k # e => code[k + 1].kind = "LABEL"
      BY <1>1, <1>3, <1>6 DEF JumpsEndBlocks, Indices
    <3>2. QED
      BY <1>1, <1>3, <3>1, Leading
  <2>3. successors[b] = find_matching_label_block(code, blocks, code[k].result)
    BY <1>2, <1>4, <1>6, <2>2
  <2>4. QED
    BY <1>2, <1>5, <2>1, <2>2, <2>3
<1>7. CASE code[k].kind = "IF_FALSE"
  <2>1. m = k + 1 \/ m \in LabelAt(code, code[k].op2)
    BY <1>7 DEF Nexts, Targets
  <2>2. k = e
    <3>1. k # e => k < Len(code)
      BY <1>1, <1>3 DEF Indices
    <3>2. k > 1
      BY <1>1, <1>7 DEF JumpsEndBlocks
    <3>3. QED
      BY <1>1, <1>3, <1>7, <3>1, <3>2, Leading
  <2>3. successors[b] = ({b + 1} \cap DOMAIN blocks)
                          \cup find_matching_label_block(code, blocks, code[k].op2)
    BY <1>2, <1>4, <1>7, <2>2
  <2>4. CASE m = k + 1
    BY <1>2, <1>3, <2>2, <2>3, <2>4 DEF Indices
  <2>5. CASE m \in LabelAt(code, code[k].op2)
    BY <1>2, <1>5, <2>2, <2>3, <2>5
  <2>6. QED
    BY <2>1, <2>4, <2>5
<1>8. CASE code[k].kind \notin {"GOTO", "IF_FALSE"}
  <2>1. code[k].kind # "RETURN" /\ m = k + 1
    BY <1>1, <1>8 DEF Nexts, Indices
  <2>2. CASE k # e
    BY <1>2, <1>3, <2>1, <2>2
  <2>3. CASE k = e
    <3>1. successors[b] = {b + 1} \cap DOMAIN blocks
      BY <1>2, <1>4, <1>8, <2>1, <2>3
    <3>2. k < Len(code)
      BY <1>1, <2>1 DEF Indices
    <3>3. QED
      BY <1>2, <1>3, <2>1, <2>3, <3>1, <3>2
  <2>4. QED
    BY <2>2, <2>3
<1>9. QED
  BY <1>6, <1>7, <1>8

------------------------------------------------------------------------------
(* Liveness.  LiveIn is what the sets of the blocks say is live before an    *)
(* instruction: read later in its block, or live at the block's end, and not *)
(* written in between.                                                       *)
Rest(k) == {m \in blocks[Own(k)] : k <= m}

LiveIn(k, op) ==
  \/ \E m \in Rest(k) : /\ op \in TrueReads(code[m])
                        /\ \A n \in k..(m - 1) : op \notin Written(code[n])
  \/ op \in out_set[Own(k)] /\ \A n \in Rest(k) : op \notin Written(code[n])

(* The fixed point is reached. *)
Solved ==
  /\ Analysed
  /\ \A b \in DOMAIN blocks :
        /\ out_set[b] = UNION {in_set[s] : s \in successors[b]}
        /\ in_set[b] = use_set[b] \cup (out_set[b] \ def_set[b])

LEMMA BlockFacts ==
  ASSUME Analysed, NEW k \in Indices(code)
  PROVE  /\ Len(code) \in Nat \ {0} /\ k \in Nat
         /\ Own(k) \in DOMAIN blocks /\ k \in blocks[Own(k)]
         /\ blocks[Own(k)] \subseteq Indices(code)
         /\ k <= LastOf(blocks[Own(k)]) /\ LastOf(blocks[Own(k)]) \in Indices(code)
         /\ \A m \in blocks[Own(k)] : m <= LastOf(blocks[Own(k)])
         /\ k # LastOf(blocks[Own(k)]) => k + 1 \in Indices(code) /\ Own(k + 1) = Own(k)
<1>1. Len(code) \in Nat \ {0} /\ blocks = make_function_cfgs(code)
  BY DEF Analysed, WellBuilt, Typed
<1>2. PICK b : b = Own(k)
  OBVIOUS
<1>3. b \in 1..Count(code) /\ k \in blocks[b] /\ DOMAIN blocks = 1..Count(code)
  BY <1>1, <1>2, OwnBlock, BlockShape DEF Own
<1>4. /\ blocks[b] = Starts(code)[b] .. End(code, b) /\ LastOf(blocks[b]) = End(code, b)
      /\ Starts(code)[b] \in Indices(code) /\ End(code, b) \in Indices(code)
  BY <1>1, <1>3, BlockShape, BlockEnds
<1>5. k # LastOf(blocks[b]) => k + 1 \in Indices(code) /\ Own(k + 1) = b
  BY <1>1, <1>2, NextInstruction DEF Own
<1>6. QED
  BY <1>1, <1>2, <1>3, <1>4, <1>5 DEF Indices

LEMMA ReadIsLive ==
  ASSUME Analysed, NEW k \in Indices(code), NEW op \in TrueReads(code[k])
  PROVE  LiveIn(k, op)
<1>1. k \in Rest(k) /\ k \in Nat
  <2>1. k \in Nat /\ k \in blocks[Own(k)]
    BY BlockFacts
  <2>2. QED
    BY <2>1 DEF Rest
<1>2. \A n \in k..(k - 1) : op \notin Written(code[n])
  BY <1>1
<1>3. QED
  BY <1>1, <1>2 DEF LiveIn

(* What is live at the head of a block is in the block's in set. *)
LEMMA LiveAtHead ==
  ASSUME Solved, NEW k \in Indices(code), k = FirstOf(blocks[Own(k)]), NEW op, LiveIn(k, op)
  PROVE  op \in in_set[Own(k)]
<1>1. Analysed
  BY DEF Solved
<1>2. PICK b : b = Own(k)
  OBVIOUS
<1>3. /\ b \in DOMAIN blocks /\ blocks[b] \subseteq Indices(code) /\ k \in blocks[b]
      /\ \A m \in blocks[b] : k <= m
  <2>1. b \in DOMAIN blocks /\ blocks[b] \subseteq Indices(code) /\ k \in blocks[b]
    BY <1>1, <1>2, BlockFacts
  <2>2. Len(code) \in Nat \ {0} /\ blocks = make_function_cfgs(code)
    BY <1>1 DEF Analysed, WellBuilt, Typed
  <2>3. b \in 1..Count(code)
    BY <2>1, <2>2, BlockShape
  <2>4. k = Starts(code)[b] /\ blocks[b] = Starts(code)[b] .. End(code, b)
    BY <1>2, <2>2, <2>3, BlockShape, BlockEnds
  <2>5. QED
    BY <2>1, <2>4
<1>4. Rest(k) = blocks[b]
  BY <1>2, <1>3 DEF Rest
<1>5. /\ in_set[b] = use_set[b] \cup (out_set[b] \ def_set[b])
      /\ use_set[b] = Uses(code, blocks[b]) /\ def_set[b] = Defs(code, blocks[b])
  BY <1>1, <1>3 DEF Solved, Analysed
<1>6. \A n : Writes(code[n]) \subseteq Written(code[n])
  BY DEF Written
<1>7. CASE \E m \in Rest(k) : /\ op \in TrueReads(code[m])
                             /\ \A n \in k..(m - 1) : op \notin Written(code[n])
  <2>1. PICK m \in blocks[b] : /\ op \in TrueReads(code[m])
                              /\ \A n \in k..(m - 1) : op \notin Written(code[n])
    BY <1>4, <1>7
  <2>2. op \in Reads(code[m])
    BY <2>1 DEF TrueReads
  <2>3. \A n \in {l \in blocks[b] : l < m} : op \notin Writes(code[n])
    <3>1. \A n \in blocks[b] : n < m => n \in k..(m - 1)
      BY <1>3, <2>1 DEF Indices
    <3>2. QED
      BY <1>6, <2>1, <3>1
  <2>4. op \in Reads(code[m]) \ UNION {Writes(code[n]) : n \in {l \in blocks[b] : l < m}}
    BY <2>2, <2>3
  <2>5. op \in Uses(code, blocks[b])
    BY <2>1, <2>4 DEF Uses
  <2>6. QED
    BY <1>2, <1>5, <2>5
<1>8. CASE op \in out_set[b] /\ \A n \in Rest(k) : op \notin Written(code[n])
  <2>1. op \notin Defs(code, blocks[b])
    BY <1>4, <1>6, <1>8 DEF Defs
  <2>2. QED
    BY <1>2, <1>5, <1>8, <2>1
<1>9. QED
  BY <1>2, <1>7, <1>8, LiveIn(k, op) DEF LiveIn

(* What is live after a step and not written by it was live before it. *)
LEMMA LiveBackwards ==
  ASSUME Solved, NEW k \in Indices(code), NEW m \in Nexts(code, k), m \in Indices(code),
         NEW op, LiveIn(m, op), op \notin Written(code[k])
  PROVE  LiveIn(k, op)
<1>1. Analysed
  BY DEF Solved
<1>2. CASE m = k + 1 /\ k # LastOf(blocks[Own(k)]) /\ Own(m) = Own(k)
  <2>1. k \in Nat /\ blocks[Own(k)] \subseteq Indices(code)
    BY <1>1, BlockFacts
  <2>2. Rest(k) \subseteq Rest(m) \cup {k} /\ Rest(m) \subseteq Rest(k)
    BY <1>2, <2>1 DEF Rest, Indices
  <2>3. \A j \in Rest(m) : \A n \in k..(j - 1) : n = k \/ n \in m..(j - 1)
    BY <1>2, <2>1, <2>2 DEF Rest, Indices
  <2>4. QED
    BY <1>2, <2>2, <2>3 DEF LiveIn
<1>3. CASE /\ k = LastOf(blocks[Own(k)])
           /\ Own(m) \in successors[Own(k)]
           /\ m = FirstOf(blocks[Own(m)])
  <2>1. op \in in_set[Own(m)]
    BY <1>3, LiveAtHead
  <2>2. op \in out_set[Own(k)]
    BY <1>1, <1>3, <2>1, BlockFacts DEF Solved
  <2>3. Rest(k) \subseteq {k}
    BY <1>1, <1>3, BlockFacts DEF Rest, Indices
  <2>4. QED
    BY <2>2, <2>3 DEF LiveIn
<1>4. QED
  BY <1>1, <1>2, <1>3, EdgeStep

------------------------------------------------------------------------------
(* The recorded live sets.                                                   *)
(* The recursion of compute_instruction_live_out ends: it defines a set for  *)
(* every instruction, from the last one back.                               *)
Backwards(live) ==
  [k \in Indices(code) |->
     LiveBefore(code[k], IF k = LastOf(blocks[Own(k)]) THEN out_set[Own(k)] ELSE live[k + 1])]

LEMMA BackwardsDefined ==
  ASSUME Analysed
  PROVE  \E live : live = Backwards(live)
<1> DEFINE N == Len(code)
           step(k, S) == LiveBefore(code[k], IF k = LastOf(blocks[Own(k)]) THEN out_set[Own(k)]
                                             ELSE S)
           from(j) == \E f : f = [k \in j..N |-> step(k, f[k + 1])]
           T == {j \in 1..(N + 1) : from(j)}
<1>1. N \in Nat \ {0}
  BY DEF Analysed, WellBuilt, Typed
<1>2. from(N + 1)
  <2>1. (N + 1)..N = {}
    BY <1>1
  <2>2. <<>> = [k \in (N + 1)..N |-> step(k, <<>>[k + 1])]
    BY <2>1
  <2>3. QED
    BY <2>2
<1>3. ASSUME NEW j \in 1..N, from(j + 1)
      PROVE  from(j)
  <2>1. PICK f : f = [k \in (j + 1)..N |-> step(k, f[k + 1])]
    BY <1>3
  <2> DEFINE g == [k \in j..N |-> step(k, f[k + 1])]
  <2>2. ASSUME NEW k \in j..N
        PROVE  step(k, f[k + 1]) = step(k, g[k + 1])
    <3>1. CASE k = N
      <4>1. k = LastOf(blocks[Own(k)])
        <5>1. k \in Indices(code)
          BY <1>1, <3>1 DEF Indices
        <5>2. k <= LastOf(blocks[Own(k)]) /\ LastOf(blocks[Own(k)]) \in Indices(code)
          BY <5>1, BlockFacts
        <5>3. QED
          BY <1>1, <3>1, <5>2 DEF Indices
      <4>2. QED
        BY <4>1
    <3>2. CASE k # N
      <4>1. k + 1 \in (j + 1)..N /\ k + 1 \in j..N
        BY <1>1, <3>2
      <4> HIDE DEF step
      <4>2. f[k + 1] = step(k + 1, f[k + 1 + 1])
        BY <2>1, <4>1
      <4>3. g[k + 1] = step(k + 1, f[k + 1 + 1])
        BY <4>1
      <4>4. QED
        BY <4>2, <4>3
    <3>3. QED
      BY <3>1, <3>2
  <2> HIDE DEF step
  <2>3. g = [k \in j..N |-> step(k, g[k + 1])]
    BY <2>2
  <2>4. QED
    BY <2>3
<1>4. from(1)
  <2>1. PICK j \in T : \A m \in T : j <= m
    <3>1. T # {} /\ T \in SUBSET Nat
      BY <1>1, <1>2
    <3> HIDE DEF T
    <3>2. QED
      BY <3>1, Smallest
  <2> HIDE DEF from
  <2>2. ASSUME j # 1
        PROVE  FALSE
    <3>1. j - 1 \in 1..N /\ (j - 1) + 1 = j
      BY <1>1, <2>2
    <3>2. from(j - 1)
      BY <1>3, <3>1
    <3>3. j - 1 \in T
      BY <1>1, <3>1, <3>2
    <3>4. QED
      BY <1>1, <2>1, <3>3
  <2>3. QED
    BY <2>2
<1>5. QED
  BY <1>4 DEF Backwards, Indices

LEMMA RecordedAt ==
  ASSUME Analysed
  PROVE  LET live == compute_instruction_live_out(code, blocks, out_set)
         IN  live = Backwards(live)
<1>1. PICK live : live = (CHOOSE S : S = Backwards(S))
  OBVIOUS
<1>2. live = Backwards(live)
  BY <1>1, BackwardsDefined
<1>3. live = compute_instruction_live_out(code, blocks, out_set)
  BY <1>1 DEF compute_instruction_live_out, Backwards, Own
<1>4. QED
  BY <1>2, <1>3

ReadSomewhere(op) == \E k \in Indices(code) : op \in TrueReads(code[k])

LEMMA LiveBeforeKeeps ==
  ASSUME Analysed, NEW k \in Indices(code), NEW S, NEW op, ReadSomewhere(op), ~SelfAssigned(op),
         op \in TrueReads(code[k]) \/ (op \in S /\ op \notin Written(code[k]))
  PROVE  op \in LiveBefore(code[k], S)
<1>1. /\ code[k].kind \in Binary \cup {"CONST", "NOT", "ASSIGN"} \cup PassedOver \cup Conventions
      /\ code[k].kind \in Conventions => op # code[k].result
      /\ code[k].kind = "ASSIGN" => op # code[k].result \/ op # code[k].op2
      /\ op # Ret /\ op # None
  <2>1. Typed(code) /\ FreshLabels(code)
    BY DEF Analysed, WellBuilt
  <2>2. PICK m \in Indices(code) : op \in TrueReads(code[m])
    BY DEF ReadSomewhere
  <2>3. code[k].kind \in Conventions => op # code[k].result
    BY <2>1, <2>2 DEF FreshLabels
  <2>4. op # Ret /\ op # None
    BY <2>2 DEF TrueReads, Reads
  <2>5. QED
    BY <2>1, <2>3, <2>4 DEF Typed, SelfAssigned
<1>2. CASE code[k].kind \in PassedOver
  BY <1>2 DEF TrueReads, Reads, LiveBefore, PassedOver, Binary
<1>3. CASE code[k].kind \in Binary \cup {"CONST", "NOT", "ASSIGN"}
  <2>1. Written(code[k]) = {code[k].result}
    BY <1>3 DEF Written, Writes, Binary
  <2>2. CASE code[k].kind \in {"CONST", "ASSIGN"}
    BY <1>1, <2>1, <2>2 DEF TrueReads, Reads, LiveBefore, PassedOver, Binary
  <2>3. CASE code[k].kind \in Binary \cup {"NOT"}
    <3>1. LiveBefore(code[k], S)
            = (S \ {code[k].result}) \cup ({code[k].op1, code[k].op2} \ {None})
      BY <2>3 DEF LiveBefore, PassedOver, Binary
    <3>2. op \in TrueReads(code[k]) => op \in {code[k].op1, code[k].op2}
      BY <2>3 DEF TrueReads, Reads, Binary
    <3>3. QED
      BY <1>1, <2>1, <3>1, <3>2
  <2>4. QED
    BY <1>3, <2>2, <2>3
<1>4. CASE code[k].kind \in Conventions
  <2>1. LiveBefore(code[k], S)
          = (S \ {code[k].result}) \cup ({code[k].op1, code[k].op2} \ {None})
    BY <1>4 DEF LiveBefore, PassedOver, Conventions
  <2>2. op \in TrueReads(code[k]) => op \in {code[k].op1, code[k].op2}
    BY <1>4 DEF TrueReads, Reads, Binary, Conventions
  <2>3. QED
    BY <1>1, <1>4, <2>1, <2>2
<1>5. QED
  BY <1>1, <1>2, <1>3, <1>4

(* What is live before an instruction is recorded there. *)
LEMMA RecordedLive ==
  ASSUME Solved, live_out = compute_instruction_live_out(code, blocks, out_set),
         NEW op, ReadSomewhere(op), ~SelfAssigned(op),
         NEW n \in Indices(code), LiveIn(n, op)
  PROVE  op \in live_out[n]
<1> DEFINE T == {k \in Indices(code) : LiveIn(k, op) /\ op \notin live_out[k]}
<1>1. Analysed /\ Len(code) \in Nat
  BY DEF Solved, Analysed, WellBuilt, Typed
<1>2. SUFFICES ASSUME T # {}
               PROVE  FALSE
  OBVIOUS
<1>3. PICK k \in T : \A m \in T : m <= k
  <2>1. T \in SUBSET (1..Len(code))
    BY DEF Indices
  <2> HIDE DEF T
  <2>2. QED
    BY <1>1, <1>2, <2>1, Largest
<1>4. k \in Indices(code) /\ LiveIn(k, op) /\ op \notin live_out[k]
  BY <1>3
<1>5. PICK S : S = IF k = LastOf(blocks[Own(k)]) THEN out_set[Own(k)] ELSE live_out[k + 1]
  OBVIOUS
<1>6. live_out[k] = LiveBefore(code[k], S)
  BY <1>1, <1>4, <1>5, RecordedAt DEF Backwards
<1>7. op \notin TrueReads(code[k]) /\ (op \in S => op \in Written(code[k]))
  BY <1>1, <1>4, <1>6, LiveBeforeKeeps
<1>8. /\ k \in Nat /\ blocks[Own(k)] \subseteq Indices(code) /\ k \in blocks[Own(k)]
      /\ \A m \in blocks[Own(k)] : m <= LastOf(blocks[Own(k)])
      /\ k # LastOf(blocks[Own(k)]) => k + 1 \in Indices(code) /\ Own(k + 1) = Own(k)
  BY <1>1, <1>4, BlockFacts
<1>9. op \notin Written(code[k])
  <2>1. k \in Rest(k)
    BY <1>8 DEF Rest
  <2>2. \A m \in Rest(k) : m = k \/ k \in k..(m - 1)
    BY <1>8 DEF Rest, Indices
  <2>3. QED
    BY <1>4, <1>7, <2>1, <2>2 DEF LiveIn
<1>10. CASE k = LastOf(blocks[Own(k)])
  <2>1. Rest(k) \subseteq {k}
    BY <1>8, <1>10 DEF Rest, Indices
  <2>2. op \in out_set[Own(k)]
    BY <1>4, <1>7, <2>1 DEF LiveIn
  <2>3. QED
    BY <1>5, <1>7, <1>9, <1>10, <2>2
<1>11. CASE k # LastOf(blocks[Own(k)])
  <2>1. Rest(k + 1) \subseteq Rest(k) /\ Rest(k) \subseteq Rest(k + 1) \cup {k}
    BY <1>8, <1>11 DEF Rest, Indices
  <2>2. \A m \in Rest(k) : (k + 1)..(m - 1) \subseteq k..(m - 1)
    BY <1>8 DEF Rest, Indices
  <2>3. LiveIn(k + 1, op)
    BY <1>4, <1>7, <1>8, <1>11, <2>1, <2>2 DEF LiveIn
  <2>4. op \in live_out[k + 1]
    BY <1>3, <1>8, <1>11, <2>3
  <2>5. QED
    BY <1>5, <1>7, <1>9, <1>11, <2>4
<1>12. QED
  BY <1>10, <1>11

(* Only operands are recorded. *)
LEMMA RecordedTyped ==
  ASSUME Analysed, live_out = compute_instruction_live_out(code, blocks, out_set),
         out_set \in [DOMAIN blocks -> SUBSET Operands],
         NEW n \in Indices(code)
  PROVE  live_out[n] \subseteq Operands
<1> DEFINE T == {k \in Indices(code) : ~(live_out[k] \subseteq Operands)}
<1>1. Len(code) \in Nat /\ Typed(code)
  BY DEF Analysed, WellBuilt, Typed
<1>2. SUFFICES ASSUME T # {}
               PROVE  FALSE
  OBVIOUS
<1>3. PICK k \in T : \A m \in T : m <= k
  <2>1. T \in SUBSET (1..Len(code))
    BY DEF Indices
  <2> HIDE DEF T
  <2>2. QED
    BY <1>1, <1>2, <2>1, Largest
<1>4. k \in Indices(code) /\ ~(live_out[k] \subseteq Operands)
  BY <1>3
<1>5. PICK S : S = IF k = LastOf(blocks[Own(k)]) THEN out_set[Own(k)] ELSE live_out[k + 1]
  OBVIOUS
<1>6. live_out[k] = LiveBefore(code[k], S)
  BY <1>4, <1>5, RecordedAt DEF Backwards
<1>7. S \subseteq Operands
  <2>1. CASE k = LastOf(blocks[Own(k)])
    <3>1. Own(k) \in DOMAIN blocks
      BY <1>4, BlockFacts
    <3>2. QED
      BY <1>5, <2>1, <3>1
  <2>2. CASE k # LastOf(blocks[Own(k)])
    <3>1. k + 1 \in Indices(code)
      BY <1>4, <2>2, BlockFacts
    <3>2. k + 1 \notin T
      BY <1>1, <1>3, <1>4 DEF Indices
    <3>3. QED
      BY <1>5, <2>2, <3>1, <3>2
  <2>3. QED
    BY <2>1, <2>2
<1>8. code[k].kind \notin PassedOver => {code[k].op1, code[k].op2} \subseteq Operands \cup {None}
  BY <1>1, <1>4 DEF Typed
<1>9. code[k].kind = "ASSIGN" => code[k].op2 \in Operands
  BY <1>1, <1>4 DEF Typed
<1>10. LiveBefore(code[k], S) \subseteq Operands
  BY <1>7, <1>8, <1>9 DEF LiveBefore
<1>11. QED
  BY <1>4, <1>6, <1>10

------------------------------------------------------------------------------
(* The reference: every round of TrulyLive stays within what is live.       *)
Round(r, live, m) ==
  [k \in 1..(m + 1) |->
     IF r = 0 \/ k = m + 1 THEN {}
     ELSE TrueReads(code[k])
            \cup ((UNION {live[l] : l \in Nexts(code, k)}) \ Written(code[k]))]

Rounds(round) == [r \in 0..Len(code) |-> Round(r, round[r - 1], Len(code))]

LEMMA RoundsDefined ==
  ASSUME Len(code) \in Nat
  PROVE  \E round : round = Rounds(round)
<1> DEFINE N == Len(code)
           upto(j) == \E f : f = [r \in 0..j |-> Round(r, f[r - 1], N)]
           T == {j \in 0..N : ~upto(j)}
<1>1. upto(0)
  <2> DEFINE f == [r \in 0..0 |-> Round(0, <<>>, N)]
  <2>1. Round(0, f[0 - 1], N) = Round(0, <<>>, N)
    BY DEF Round
  <2>2. f = [r \in 0..0 |-> Round(r, f[r - 1], N)]
    BY <2>1
  <2>3. QED
    BY <2>2
<1>2. ASSUME NEW j \in 1..N, upto(j - 1)
      PROVE  upto(j)
  <2>1. PICK f : f = [r \in 0..(j - 1) |-> Round(r, f[r - 1], N)]
    BY <1>2
  <2> DEFINE g == [r \in 0..j |-> Round(r, f[r - 1], N)]
  <2>2. ASSUME NEW r \in 0..j
        PROVE  Round(r, f[r - 1], N) = Round(r, g[r - 1], N)
    <3>1. CASE r = 0
      BY <3>1 DEF Round
    <3>2. CASE r # 0
      <4>1. r - 1 \in 0..(j - 1) /\ r - 1 \in 0..j
        BY <3>2
      <4>2. f[r - 1] = Round(r - 1, f[r - 1 - 1], N)
        BY <2>1, <4>1
      <4>3. g[r - 1] = Round(r - 1, f[r - 1 - 1], N)
        BY <4>1
      <4>4. QED
        BY <4>2, <4>3
    <3>3. QED
      BY <3>1, <3>2
  <2>3. g = [r \in 0..j |-> Round(r, g[r - 1], N)]
    BY <2>2
  <2>4. QED
    BY <2>3
<1>3. upto(N)
  <2>1. SUFFICES ASSUME T # {}
                 PROVE  FALSE
    OBVIOUS
  <2>2. PICK j \in T : \A m \in T : j <= m
    <3>1. T \in SUBSET Nat
      OBVIOUS
    <3> HIDE DEF T
    <3>2. QED
      BY <2>1, <3>1, Smallest
  <2> HIDE DEF upto
  <2>3. j # 0
    BY <1>1, <2>2
  <2>4. j - 1 \in 0..N /\ j \in 1..N
    BY <2>2, <2>3
  <2>5. j - 1 \notin T
    BY <2>2, <2>4
  <2>6. QED
    BY <1>2, <2>2, <2>4, <2>5
<1>4. QED
  BY <1>3 DEF Rounds

LEMMA TrulyLiveIsLive ==
  ASSUME Solved, NEW n \in Indices(code), NEW op \in TrulyLive[n]
  PROVE  LiveIn(n, op) /\ ReadSomewhere(op)
<1> DEFINE N == Len(code)
<1>1. Analysed /\ N \in Nat \ {0}
  BY DEF Solved, Analysed, WellBuilt, Typed
<1>2. PICK round : round = (CHOOSE f : f = Rounds(f))
  OBVIOUS
<1>3. round = Rounds(round)
  BY <1>1, <1>2, RoundsDefined
<1>4. TrulyLive = round[N]
  BY <1>2 DEF TrulyLive, Rounds, Round
<1> DEFINE Fine(r) == \A k \in Indices(code) : \A o \in round[r][k] : LiveIn(k, o) /\ ReadSomewhere(o)
           T == {r \in 0..N : ~Fine(r)}
<1>5. \A r \in 0..N : round[r] = Round(r, round[r - 1], N)
  BY <1>3 DEF Rounds
<1>6. Fine(0)
  <2>1. round[0] = Round(0, round[0 - 1], N)
    BY <1>1, <1>5
  <2>2. \A k \in Indices(code) : round[0][k] = {}
    BY <1>1, <2>1 DEF Round, Indices
  <2>3. QED
    BY <2>2
<1>7. ASSUME NEW r \in 1..N, Fine(r - 1)
      PROVE  Fine(r)
  <2> SUFFICES ASSUME NEW k \in Indices(code), NEW o \in round[r][k]
               PROVE  LiveIn(k, o) /\ ReadSomewhere(o)
    OBVIOUS
  <2>1. PICK live : live = round[r - 1]
    OBVIOUS
  <2>2. round[r][k] = TrueReads(code[k])
                        \cup ((UNION {live[l] : l \in Nexts(code, k)}) \ Written(code[k]))
    <3>1. r \in 0..N /\ r # 0
      BY <1>1
    <3>2. round[r] = Round(r, live, N)
      BY <1>5, <2>1, <3>1
    <3>3. k \in 1..(N + 1) /\ k # N + 1
      BY <1>1 DEF Indices
    <3>4. QED
      BY <3>1, <3>2, <3>3 DEF Round
  <2>3. CASE o \in TrueReads(code[k])
    BY <1>1, <2>3, ReadIsLive DEF ReadSomewhere
  <2>4. CASE o \notin TrueReads(code[k])
    <3>1. PICK l \in Nexts(code, k) : o \in live[l] /\ o \notin Written(code[k])
      BY <2>2, <2>4
    <3>2. l \in 1..(N + 1)
      BY <1>1 DEF Nexts, Targets, LabelAt, Indices
    <3>3. l # N + 1
      <4>1. r - 1 \in 0..N
        BY <1>1
      <4>2. live = Round(r - 1, round[r - 1 - 1], N)
        BY <1>5, <2>1, <4>1
      <4>3. N + 1 \in 1..(N + 1)
        BY <1>1
      <4>4. live[N + 1] = {}
        BY <4>2, <4>3 DEF Round
      <4>5. QED
        BY <3>1, <4>4
    <3>4. l \in Indices(code)
      BY <1>1, <3>2, <3>3 DEF Indices
    <3>5. LiveIn(l, o) /\ ReadSomewhere(o)
      BY <1>7, <2>1, <3>1, <3>4
    <3>6. QED
      BY <3>1, <3>4, <3>5, LiveBackwards
  <2>5. QED
    BY <2>3, <2>4
<1>8. Fine(N)
  <2>1. SUFFICES ASSUME T # {}
                 PROVE  FALSE
    BY <1>1
  <2>2. PICK r \in T : \A m \in T : r <= m
    <3>1. T \in SUBSET Nat
      OBVIOUS
    <3> HIDE DEF T
    <3>2. QED
      BY <2>1, <3>1, Smallest
  <2> HIDE DEF Fine
  <2>3. r # 0
    BY <1>6, <2>2
  <2>4. r - 1 \in 0..N /\ r \in 1..N
    BY <1>1, <2>2, <2>3
  <2>5. r - 1 \notin T
    BY <2>2, <2>4
  <2>6. QED
    BY <1>7, <2>2, <2>4, <2>5
<1>9. QED
  BY <1>4, <1>8

------------------------------------------------------------------------------
(* Who shares a register.                                                    *)

(* What the allocator leaves. *)
Allocated ==
  /\ Solved
  /\ live_out = compute_instruction_live_out(code, blocks, out_set)
  /\ graph = populate_interference_graph(code, live_out)
  /\ RAP!Inv /\ RAP!ConventionInv /\ RAP!ParamInv
  /\ pass = "done"

(* One instruction writes one operand; an instruction with a bundle writes  *)
(* or reads the bundle's operand.                                           *)
LEMMA WrittenKind ==
  ASSUME NEW ins, NEW op \in Written(ins)
  PROVE  /\ ins.kind \in Binary \cup {"CONST", "NOT", "ASSIGN", "PARAM"}
         /\ op = IF ins.kind = "PARAM" THEN ins.op1 ELSE ins.result
         /\ \A other \in Written(ins) : other = op
         /\ BundleOperand(ins) = op
BY DEF Written, Writes, Binary, BundleOperand

LEMMA BundleOperandUse ==
  ASSUME Typed(code), NEW k \in Bundled(code), NEW op, BundleOperand(code[k]) = op,
         op # Ret, op # None
  PROVE  op \in Written(code[k]) \cup TrueReads(code[k])
<1>1. /\ code[k].kind \notin PassedOver \cup {"CALL"}
      /\ code[k].kind \in Binary \cup {"CONST", "NOT", "ASSIGN"} \cup PassedOver \cup Conventions
  BY DEF Bundled, HasBundle, Typed
<1>2. CASE code[k].kind \in {"ARG", "RETURN"}
  BY <1>2 DEF BundleOperand, TrueReads, Reads, Binary
<1>3. CASE code[k].kind \notin {"ARG", "RETURN"}
  BY <1>1, <1>3 DEF BundleOperand, Written, Writes, Conventions, Binary
<1>4. QED
  BY <1>2, <1>3

(* A writer has a bundle, unless it is a comparison for the next jump.      *)
LEMMA WriterHasBundle ==
  ASSUME NEW k \in Indices(code), NEW op \in Written(code[k]), ~PrecedesConditional(code, k)
  PROVE  k \in Bundled(code)
BY WrittenKind DEF Bundled, HasBundle, PassedOver, Binary

LEMMA ReadIsOperand ==
  ASSUME Typed(code), NEW k \in Indices(code), NEW op \in TrueReads(code[k])
  PROVE  op \in Operands /\ op # None /\ op # Ret
<1>1. code[k].kind \notin PassedOver
  BY DEF TrueReads, Reads, PassedOver, Binary
<1>2. {code[k].op1, code[k].op2} \subseteq Operands \cup {None}
  BY <1>1 DEF Typed
<1>3. QED
  BY <1>2 DEF TrueReads, Reads

(* An operand that one instruction writes and a bundle places: that         *)
(* instruction's bundle is its first.                                       *)
LEMMA FirstBundle ==
  ASSUME WellBuilt(code), NEW k \in Indices(code), NEW w \in Written(code[k]),
         DefinedOnce(code, w), NEW m \in Bundled(code), BundleOperand(code[m]) = w
  PROVE  k <= m
<1>1. w \in Operands \ (Opaque \cup {Ret, None}) /\ m \in Indices(code) /\ Len(code) \in Nat
  BY DEF WellBuilt, Typed, Bundled
<1>2. w \in Written(code[m]) \cup TrueReads(code[m])
  BY <1>1, BundleOperandUse DEF WellBuilt
<1>3. CASE w \in Written(code[m])
  BY <1>1, <1>3 DEF DefinedOnce, Indices
<1>4. CASE w \in TrueReads(code[m])
  <2>1. PICK first \in Indices(code), last \in Indices(code) : Scope(code, w, first, last)
    BY <1>1, <1>4 DEF WellBuilt, WrittenFirst
  <2>2. first = k /\ m \in (first + 1)..last
    BY <1>1, <1>4, <2>1 DEF Scope, DefinedOnce
  <2>3. QED
    BY <1>1, <2>2 DEF Indices
<1>5. QED
  BY <1>2, <1>3, <1>4

(* It has its place from a bundle, unless it is a parameter. *)
LEMMA NotByConvention ==
  ASSUME Allocated, NEW k \in Indices(code), NEW w \in Written(code[k]), InRegister(w),
         DefinedOnce(code, w), code[k].kind # "PARAM"
  PROVE  w \notin precolored
<1>1. WellBuilt(code) /\ FreshLabels(code)
  BY DEF Allocated, Solved, Analysed, WellBuilt
<1>2. SUFFICES ASSUME RAP!FromConvention(w)
               PROVE  FALSE
  BY DEF Allocated, RAP!ConventionInv
<1>3. PICK m \in 1..Len(code) :
         \/ code[m].kind \in {"ARG", "RETURN"} /\ code[m].result = w
         \/ code[m].kind = "PARAM" /\ code[m].op1 = w
         \/ code[m].kind = "ARG" /\ code[m].op1 = w /\ permanent_frame_position[w]
  BY <1>2 DEF RAP!FromConvention
<1>4. m \in Indices(code)
  BY DEF Indices
<1>5. ~(code[m].kind \in {"ARG", "RETURN"} /\ code[m].result = w)
  BY <1>1, <1>4 DEF FreshLabels, Conventions
<1>6. ~(code[m].kind = "PARAM" /\ code[m].op1 = w)
  <2>1. code[m].kind = "PARAM" /\ code[m].op1 = w => w \in Written(code[m])
    BY DEF Written
  <2>2. QED
    BY <1>4, <2>1 DEF DefinedOnce
<1>7. QED
  BY <1>3, <1>5, <1>6 DEF InRegister

Order == InOrder(Bundled(code))

LEMMA GraphOrder ==
  ASSUME Allocated
  PROVE  /\ Len(graph) \in Nat
         /\ Order \in [1..Len(graph) -> Bundled(code)]
         /\ \A n \in 1..Len(graph) :
               graph[n] = Bundle(code, Order[n], live_out[Order[n]])
         /\ \A n \in 1..Len(graph) : graph[n].operand = BundleOperand(code[Order[n]])
         /\ \A k \in Bundled(code) : \E n \in 1..Len(graph) : Order[n] = k
         /\ \A m, n \in 1..Len(graph) : Order[m] < Order[n] <=> m < n
<1>1. Len(code) \in Nat /\ graph = populate_interference_graph(code, live_out)
  BY DEF Allocated, Solved, Analysed, WellBuilt, Typed
<1>2. /\ Len(graph) \in Nat
      /\ Order \in [1..Len(graph) -> Bundled(code)]
      /\ \A n \in 1..Len(graph) : graph[n] = Bundle(code, Order[n], live_out[Order[n]])
      /\ \A k \in Bundled(code) : \E n \in 1..Len(graph) : Order[n] = k
      /\ \A m, n \in 1..Len(graph) : Order[m] < Order[n] <=> m < n
  BY <1>1, BundlesInOrder DEF Order
<1>3. ASSUME NEW n \in 1..Len(graph)
      PROVE  graph[n].operand = BundleOperand(code[Order[n]])
  <2>1. PICK k, S : k = Order[n] /\ S = live_out[k]
    OBVIOUS
  <2>2. graph[n] = Bundle(code, k, S)
    BY <1>2, <2>1
  <2>3. Bundle(code, k, S).operand = BundleOperand(code[k])
    BY DEF Bundle
  <2>4. QED
    BY <2>1, <2>2, <2>3
<1>4. QED
  BY <1>2, <1>3

(* An operand in a register that is no parameter was placed by the bundle   *)
(* of the instruction that writes it.                                       *)
LEMMA WriterIsPlaced ==
  ASSUME Allocated, NEW k \in Indices(code), NEW w \in Written(code[k]), InRegister(w),
         DefinedOnce(code, w), code[k].kind # "PARAM"
  PROVE  \E n \in 1..Len(graph) : /\ Order[n] = k /\ graph[n].operand = w
                                 /\ RAP!Placed(n)
<1>1. /\ WellBuilt(code) /\ RAP!ColoringInv /\ pass = "done" /\ RAP!TypeOK
      /\ w \in Operands \ {Ret, None} /\ Len(code) \in Nat
  BY DEF Allocated, Solved, Analysed, WellBuilt, Typed, RAP!Inv
<1>2. w \notin precolored
  BY NotByConvention
<1>3. PICK l \in 1..Len(graph) : graph[l].operand = w
  <2>1. RAP!HasPlace(w)
    BY DEF InRegister, RA!Unassigned, RAP!HasPlace, RAP!Unassigned
  <2>2. RAP!Reached(w)
    BY <1>1, <1>2, <2>1 DEF RAP!ColoringInv
  <2>3. QED
    BY <2>2 DEF RAP!Reached
<1>4. Order[l] \in Bundled(code) /\ BundleOperand(code[Order[l]]) = w
  BY <1>3, GraphOrder
<1>5. ~PrecedesConditional(code, k)
  <2> SUFFICES ASSUME PrecedesConditional(code, k)
               PROVE  FALSE
    OBVIOUS
  <2>1. code[k].result = w
    BY WrittenKind DEF PrecedesConditional
  <2>2. PICK m \in Indices(code) : m = Order[l] /\ m \in Bundled(code)
    BY <1>4 DEF Bundled
  <2>3. w \in Written(code[m]) \cup TrueReads(code[m])
    BY <1>1, <1>4, <2>2, BundleOperandUse DEF WellBuilt
  <2>4. m = k
    BY <1>1, <2>1, <2>3 DEF WellBuilt, TestsAreTemporaries
  <2>5. QED
    BY <2>2, <2>4 DEF Bundled, HasBundle
<1>6. PICK n \in 1..Len(graph) : Order[n] = k
  BY <1>5, WriterHasBundle, GraphOrder
<1>7. graph[n].operand = w
  BY <1>6, GraphOrder, WrittenKind
<1>8. \A m \in 1..(n - 1) : graph[m].operand # w
  <2> SUFFICES ASSUME NEW m \in 1..(n - 1), graph[m].operand = w
               PROVE  FALSE
    OBVIOUS
  <2>1. m \in 1..Len(graph) /\ m < n
    BY GraphOrder
  <2>2. Order[m] \in Bundled(code) /\ BundleOperand(code[Order[m]]) = w
    BY <2>1, GraphOrder
  <2>3. k <= Order[m] /\ Order[m] \in Indices(code)
    BY <1>1, <2>2, FirstBundle DEF Bundled
  <2>4. Order[m] < Order[n]
    BY <2>1, GraphOrder
  <2>5. QED
    BY <1>1, <1>6, <2>3, <2>4 DEF Indices
<1>9. n < pos
  BY <1>1, GraphOrder DEF RAP!ColoringInv, RAP!TypeOK
<1>10. QED
  BY <1>1, <1>2, <1>6, <1>7, <1>8, <1>9 DEF RAP!Placed

(* op is live where w alone is written, after a definition of op: if both    *)
(* are in registers, they are in different ones.                             *)
Overlap(k, w, op, first) ==
  /\ k \in Indices(code) /\ w \in Written(code[k])
  /\ DefinedOnce(code, w) /\ InRegister(w)
  /\ first \in Indices(code) /\ first < k /\ op \in Written(code[first])
  /\ InRegister(op) /\ ReadSomewhere(op) /\ ~SelfAssigned(op)
  /\ LiveIn(k, op)

LEMMA OverlapFacts ==
  ASSUME Allocated, NEW k, NEW w, NEW op, NEW first, Overlap(k, w, op, first)
  PROVE  /\ WellBuilt(code) /\ Len(code) \in Nat
         /\ first < k /\ first \in Nat /\ k \in Nat
         /\ first \in Indices(code) /\ op \in Written(code[first]) /\ op # w
         /\ op \in Operands
         /\ op \in live_out[k]
         /\ \A m \in Indices(code) : PrecedesConditional(code, m) => op # code[m].result
<1>1. Analysed /\ WellBuilt(code) /\ Typed(code) /\ Len(code) \in Nat
  BY DEF Allocated, Solved, Analysed, WellBuilt, Typed
<1>2. first < k /\ first \in Nat /\ k \in Nat
  BY <1>1 DEF Overlap, Indices
<1>3. op # w
  BY <1>2 DEF Overlap, DefinedOnce
<1> first \in Indices(code) /\ op \in Written(code[first])
  BY DEF Overlap
<1>4. PICK r \in Indices(code) : op \in TrueReads(code[r])
  BY DEF Overlap, ReadSomewhere
<1>5. op \in Operands
  BY <1>1, <1>4, ReadIsOperand
<1>6. op \in live_out[k]
  BY RecordedLive DEF Overlap, Allocated
<1>7. \A m \in Indices(code) : PrecedesConditional(code, m) => op # code[m].result
  BY <1>1, <1>4 DEF WellBuilt, TestsAreTemporaries
<1>8. QED
  BY <1>1, <1>2, <1>3, <1>5, <1>6, <1>7

(* Two parameters: the convention's registers are all different. *)
LEMMA ParametersApart ==
  ASSUME Allocated, NEW k, NEW w, NEW op, NEW first, Overlap(k, w, op, first),
         code[k].kind = "PARAM"
  PROVE  assigned_register[w] # assigned_register[op]
<1>1. /\ WellBuilt(code) /\ first < k /\ first \in Nat /\ k \in Nat
      /\ op \in Written(code[first]) /\ w \in Written(code[k])
      /\ first \in Indices(code) /\ k \in Indices(code)
  BY OverlapFacts DEF Overlap
<1>2. code[first].kind = "PARAM"
  BY <1>1 DEF WellBuilt, ParamsFirst
<1>3. op = code[first].op1 /\ w = code[k].op1
  BY <1>1, <1>2, WrittenKind
<1>4. ASSUME NEW l \in Indices(code), NEW o \in Written(code[l]),
             code[l].kind = "PARAM", o = code[l].op1, InRegister(o)
      PROVE  assigned_register[o] = ArgOffset + (l - 1)
  <2>1. RAP!Sole(l)
    <3>1. \A m \in Indices(code) : m # l /\ code[m].kind = "PARAM" => code[m].op1 # o
      BY <1>1, <1>4 DEF WellBuilt, ParamsFirst
    <3>2. \A m \in Indices(code) : code[m].kind \in {"ARG", "RETURN"} => code[m].result # o
      BY <1>1, <1>4 DEF WellBuilt, FreshLabels, Conventions
    <3>3. QED
      BY <1>4, <3>1, <3>2 DEF RAP!Sole, Indices
  <2>2. RAP!ParamPlaced(l)
    BY <2>1 DEF Allocated, RAP!ParamInv, Indices
  <2>3. QED
    BY <1>4, <2>2 DEF RAP!ParamPlaced, InRegister
<1>5. assigned_register[op] = ArgOffset + (first - 1) /\ assigned_register[w] = ArgOffset + (k - 1)
  BY <1>1, <1>2, <1>3, <1>4 DEF Overlap
<1>6. QED
  BY <1>1, <1>5, BackendAssumption

(* What is live at an instruction with a bundle is in the bundle. *)
LEMMA LiveIsNeighbour ==
  ASSUME Allocated, NEW k, NEW w, NEW op, NEW first, Overlap(k, w, op, first),
         code[k].kind # "PARAM"
  PROVE  op \in Bundle(code, k, live_out[k]).interferes_with
<1>1. /\ op \in live_out[k] /\ op # w
      /\ \A m \in Indices(code) : PrecedesConditional(code, m) => op # code[m].result
  BY OverlapFacts
<1>2. code[k].kind # "ARG" /\ w = code[k].result
  BY WrittenKind DEF Overlap, Binary
<1>3. op \in LiveNeighbours(code, k, live_out[k])
  BY <1>1, <1>2 DEF LiveNeighbours
<1>4. QED
  BY <1>3 DEF Bundle

LEMMA NeverClobbered ==
  ASSUME Allocated, NEW k, NEW w, NEW op, NEW first, Overlap(k, w, op, first)
  PROVE  assigned_register[w] # assigned_register[op]
<1>1. CASE code[k].kind = "PARAM"
  BY <1>1, ParametersApart
<1>2. CASE code[k].kind # "PARAM"
  <2>1. PICK n \in 1..Len(graph) : Order[n] = k /\ graph[n].operand = w /\ RAP!Placed(n)
    BY <1>2, WriterIsPlaced DEF Overlap
  <2>2. op \in graph[n].interferes_with
    <3>1. graph[n] = Bundle(code, k, live_out[k])
      BY <2>1, GraphOrder
    <3>2. QED
      BY <1>2, <3>1, LiveIsNeighbour
  <2>3. RAP!PlacedBefore(op, n)
    <3>1. first \in Bundled(code)
      <4>1. /\ first \in Indices(code) /\ op \in Written(code[first])
            /\ \A m \in Indices(code) : PrecedesConditional(code, m) => op # code[m].result
        BY OverlapFacts
      <4>2. PrecedesConditional(code, first) => op = code[first].result
        BY <4>1, WrittenKind DEF PrecedesConditional
      <4>3. QED
        BY <4>1, <4>2, WriterHasBundle
    <3>2. PICK l \in 1..Len(graph) : Order[l] = first
      BY <3>1, GraphOrder
    <3>3. graph[l].operand = op
      BY <3>2, GraphOrder, OverlapFacts, WrittenKind
    <3>4. l < n /\ Len(graph) \in Nat
      BY <2>1, <3>2, GraphOrder, OverlapFacts
    <3>5. QED
      BY <3>3, <3>4 DEF RAP!PlacedBefore
  <2>4. ~RAP!Shares(w, op)
    BY <2>1, <2>2, <2>3 DEF Allocated, RAP!Inv, RAP!NoShareWithEarlier
  <2>5. QED
    BY <2>4 DEF RAP!Shares, Overlap, InRegister, RA!Unassigned, RAP!Unassigned
<1>3. QED
  BY <1>1, <1>2

------------------------------------------------------------------------------
(* The machines Backend runs are the ones the other modules prove about.     *)
LEMMA SameLiveness == L!Next <=> LP!Next
BY DEF L!Next, L!StartPass, L!Visit, L!Return, L!new_in, L!new_out, L!difference_sets,
       L!contains_operand, L!sets_equal, L!graph,
       LP!Next, LP!StartPass, LP!Visit, LP!Return, LP!new_in, LP!new_out, LP!difference_sets,
       LP!contains_operand, LP!sets_equal, LP!graph

LEMMA SameCandidates == RA!Candidates(RA!Bundle) = RAP!Candidates(RAP!Bundle)
BY DEF RA!Candidates, RA!FreeRegisters, RA!Registers, RA!Bundle,
       RAP!Candidates, RAP!FreeRegisters, RAP!Registers, RAP!Bundle

LEMMA SameAllocation == RA!Next <=> RAP!Next
<1>1. RA!PreColor <=> RAP!PreColor
  BY DEF RA!PreColor, RA!PreColorArg, RA!PreColorParam, RA!PreColorCall, RA!PreColorReturn,
         RA!PreColorOther, RA!At, RA!ToRegister, RA!ToFrame, RA!inputs,
         RAP!PreColor, RAP!PreColorArg, RAP!PreColorParam, RAP!PreColorCall, RAP!PreColorReturn,
         RAP!PreColorOther, RAP!At, RAP!ToRegister, RAP!ToFrame, RAP!inputs
<1>2. RA!Color <=> RAP!Color
  BY SameCandidates
     DEF RA!Color, RA!SkipBundle, RA!AssignRegister, RA!GiveFramePosition, RA!AtBundle, RA!Bundle,
         RA!HasPlace, RA!Unassigned, RA!ToRegister, RA!ToFrame, RA!inputs,
         RAP!Color, RAP!SkipBundle, RAP!AssignRegister, RAP!GiveFramePosition, RAP!AtBundle,
         RAP!Bundle, RAP!HasPlace, RAP!Unassigned, RAP!ToRegister, RAP!ToFrame, RAP!inputs
<1>3. (RA!StartColoring <=> RAP!StartColoring) /\ (RA!Finish <=> RAP!Finish)
  BY DEF RA!StartColoring, RA!Finish, RA!HasPlace, RA!Unassigned, RA!inputs,
         RAP!StartColoring, RAP!Finish, RAP!HasPlace, RAP!Unassigned, RAP!inputs
<1>4. QED
  BY <1>1, <1>2, <1>3 DEF RA!Next, RAP!Next

(* The graph that is analysed has the types the analysis expects. *)
LEMMA GraphTyped ==
  ASSUME Typed(code), NEW bs, bs = make_function_cfgs(code), NEW b \in DOMAIN bs
  PROVE  /\ link_function_cfgs(code, bs)[b] \subseteq DOMAIN bs
         /\ Uses(code, bs[b]) \subseteq Operands
         /\ Defs(code, bs[b]) \subseteq Operands \ Opaque
<1>1. Len(code) \in Nat \ {0}
  BY DEF Typed
<1>2. b \in 1..Count(code) /\ bs[b] = Starts(code)[b] .. End(code, b)
  BY <1>1, BlockShape
<1>3. bs[b] \subseteq Indices(code)
  BY <1>1, <1>2, BlockShape DEF Indices
<1>4. link_function_cfgs(code, bs)[b] \subseteq DOMAIN bs
  <2> DEFINE last == code[LastOf(bs[b])]
  <2>1. link_function_cfgs(code, bs)[b] =
          CASE last.kind = "GOTO" -> find_matching_label_block(code, bs, last.result)
            [] last.kind = "IF_FALSE" ->
                 ({b + 1} \cap DOMAIN bs) \cup find_matching_label_block(code, bs, last.op2)
            [] last.kind = "RETURN"   -> {}
            [] OTHER                  -> {b + 1} \cap DOMAIN bs
    BY DEF link_function_cfgs
  <2>2. \A label : find_matching_label_block(code, bs, label) \subseteq DOMAIN bs
    BY DEF find_matching_label_block
  <2> HIDE DEF last
  <2>3. QED
    BY <2>1, <2>2
<1>5. \A k \in bs[b] : Reads(code[k]) \subseteq Operands
  BY <1>3 DEF Typed
<1>6. \A k \in bs[b] : Writes(code[k]) \subseteq Operands \ Opaque
  BY <1>3 DEF Typed, Written
<1>7. QED
  BY <1>4, <1>5, <1>6 DEF Uses, Defs

(* So do the bundles and the restrictions that are colored. *)
LEMMA BundlesTyped ==
  ASSUME Typed(code), \A k \in Indices(code) : live_out[k] \subseteq Operands
  PROVE  populate_interference_graph(code, live_out)
           \in Seq([operand : Operands, interferes_with : SUBSET Operands])
<1> DEFINE bundles == populate_interference_graph(code, live_out)
           at == InOrder(Bundled(code))
<1>1. Len(code) \in Nat
  BY DEF Typed
<1>2. /\ Len(bundles) \in Nat /\ DOMAIN bundles = 1..Len(bundles)
      /\ at \in [1..Len(bundles) -> Bundled(code)]
      /\ \A n \in 1..Len(bundles) : bundles[n] = Bundle(code, at[n], live_out[at[n]])
  BY <1>1, BundlesInOrder
<1>3. ASSUME NEW k \in Bundled(code)
      PROVE  Bundle(code, k, live_out[k]) \in [operand : Operands, interferes_with : SUBSET Operands]
  <2>1. k \in Indices(code)
    BY DEF Bundled
  <2>2. BundleOperand(code[k]) \in Operands
    <3>1. /\ code[k].kind \in Binary \cup {"CONST", "NOT", "ASSIGN", "PARAM", "ARG", "RETURN"}
          /\ code[k].kind \in {"PARAM", "ARG", "RETURN"} => code[k].op1 \in Operands
          /\ Written(code[k]) \subseteq Operands
      BY <2>1 DEF Typed, Bundled, HasBundle, Conventions
    <3>2. QED
      BY <3>1 DEF BundleOperand, Written, Writes, Binary
  <2>3. LiveNeighbours(code, k, live_out[k]) \subseteq Operands
    BY <2>1 DEF LiveNeighbours
  <2>4. \A m \in Indices(code) : Source(code[m]) \subseteq Operands
    BY DEF Source, Typed
  <2>5. ToldLater(code, k) \subseteq Operands
    <3>1. \A m \in Indices(code) : Source(code[m]) # {} => code[m].result \in Operands
      BY DEF Source, Typed, Written, Writes
    <3>2. QED
      BY <3>1 DEF ToldLater
  <2>6. QED
    BY <2>1, <2>2, <2>3, <2>4, <2>5 DEF Bundle
<1> DEFINE T == [operand : Operands, interferes_with : SUBSET Operands]
<1>4. \A n \in 1..Len(bundles) : bundles[n] \in T
  <2> SUFFICES ASSUME NEW n \in 1..Len(bundles)
               PROVE  bundles[n] \in T
    OBVIOUS
  <2>1. PICK k \in Bundled(code) : k = at[n]
    BY <1>2
  <2>2. bundles[n] = Bundle(code, k, live_out[k])
    BY <1>2, <2>1
  <2>3. QED
    BY <1>3, <2>2
<1>5. bundles = [n \in 1..Len(bundles) |-> bundles[n]]
  BY <1>2 DEF populate_interference_graph
<1> HIDE DEF T, bundles
<1>6. bundles \in Seq(T)
  BY <1>2, <1>4, <1>5
<1>7. QED
  BY <1>6 DEF T, bundles

LEMMA RestrictionsTyped ==
  ASSUME Typed(code)
  PROVE  Restrictions(code, Operands) \in [Operands -> SUBSET (0..(NumRegisters - 1))]
<1>1. \A ins, op : RestrictedTo(ins, op) \subseteq 0..(NumRegisters - 1)
  BY BackendAssumption DEF RestrictedTo
<1>2. QED
  BY <1>1 DEF Restrictions

------------------------------------------------------------------------------
(* The inductive invariant: what each stage has left for the next.           *)
StageInv ==
  /\ WellBuilt(code)
  /\ stage \in {"cfg", "liveness", "interference", "allocate", "run"}
  /\ stage = "cfg" => i = 0 /\ changed = TRUE /\ done = FALSE
  /\ stage # "cfg" => Analysed /\ LP!TypeOK /\ LP!SettledInv
  /\ stage \in {"cfg", "liveness", "interference"} => RAP!Start
  /\ stage \in {"interference", "allocate", "run"} =>
       done /\ live_out = compute_instruction_live_out(code, blocks, out_set)
  /\ stage \in {"allocate", "run"} =>
       /\ graph = populate_interference_graph(code, live_out)
       /\ RAP!Inv /\ RAP!ConventionInv /\ RAP!ParamInv
  /\ stage = "run" => pass = "done"
  /\ stage # "run" => pc = 1
  /\ DOMAIN holds = RA!Registers

(* The fixed point solves the blocks' equations. *)
LEMMA DoneIsSolved ==
  ASSUME Analysed, LP!TypeOK, LP!SettledInv, done
  PROVE  /\ Solved
         /\ out_set \in [DOMAIN blocks -> SUBSET Operands]
         /\ \A b \in DOMAIN blocks : in_set[b] \cap Opaque = {}
<1>1. DOMAIN successors = DOMAIN blocks
  BY DEF Analysed, link_function_cfgs
<1>2. /\ out_set \in [DOMAIN blocks -> SUBSET Operands]
      /\ \A b \in DOMAIN blocks : def_set[b] \cap Opaque = {}
  BY <1>1 DEF LP!TypeOK, LP!Blocks
<1>3. DOMAIN blocks = 1..Len(successors) /\ Len(successors) \in Nat
  BY <1>1 DEF LP!TypeOK
<1>4. ASSUME NEW b \in DOMAIN blocks
      PROVE  /\ out_set[b] = UNION {in_set[s] : s \in successors[b]}
             /\ in_set[b] = use_set[b] \cup (out_set[b] \ def_set[b])
             /\ in_set[b] \cap Opaque = {}
  <2>1. LP!Settled(b)
    BY <1>1, <1>3, <1>4 DEF LP!SettledInv, LP!Blocks
  <2>2. LP!difference_sets(out_set[b], def_set[b]) = out_set[b] \ def_set[b]
    BY <1>2 DEF LP!difference_sets, LP!contains_operand
  <2>3. QED
    BY <2>1, <2>2 DEF LP!Settled, LP!new_out, LP!new_in
<1>5. QED
  BY <1>2, <1>4 DEF Solved

LEMMA BuildCfgStep == StageInv /\ BuildCfg => StageInv'
<1> SUFFICES ASSUME StageInv, BuildCfg
             PROVE  StageInv'
  OBVIOUS
<1>1. /\ code' = code /\ Typed(code) /\ WellBuilt(code)
      /\ stage = "cfg" /\ stage' = "liveness"
      /\ UNCHANGED <<i, changed, done, live_out, graph, restricted_regs, assigned_register,
                     permanent_frame_position, arg_index, param_index, pos, pass, precolored,
                     pc, holds>>
  BY DEF StageInv, BuildCfg, WellBuilt, coloring, run
<1>2. PICK bs : bs = make_function_cfgs(code)
  OBVIOUS
<1>3. /\ blocks' = bs /\ successors' = link_function_cfgs(code, bs)
      /\ use_set' = [b \in DOMAIN bs |-> Uses(code, bs[b])]
      /\ def_set' = [b \in DOMAIN bs |-> Defs(code, bs[b])]
      /\ in_set' = [b \in DOMAIN bs |-> {}] /\ out_set' = [b \in DOMAIN bs |-> {}]
  BY <1>2 DEF BuildCfg
<1>4. WellBuilt(code)'
  BY <1>1 DEF WellBuilt, Typed, FreshLabels, ParamsFirst, JumpsEndBlocks, TestsAreTemporaries,
              WrittenFirst, Scope, DefinedOnce
<1>5. Analysed'
  BY <1>1, <1>2, <1>3, <1>4 DEF Analysed
<1>6. DOMAIN bs = 1..Count(code) /\ Count(code) \in Nat
  BY <1>1, <1>2, BlockShape, LeadersListed DEF Typed
<1>7. DOMAIN successors' = DOMAIN bs
  BY <1>3 DEF link_function_cfgs
<1>8. successors' = [b \in 1..Count(code) |-> successors'[b]]
  BY <1>3, <1>6 DEF link_function_cfgs
<1>9. \A b \in DOMAIN bs : successors'[b] \subseteq DOMAIN bs
  BY <1>1, <1>2, <1>3, GraphTyped
<1>10. successors' \in Seq(SUBSET Nat) /\ Len(successors') = Count(code)
  <2>1. \A b \in 1..Count(code) : successors'[b] \in SUBSET Nat
    BY <1>6, <1>9
  <2>2. QED
    BY <1>6, <1>8, <2>1
<1>11. /\ use_set' \in [DOMAIN bs -> SUBSET Operands]
       /\ def_set' \in [DOMAIN bs -> SUBSET (Operands \ Opaque)]
  BY <1>1, <1>2, <1>3, GraphTyped
<1>12. LP!TypeOK'
  <2>1. i' = 0 /\ changed' = TRUE /\ done' = FALSE
    BY <1>1 DEF StageInv
  <2>2. i' \in 0..Len(successors')
    BY <1>6, <1>10, <2>1
  <2>3. QED
    BY <1>3, <1>7, <1>9, <1>10, <1>11, <2>1, <2>2 DEF LP!TypeOK, LP!Blocks
<1>13. LP!SettledInv'
  BY <1>1 DEF StageInv, LP!SettledInv
<1>14. RAP!Start'
  BY <1>1 DEF StageInv, RAP!Start
<1>15. QED
  BY <1>1, <1>4, <1>5, <1>12, <1>13, <1>14 DEF StageInv

LEMMA AnalysedKept ==
  ASSUME UNCHANGED <<code, blocks, successors, use_set, def_set>>
  PROVE  (Analysed' <=> Analysed) /\ (WellBuilt(code)' <=> WellBuilt(code))
<1>1. WellBuilt(code)' <=> WellBuilt(code)
  BY DEF WellBuilt, Typed, FreshLabels, ParamsFirst, JumpsEndBlocks, TestsAreTemporaries,
         WrittenFirst, Scope, DefinedOnce
<1>2. QED
  BY <1>1 DEF Analysed

LEMMA LivenessStep == StageInv /\ IterateLiveness => StageInv'
<1> SUFFICES ASSUME StageInv, IterateLiveness
             PROVE  StageInv'
  OBVIOUS
<1>1. /\ stage = "liveness" /\ stage' = "liveness"
      /\ LP!Next /\ LP!TypeOK /\ LP!SettledInv /\ Analysed /\ WellBuilt(code)
      /\ UNCHANGED <<code, blocks, live_out, graph, restricted_regs, assigned_register,
                     permanent_frame_position, arg_index, param_index, pos, pass, precolored,
                     pc, holds>>
  BY SameLiveness DEF StageInv, IterateLiveness, coloring, run
<1>2. LP!TypeOK' /\ LP!SettledInv'
  <2>1. Opaque \subseteq Operands
    BY BackendAssumption
  <2>2. QED
    BY <1>1, <2>1, LP!TypeNext, LP!SettledNext
<1>3. UNCHANGED <<successors, use_set, def_set>>
  BY <1>1 DEF LP!Next, LP!StartPass, LP!Visit, LP!Return, LP!graph
<1>4. RAP!Start'
  BY <1>1 DEF StageInv, RAP!Start
<1>5. QED
  BY <1>1, <1>2, <1>3, <1>4, AnalysedKept DEF StageInv

LEMMA RecordStep == StageInv /\ RecordLiveOut => StageInv'
<1> SUFFICES ASSUME StageInv, RecordLiveOut
             PROVE  StageInv'
  OBVIOUS
<1>1. /\ stage = "liveness" /\ stage' = "interference" /\ done
      /\ live_out' = compute_instruction_live_out(code, blocks, out_set)
      /\ UNCHANGED <<code, blocks, successors, use_set, def_set, in_set, out_set, i, changed, done,
                     graph, restricted_regs, assigned_register, permanent_frame_position,
                     arg_index, param_index, pos, pass, precolored, pc, holds>>
  BY DEF StageInv, RecordLiveOut, analysis, coloring, run
<1>2. LP!TypeOK' /\ LP!SettledInv' /\ RAP!Start'
  BY <1>1 DEF StageInv, RAP!Start, LP!TypeOK, LP!SettledInv, LP!Settled, LP!Blocks, LP!new_out,
              LP!new_in, LP!difference_sets, LP!contains_operand
<1>3. QED
  BY <1>1, <1>2, AnalysedKept DEF StageInv

LEMMA InterferenceStep == StageInv /\ PopulateInterference => StageInv'
<1> SUFFICES ASSUME StageInv, PopulateInterference
             PROVE  StageInv'
  OBVIOUS
<1>1. /\ stage = "interference" /\ stage' = "allocate" /\ done /\ Analysed
      /\ live_out = compute_instruction_live_out(code, blocks, out_set)
      /\ graph' = populate_interference_graph(code, live_out)
      /\ restricted_regs' = Restrictions(code, Operands)
      /\ UNCHANGED <<code, blocks, successors, use_set, def_set, in_set, out_set, i, changed, done,
                     live_out, assigned_register, permanent_frame_position,
                     arg_index, param_index, pos, pass, precolored, pc, holds>>
  BY DEF StageInv, PopulateInterference, analysis, run
<1>2. LP!TypeOK' /\ LP!SettledInv' /\ RAP!Start'
  BY <1>1 DEF StageInv, RAP!Start, LP!TypeOK, LP!SettledInv, LP!Settled, LP!Blocks, LP!new_out,
              LP!new_in, LP!difference_sets, LP!contains_operand
<1>3. Typed(code) /\ Len(code) \in Nat
  BY <1>1 DEF Analysed, WellBuilt, Typed
<1>4. \A k \in Indices(code) : live_out[k] \subseteq Operands
  <2>1. out_set \in [DOMAIN blocks -> SUBSET Operands]
    BY <1>1, DoneIsSolved DEF StageInv
  <2>2. QED
    BY <1>1, <2>1, RecordedTyped
<1>5. graph' \in Seq([operand : Operands, interferes_with : SUBSET Operands])
  BY <1>1, <1>3, <1>4, BundlesTyped
<1>6. RAP!InputsOK'
  <2>1. \A k \in 1..Len(code) :
          /\ code[k].kind \in {"ARG", "RETURN"} => code[k].result \in Operands
          /\ code[k].kind \in {"ARG", "PARAM"}  => code[k].op1 \in Operands
    BY <1>3 DEF Typed, Indices
  <2>2. restricted_regs' \in [Operands -> SUBSET (0..(NumRegisters - 1))]
    BY <1>1, <1>3, RestrictionsTyped
  <2>3. QED
    BY <1>1, <1>3, <1>5, <2>1, <2>2 DEF RAP!InputsOK, RAP!Registers
<1>7. RAP!Inv'
  <2>1. /\ pass' = "precolor" /\ pos' = 1 /\ param_index' = 0 /\ arg_index' = 0
        /\ precolored' = {}
        /\ assigned_register' = [op \in Operands |-> RAP!Unassigned]
        /\ permanent_frame_position' = [op \in Operands |-> FALSE]
    BY <1>2 DEF RAP!Start
  <2>2. RAP!TypeOK'
    BY <1>6, <2>1, BackendAssumption DEF RAP!TypeOK, RAP!Unassigned, RAP!Registers
  <2>3. QED
    BY <2>1, <2>2 DEF RAP!Inv, RAP!ColoringInv, RAP!NoShareWithEarlier, RAP!RestrictionsKept,
                      RAP!FrameOnlyWhenForced, RAP!Placed
<1>8. RAP!ConventionInv' /\ RAP!ParamInv'
  <2>1. /\ pass' = "precolor" /\ pos' = 1 /\ param_index' = 0
        /\ assigned_register' = [op \in Operands |-> RAP!Unassigned]
        /\ permanent_frame_position' = [op \in Operands |-> FALSE]
    BY <1>2 DEF RAP!Start
  <2>2. QED
    BY <2>1, BackendAssumption DEF RAP!ConventionInv, RAP!HasPlace, RAP!ParamInv, RAP!ParamCounter
<1>9. QED
  BY <1>1, <1>2, <1>7, <1>8, AnalysedKept DEF StageInv

LEMMA AllocateStep == StageInv /\ Allocate => StageInv'
<1> SUFFICES ASSUME StageInv, Allocate
             PROVE  StageInv'
  OBVIOUS
<1>1. /\ stage = "allocate" /\ stage' = IF pass' = "done" THEN "run" ELSE "allocate"
      /\ RAP!Next /\ RAP!Inv /\ RAP!ConventionInv /\ RAP!ParamInv /\ done
      /\ graph = populate_interference_graph(code, live_out)
      /\ live_out = compute_instruction_live_out(code, blocks, out_set)
      /\ UNCHANGED <<blocks, successors, use_set, def_set, in_set, out_set, i, changed, done,
                     live_out, pc, holds>>
  BY SameAllocation DEF StageInv, Allocate, analysis, run
<1>2. UNCHANGED <<code, graph, restricted_regs>>
  BY <1>1 DEF RAP!Next, RAP!PreColor, RAP!Color, RAP!PreColorArg, RAP!PreColorParam,
              RAP!PreColorCall, RAP!PreColorReturn, RAP!PreColorOther, RAP!StartColoring,
              RAP!SkipBundle, RAP!AssignRegister, RAP!GiveFramePosition, RAP!Finish, RAP!inputs
<1>3. LP!TypeOK' /\ LP!SettledInv'
  BY <1>1 DEF StageInv, LP!TypeOK, LP!SettledInv, LP!Settled, LP!Blocks, LP!new_out,
              LP!new_in, LP!difference_sets, LP!contains_operand
<1>4. RAP!Inv'
  BY <1>1, BackendAssumption, RAP!InvStep
<1>5. RAP!TypeOK
  BY <1>1 DEF RAP!Inv
<1>6. RAP!ConventionInv'
  BY <1>1, <1>5, BackendAssumption, RAP!ConventionStep
<1>7. RAP!ParamsLead
  BY DEF StageInv, WellBuilt, ParamsFirst, RAP!ParamsLead, Indices
<1>8. RAP!ParamInv'
  BY <1>1, <1>5, <1>7, BackendAssumption, RAP!ParamStep
<1>9. QED
  BY <1>1, <1>2, <1>3, <1>4, <1>6, <1>8, AnalysedKept DEF StageInv

LEMMA ExecuteStep == StageInv /\ Execute => StageInv'
<1> SUFFICES ASSUME StageInv, Execute
             PROVE  StageInv'
  OBVIOUS
<1>1. /\ stage = "run" /\ stage' = "run" /\ DOMAIN holds' = DOMAIN holds
      /\ UNCHANGED <<code, blocks, successors, use_set, def_set, in_set, out_set, i, changed, done,
                     live_out, graph, restricted_regs, assigned_register,
                     permanent_frame_position, arg_index, param_index, pos, pass, precolored>>
  BY DEF Execute, analysis, coloring
<1>2. LP!TypeOK' /\ LP!SettledInv'
  BY <1>1 DEF StageInv, LP!TypeOK, LP!SettledInv, LP!Settled, LP!Blocks, LP!new_out,
              LP!new_in, LP!difference_sets, LP!contains_operand
<1>3. RAP!Inv' /\ RAP!ConventionInv' /\ RAP!ParamInv'
  <2>1. UNCHANGED RAP!vars
    BY <1>1 DEF RAP!vars
  <2>2. RAP!Inv /\ RAP!TypeOK /\ RAP!ConventionInv /\ RAP!ParamInv
    BY <1>1 DEF StageInv, RAP!Inv
  <2>3. RAP!ParamsLead
    BY DEF StageInv, WellBuilt, ParamsFirst, RAP!ParamsLead, Indices
  <2>4. QED
    BY <2>1, <2>2, <2>3, BackendAssumption, RAP!InvStep, RAP!ConventionStep, RAP!ParamStep
<1>4. QED
  BY <1>1, <1>2, <1>3, AnalysedKept DEF StageInv

LEMMA StageStart == Init => StageInv
<1> SUFFICES ASSUME Init
             PROVE  StageInv
  OBVIOUS
<1>1. L!Start => i = 0 /\ changed = TRUE /\ done = FALSE
  BY DEF L!Start
<1>2. RA!Start => RAP!Start
  BY DEF RA!Start, RA!Unassigned, RAP!Start, RAP!Unassigned
<1>3. QED
  BY <1>1, <1>2 DEF Init, Start, StageInv

LEMMA StageStep == StageInv /\ [Next]_vars => StageInv'
<1> SUFFICES ASSUME StageInv, [Next]_vars
             PROVE  StageInv'
  OBVIOUS
<1>1. CASE UNCHANGED vars
  <2>1. UNCHANGED <<code, blocks, successors, use_set, def_set, in_set, out_set, i, changed, done,
                    live_out, graph, restricted_regs, assigned_register,
                    permanent_frame_position, arg_index, param_index, pos, pass, precolored,
                    stage, pc, holds>>
    BY <1>1 DEF vars, analysis, coloring, run
  <2>2. (LP!TypeOK <=> LP!TypeOK') /\ (LP!SettledInv <=> LP!SettledInv')
    BY <2>1 DEF LP!TypeOK, LP!SettledInv, LP!Settled, LP!Blocks, LP!new_out,
                LP!new_in, LP!difference_sets, LP!contains_operand
  <2>3. UNCHANGED RAP!vars
    BY <2>1 DEF RAP!vars
  <2>4. RAP!Start <=> RAP!Start'
    BY <2>1 DEF RAP!Start
  <2>5. RAP!ParamsLead
    BY DEF StageInv, WellBuilt, ParamsFirst, RAP!ParamsLead, Indices
  <2>6. RAP!Inv /\ RAP!ConventionInv /\ RAP!ParamInv
          => RAP!Inv' /\ RAP!ConventionInv' /\ RAP!ParamInv'
    <3>1. RAP!Inv => RAP!TypeOK
      BY DEF RAP!Inv
    <3>2. QED
      BY <2>3, <2>5, <3>1, BackendAssumption, RAP!InvStep, RAP!ConventionStep, RAP!ParamStep
  <2>7. QED
    BY <2>1, <2>2, <2>4, <2>6, AnalysedKept DEF StageInv
<1>2. QED
  BY <1>1, BuildCfgStep, LivenessStep, RecordStep, InterferenceStep, AllocateStep, ExecuteStep
     DEF Next

(* Each stage leaves the next one what it needs. *)
THEOREM Staged == Spec => []StageInv
BY StageStart, StageStep, PTL DEF Spec

------------------------------------------------------------------------------
(* Control never moves between two blocks along anything but an edge of the *)
(* graph that was analysed, and then to the head of the block.              *)
THEOREM ControlFollowsTheGraph == Spec => StepsAlongEdges
<1> DEFINE Along ==
      stage = "run" /\ pc' # pc /\ Leaves(pc, pc') =>
        /\ BlockOf(blocks, pc') \in successors[BlockOf(blocks, pc)]
        /\ pc' = FirstOf(blocks[BlockOf(blocks, pc')])
<1>1. StageInv /\ [Next]_vars => [Along]_vars
  <2> SUFFICES ASSUME StageInv, Next, stage = "run", pc' # pc, Leaves(pc, pc')
               PROVE  /\ Own(pc') \in successors[Own(pc)]
                      /\ pc' = FirstOf(blocks[Own(pc')])
    BY DEF Own
  <2>1. Execute
    BY DEF Next, BuildCfg, IterateLiveness, RecordLiveOut, PopulateInterference, Allocate
  <2>2. /\ pc \in Indices(code) /\ pc' \in Nexts(code, pc) /\ pc' \in Indices(code)
        /\ Analysed
    BY <2>1 DEF Execute, Leaves, StageInv
  <2>3. ~(pc' = pc + 1 /\ Own(pc') = Own(pc))
    BY <2>2 DEF Leaves, Own, Indices
  <2>4. QED
    BY <2>2, <2>3, EdgeStep
<1>2. QED
  BY <1>1, Staged, PTL DEF Spec, StepsAlongEdges

(* No assignment of a variable to itself. *)
NoSelfAssignment == \A op : ~SelfAssigned(op)

(* Where no variable is assigned to itself, no operand still to be read is  *)
(* missing from a recorded live set.                                        *)
THEOREM LiveSetsMissNothing == Spec => [](NoSelfAssignment => LiveSetsSound)
<1>1. StageInv => (NoSelfAssignment => LiveSetsSound)
  <2> SUFFICES ASSUME StageInv, NoSelfAssignment, stage = "interference",
                      NEW k \in Indices(code), NEW op \in TrulyLive[k]
               PROVE  op \in live_out[k]
    BY DEF LiveSetsSound
  <2>1. Solved /\ live_out = compute_instruction_live_out(code, blocks, out_set)
    BY DoneIsSolved DEF StageInv
  <2>2. LiveIn(k, op) /\ ReadSomewhere(op)
    BY <2>1, TrulyLiveIsLive
  <2>3. QED
    BY <2>1, <2>2, RecordedLive DEF NoSelfAssignment
<1>2. QED
  BY <1>1, Staged, PTL

------------------------------------------------------------------------------
(* The run.  Part of the code is a region of an operand if the operand is    *)
(* written above each of its places and, where it is live, is entered by     *)
(* its definitions only.                                                     *)
Region(op, region) ==
  /\ region \subseteq Indices(code)
  /\ \A k \in region : \E first \in Indices(code) : first < k /\ op \in Written(code[first])
  /\ \A k \in Indices(code) : \A m \in Nexts(code, k) :
        m \in region /\ LiveIn(m, op) => k \in region \/ op \in Written(code[k])

(* An operand that waits for a read to come is kept: its register holds it,  *)
(* or another that several instructions write.                               *)
Waits(op, region) ==
  /\ Region(op, region) /\ InRegister(op) /\ ReadSomewhere(op) /\ ~SelfAssigned(op)
  /\ pc \in region /\ LiveIn(pc, op)

Kept(op) ==
  LET reg == assigned_register[op]
  IN  holds[reg] = op \/ (holds[reg] # None /\ ~DefinedOnce(code, holds[reg]))

RunInv == \A op, region : Waits(op, region) => Kept(op)

LEMMA AtTheStart ==
  ASSUME Len(code) \in Nat, pc = 1
  PROVE  RunInv
BY DEF RunInv, Waits, Region, Indices

LEMMA WaitsBefore ==
  ASSUME StageInv, Execute, NEW op, NEW region, Waits(op, region)'
  PROVE  /\ Allocated /\ Typed(code) /\ pc \in Indices(code)
         /\ InRegister(op) /\ assigned_register[op] \in DOMAIN holds
         /\ op \notin Written(code[pc]) => Waits(op, region)
<1>1. /\ stage = "run" /\ pc \in Indices(code) /\ pc' \in Nexts(code, pc)
      /\ UNCHANGED <<code, blocks, out_set, assigned_register, permanent_frame_position>>
  BY DEF Execute, analysis, coloring
<1>2. Allocated /\ Solved /\ Typed(code) /\ RAP!TypeOK
  BY <1>1, DoneIsSolved DEF StageInv, Allocated, RAP!Inv, WellBuilt
<1>3. \A k : LiveIn(k, op)' <=> LiveIn(k, op)
  BY <1>1 DEF LiveIn, Rest, Own
<1>4. Region(op, region)
  BY <1>1, <1>3 DEF Waits, Region
<1>5. /\ InRegister(op) /\ ReadSomewhere(op) /\ ~SelfAssigned(op)
      /\ pc' \in region
  BY <1>1 DEF Waits, InRegister, ReadSomewhere, SelfAssigned
<1>6. LiveIn(pc', op)
  BY <1>1 DEF Waits, LiveIn, Rest, Own
<1>7. assigned_register[op] \in DOMAIN holds
  <2>1. op \in Operands
    BY <1>2, <1>5, ReadIsOperand DEF ReadSomewhere
  <2>2. QED
    BY <1>2, <1>5, <2>1 DEF StageInv, InRegister, RA!Unassigned, RAP!TypeOK, RAP!Unassigned,
                            RA!Registers, RAP!Registers
<1>8. ASSUME op \notin Written(code[pc])
      PROVE  Waits(op, region)
  <2>1. pc \in region
    BY <1>1, <1>4, <1>5, <1>6, <1>8 DEF Region
  <2>2. pc' \in Indices(code)
    BY <1>4, <1>5 DEF Region
  <2>3. LiveIn(pc, op)
    BY <1>1, <1>2, <1>6, <1>8, <2>2, LiveBackwards
  <2>4. QED
    BY <1>4, <1>5, <2>1, <2>3 DEF Waits
<1>9. QED
  BY <1>1, <1>2, <1>5, <1>7, <1>8

LEMMA RunStep ==
  ASSUME StageInv, RunInv, Execute
  PROVE  RunInv'
<1> SUFFICES ASSUME NEW op, NEW region, Waits(op, region)'
             PROVE  Kept(op)'
  BY DEF RunInv
<1> DEFINE reg == assigned_register[op]
           hit == \E w \in Written(code[pc]) : InRegister(w) /\ assigned_register[w] = reg
<1>1. /\ UNCHANGED <<code, assigned_register, permanent_frame_position>>
      /\ holds' = [r \in DOMAIN holds |->
                     IF \E w \in Written(code[pc]) : InRegister(w) /\ assigned_register[w] = r
                     THEN CHOOSE w \in Written(code[pc]) : TRUE
                     ELSE holds[r]]
  BY DEF Execute, coloring
<1>2. /\ Allocated /\ Typed(code) /\ pc \in Indices(code)
      /\ InRegister(op) /\ reg \in DOMAIN holds
      /\ op \notin Written(code[pc]) => Waits(op, region)
  BY WaitsBefore
<1>3. holds'[reg] = IF hit THEN CHOOSE w \in Written(code[pc]) : TRUE ELSE holds[reg]
  BY <1>1, <1>2
<1>4. \A w \in Written(code[pc]) : (CHOOSE o \in Written(code[pc]) : TRUE) = w
  BY WrittenKind
<1>5. SUFFICES holds'[reg] = op \/ (holds'[reg] # None /\ ~DefinedOnce(code, holds'[reg]))
  BY <1>1 DEF Kept, DefinedOnce
<1>6. CASE op \in Written(code[pc])
  <2>1. hit
    BY <1>2, <1>6
  <2>2. QED
    BY <1>3, <1>4, <1>6, <2>1
<1>7. CASE op \notin Written(code[pc]) /\ hit
  <2>1. PICK w \in Written(code[pc]) : InRegister(w) /\ assigned_register[w] = reg
    BY <1>7
  <2>2. holds'[reg] = w
    BY <1>3, <1>4, <1>7, <2>1
  <2>3. w # None
    BY <1>2, <2>1 DEF Typed
  <2>4. ~DefinedOnce(code, w)
    <3> SUFFICES ASSUME DefinedOnce(code, w)
                 PROVE  FALSE
      OBVIOUS
    <3>1. Waits(op, region)
      BY <1>2, <1>7
    <3>2. PICK first \in Indices(code) : first < pc /\ op \in Written(code[first])
      BY <3>1 DEF Waits, Region
    <3>3. Overlap(pc, w, op, first)
      BY <1>2, <2>1, <3>1, <3>2 DEF Waits, Overlap
    <3>4. QED
      BY <1>2, <2>1, <3>3, NeverClobbered
  <2>5. QED
    BY <2>2, <2>3, <2>4
<1>8. CASE op \notin Written(code[pc]) /\ ~hit
  <2>1. holds'[reg] = holds[reg]
    BY <1>3, <1>8
  <2>2. Kept(op)
    BY <1>2, <1>8 DEF RunInv
  <2>3. QED
    BY <2>1, <2>2 DEF Kept
<1>9. QED
  BY <1>6, <1>7, <1>8

LEMMA RunNext == StageInv /\ RunInv /\ [Next]_vars => RunInv'
<1> SUFFICES ASSUME StageInv, RunInv, [Next]_vars
             PROVE  RunInv'
  OBVIOUS
<1>1. CASE Execute
  BY <1>1, RunStep
<1>2. CASE UNCHANGED vars
  <2>1. UNCHANGED <<code, blocks, out_set, assigned_register, permanent_frame_position, pc, holds>>
    BY <1>2 DEF vars, analysis, coloring, run
  <2>2. QED
    BY <2>1 DEF RunInv, Waits, Region, Kept, DefinedOnce, InRegister, ReadSomewhere, SelfAssigned,
                LiveIn, Rest, Own
<1>3. CASE BuildCfg \/ IterateLiveness \/ RecordLiveOut \/ PopulateInterference \/ Allocate
  <2>1. pc' = 1
    BY <1>3 DEF StageInv, BuildCfg, IterateLiveness, RecordLiveOut, PopulateInterference, Allocate,
                run
  <2>2. Len(code') \in Nat
    BY StageStep DEF StageInv, WellBuilt, Typed
  <2>3. QED
    BY <2>1, <2>2 DEF RunInv, Waits, Region, Indices
<1>4. QED
  BY <1>1, <1>2, <1>3 DEF Next

(* An operand the run reads was defined once, or above every place it is     *)
(* live at: either way it has a region with all its reads.                   *)
LEMMA ReadsAreInRegions ==
  ASSUME StageInv, stage = "run", pc \in Indices(code), NEW op \in TrueReads(code[pc]),
         DefinedAbove(op)
  PROVE  \E region : pc \in region /\ Region(op, region) /\ ~SelfAssigned(op)
<1>1. /\ Solved /\ WellBuilt(code) /\ Typed(code) /\ Analysed /\ Len(code) \in Nat
      /\ live_out = compute_instruction_live_out(code, blocks, out_set)
      /\ \A b \in DOMAIN blocks : in_set[b] \cap Opaque = {}
  BY DoneIsSolved DEF StageInv, WellBuilt, Typed
<1>2. LiveIn(pc, op) /\ ReadSomewhere(op) /\ op \in Operands /\ op # None /\ op # Ret
  BY <1>1, ReadIsLive, ReadIsOperand DEF ReadSomewhere
<1>3. CASE DefinedOnce(code, op)
  <2>1. op \notin Opaque
    <3> SUFFICES ASSUME op \in Opaque
                 PROVE  FALSE
      OBVIOUS
    <3>1. \A k \in Indices(code) : op \notin Writes(code[k])
      BY <1>1 DEF Typed, Written
    <3>2. /\ Own(pc) \in DOMAIN blocks /\ pc \in blocks[Own(pc)]
          /\ blocks[Own(pc)] \subseteq Indices(code)
      BY <1>1, BlockFacts
    <3>3. op \in Uses(code, blocks[Own(pc)])
      BY <3>1, <3>2 DEF Uses, TrueReads
    <3>4. op \in in_set[Own(pc)]
      BY <1>1, <3>2, <3>3 DEF Solved, Analysed
    <3>5. QED
      BY <1>1, <3>2, <3>4
  <2>2. PICK first \in Indices(code), last \in Indices(code) : Scope(code, op, first, last)
    BY <1>1, <1>3, <2>1 DEF WellBuilt, WrittenFirst
  <2>3. first \in Nat /\ last \in Nat /\ (first + 1)..last \subseteq Indices(code)
    BY <1>1, <2>2 DEF Indices
  <2>4. pc \in (first + 1)..last
    BY <2>2 DEF Scope
  <2>5. Region(op, (first + 1)..last)
    <3>1. \A k \in Indices(code) : \A m \in Nexts(code, k) :
            m \in (first + 1)..last => k \in (first + 1)..last \/ op \in Written(code[k])
      BY <1>1, <2>2, <2>3 DEF Scope, Indices
    <3>2. \A k \in (first + 1)..last : first < k /\ op \in Written(code[first])
      BY <2>2, <2>3 DEF Scope
    <3>3. QED
      BY <2>3, <3>1, <3>2 DEF Region
  <2>6. ~SelfAssigned(op)
    <3> SUFFICES ASSUME NEW m \in Indices(code), code[m].kind = "ASSIGN",
                        code[m].result = op, code[m].op2 = op
                 PROVE  FALSE
      BY DEF SelfAssigned
    <3>1. op \in Written(code[m]) /\ op \in TrueReads(code[m])
      BY <1>2 DEF Written, Writes, TrueReads, Reads, Binary
    <3>2. m = first /\ m \in (first + 1)..last
      BY <1>3, <2>2, <3>1 DEF DefinedOnce, Scope
    <3>3. QED
      BY <2>3, <3>2
  <2>7. QED
    BY <2>4, <2>5, <2>6
<1>4. CASE ~DefinedOnce(code, op)
  <2> DEFINE region == {k \in Indices(code) : LiveIn(k, op)}
  <2>1. ~SelfAssigned(op)
    BY <1>4 DEF DefinedAbove
  <2>2. \A k \in region : \E first \in Indices(code) : first < k /\ op \in Written(code[first])
    BY <1>1, <1>2, <1>4, <2>1, RecordedLive DEF DefinedAbove
  <2>3. \A k \in Indices(code) : \A m \in Nexts(code, k) :
          m \in region => k \in region \/ op \in Written(code[k])
    BY <1>1, LiveBackwards
  <2>4. QED
    BY <1>2, <2>1, <2>2, <2>3 DEF Region
<1>5. QED
  BY <1>3, <1>4

(* What the run reads from a register is what was written there for it, for  *)
(* every operand that is defined above the places it is live at, unless the  *)
(* register's last writer was one of the operands with several definitions.  *)
THEOREM ReadsFindTheirOperands == Spec => []ReadsIntact
<1>1. Init => RunInv
  <2>1. Init => Len(code) \in Nat /\ pc = 1
    BY DEF Init, Start, WellBuilt, Typed
  <2>2. QED
    BY <2>1, AtTheStart
<1>2. StageInv /\ RunInv => ReadsIntact
  <2> SUFFICES ASSUME StageInv, RunInv, stage = "run", pc \in Indices(code),
                      NEW op \in TrueReads(code[pc]), InRegister(op), DefinedAbove(op),
                      holds[assigned_register[op]] # None =>
                         \/ holds[assigned_register[op]] = op
                         \/ DefinedOnce(code, holds[assigned_register[op]])
               PROVE  holds[assigned_register[op]] = op
    BY DEF ReadsIntact
  <2>1. Analysed
    BY DEF StageInv
  <2>2. LiveIn(pc, op) /\ ReadSomewhere(op)
    BY <2>1, ReadIsLive DEF ReadSomewhere
  <2>3. PICK region : pc \in region /\ Region(op, region) /\ ~SelfAssigned(op)
    BY ReadsAreInRegions
  <2>4. Kept(op)
    BY <2>2, <2>3 DEF Waits, RunInv
  <2>5. QED
    BY <2>4 DEF Kept
<1>3. QED
  BY <1>1, <1>2, RunNext, Staged, PTL DEF Spec

==============================================================================
