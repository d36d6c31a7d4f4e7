--------------------------- MODULE TypecheckProofs ---------------------------
(***************************************************************************)
(* Proofs about name resolution and the type checker, for every program,   *)
(* every hash and whatever expressions are taken to be of which type: the  *)
(* state keeps its shape, the symbol tables lose nothing and confuse        *)
(* nothing, however often they grow, and every scope and context is closed.*)
(***************************************************************************)
EXTENDS Typecheck, FiniteSetTheorems, SequenceTheorems, WellFoundedInduction, TLAPS

------------------------------------------------------------------------------
(* Induction, and what recursion along the numbers defines.                  *)

(* A set of numbers has a smallest one: intervals from 1 are ordered by     *)
(* strict inclusion, which is well-founded on finite sets.                  *)
LEMMA Least ==
  ASSUME NEW T \in SUBSET Nat, T # {}
  PROVE  \E n \in T : \A m \in T : n <= m
<1> DEFINE U == {1..n : n \in T}
<1>1. U \subseteq FiniteSubsetsOf(Nat)
  <2>1. \A n \in T : IsFiniteSet(1..n) /\ 1..n \in SUBSET Nat  BY FS_Interval
  <2> QED  BY <2>1 DEF FiniteSubsetsOf
<1>2. U # {}  OBVIOUS
<1>3. \E x \in U : \A y \in U : <<y, x>> \notin StrictSubsetOrdering(Nat)
  <2> HIDE DEF U
  <2> QED  BY <1>1, <1>2, FS_StrictSubsetOrderingWellFounded, WFMin
<1>4. PICK n \in T : \A m \in T : <<1..m, 1..n>> \notin StrictSubsetOrdering(Nat)  BY <1>3
<1>5. ASSUME NEW m \in T, m < n PROVE FALSE
  <2>1. 1..m \subseteq 1..n /\ n \in 1..n /\ n \notin 1..m  BY <1>5
  <2>2. 1..m \in SUBSET Nat /\ 1..n \in SUBSET Nat  OBVIOUS
  <2> QED  BY <1>4, <2>1, <2>2 DEF StrictSubsetOrdering
<1> QED  BY <1>5

(* What holds of 0, and of a number because it holds of the one before. *)
LEMMA UpTo ==
  ASSUME NEW N \in Nat, NEW T, 0 \in T,
         \A n \in 1..N : n - 1 \in T => n \in T
  PROVE  \A n \in 0..N : n \in T
<1> DEFINE U == {n \in 0..N : n \notin T}
<1> SUFFICES ASSUME U # {} PROVE FALSE  OBVIOUS
<1>1. PICK n \in U : \A m \in U : n <= m
  <2>1. U \in SUBSET Nat  OBVIOUS
  <2> QED  BY <2>1, Least
<1>2. n \in 1..N /\ n - 1 \in 0..N /\ n - 1 \notin U  BY <1>1
<1> QED  BY <1>1, <1>2

(* A step from each number to the next defines a function on all of them. *)
Follows(f, N, a, G) == f[0] = a /\ \A n \in 1..N : f[n] = G[n][f[n - 1]]

LEMMA Defined ==
  ASSUME NEW N \in Nat, NEW S, NEW a \in S, NEW G \in [1..N -> [S -> S]]
  PROVE  \E f \in [0..N -> S] : Follows(f, N, a, G)
<1> DEFINE upto(f, k) == f[0] = a /\ \A n \in 1..k : f[n] = G[n][f[n - 1]]
           T == {k \in 0..N : \E f \in [0..k -> S] : upto(f, k)}
<1>1. 0 \in T
  <2>1. 0..0 = {0}  OBVIOUS
  <2>2. [n \in 0..0 |-> a] \in [0..0 -> S]  OBVIOUS
  <2>3. upto([n \in 0..0 |-> a], 0)  BY <2>1
  <2>4. \E f \in [0..0 -> S] : upto(f, 0)
    <3> HIDE DEF upto
    <3> QED  BY <2>2, <2>3
  <2> QED  BY <2>4
<1>2. ASSUME NEW k \in 1..N, k - 1 \in T PROVE k \in T
  <2>1. PICK f \in [0..(k - 1) -> S] : upto(f, k - 1)  BY <1>2
  <2> DEFINE g == [n \in 0..k |-> IF n = k THEN G[k][f[k - 1]] ELSE f[n]]
  <2>2. k - 1 \in 0..(k - 1) /\ 0..k = 0..(k - 1) \cup {k}  OBVIOUS
  <2>3. G[k][f[k - 1]] \in S  BY <2>2
  <2>4. g \in [0..k -> S]  BY <2>2, <2>3
  <2>5. g[0] = a  BY <2>1, <2>2
  <2>6. \A n \in 1..k : g[n] = G[n][g[n - 1]]
    <3> TAKE n \in 1..k
    <3>1. CASE n = k  BY <3>1, <2>2
    <3>2. CASE n # k
      <4>1. n \in 1..(k - 1)  BY <3>2
      <4>2. f[n] = G[n][f[n - 1]]  BY <2>1, <4>1
      <4>3. n - 1 \in 0..k /\ n - 1 # k /\ n \in 0..k  BY <4>1
      <4> QED  BY <3>2, <4>2, <4>3
    <3> QED  BY <3>1, <3>2
  <2>7. upto(g, k)  BY <2>5, <2>6
  <2> HIDE DEF upto, g
  <2> QED  BY <2>4, <2>7
<1>3. N \in T
  <2> HIDE DEF T
  <2>1. \A k \in 1..N : k - 1 \in T => k \in T  BY <1>2
  <2>2. \A k \in 0..N : k \in T  BY <1>1, <2>1, UpTo
  <2> QED  BY <2>2
<1> QED  BY <1>3 DEF Follows

------------------------------------------------------------------------------
(* Hashes and buckets.                                                       *)

Tables == UNION {[capacity : {c}, size : 0..c, symbols : [0..(c - 1) -> Seq(Symbols)]] :
                   c \in Nat \ {0}}

LEMMA TableFacts ==
  ASSUME NEW t
  PROVE  /\ t \in Tables => SymbolsFit(t)
         /\ t \in Tables =>
              t = [capacity |-> t.capacity, size |-> t.size, symbols |-> t.symbols]
<1> SUFFICES ASSUME t \in Tables
             PROVE  /\ SymbolsFit(t)
                    /\ t = [capacity |-> t.capacity, size |-> t.size, symbols |-> t.symbols]
  OBVIOUS
<1>1. PICK c \in Nat \ {0} :
        t \in [capacity : {c}, size : 0..c, symbols : [0..(c - 1) -> Seq(Symbols)]]
  BY DEF Tables
<1> QED  BY <1>1 DEF SymbolsFit

LEMMA TableMade ==
  ASSUME NEW c \in Nat \ {0}, NEW k \in 0..c, NEW b \in [0..(c - 1) -> Seq(Symbols)]
  PROVE  [capacity |-> c, size |-> k, symbols |-> b] \in Tables
BY DEF Tables

LEMMA HashFacts ==
  ASSUME NEW c \in Nat \ {0}, NEW name \in Names
  PROVE  /\ hash(c, name) \in Int
         /\ hash(c, name) >= 0 <=> hash(c, name) \in 0..(c - 1)
         /\ HashOf[name] >= 0 => hash(c, name) >= 0
<1>1. HashOf[name] \in Int  BY TablesAssumption DEF Names
<1>2. CASE HashOf[name] >= 0
  <2>1. HashOf[name] % c \in 0..(c - 1)  BY <1>1, <1>2
  <2> QED  BY <1>2, <2>1 DEF hash
<1>3. CASE HashOf[name] < 0
  <2>1. -HashOf[name] \in Nat  BY <1>1, <1>3
  <2>2. (-HashOf[name]) % c \in 0..(c - 1)  BY <2>1
  <2>3. hash(c, name) = -((-HashOf[name]) % c)  BY <1>1, <1>3 DEF hash
  <2> QED  BY <1>1, <1>3, <2>2, <2>3
<1> QED  BY <1>1, <1>2, <1>3

LEMMA Counted ==
  ASSUME NEW c \in Nat \ {0}, NEW b \in [0..(c - 1) -> Seq(Symbols)]
  PROVE  InUse(b) \in 0..c
<1> DEFINE used == {k \in DOMAIN b : b[k] # <<>>}
<1>1. IsFiniteSet(0..(c - 1)) /\ Cardinality(0..(c - 1)) = c  BY FS_Interval
<1>2. used \subseteq 0..(c - 1)  OBVIOUS
<1>3. Cardinality(used) <= Cardinality(0..(c - 1)) /\ IsFiniteSet(used)  BY <1>1, <1>2, FS_Subset
<1>4. Cardinality(used) \in Nat  BY <1>3, FS_CardinalityType
<1> QED  BY <1>1, <1>3, <1>4 DEF InUse

LEMMA Concatenated ==
  ASSUME NEW S, NEW p \in Seq(S), NEW q \in Seq(S)
  PROVE  p \o q \in Seq(S) /\ ToSet(p \o q) = ToSet(p) \cup ToSet(q)
<1> DEFINE r == p \o q
<1>1. /\ r \in Seq(S) /\ Len(r) = Len(p) + Len(q)
      /\ \A i \in 1..(Len(p) + Len(q)) : r[i] = IF i <= Len(p) THEN p[i] ELSE q[i - Len(p)]
  BY ConcatProperties
<1> HIDE DEF r
<1>2. /\ Len(p) \in Nat /\ Len(q) \in Nat
      /\ DOMAIN p = 1..Len(p) /\ DOMAIN q = 1..Len(q) /\ DOMAIN r = 1..Len(r)
  BY <1>1, LenProperties
<1>3. \A i \in DOMAIN p : i \in DOMAIN r /\ r[i] = p[i]  BY <1>1, <1>2
<1>4. \A i \in DOMAIN q : i + Len(p) \in DOMAIN r /\ r[i + Len(p)] = q[i]  BY <1>1, <1>2
<1>5. \A i \in DOMAIN r : \/ i \in DOMAIN p /\ r[i] = p[i]
                          \/ i - Len(p) \in DOMAIN q /\ r[i] = q[i - Len(p)]
  BY <1>1, <1>2
<1>6. ToSet(r) = ToSet(p) \cup ToSet(q)  BY <1>3, <1>4, <1>5 DEF ToSet
<1> QED  BY <1>1, <1>6 DEF r

LEMMA Prepended ==
  ASSUME NEW S, NEW s \in S, NEW q \in Seq(S)
  PROVE  <<s>> \o q \in Seq(S) /\ ToSet(<<s>> \o q) = {s} \cup ToSet(q)
<1> DEFINE p == <<s>>
<1>1. p \in Seq(S) /\ ToSet(p) = {s}  BY DEF ToSet
<1> HIDE DEF p
<1>2. p \o q \in Seq(S) /\ ToSet(p \o q) = {s} \cup ToSet(q)  BY <1>1, Concatenated
<1> QED  BY <1>2 DEF p

(* A symbol goes to the bucket its name hashes to, or nowhere. *)
LEMMA Inserted ==
  ASSUME NEW t \in Tables, NEW s \in Symbols
  PROVE  LET u == Insert(t, s)
         IN  /\ u \in Tables
             /\ u.capacity = t.capacity
             /\ u.size = InUse(u.symbols)
             /\ SymbolsOf(u) = SymbolsOf(t) \cup (IF hash(t.capacity, s.name) >= 0 THEN {s} ELSE {})
             /\ TableComplete(t) /\ (\A r \in SymbolsOf(t) : r.name = s.name => r = s)
                  => TableComplete(u)
<1> DEFINE c == t.capacity
           k == hash(c, s.name)
           b == t.symbols
           d == [b EXCEPT ![k] = <<s>> \o @]
           u == Insert(t, s)
<1>1. /\ c \in Nat \ {0} /\ b \in [0..(c - 1) -> Seq(Symbols)]
      /\ t = [capacity |-> c, size |-> t.size, symbols |-> b]
  BY TableFacts DEF SymbolsFit
<1>2. s.name \in Names  BY DEF Symbols
<1>3. k \in Int /\ (k >= 0 <=> k \in 0..(c - 1))  BY <1>1, <1>2, HashFacts
<1> HIDE DEF c, k
<1>4. k \in 0..(c - 1) =>
        <<s>> \o b[k] \in Seq(Symbols) /\ ToSet(<<s>> \o b[k]) = {s} \cup ToSet(b[k])
  <2> SUFFICES ASSUME k \in 0..(c - 1)
               PROVE  <<s>> \o b[k] \in Seq(Symbols) /\ ToSet(<<s>> \o b[k]) = {s} \cup ToSet(b[k])
    OBVIOUS
  <2>1. b[k] \in Seq(Symbols)  BY <1>1
  <2> QED  BY <2>1, Prepended
<1>5. d \in [0..(c - 1) -> Seq(Symbols)]
  BY <1>1, <1>4
<1>6. u = [capacity |-> c, size |-> InUse(d), symbols |-> d]
  <2>1. u = [t EXCEPT !.symbols = d, !.size = InUse(d)]  BY DEF Insert, c, k
  <2>2. t \in [capacity : {c}, size : {t.size}, symbols : {b}]  BY <1>1
  <2> HIDE DEF d, b, u
  <2> QED  BY <2>1, <2>2
<1>7. InUse(d) \in 0..c  BY <1>1, <1>5, Counted
<1>8. u \in Tables
  <2> HIDE DEF d, b, u
  <2> QED  BY <1>1, <1>5, <1>6, <1>7, TableMade
<1>9. \A i \in 0..(c - 1) : d[i] = IF i = k THEN <<s>> \o b[i] ELSE b[i]  BY <1>1
<1> HIDE DEF d, u
<1>10. u.capacity = c /\ u.symbols = d /\ u.size = InUse(d)  BY <1>6
<1>11. \A i \in 0..(c - 1) : ToSet(d[i]) = ToSet(b[i]) \cup (IF i = k THEN {s} ELSE {})
  BY <1>4, <1>9
<1>12. DOMAIN d = 0..(c - 1) /\ DOMAIN b = 0..(c - 1)  BY <1>1, <1>5
<1>13. SymbolsOf(u) = SymbolsOf(t) \cup (IF k >= 0 THEN {s} ELSE {})
  <2>1. SymbolsOf(u) = UNION {ToSet(d[i]) : i \in 0..(c - 1)}  BY <1>10, <1>12 DEF SymbolsOf
  <2>2. SymbolsOf(t) = UNION {ToSet(b[i]) : i \in 0..(c - 1)}  BY <1>12 DEF SymbolsOf
  <2> HIDE DEF b
  <2>3. CASE k >= 0  BY <1>3, <1>11, <2>1, <2>2, <2>3
  <2>4. CASE ~(k >= 0)  BY <1>3, <1>11, <2>1, <2>2, <2>4
  <2> QED  BY <2>3, <2>4
<1>14. ASSUME TableComplete(t), \A r \in SymbolsOf(t) : r.name = s.name => r = s
       PROVE  TableComplete(u)
  <2>1. \A i \in DOMAIN u.symbols : \A r \in ToSet(u.symbols[i]) : hash(u.capacity, r.name) = i
    <3> SUFFICES ASSUME NEW i \in 0..(c - 1), NEW r \in ToSet(d[i])
                 PROVE  hash(c, r.name) = i
      BY <1>10, <1>12
    <3>1. r \in ToSet(b[i]) \/ (i = k /\ r = s)  BY <1>11
    <3>2. r \in ToSet(b[i]) => hash(c, r.name) = i  BY <1>12, <1>14 DEF TableComplete, c
    <3> QED  BY <3>1, <3>2 DEF k
  <2>2. \A q, r \in SymbolsOf(u) : q.name = r.name => q = r
    <3>1. \A q, r \in SymbolsOf(t) : q.name = r.name => q = r  BY <1>14 DEF TableComplete
    <3>2. \A q \in SymbolsOf(u) : q \in SymbolsOf(t) \/ q = s  BY <1>13
    <3> QED  BY <3>1, <3>2, <1>14
  <2> QED  BY <1>10, <2>1, <2>2 DEF TableComplete
<1> QED  BY <1>8, <1>10, <1>13, <1>14 DEF c, k, u

------------------------------------------------------------------------------
(* Growth.                                                                   *)

LEMMA Rehashed ==
  ASSUME NEW t \in Tables, NEW q \in Seq(Symbols)
  PROVE  LET u == Rehash(t, q)
             given == {s \in ToSet(q) : hash(t.capacity, s.name) >= 0}
         IN  /\ u \in Tables /\ u.capacity = t.capacity
             /\ SymbolsOf(u) = SymbolsOf(t) \cup given
             /\ /\ TableComplete(t)
                /\ \A r, s \in SymbolsOf(t) \cup ToSet(q) : r.name = s.name => r = s
                => TableComplete(u)
<1> DEFINE N == Len(q)
           G == [n \in 1..N |-> [u \in Tables |-> Insert(u, q[n])]]
           step(f, n) == IF n = 0 THEN t ELSE Insert(f[n - 1], q[n])
           found(n) == {s \in {q[i] : i \in 1..n} : hash(t.capacity, s.name) >= 0}
           unique == \A r, s \in SymbolsOf(t) \cup ToSet(q) : r.name = s.name => r = s
<1>1. N \in Nat /\ DOMAIN q = 1..N /\ \A n \in 1..N : q[n] \in Symbols
  BY LenProperties, ElementOfSeq
<1>2. G \in [1..N -> [Tables -> Tables]]  BY <1>1, Inserted
<1>3. PICK g \in [0..N -> Tables] : Follows(g, N, t, G)
  <2> HIDE DEF G, N
  <2> QED  BY <1>1, <1>2, Defined
<1>4. ASSUME NEW n \in 1..N PROVE G[n][g[n - 1]] = Insert(g[n - 1], q[n])
  <2>1. g[n - 1] \in Tables  BY <1>1
  <2> QED  BY <2>1
<1>5. g = [n \in 0..N |-> step(g, n)]
  <2> HIDE DEF G, N
  <2>1. \A n \in 0..N : n # 0 => n \in 1..N  BY <1>1
  <2>2. \A n \in 0..N : g[n] = step(g, n)  BY <1>3, <1>4, <2>1 DEF Follows
  <2> QED  BY <2>2
<1> HIDE DEF G
<1>6. PICK f : f = [n \in 0..N |-> step(f, n)] /\ Rehash(t, q) = f[N]
  <2> DEFINE h == CHOOSE f : f = [n \in 0..N |-> step(f, n)]
  <2>1. h = [n \in 0..N |-> step(h, n)]  BY <1>5
  <2>2. Rehash(t, q) = h[N]  BY DEF Rehash
  <2> HIDE DEF h, step
  <2> QED  BY <2>1, <2>2
<1>7. f[0] = t /\ \A n \in 1..N : f[n] = Insert(f[n - 1], q[n])
  <2>1. 0 \in 0..N /\ \A n \in 1..N : n \in 0..N /\ n # 0  BY <1>1
  <2> QED  BY <1>6, <2>1
<1> DEFINE holds(n) == /\ f[n] \in Tables /\ f[n].capacity = t.capacity
                       /\ SymbolsOf(f[n]) = SymbolsOf(t) \cup found(n)
                       /\ TableComplete(t) /\ unique => TableComplete(f[n])
           T == {n \in 0..N : holds(n)}
<1>8. 0 \in T
  <2>1. found(0) = {}  BY <1>1
  <2> QED  BY <1>1, <1>7, <2>1
<1>9. ASSUME NEW n \in 1..N, n - 1 \in T PROVE n \in T
  <2>1. holds(n - 1)  BY <1>9
  <2>2. f[n] = Insert(f[n - 1], q[n]) /\ q[n] \in Symbols  BY <1>1, <1>7
  <2> HIDE DEF unique, found, step
  <2>3. /\ f[n] \in Tables /\ f[n].capacity = t.capacity
        /\ SymbolsOf(f[n]) = SymbolsOf(f[n - 1]) \cup
                               (IF hash(t.capacity, q[n].name) >= 0 THEN {q[n]} ELSE {})
    <3> DEFINE u == f[n - 1]
               s == q[n]
    <3>1. u \in Tables /\ u.capacity = t.capacity /\ s \in Symbols  BY <2>1, <2>2
    <3> HIDE DEF u, s
    <3>2. /\ Insert(u, s) \in Tables /\ Insert(u, s).capacity = u.capacity
          /\ SymbolsOf(Insert(u, s)) = SymbolsOf(u) \cup
                                         (IF hash(u.capacity, s.name) >= 0 THEN {s} ELSE {})
      BY <3>1, Inserted
    <3>3. f[n] = Insert(u, s)  BY <2>2 DEF u, s
    <3>4. SymbolsOf(f[n]) = SymbolsOf(u) \cup (IF hash(t.capacity, s.name) >= 0 THEN {s} ELSE {})
      BY <3>1, <3>2, <3>3
    <3> QED  BY <3>1, <3>2, <3>3, <3>4 DEF u, s
  <2>5. found(n) = found(n - 1) \cup (IF hash(t.capacity, q[n].name) >= 0 THEN {q[n]} ELSE {})
    <3>1. 1..n = (1..(n - 1)) \cup {n}  BY <1>1
    <3> QED  BY <3>1 DEF found
  <2>6. SymbolsOf(f[n]) = SymbolsOf(t) \cup found(n)  BY <2>1, <2>3, <2>5
  <2>7. ASSUME TableComplete(t), unique PROVE TableComplete(f[n])
    <3>1. found(n - 1) \subseteq ToSet(q) /\ q[n] \in ToSet(q)  BY <1>1 DEF ToSet, found
    <3>2. \A r \in SymbolsOf(f[n - 1]) : r.name = q[n].name => r = q[n]
      BY <2>1, <2>7, <3>1 DEF unique
    <3>3. TableComplete(f[n - 1])  BY <2>1, <2>7
    <3> QED  BY <2>1, <2>2, <3>2, <3>3, Inserted
  <2> QED  BY <2>3, <2>6, <2>7
<1>10. holds(N)
  <2> HIDE DEF holds, T, N
  <2>1. \A n \in 1..N : n - 1 \in T => n \in T  BY <1>9
  <2>2. \A n \in 0..N : n \in T  BY <1>1, <1>8, <2>1, UpTo
  <2> QED  BY <1>1, <2>2 DEF T
<1>11. found(N) = {s \in ToSet(q) : hash(t.capacity, s.name) >= 0}  BY <1>1 DEF ToSet
<1> HIDE DEF found
<1> QED  BY <1>6, <1>10, <1>11

(* All buckets in one sequence. *)
LEMMA Flattened ==
  ASSUME NEW S, NEW q \in Seq(Seq(S))
  PROVE  FlattenSeq(q) \in Seq(S) /\ ToSet(FlattenSeq(q)) = UNION {ToSet(q[b]) : b \in 1..Len(q)}
<1> DEFINE N == Len(q)
           G == [n \in 1..N |-> [p \in Seq(S) |-> p \o q[n]]]
           step(f, n) == IF n = 1 THEN q[n] ELSE f[n - 1] \o q[n]
<1>1. N \in Nat /\ DOMAIN q = 1..N /\ \A n \in 1..N : q[n] \in Seq(S)
  BY LenProperties, ElementOfSeq
<1>2. CASE N = 0
  <2>1. q = <<>>  BY <1>2, EmptySeq
  <2>2. FlattenSeq(q) = <<>>  BY <1>2, <2>1 DEF FlattenSeq
  <2> QED  BY <1>2, <2>2 DEF ToSet
<1>3. CASE N # 0
  <2>1. G \in [1..N -> [Seq(S) -> Seq(S)]]  BY <1>1, ConcatProperties
  <2>2. <<>> \in Seq(S)  BY EmptySeq
  <2>3. PICK g \in [0..N -> Seq(S)] : Follows(g, N, <<>>, G)
    <3> HIDE DEF G, N
    <3> QED  BY <1>1, <2>1, <2>2, Defined
  <2>4. g[0] = <<>> /\ \A n \in 1..N : g[n] = g[n - 1] \o q[n]
    <3>1. 0 \in 0..N /\ \A n \in 1..N : n \in 0..N /\ n - 1 \in 0..N /\ n # 0  BY <1>1
    <3>2. \A n \in 1..N : g[n - 1] \in Seq(S)  BY <3>1
    <3>3. \A n \in 1..N : G[n][g[n - 1]] = g[n - 1] \o q[n]  BY <3>2
    <3> HIDE DEF G, N
    <3> QED  BY <2>3, <3>1, <3>3 DEF Follows
  <2>5. g[1] = q[1]
    <3>1. 1 \in 1..N /\ 1 - 1 = 0  BY <1>1, <1>3
    <3> HIDE DEF N, G
    <3>2. g[1] = g[1 - 1] \o q[1]  BY <2>4, <3>1
    <3>3. g[1] = <<>> \o q[1]  BY <2>4, <3>1, <3>2
    <3>4. q[1] \in Seq(S)  BY <1>1, <3>1
    <3> QED  BY <3>3, <3>4, ConcatEmptySeq
  <2> DEFINE e == [n \in 1..N |-> g[n]]
  <2>6. e = [n \in 1..N |-> step(e, n)]
    <3>1. \A n \in 1..N : n # 1 => n - 1 \in 1..N  BY <1>1
    <3> QED  BY <2>4, <2>5, <3>1
  <2>7. PICK f : f = [n \in 1..N |-> step(f, n)] /\ FlattenSeq(q) = f[N]
    <3> DEFINE h == CHOOSE f : f = [n \in 1..N |-> step(f, n)]
    <3> HIDE DEF e
    <3>1. h = [n \in 1..N |-> step(h, n)]  BY <2>6
    <3>2. FlattenSeq(q) = h[N]  BY <1>3 DEF FlattenSeq
    <3> HIDE DEF h, step
    <3> QED  BY <3>1, <3>2
  <2>8. f[1] = q[1] /\ \A n \in 1..N : n # 1 => f[n] = f[n - 1] \o q[n]
    <3>1. 1 \in 1..N  BY <1>1, <1>3
    <3> QED  BY <2>7, <3>1
  <2> DEFINE upto(n) == UNION {ToSet(q[b]) : b \in 1..n}
             T == {0} \cup {n \in 1..N : f[n] \in Seq(S) /\ ToSet(f[n]) = upto(n)}
  <2>9. ASSUME NEW n \in 1..N, n - 1 \in T PROVE n \in T
    <3>1. CASE n = 1
      <4>1. upto(1) = ToSet(q[1])  BY <1>1
      <4> QED  BY <1>1, <2>8, <3>1, <4>1
    <3>2. CASE n # 1
      <4>1. f[n - 1] \in Seq(S) /\ ToSet(f[n - 1]) = upto(n - 1)  BY <2>9, <3>2
      <4>2. f[n] = f[n - 1] \o q[n] /\ q[n] \in Seq(S)  BY <1>1, <2>8, <3>2
      <4>3. f[n] \in Seq(S) /\ ToSet(f[n]) = ToSet(f[n - 1]) \cup ToSet(q[n])
        BY <4>1, <4>2, Concatenated
      <4>4. upto(n) = upto(n - 1) \cup ToSet(q[n])
        <5>1. 1..n = (1..(n - 1)) \cup {n}  BY <1>1
        <5> QED  BY <5>1
      <4> HIDE DEF upto
      <4> QED  BY <4>1, <4>3, <4>4
    <3> QED  BY <3>1, <3>2
  <2>10. N \in T
    <3>1. 0 \in T  OBVIOUS
    <3> HIDE DEF T, N
    <3>2. \A n \in 1..N : n - 1 \in T => n \in T  BY <2>9
    <3>3. \A n \in 0..N : n \in T  BY <1>1, <3>1, <3>2, UpTo
    <3> QED  BY <1>1, <3>3
  <2> HIDE DEF upto
  <2>11. f[N] \in Seq(S) /\ ToSet(f[N]) = upto(N)  BY <1>3, <2>10
  <2> QED  BY <2>7, <2>11 DEF upto
<1> QED  BY <1>2, <1>3

LEMMA Emptied ==
  ASSUME NEW c \in Nat \ {0}
  PROVE  /\ Empty(c) \in Tables /\ TableComplete(Empty(c))
         /\ Empty(c).capacity = c /\ SymbolsOf(Empty(c)) = {}
<1> DEFINE b == [k \in 0..(c - 1) |-> <<>>]
           t == Empty(c)
<1>1. t = [capacity |-> c, size |-> 0, symbols |-> b]  BY DEF Empty
<1>2. DOMAIN b = 0..(c - 1) /\ \A k \in 0..(c - 1) : b[k] = <<>>  OBVIOUS
<1>3. b \in [0..(c - 1) -> Seq(Symbols)]
  <2>1. <<>> \in Seq(Symbols)  BY EmptySeq
  <2> QED  BY <2>1
<1> HIDE DEF b, t
<1>4. t \in Tables
  <2>1. 0 \in 0..c  OBVIOUS
  <2> QED  BY <1>1, <1>3, <2>1, TableMade
<1>5. t.capacity = c /\ t.size = 0 /\ t.symbols = b  BY <1>1
<1>6. ToSet(<<>>) = {}  BY DEF ToSet
<1>7. SymbolsOf(t) = {}  BY <1>2, <1>5, <1>6 DEF SymbolsOf
<1>8. InUse(b) = 0
  <2>1. {k \in DOMAIN b : b[k] # <<>>} = {}  BY <1>2
  <2> QED  BY <2>1, FS_EmptySet DEF InUse
<1>9. TableComplete(t)
  <2>1. \A k \in DOMAIN t.symbols : ToSet(t.symbols[k]) = {}  BY <1>2, <1>5, <1>6
  <2> QED  BY <1>5, <1>7, <1>8, <2>1 DEF TableComplete
<1> QED  BY <1>4, <1>5, <1>7, <1>9 DEF t

LEMMA Gathered ==
  ASSUME NEW t \in Tables
  PROVE  AllSymbols(t) \in Seq(Symbols) /\ ToSet(AllSymbols(t)) = SymbolsOf(t)
<1> DEFINE c == t.capacity
           q == [b \in 1..c |-> t.symbols[b - 1]]
<1>1. c \in Nat \ {0} /\ t.symbols \in [0..(c - 1) -> Seq(Symbols)]  BY TableFacts DEF SymbolsFit
<1>2. AllSymbols(t) = FlattenSeq(q)  BY DEF AllSymbols
<1>3. q \in Seq(Seq(Symbols)) /\ Len(q) = c
  <2>1. q \in [1..c -> Seq(Symbols)]
    <3>1. \A b \in 1..c : b - 1 \in 0..(c - 1)  BY <1>1
    <3> QED  BY <1>1, <3>1
  <2> HIDE DEF q
  <2> QED  BY <1>1, <2>1
<1>4. \A b \in 1..c : q[b] = t.symbols[b - 1]  OBVIOUS
<1> HIDE DEF q, c
<1>5. FlattenSeq(q) \in Seq(Symbols) /\ ToSet(FlattenSeq(q)) = UNION {ToSet(q[b]) : b \in 1..Len(q)}
  BY <1>3, Flattened
<1>6. UNION {ToSet(q[b]) : b \in 1..c} = UNION {ToSet(t.symbols[b]) : b \in 0..(c - 1)}
  <2>1. \A b \in 1..c : b - 1 \in 0..(c - 1)  BY <1>1
  <2>2. \A b \in 0..(c - 1) : b + 1 \in 1..c /\ (b + 1) - 1 = b  BY <1>1
  <2>3. \A b \in 0..(c - 1) : q[b + 1] = t.symbols[b]  BY <1>4, <2>2
  <2> QED  BY <1>4, <2>1, <2>2, <2>3
<1>7. DOMAIN t.symbols = 0..(c - 1)  BY <1>1
<1> QED  BY <1>2, <1>3, <1>5, <1>6, <1>7 DEF SymbolsOf

(* A grown table has every symbol whose name has a bucket in it. *)
LEMMA Grown ==
  ASSUME NEW t \in Tables
  PROVE  LET u == Grow(t)
         IN  /\ u \in Tables /\ u.capacity = 2 * t.capacity
             /\ SymbolsOf(u) = {s \in SymbolsOf(t) : hash(u.capacity, s.name) >= 0}
             /\ TableComplete(t) => TableComplete(u)
<1> DEFINE c == 2 * t.capacity
           e == Empty(c)
           q == AllSymbols(t)
<1>1. c \in Nat \ {0}
  <2>1. t.capacity \in Nat \ {0}  BY TableFacts DEF SymbolsFit
  <2> QED  BY <2>1
<1> HIDE DEF c
<1>2. e \in Tables /\ TableComplete(e) /\ e.capacity = c /\ SymbolsOf(e) = {}  BY <1>1, Emptied
<1>3. q \in Seq(Symbols) /\ ToSet(q) = SymbolsOf(t)  BY Gathered
<1>4. Grow(t) = Rehash(e, q)  BY DEF Grow, c
<1> HIDE DEF e, q
<1>5. TableComplete(t) => \A r, s \in SymbolsOf(t) : r.name = s.name => r = s  BY DEF TableComplete
<1>6. /\ Rehash(e, q) \in Tables /\ Rehash(e, q).capacity = c
      /\ SymbolsOf(Rehash(e, q)) = SymbolsOf(e) \cup {s \in ToSet(q) : hash(e.capacity, s.name) >= 0}
      /\ TableComplete(t) => TableComplete(Rehash(e, q))
  BY <1>2, <1>3, <1>5, Rehashed
<1> QED  BY <1>2, <1>3, <1>4, <1>6 DEF c

------------------------------------------------------------------------------
(* Binding.                                                                  *)

LEMMA Members ==
  ASSUME NEW t \in Tables
  PROVE  \A s \in SymbolsOf(t) : s \in Symbols /\ s.name \in Names
<1>1. SymbolsOf(t) \subseteq Symbols
  <2>1. \A b \in DOMAIN t.symbols : t.symbols[b] \in Seq(Symbols)  BY TableFacts DEF SymbolsFit
  <2>2. ASSUME NEW b \in DOMAIN t.symbols PROVE ToSet(t.symbols[b]) \subseteq Symbols
    <3> DEFINE q == t.symbols[b]
    <3>1. q \in Seq(Symbols)  BY <2>1
    <3> HIDE DEF q
    <3>2. \A i \in DOMAIN q : q[i] \in Symbols  BY <3>1, LenProperties, ElementOfSeq
    <3>3. ToSet(q) \subseteq Symbols  BY <3>2 DEF ToSet
    <3> QED  BY <3>3 DEF q
  <2> QED  BY <2>2 DEF SymbolsOf
<1> QED  BY <1>1 DEF Symbols

(* A name whose hash did not overflow is there once it is bound, and stays. *)
LEMMA Bound ==
  ASSUME NEW t \in Tables, NEW s \in Symbols
  PROVE  LET u == Bind(t, s)
         IN  /\ u \in Tables
             /\ TableComplete(t) => TableComplete(u)
             /\ \A name \in Names : HashOf[name] >= 0 /\ Named(t, name) # {} => Named(u, name) # {}
             /\ HashOf[s.name] >= 0 => Named(u, s.name) # {}
<1> DEFINE v == IF Full(t) THEN Grow(t) ELSE t
           u == Bind(t, s)
<1>1. CASE Named(t, s.name) # {}
  <2>1. u = t  BY <1>1 DEF Bind
  <2> QED  BY <1>1, <2>1
<1>2. CASE Named(t, s.name) = {}
  <2>1. u = Insert(v, s)  BY <1>2 DEF Bind
  <2>2. /\ v \in Tables /\ (TableComplete(t) => TableComplete(v))
        /\ SymbolsOf(v) \subseteq SymbolsOf(t)
        /\ \A r \in SymbolsOf(t) : hash(v.capacity, r.name) >= 0 => r \in SymbolsOf(v)
    <3> DEFINE w == Grow(t)
    <3>1. /\ w \in Tables /\ (TableComplete(t) => TableComplete(w))
          /\ SymbolsOf(w) = {r \in SymbolsOf(t) : hash(w.capacity, r.name) >= 0}
      BY Grown
    <3> HIDE DEF w
    <3>2. v = w \/ v = t  BY DEF w
    <3> HIDE DEF v
    <3> QED  BY <3>1, <3>2
  <2> HIDE DEF v, u
  <2>3. v.capacity \in Nat \ {0}  BY <2>2, TableFacts DEF SymbolsFit
  <2>4. \A r \in SymbolsOf(v) : r.name # s.name  BY <1>2, <2>2 DEF Named
  <2>5. /\ u \in Tables
        /\ SymbolsOf(u) = SymbolsOf(v) \cup (IF hash(v.capacity, s.name) >= 0 THEN {s} ELSE {})
        /\ TableComplete(v) => TableComplete(u)
    BY <2>1, <2>2, <2>4, Inserted
  <2>6. ASSUME NEW name \in Names, HashOf[name] >= 0, Named(t, name) # {}
        PROVE  Named(u, name) # {}
    <3>1. PICK r \in SymbolsOf(t) : r.name = name  BY <2>6 DEF Named
    <3>2. hash(v.capacity, name) >= 0  BY <2>3, <2>6, HashFacts
    <3>3. r \in SymbolsOf(u)  BY <2>2, <2>5, <3>1, <3>2
    <3> QED  BY <3>1, <3>3 DEF Named
  <2>7. ASSUME HashOf[s.name] >= 0 PROVE Named(u, s.name) # {}
    <3>1. s.name \in Names  BY DEF Symbols
    <3>2. hash(v.capacity, s.name) >= 0  BY <2>3, <2>7, <3>1, HashFacts
    <3>3. s \in SymbolsOf(u)  BY <2>5, <3>2
    <3> QED  BY <3>3 DEF Named
  <2> QED  BY <2>2, <2>5, <2>6, <2>7 DEF u
<1> QED  BY <1>1, <1>2

(* So too for a sequence of symbols, those without a bucket passed over. *)
LEMMA BoundAll ==
  ASSUME NEW t \in Tables, NEW q \in Seq(Symbols)
  PROVE  \A n \in 0..Len(q) : /\ BindAll(t, q)[n] \in Tables
                              /\ TableComplete(t) => TableComplete(BindAll(t, q)[n])
<1> DEFINE N == Len(q)
           one(u, s) == IF HasBucket(u, s.name) THEN Bind(u, s) ELSE u
           G == [n \in 1..N |-> [u \in Tables |-> one(u, q[n])]]
           step(f, n) == IF n = 0 THEN t
                         ELSE IF HasBucket(f[n - 1], q[n].name) THEN Bind(f[n - 1], q[n])
                         ELSE f[n - 1]
<1>1. N \in Nat /\ \A n \in 1..N : q[n] \in Symbols
  BY LenProperties, ElementOfSeq
<1>2. G \in [1..N -> [Tables -> Tables]]
  <2>1. \A n \in 1..N : \A u \in Tables : one(u, q[n]) \in Tables  BY <1>1, Bound
  <2> HIDE DEF one
  <2> QED  BY <2>1
<1>3. PICK g \in [0..N -> Tables] : Follows(g, N, t, G)
  <2> HIDE DEF G, N
  <2> QED  BY <1>1, <1>2, Defined
<1>4. ASSUME NEW n \in 1..N PROVE G[n][g[n - 1]] = one(g[n - 1], q[n])
  <2>1. g[n - 1] \in Tables  BY <1>1
  <2> HIDE DEF one
  <2> QED  BY <2>1
<1>5. g = [n \in 0..N |-> step(g, n)]
  <2> HIDE DEF G, N
  <2>1. \A n \in 0..N : n # 0 => n \in 1..N  BY <1>1
  <2>2. \A n \in 0..N : g[n] = step(g, n)  BY <1>3, <1>4, <2>1 DEF Follows
  <2> QED  BY <2>2
<1> HIDE DEF G
<1>6. PICK f : f = [n \in 0..N |-> step(f, n)] /\ BindAll(t, q) = f
  <2> DEFINE h == CHOOSE f : f = [n \in 0..N |-> step(f, n)]
  <2>1. h = [n \in 0..N |-> step(h, n)]  BY <1>5
  <2>2. BindAll(t, q) = h  BY DEF BindAll
  <2> HIDE DEF h, step
  <2> QED  BY <2>1, <2>2
<1>7. f[0] = t /\ \A n \in 1..N : f[n] = one(f[n - 1], q[n])
  <2>1. 0 \in 0..N /\ \A n \in 1..N : n \in 0..N /\ n # 0  BY <1>1
  <2> QED  BY <1>6, <2>1
<1> DEFINE holds(n) == f[n] \in Tables /\ (TableComplete(t) => TableComplete(f[n]))
           T == {n \in 0..N : holds(n)}
<1>8. 0 \in T  BY <1>1, <1>7
<1>9. ASSUME NEW n \in 1..N, n - 1 \in T PROVE n \in T
  <2>1. holds(n - 1) /\ f[n] = one(f[n - 1], q[n]) /\ q[n] \in Symbols  BY <1>1, <1>7, <1>9
  <2> HIDE DEF step
  <2>2. holds(n)  BY <2>1, Bound
  <2> QED  BY <2>2
<1>10. \A n \in 0..N : n \in T
  <2> HIDE DEF holds, T, N
  <2>1. \A n \in 1..N : n - 1 \in T => n \in T  BY <1>9
  <2> QED  BY <1>1, <1>8, <2>1, UpTo
<1> QED  BY <1>6, <1>10

------------------------------------------------------------------------------
(* The inductive invariant.                                                  *)

Whole == {t \in Tables : TableComplete(t)}

ResolveItems ==
  [do : {"collect", "global"}, node : Globals]
    \cup [do : {"statement", "expression"}, node : Nodes]
    \cup [do : {"push_scope", "pop_scope", "pop_context"}, node : {Null}]
    \cup [do : {"push_context"}, node : {"RETURN", "ASSIGNMENT", "AUG", "OP"}]

GlobalItems == [do : {"check_global"}, node : Globals]
BodyItems   == [do : {"check", "check_expression"}, node : Nodes]
PopFunctionItem == Do("pop_function", Null)

SymbolsInv ==
  /\ program \in Seq(Globals)
  /\ symbol_of \in [Ids -> Symbols \cup {Null}]
  /\ lost \in BOOLEAN /\ checking \in BOOLEAN /\ aborted \in BOOLEAN

TablesInv == tables \in Seq(Whole) /\ global_table \in Whole

(* What is left of a function, its end, and the globals after it. *)
Split(items, k) ==
  /\ \A i \in 1..(k - 1) : items[i] \in BodyItems
  /\ k # 0 => items[k] = PopFunctionItem
  /\ \A i \in (k + 1)..Len(items) : items[i] \in GlobalItems

TodoInv ==
  /\ ~checking => todo \in Seq(ResolveItems) /\ functions = <<>>
  /\ checking => \E k \in 0..Len(todo) :
       /\ todo \in Seq(GlobalItems \cup BodyItems \cup {PopFunctionItem})
       /\ Split(todo, k)
       /\ functions \in Seq(Symbols \cup {Null})
       /\ Len(functions) = IF k = 0 THEN 0 ELSE 1

(* A function is bound or still to be collected. *)
CollectedInv ==
  \A n \in Functions :
    \/ HashOf[program[n].name] < 0
    \/ Named(global_table, program[n].name) # {}
    \/ ~checking /\ \E k \in DOMAIN todo : todo[k] = Do("collect", program[n])

IInv == SymbolsInv /\ TablesInv /\ TodoInv /\ CollectedInv

LEMMA WholeTables ==
  /\ \A c \in Nat \ {0} : Empty(c) \in Whole
  /\ create_symbol_table \in Whole
  /\ \A t \in Whole, s \in Symbols : Bind(t, s) \in Whole
  /\ \A t \in Whole : SymbolsFit(t) /\ TableComplete(t)
<1>1. \A c \in Nat \ {0} : Empty(c) \in Whole  BY Emptied DEF Whole
<1>2. TableCapacity \in Nat \ {0}  BY TablesAssumption
<1>3. ASSUME NEW t \in Whole, NEW s \in Symbols PROVE Bind(t, s) \in Whole
  <2>1. t \in Tables /\ TableComplete(t)  BY DEF Whole
  <2> QED  BY <2>1, Bound DEF Whole
<1> QED  BY <1>1, <1>2, <1>3, TableFacts DEF Whole, create_symbol_table

LEMMA Shape == ASSUME IInv PROVE TypeOK
<1>1. \A n \in DOMAIN tables : SymbolsFit(tables[n])
  <2>1. \A n \in DOMAIN tables : tables[n] \in Whole
    BY LenProperties, ElementOfSeq DEF IInv, TablesInv
  <2> QED  BY <2>1, WholeTables
<1>2. SymbolsFit(global_table)  BY WholeTables DEF IInv, TablesInv
<1>3. functions \in Seq(Symbols \cup {Null}) /\ Len(functions) <= 1
  <2>1. CASE ~checking
    <3>1. functions = <<>>  BY <2>1 DEF IInv, TodoInv
    <3> QED  BY <3>1, EmptySeq
  <2>2. CASE checking
    <3>1. PICK k \in 0..Len(todo) : /\ functions \in Seq(Symbols \cup {Null})
                                    /\ Len(functions) = IF k = 0 THEN 0 ELSE 1
      BY <2>2 DEF IInv, TodoInv
    <3> QED  BY <3>1
  <2> QED  BY <2>1, <2>2
<1> QED  BY <1>1, <1>2, <1>3 DEF IInv, SymbolsInv, TypeOK

LEMMA Complete == ASSUME IInv PROVE TablesComplete
<1>1. \A n \in DOMAIN tables : TableComplete(tables[n])
  <2>1. \A n \in DOMAIN tables : tables[n] \in Whole
    BY LenProperties, ElementOfSeq DEF IInv, TablesInv
  <2> QED  BY <2>1, WholeTables
<1>2. TableComplete(global_table)  BY WholeTables DEF IInv, TablesInv
<1>3. ASSUME checking, NEW n \in Functions, HashOf[program[n].name] >= 0
      PROVE  Named(global_table, program[n].name) # {}
  <2>1. program[n].name \in Names
    <3>1. program[n] \in Globals /\ IsFunction(program[n])
      BY LenProperties, ElementOfSeq DEF IInv, SymbolsInv, Functions
    <3>2. program[n] \in Of({"NAME"})  BY <3>1 DEF Globals, Callables, Of, IsFunction
    <3> QED  BY <3>2, NodesAssumption
  <2>2. HashOf[program[n].name] \in Int  BY <2>1, TablesAssumption DEF Names
  <2> QED  BY <1>3, <2>2 DEF IInv, CollectedInv
<1> QED  BY <1>1, <1>2, <1>3 DEF TablesComplete

------------------------------------------------------------------------------
(* What is left to do.                                                       *)

(* The head of what is left gives way to what it calls for. *)
LEMMA Replaced ==
  ASSUME NEW S, NEW q \in Seq(S), q # <<>>, NEW p \in Seq(S)
  PROVE  LET r == p \o Tail(q)
         IN  /\ r \in Seq(S) /\ Len(r) = Len(p) + Len(q) - 1
             /\ Len(p) \in Nat /\ Len(q) \in Nat \ {0} /\ q[1] \in S
             /\ \A i \in 1..Len(p) : r[i] = p[i]
             /\ \A i \in (Len(p) + 1)..Len(r) : r[i] = q[i - Len(p) + 1]
             /\ \A i \in 2..Len(q) : r[i - 1 + Len(p)] = q[i]
<1> DEFINE u == Tail(q)
           r == p \o u
<1>1. Len(p) \in Nat /\ Len(q) \in Nat \ {0}  BY LenProperties, EmptySeq
<1>2. u \in Seq(S) /\ Len(u) = Len(q) - 1 /\ \A i \in 1..Len(u) : u[i] = q[i + 1]
  BY HeadTailProperties
<1>3. q[1] \in S  BY <1>1, ElementOfSeq
<1> HIDE DEF u
<1>4. /\ r \in Seq(S) /\ Len(r) = Len(p) + Len(u)
      /\ \A i \in 1..(Len(p) + Len(u)) : r[i] = IF i <= Len(p) THEN p[i] ELSE u[i - Len(p)]
  BY <1>2, ConcatProperties
<1> HIDE DEF r
<1>5. \A i \in 1..Len(p) : r[i] = p[i]
  <2>1. \A i \in 1..Len(p) : i \in 1..(Len(p) + Len(u)) /\ i <= Len(p)  BY <1>1, <1>2
  <2> QED  BY <1>4, <2>1
<1>6. \A i \in (Len(p) + 1)..Len(r) : r[i] = q[i - Len(p) + 1]
  <2> TAKE i \in (Len(p) + 1)..Len(r)
  <2>1. r[i] = u[i - Len(p)] /\ i - Len(p) \in 1..Len(u)  BY <1>1, <1>2, <1>4
  <2> QED  BY <1>2, <2>1
<1>7. \A i \in 2..Len(q) : r[i - 1 + Len(p)] = q[i]
  <2> TAKE i \in 2..Len(q)
  <2>1. i - 1 + Len(p) \in (Len(p) + 1)..Len(r)  BY <1>1, <1>2, <1>4
  <2>2. (i - 1 + Len(p)) - Len(p) + 1 = i  BY <1>1
  <2> QED  BY <1>6, <2>1, <2>2
<1> QED  BY <1>1, <1>2, <1>3, <1>4, <1>5, <1>6, <1>7 DEF r, u

LEMMA Mapped ==
  ASSUME NEW S, NEW q \in Seq(S), NEW R, NEW r \in [DOMAIN q -> R]
  PROVE  r \in Seq(R) /\ Len(r) = Len(q)
<1>1. DOMAIN q = 1..Len(q) /\ Len(q) \in Nat  BY LenProperties
<1>2. r \in [1..Len(q) -> R]  BY <1>1
<1> QED  BY <1>1, <1>2

(* The items there are, and what they are about. *)
LEMMA ItemsMade ==
  /\ \A n \in Globals : Do("collect", n) \in ResolveItems /\ Do("global", n) \in ResolveItems
  /\ \A n \in Nodes : Stmt(n) \in ResolveItems /\ Expr(n) \in ResolveItems
  /\ PopScope \in ResolveItems /\ PopContext \in ResolveItems
  /\ Do("push_scope", Null) \in ResolveItems
  /\ \A c \in {"RETURN", "ASSIGNMENT", "AUG", "OP"} : Push(c) \in ResolveItems
BY DEF ResolveItems, Do, Stmt, Expr, PopScope, PopContext, Push

LEMMA ItemsTaken ==
  ASSUME NEW item \in ResolveItems
  PROVE  /\ item.do \in {"collect", "global", "statement", "expression",
                          "push_scope", "pop_scope", "pop_context", "push_context"}
         /\ item.do \in {"collect", "global"} => item.node \in Globals
         /\ item.do \in {"statement", "expression"} => item.node \in Nodes
BY DEF ResolveItems

(* What a step of the resolution leaves to do, whatever else it changes. *)
LEMMA Stepped ==
  ASSUME IInv, ~checking, todo # <<>>, NEW items \in Seq(ResolveItems), Then(items),
         UNCHANGED <<program, checking, functions, aborted>>,
         lost' \in BOOLEAN, TablesInv', symbol_of' \in [Ids -> Symbols \cup {Null}],
         \A n \in Functions :
           \/ Named(global_table, program[n].name) # {} => Named(global_table', program[n].name) # {}
           \/ HashOf[program[n].name] < 0,
         \A n \in Functions :
           \/ todo[1] # Do("collect", program[n])
           \/ HashOf[program[n].name] < 0
           \/ Named(global_table', program[n].name) # {}
  PROVE  IInv'
<1>1. SymbolsInv'  BY DEF IInv, SymbolsInv
<1>2. todo \in Seq(ResolveItems) /\ functions = <<>>  BY DEF IInv, TodoInv
<1>3. /\ todo' \in Seq(ResolveItems) /\ Len(todo') = Len(items) + Len(todo) - 1
      /\ Len(items) \in Nat /\ Len(todo) \in Nat \ {0}
      /\ \A i \in 2..Len(todo) : todo'[i - 1 + Len(items)] = todo[i]
  BY <1>2, Replaced DEF Then
<1>4. TodoInv'  BY <1>2, <1>3 DEF TodoInv
<1>5. CollectedInv'
  <2> SUFFICES ASSUME NEW n \in Functions,
                      ~(HashOf[program[n].name] < 0), Named(global_table', program[n].name) = {}
               PROVE  \E k \in DOMAIN todo' : todo'[k] = Do("collect", program[n])
    BY DEF CollectedInv, Functions
  <2>1. Named(global_table, program[n].name) = {}  OBVIOUS
  <2>2. PICK k \in DOMAIN todo : todo[k] = Do("collect", program[n])
    BY <2>1 DEF IInv, CollectedInv
  <2>3. k \in 2..Len(todo)
    <3>1. todo[1] # Do("collect", program[n])  OBVIOUS
    <3>2. k \in 1..Len(todo) /\ k # 1  BY <1>2, <2>2, <3>1, LenProperties
    <3> QED  BY <1>3, <3>2
  <2>4. k - 1 + Len(items) \in DOMAIN todo'  BY <1>3, <2>3, LenProperties
  <2> QED  BY <1>3, <2>2, <2>3, <2>4
<1> QED  BY <1>1, <1>4, <1>5 DEF IInv

(* Most steps only leave other things to do, or change scope. *)
LEMMA Walked ==
  ASSUME IInv, ~checking, todo # <<>>, NEW items \in Seq(ResolveItems), Then(items),
         UNCHANGED <<program, checking, functions, aborted, global_table>>, lost' \in BOOLEAN,
         tables' \in Seq(Whole), symbol_of' \in [Ids -> Symbols \cup {Null}],
         todo[1].do # "collect"
  PROVE  IInv'
<1>1. TablesInv'  BY DEF IInv, TablesInv
<1>2. \A n \in Functions : todo[1] # Do("collect", program[n])  BY DEF Do
<1> QED  BY <1>1, <1>2, Stepped

LEMMA HeadItem ==
  ASSUME IInv, todo # <<>>
  PROVE  /\ todo[1].do \in {"collect", "global", "statement", "expression",
                             "push_scope", "pop_scope", "pop_context", "push_context"} => ~checking
         /\ todo[1].do \in {"check_global", "check", "check_expression", "pop_function"} => checking
         /\ todo[1].do \in {"collect", "global", "check_global"} => Node \in Globals
         /\ todo[1].do \in {"statement", "expression", "check", "check_expression"} => Node \in Nodes
         /\ ~checking => todo[1].do # "pop_function"
<1>1. ~checking => todo[1] \in ResolveItems
  <2>1. ~checking => todo \in Seq(ResolveItems)  BY DEF IInv, TodoInv
  <2> QED  BY <2>1, LenProperties, EmptySeq, ElementOfSeq
<1>2. checking => todo[1] \in GlobalItems \cup BodyItems \cup {PopFunctionItem}
  <2>1. checking => todo \in Seq(GlobalItems \cup BodyItems \cup {PopFunctionItem})
    BY DEF IInv, TodoInv
  <2> QED  BY <2>1, LenProperties, EmptySeq, ElementOfSeq
<1>3. todo[1] \in GlobalItems \cup BodyItems \cup {PopFunctionItem} =>
        /\ todo[1].do \in {"check_global", "check", "check_expression", "pop_function"}
        /\ todo[1].do = "check_global" => Node \in Globals
        /\ todo[1].do \in {"check", "check_expression"} => Node \in Nodes
  BY DEF GlobalItems, BodyItems, PopFunctionItem, Do, Node
<1>4. todo[1] \in ResolveItems =>
        /\ todo[1].do \in {"collect", "global", "statement", "expression",
                           "push_scope", "pop_scope", "pop_context", "push_context"}
        /\ todo[1].do \in {"collect", "global"} => Node \in Globals
        /\ todo[1].do \in {"statement", "expression"} => Node \in Nodes
  BY ItemsTaken DEF Node
<1> DEFINE d == todo[1].do
<1>5. d \in {"check_global", "check", "check_expression", "pop_function"} => checking
  BY <1>1, <1>4
<1>6. d \in {"collect", "global", "statement", "expression",
            "push_scope", "pop_scope", "pop_context", "push_context"} => ~checking
  BY <1>2, <1>3
<1>7. d \in {"collect", "global", "check_global"} => Node \in Globals
  BY <1>1, <1>2, <1>3, <1>4
<1>8. d \in {"statement", "expression", "check", "check_expression"} => Node \in Nodes
  BY <1>1, <1>2, <1>3, <1>4
<1>9. ~checking => d # "pop_function"
  BY <1>1, <1>4
<1> QED  BY <1>5, <1>6, <1>7, <1>8, <1>9

(* A node's children. *)
LEMMA Children ==
  ASSUME NEW n \in Nodes
  PROVE  /\ n.type \in {"IF", "ELSE_IF", "WHILE", "FOR", "ASSIGNMENT", "SUBSCRIPT", "INCREMENT",
                        "DECREMENT", "DEF", "AUG"} \cup Operators => n.left \in Nodes
         /\ n.type \in {"IF", "ELSE_IF", "ELSE", "WHILE", "FOR", "ASSIGNMENT", "SUBSCRIPT",
                        "UNARY_SUB", "NOT"} \cup Operators => n.right \in Nodes
         /\ n.type = "FOR" => n.condition \in Nodes /\ n.update \in Nodes
         /\ n.type \in {"BLOCK", "ARRAY_LIST"} => n.right \in Seq(Nodes)
         /\ n.type = "RETURN" => n.right \in Nodes \cup {Null}
         /\ n.type = "CALL" => n.left \in Nodes /\ n.params \in Seq(Nodes)
         /\ n.type = "NAME" => /\ n.left \in Nodes \cup {Null}
                              /\ n.id \in Ids /\ n.name \in Names /\ n.t \in Types
         /\ n \in Callables => n.params \in Seq(Variables) /\ n.right \in Nodes
<1>1. /\ n.type = "FOR" => n.condition \in Nodes /\ n.update \in Nodes
      /\ n.type \in {"BLOCK", "ARRAY_LIST"} => n.right \in Seq(Nodes)
      /\ n.type = "RETURN" => n.right \in Nodes \cup {Null}
      /\ n.type = "CALL" => n.left \in Nodes /\ n.params \in Seq(Nodes)
  BY NodesAssumption DEF Of, Variables
<1>2. /\ n.type = "NAME" => n.left \in Nodes \cup {Null} /\ n.id \in Ids /\ n.name \in Names
      /\ n \in Callables => n.params \in Seq(Variables) /\ n.right \in Nodes
  BY NodesAssumption DEF Of
<1>3. n.type = "NAME" => n.t \in Types  BY DEF Types, Of
<1>4. n.type \in {"IF", "ELSE_IF", "WHILE", "FOR", "ASSIGNMENT", "SUBSCRIPT", "INCREMENT",
                 "DECREMENT", "DEF", "AUG"} \cup Operators => n.left \in Nodes
  BY NodesAssumption DEF Of
<1>5. n.type \in {"IF", "ELSE_IF", "ELSE", "WHILE", "FOR", "ASSIGNMENT", "SUBSCRIPT",
                 "UNARY_SUB", "NOT"} \cup Operators => n.right \in Nodes
  BY NodesAssumption DEF Of
<1> QED  BY <1>1, <1>2, <1>3, <1>4, <1>5

LEMMA Scopes ==
  ASSUME NEW stack \in Seq(Whole)
  PROVE  /\ Append(stack, create_symbol_table) \in Seq(Whole)
         /\ stack # <<>> => stack[Len(stack)] \in Whole
         /\ (IF stack = <<>> THEN <<>> ELSE SubSeq(stack, 1, Len(stack) - 1)) \in Seq(Whole)
         /\ \A t \in Whole : Append(stack, t) \in Seq(Whole)
         /\ \A t \in Whole : [stack EXCEPT ![Len(stack)] = t] \in Seq(Whole)
         /\ \A t : stack = <<>> => [stack EXCEPT ![Len(stack)] = t] \in Seq(Whole)
<1>1. create_symbol_table \in Whole  BY WholeTables
<1>2. \A t \in Whole : Append(stack, t) \in Seq(Whole)  BY AppendProperties
<1>3. Len(stack) \in Nat /\ stack \in [1..Len(stack) -> Whole] /\ (Len(stack) = 0 <=> stack = <<>>)
  BY LenProperties, EmptySeq
<1>4. stack # <<>> => stack[Len(stack)] \in Whole  BY <1>3
<1>5. ASSUME stack # <<>> PROVE SubSeq(stack, 1, Len(stack) - 1) \in Seq(Whole)
  <2>1. Len(stack) - 1 \in 0..Len(stack) /\ 1 \in 1..(Len(stack) + 1)  BY <1>3, <1>5
  <2> QED  BY <1>3, <2>1, SubSeqProperties
<1>6. ASSUME NEW t, stack = <<>> \/ t \in Whole
      PROVE  [stack EXCEPT ![Len(stack)] = t] \in Seq(Whole)
  <2> DEFINE u == [stack EXCEPT ![Len(stack)] = t]
  <2>1. DOMAIN u = 1..Len(stack) /\ u = [i \in 1..Len(stack) |-> IF i = Len(stack) THEN t ELSE stack[i]]
    BY <1>3
  <2>2. \A i \in 1..Len(stack) : (IF i = Len(stack) THEN t ELSE stack[i]) \in Whole
    <3>1. ASSUME NEW i \in 1..Len(stack) PROVE stack # <<>> /\ stack[i] \in Whole  BY <1>3
    <3> QED  BY <1>6, <3>1
  <2>3. u \in [1..Len(stack) -> Whole]  BY <2>1, <2>2
  <2> HIDE DEF u
  <2>4. u \in Seq(Whole)  BY <1>3, <2>3
  <2> QED  BY <2>4 DEF u
<1> QED  BY <1>1, <1>2, <1>4, <1>5, <1>6, EmptySeq

------------------------------------------------------------------------------
(* The steps of the resolution.                                              *)

LEMMA StatementSteps ==
  ASSUME IInv, UNCHANGED <<program, checking, functions, aborted>>,
         \/ ResolveIf \/ ResolveElse \/ ResolveWhile \/ ResolveFor \/ ResolveReturn
         \/ ResolveAssignment \/ ResolveBlock \/ ResolveIncrementStatement
         \/ ResolveCallStatement \/ PassOverStatement
  PROVE  IInv'
<1>1. todo # <<>> /\ todo[1].do = "statement"
  BY DEF ResolveIf, ResolveElse, ResolveWhile, ResolveFor, ResolveReturn, ResolveAssignment,
         ResolveBlock, ResolveIncrementStatement, ResolveCallStatement, PassOverStatement,
         StatementIs, Head1
<1>2. Node \in Nodes /\ ~checking /\ todo[1].do # "collect"  BY <1>1, HeadItem
<1>3. tables \in Seq(Whole) /\ symbol_of \in [Ids -> Symbols \cup {Null}] /\ lost \in BOOLEAN
  BY DEF IInv, TablesInv, SymbolsInv
<1>4. push_scope \/ UNCHANGED tables => tables' \in Seq(Whole)  BY <1>3, Scopes DEF push_scope
<1>5. ASSUME NEW items \in Seq(ResolveItems), Then(items),
             push_scope \/ UNCHANGED tables, UNCHANGED <<global_table, symbol_of, lost>>
      PROVE  IInv'
  <2>1. tables' \in Seq(Whole) /\ symbol_of' \in [Ids -> Symbols \cup {Null}] /\ lost' \in BOOLEAN
    BY <1>3, <1>4, <1>5
  <2> QED  BY <1>1, <1>2, <1>5, <2>1, Walked
<1>6. CASE ResolveIf
  <2> DEFINE items == <<Expr(Node.left), Stmt(Node.right), PopScope, PopContext>>
  <2>1. Node.left \in Nodes /\ Node.right \in Nodes  BY <1>2, <1>6, Children DEF ResolveIf, StatementIs
  <2>2. items \in Seq(ResolveItems)  BY <2>1, ItemsMade
  <2>3. Then(items) /\ push_scope /\ UNCHANGED <<global_table, symbol_of, lost>>
    BY <1>6 DEF ResolveIf
  <2> HIDE DEF items
  <2> QED  BY <1>5, <2>2, <2>3
<1>7. CASE ResolveElse
  <2> DEFINE items == <<Stmt(Node.right), PopScope>>
  <2>1. Node.right \in Nodes  BY <1>2, <1>7, Children DEF ResolveElse, StatementIs
  <2>2. items \in Seq(ResolveItems)  BY <2>1, ItemsMade
  <2>3. Then(items) /\ push_scope /\ UNCHANGED <<global_table, symbol_of, lost>>
    BY <1>7 DEF ResolveElse
  <2> HIDE DEF items
  <2> QED  BY <1>5, <2>2, <2>3
<1>8. CASE ResolveWhile
  <2> DEFINE items == <<Expr(Node.left), Stmt(Node.right), PopScope, PopContext>>
  <2>1. Node.left \in Nodes /\ Node.right \in Nodes
    BY <1>2, <1>8, Children DEF ResolveWhile, StatementIs
  <2>2. items \in Seq(ResolveItems)  BY <2>1, ItemsMade
  <2>3. Then(items) /\ push_scope /\ UNCHANGED <<global_table, symbol_of, lost>>
    BY <1>8 DEF ResolveWhile
  <2> HIDE DEF items
  <2> QED  BY <1>5, <2>2, <2>3
<1>9. CASE ResolveFor
  <2> DEFINE items == <<Stmt(Node.left), Expr(Node.condition), Expr(Node.update), Stmt(Node.right),
                        PopContext, PopScope>>
  <2>1. {Node.left, Node.right, Node.condition, Node.update} \subseteq Nodes
    BY <1>2, <1>9, Children DEF ResolveFor, StatementIs
  <2>2. items \in Seq(ResolveItems)  BY <2>1, ItemsMade
  <2>3. Then(items) /\ push_scope /\ UNCHANGED <<global_table, symbol_of, lost>>
    BY <1>9 DEF ResolveFor
  <2> HIDE DEF items
  <2> QED  BY <1>5, <2>2, <2>3
<1>10. CASE ResolveReturn
  <2> DEFINE items == If(Node.right, <<Push("RETURN"), Expr(Node.right), PopContext>>)
  <2>1. Node.right \in Nodes \cup {Null}  BY <1>2, <1>10, Children DEF ResolveReturn, StatementIs
  <2>2. items \in Seq(ResolveItems)
    <3>1. CASE Node.right = Null  BY <3>1, EmptySeq DEF If
    <3>2. CASE Node.right \in Nodes /\ Node.right # Null
      <4>1. items = <<Push("RETURN"), Expr(Node.right), PopContext>>  BY <3>2 DEF If
      <4>2. <<Push("RETURN"), Expr(Node.right), PopContext>> \in Seq(ResolveItems)  BY <3>2, ItemsMade
      <4> QED  BY <4>1, <4>2
    <3> QED  BY <2>1, <3>1, <3>2
  <2>3. Then(items) /\ UNCHANGED <<tables, global_table, symbol_of, lost>>
    BY <1>10 DEF ResolveReturn, Walks
  <2> HIDE DEF items
  <2> QED  BY <1>5, <2>2, <2>3
<1>11. CASE ResolveAssignment
  <2> DEFINE items == <<Expr(Node.left), Push("ASSIGNMENT"), Expr(Node.right), PopContext>>
  <2>1. Node.left \in Nodes /\ Node.right \in Nodes
    BY <1>2, <1>11, Children DEF ResolveAssignment, StatementIs
  <2>2. items \in Seq(ResolveItems)  BY <2>1, ItemsMade
  <2>3. Then(items) /\ UNCHANGED <<tables, global_table, symbol_of, lost>>
    BY <1>11 DEF ResolveAssignment, Walks
  <2> HIDE DEF items
  <2> QED  BY <1>5, <2>2, <2>3
<1>12. CASE ResolveBlock
  <2> DEFINE items == [n \in DOMAIN Node.right |-> Stmt(Node.right[n])]
  <2>1. Node.right \in Seq(Nodes)  BY <1>2, <1>12, Children DEF ResolveBlock, StatementIs
  <2>2. items \in Seq(ResolveItems)
    <3>1. \A n \in DOMAIN Node.right : Stmt(Node.right[n]) \in ResolveItems
      BY <2>1, LenProperties, ElementOfSeq, ItemsMade
    <3>2. items \in [DOMAIN Node.right -> ResolveItems]  BY <3>1
    <3> HIDE DEF items
    <3> QED  BY <2>1, <3>2, Mapped
  <2>3. Then(items) /\ UNCHANGED <<tables, global_table, symbol_of, lost>>
    BY <1>12 DEF ResolveBlock, Walks
  <2> HIDE DEF items
  <2> QED  BY <1>5, <2>2, <2>3
<1>13. CASE ResolveIncrementStatement
  <2> DEFINE items == <<Push("OP"), Expr(Node.left), PopContext>>
  <2>1. Node.left \in Nodes  BY <1>2, <1>13, Children DEF ResolveIncrementStatement, StatementIs
  <2>2. items \in Seq(ResolveItems)  BY <2>1, ItemsMade
  <2>3. Then(items) /\ UNCHANGED <<tables, global_table, symbol_of, lost>>
    BY <1>13 DEF ResolveIncrementStatement, Walks
  <2> HIDE DEF items
  <2> QED  BY <1>5, <2>2, <2>3
<1>14. CASE ResolveCallStatement
  <2> DEFINE items == <<Expr(Node)>>
  <2>1. items \in Seq(ResolveItems)  BY <1>2, ItemsMade
  <2>2. Then(items) /\ UNCHANGED <<tables, global_table, symbol_of, lost>>
    BY <1>14 DEF ResolveCallStatement, Walks
  <2> HIDE DEF items
  <2> QED  BY <1>5, <2>1, <2>2
<1>15. CASE PassOverStatement
  <2>1. Then(<<>>) /\ UNCHANGED <<tables, global_table, symbol_of, lost>>
    BY <1>15 DEF PassOverStatement, Walks
  <2> QED  BY <1>5, <2>1, EmptySeq
<1> QED  BY <1>6, <1>7, <1>8, <1>9, <1>10, <1>11, <1>12, <1>13, <1>14, <1>15

LEMMA BoundInScope ==
  ASSUME tables \in Seq(Whole), NEW symbol \in Symbols, BindInScope(symbol)
  PROVE  tables' \in Seq(Whole) /\ lost' \in BOOLEAN
<1>1. /\ tables' = [tables EXCEPT ![Len(tables)] = Bind(Scope, symbol)]
      /\ lost' \in BOOLEAN
  BY DEF BindInScope, Misses
<1>2. CASE tables = <<>>  BY <1>1, <1>2, Scopes
<1>3. CASE tables # <<>>
  <2>1. Bind(Scope, symbol) \in Whole  BY <1>3, Scopes, WholeTables DEF Scope
  <2> QED  BY <1>1, <2>1, Scopes
<1> QED  BY <1>1, <1>2, <1>3

LEMMA SymbolMade ==
  ASSUME NEW n \in Nodes, n.type = "NAME"
  PROVE  /\ create_symbol(n, <<>>, n.t) \in Symbols /\ create_symbol(n, <<>>, NoType) \in Symbols
         /\ n \in Callables => create_symbol(n, n.params, n.t) \in Symbols
         /\ \A s \in Symbols \cup {Null} : symbol_of \in [Ids -> Symbols \cup {Null}] =>
              [symbol_of EXCEPT ![n.id] = s] \in [Ids -> Symbols \cup {Null}]
<1>1. n.id \in Ids /\ n.name \in Names /\ n.t \in Types /\ NoType \in Types  BY Children DEF Types
<1>2. <<>> \in Seq(Variables)  BY EmptySeq
<1>3. n \in Callables => n.params \in Seq(Variables)  BY Children
<1> QED  BY <1>1, <1>2, <1>3 DEF create_symbol, Symbols

(* Among finitely many scopes there is an innermost one. *)
LEMMA Largest ==
  ASSUME NEW N \in Nat, NEW T \in SUBSET (1..N), T # {}
  PROVE  \E n \in T : \A m \in T : m <= n
<1> DEFINE U == {N - n : n \in T}
<1>1. U \in SUBSET Nat /\ U # {}
  <2>1. \A n \in T : N - n \in Nat  OBVIOUS
  <2> QED  BY <2>1
<1>2. PICK u \in U : \A v \in U : u <= v
  <2> HIDE DEF U
  <2> QED  BY <1>1, Least
<1>3. PICK n \in T : u = N - n  OBVIOUS
<1>4. \A m \in T : u <= N - m  BY <1>2
<1> QED  BY <1>3, <1>4

LEMMA FoundSymbols ==
  ASSUME IInv
  PROVE  \A name : Lookup(name) \in Symbols \cup {Null} /\ lookup_function_symbol(name) \in Symbols \cup {Null}
<1> TAKE name
<1>1. tables \in Seq(Whole) /\ global_table \in Whole  BY DEF IInv, TablesInv
<1>2. \A t \in Whole : Named(t, name) \subseteq Symbols  BY Members DEF Named, Whole
<1>3. lookup_function_symbol(name) \in Symbols \cup {Null}
  <2> DEFINE having == Named(global_table, name)
  <2>1. having \subseteq Symbols  BY <1>1, <1>2
  <2> HIDE DEF having
  <2>2. (IF having = {} THEN Null ELSE CHOOSE s \in having : TRUE) \in Symbols \cup {Null}  BY <2>1
  <2> QED  BY <2>2 DEF lookup_function_symbol, having
<1>4. Lookup(name) \in Symbols \cup {Null}
  <2> DEFINE having == {n \in DOMAIN tables : Named(tables[n], name) # {}}
             innermost == CHOOSE n \in having : \A m \in having : m <= n
             found == Named(tables[innermost], name)
  <2>1. Lookup(name) = IF having = {} THEN Null ELSE CHOOSE s \in found : TRUE  BY DEF Lookup
  <2>2. CASE having # {}
    <3>1. Len(tables) \in Nat /\ having \in SUBSET (1..Len(tables))  BY <1>1, LenProperties
    <3>2. \E n \in having : \A m \in having : m <= n
      <4> HIDE DEF having
      <4> QED  BY <2>2, <3>1, Largest
    <3>3. innermost \in having
      <4> HIDE DEF having
      <4> QED  BY <3>2
    <3>4. found # {} /\ tables[innermost] \in Whole
      <4> HIDE DEF innermost
      <4> QED  BY <1>1, <3>3, LenProperties, ElementOfSeq
    <3>5. found \subseteq Symbols  BY <1>2, <3>4
    <3> HIDE DEF found
    <3>6. (CHOOSE s \in found : TRUE) \in Symbols  BY <3>4, <3>5
    <3> QED  BY <2>1, <2>2, <3>6
  <2> QED  BY <2>1, <2>2
<1> QED  BY <1>3, <1>4

LEMMA ExpressionSteps ==
  ASSUME IInv, UNCHANGED <<program, checking, functions, aborted>>,
         \/ ResolveLiteral \/ ResolveTarget \/ ResolveOperator \/ ResolveSubscript
         \/ ResolveArrayList \/ ResolveCall \/ ResolveDefinition \/ ResolveCallee \/ ResolveUse
  PROVE  IInv'
<1>1. todo # <<>> /\ todo[1].do = "expression"
  BY DEF ResolveLiteral, ResolveTarget, ResolveOperator, ResolveSubscript, ResolveArrayList,
         ResolveCall, ResolveDefinition, ResolveCallee, ResolveUse, ExpressionIs, Head1
<1>2. Node \in Nodes /\ ~checking /\ todo[1].do # "collect"  BY <1>1, HeadItem
<1>3. tables \in Seq(Whole) /\ symbol_of \in [Ids -> Symbols \cup {Null}] /\ lost \in BOOLEAN
  BY DEF IInv, TablesInv, SymbolsInv
<1>4. ASSUME NEW items \in Seq(ResolveItems), Then(items),
             UNCHANGED <<tables, global_table, symbol_of, lost>>
      PROVE  IInv'
  <2>1. tables' \in Seq(Whole) /\ symbol_of' \in [Ids -> Symbols \cup {Null}] /\ lost' \in BOOLEAN
    BY <1>3, <1>4
  <2> QED  BY <1>1, <1>2, <1>4, <2>1, Walked
<1>5. CASE ResolveLiteral
  <2>1. Then(<<>>) /\ UNCHANGED <<tables, global_table, symbol_of, lost>>
    BY <1>5 DEF ResolveLiteral, Walks
  <2> QED  BY <1>4, <2>1, EmptySeq
<1>6. CASE ResolveTarget
  <2> DEFINE items == IF Node.type = "AUG" THEN <<Push("AUG"), Expr(Node.left), PopContext>>
                      ELSE <<Expr(Node.left)>>
  <2>1. Node.left \in Nodes  BY <1>2, <1>6, Children DEF ResolveTarget, ExpressionIs
  <2>2. /\ <<Push("AUG"), Expr(Node.left), PopContext>> \in Seq(ResolveItems)
        /\ <<Expr(Node.left)>> \in Seq(ResolveItems)
    BY <2>1, ItemsMade
  <2>3. items \in Seq(ResolveItems)  BY <2>2
  <2>4. Then(items) /\ UNCHANGED <<tables, global_table, symbol_of, lost>>
    BY <1>6 DEF ResolveTarget, Walks
  <2> HIDE DEF items
  <2> QED  BY <1>4, <2>3, <2>4
<1>7. CASE ResolveOperator
  <2> DEFINE operands == IF Node.type \in Operators THEN <<Expr(Node.left), Expr(Node.right)>>
                         ELSE <<Expr(IF Node.type = "INCREMENT" THEN Node.left ELSE Node.right)>>
             items == operands \o <<PopContext>>
  <2>1. operands \in Seq(ResolveItems)
    <3>1. CASE Node.type \in Operators
      <4>1. Node.left \in Nodes /\ Node.right \in Nodes  BY <1>2, <3>1, Children
      <4>2. <<Expr(Node.left), Expr(Node.right)>> \in Seq(ResolveItems)  BY <4>1, ItemsMade
      <4> QED  BY <3>1, <4>2
    <3>2. CASE Node.type \notin Operators
      <4> DEFINE operand == IF Node.type = "INCREMENT" THEN Node.left ELSE Node.right
      <4>1. operand \in Nodes  BY <1>2, <1>7, <3>2, Children DEF ResolveOperator, ExpressionIs
      <4> HIDE DEF operand
      <4>2. <<Expr(operand)>> \in Seq(ResolveItems)  BY <4>1, ItemsMade
      <4> QED  BY <3>2, <4>2 DEF operand
    <3> QED  BY <3>1, <3>2
  <2>2. <<PopContext>> \in Seq(ResolveItems)  BY ItemsMade
  <2>3. Then(items) /\ UNCHANGED <<tables, global_table, symbol_of, lost>>
    BY <1>7 DEF ResolveOperator
  <2>4. items \in Seq(ResolveItems)
    <3> HIDE DEF operands
    <3> QED  BY <2>1, <2>2, ConcatProperties
  <2> HIDE DEF items
  <2> QED  BY <1>4, <2>3, <2>4
<1>8. CASE ResolveSubscript
  <2> DEFINE items == <<Expr(Node.left), Expr(Node.right), PopContext>>
  <2>1. Node.left \in Nodes /\ Node.right \in Nodes
    BY <1>2, <1>8, Children DEF ResolveSubscript, ExpressionIs
  <2>2. items \in Seq(ResolveItems)  BY <2>1, ItemsMade
  <2>3. Then(items) /\ UNCHANGED <<tables, global_table, symbol_of, lost>>
    BY <1>8 DEF ResolveSubscript
  <2> HIDE DEF items
  <2> QED  BY <1>4, <2>2, <2>3
<1>9. ASSUME NEW nodes \in Seq(Nodes)
      PROVE  [n \in DOMAIN nodes |-> Expr(nodes[n])] \in Seq(ResolveItems)
  <2> DEFINE items == [n \in DOMAIN nodes |-> Expr(nodes[n])]
  <2>1. \A n \in DOMAIN nodes : Expr(nodes[n]) \in ResolveItems
    BY LenProperties, ElementOfSeq, ItemsMade
  <2>2. items \in [DOMAIN nodes -> ResolveItems]  BY <2>1
  <2> HIDE DEF items
  <2>3. items \in Seq(ResolveItems)  BY <2>2, Mapped
  <2> QED  BY <2>3 DEF items
<1>10. CASE ResolveArrayList
  <2> DEFINE items == [n \in DOMAIN Node.right |-> Expr(Node.right[n])]
  <2>1. Node.right \in Seq(Nodes)  BY <1>2, <1>10, Children DEF ResolveArrayList, ExpressionIs
  <2>2. items \in Seq(ResolveItems)  BY <1>9, <2>1
  <2>3. Then(items) /\ UNCHANGED <<tables, global_table, symbol_of, lost>>
    BY <1>10 DEF ResolveArrayList, Walks
  <2> HIDE DEF items
  <2> QED  BY <1>4, <2>2, <2>3
<1>11. CASE ResolveCall
  <2> DEFINE callee == <<Expr(Node.left), PopContext>>
             args == [n \in DOMAIN Node.params |-> Expr(Node.params[n])]
             items == callee \o args
  <2>1. Node.left \in Nodes /\ Node.params \in Seq(Nodes)
    BY <1>2, <1>11, Children DEF ResolveCall, ExpressionIs
  <2>2. callee \in Seq(ResolveItems)  BY <2>1, ItemsMade
  <2>3. args \in Seq(ResolveItems)  BY <1>9, <2>1
  <2>4. Then(items) /\ UNCHANGED <<tables, global_table, symbol_of, lost>>
    BY <1>11 DEF ResolveCall
  <2>5. items \in Seq(ResolveItems)
    <3> HIDE DEF callee, args
    <3> QED  BY <2>2, <2>3, ConcatProperties
  <2> HIDE DEF items
  <2> QED  BY <1>4, <2>4, <2>5
<1>12. ASSUME Node.type = "NAME", NEW items \in Seq(ResolveItems), Then(items),
              \/ UNCHANGED <<tables, symbol_of>>
              \/ UNCHANGED tables /\ \E s \in Symbols \cup {Null} : SetSymbol(Node, s)
              \/ \E s \in Symbols : BindInScope(s) /\ SetSymbol(Node, s),
              UNCHANGED global_table, lost' \in BOOLEAN
       PROVE  IInv'
  <2>1. tables' \in Seq(Whole)  BY <1>3, <1>12, BoundInScope
  <2>2. symbol_of' \in [Ids -> Symbols \cup {Null}]
    BY <1>2, <1>3, <1>12, SymbolMade DEF SetSymbol
  <2> QED  BY <1>1, <1>2, <1>12, <2>1, <2>2, Walked
<1>13. CASE ResolveDefinition
  <2> DEFINE items == If(Node.left, <<Expr(Node.left)>>)
             symbol == create_symbol(Node, <<>>, Node.t)
  <2>1. Node.type = "NAME" /\ Node.left \in Nodes \cup {Null}
    BY <1>2, <1>13, Children DEF ResolveDefinition, ExpressionIs
  <2>2. items \in Seq(ResolveItems)
    <3>1. CASE Node.left = Null  BY <3>1, EmptySeq DEF If
    <3>2. CASE Node.left \in Nodes /\ Node.left # Null
      <4>1. items = <<Expr(Node.left)>>  BY <3>2 DEF If
      <4>2. <<Expr(Node.left)>> \in Seq(ResolveItems)  BY <3>2, ItemsMade
      <4> QED  BY <4>1, <4>2
    <3> QED  BY <2>1, <3>1, <3>2
  <2>3. symbol \in Symbols  BY <1>2, <2>1, SymbolMade
  <2>4. /\ Then(items) /\ UNCHANGED global_table
        /\ \/ BindInScope(symbol) /\ SetSymbol(Node, symbol)
           \/ UNCHANGED <<tables, symbol_of, lost>>
    BY <1>13 DEF ResolveDefinition
  <2> HIDE DEF items, symbol
  <2>5. lost' \in BOOLEAN  BY <1>3, <2>3, <2>4, BoundInScope
  <2> QED  BY <1>12, <2>1, <2>2, <2>3, <2>4, <2>5
<1>14. CASE ResolveCallee
  <2>1. /\ Node.type = "NAME" /\ Then(<<>>) /\ UNCHANGED <<tables, global_table>>
        /\ \/ lost' = TRUE /\ UNCHANGED symbol_of
           \/ SetSymbol(Node, lookup_function_symbol(Node.name)) /\ UNCHANGED lost
    BY <1>14 DEF ResolveCallee, ExpressionIs
  <2>2. lookup_function_symbol(Node.name) \in Symbols \cup {Null}  BY FoundSymbols
  <2>3. lost' \in BOOLEAN  BY <1>3, <2>1
  <2>4. <<>> \in Seq(ResolveItems)  BY EmptySeq
  <2> QED  BY <1>12, <2>1, <2>2, <2>3, <2>4
<1>15. CASE ResolveUse
  <2>1. /\ Node.type = "NAME" /\ Then(<<>>) /\ UNCHANGED <<tables, global_table, lost>>
        /\ SetSymbol(Node, Lookup(Node.name))
    BY <1>15 DEF ResolveUse, ExpressionIs
  <2>2. Lookup(Node.name) \in Symbols \cup {Null}  BY FoundSymbols
  <2>3. lost' \in BOOLEAN  BY <1>3, <2>1
  <2>4. <<>> \in Seq(ResolveItems)  BY EmptySeq
  <2> QED  BY <1>12, <2>1, <2>2, <2>3, <2>4
<1> QED  BY <1>5, <1>6, <1>7, <1>8, <1>10, <1>11, <1>13, <1>14, <1>15

LEMMA CollectSteps ==
  ASSUME IInv, UNCHANGED <<program, checking, functions, aborted>>, CollectFunction \/ CollectNothing
  PROVE  IInv'
<1>1. todo # <<>> /\ todo[1].do = "collect" /\ Then(<<>>) /\ UNCHANGED tables
  BY DEF CollectFunction, CollectNothing, Head1
<1>2. Node \in Globals /\ ~checking  BY <1>1, HeadItem
<1>3. /\ tables \in Seq(Whole) /\ global_table \in Whole
      /\ symbol_of \in [Ids -> Symbols \cup {Null}] /\ lost \in BOOLEAN
  BY DEF IInv, TablesInv, SymbolsInv
<1>4. <<>> \in Seq(ResolveItems)  BY EmptySeq
<1>5. \A n \in Functions : todo[1] = Do("collect", program[n]) => Node = program[n] /\ IsFunction(Node)
  BY DEF Do, Node, Functions
<1>6. CASE CollectNothing
  <2>1. ~IsFunction(Node) /\ UNCHANGED <<tables, global_table, symbol_of, lost>>
    BY <1>6 DEF CollectNothing
  <2>2. TablesInv' /\ lost' \in BOOLEAN /\ symbol_of' \in [Ids -> Symbols \cup {Null}]
    BY <1>3, <2>1 DEF TablesInv
  <2>3. \A n \in Functions : todo[1] # Do("collect", program[n])  BY <1>5, <2>1
  <2>4. \A n \in Functions :
          Named(global_table, program[n].name) # {} => Named(global_table', program[n].name) # {}
    BY <2>1
  <2> QED  BY <1>1, <1>2, <1>4, <2>2, <2>3, <2>4, Stepped
<1>7. CASE CollectFunction
  <2> DEFINE key == hash(global_table.capacity, Node.name)
             symbol == create_symbol(Node, Node.params, Node.t)
             u == Bind(global_table, symbol)
  <2>1. Node \in Callables /\ Node \in Nodes /\ Node.type = "NAME"
    BY <1>2, <1>7 DEF CollectFunction, Globals, Callables, Of, IsFunction
  <2>2. symbol \in Symbols /\ symbol.name = Node.name /\ Node.name \in Names
    BY <2>1, SymbolMade, Children DEF create_symbol
  <2>3. \/ key < 0 /\ UNCHANGED <<global_table, symbol_of>> /\ (lost' = lost \/ lost' = TRUE)
        \/ global_table' = u /\ SetSymbol(Node, symbol) /\ lost' \in BOOLEAN
    <3> DEFINE missed == Misses(global_table', SymbolsOf(global_table) \cup {symbol})
    <3>1. missed \in BOOLEAN  BY DEF Misses
    <3>2. \/ key = -1 /\ UNCHANGED <<global_table, symbol_of, lost>>
          \/ key >= 0 /\ global_table' = u /\ SetSymbol(Node, symbol) /\ lost' = missed
          \/ key < -1 /\ lost' = TRUE /\ UNCHANGED <<global_table, symbol_of>>
      BY <1>7 DEF CollectFunction
    <3> HIDE DEF missed, key, u, symbol
    <3>3. key = -1 => key < 0  OBVIOUS
    <3>4. key < -1 => key < 0
      <4>1. global_table.capacity \in Nat \ {0}  BY <1>3, WholeTables DEF SymbolsFit
      <4>2. key \in Int  BY <2>2, <4>1, HashFacts DEF key
      <4> QED  BY <4>2
    <3> QED  BY <3>1, <3>2, <3>3, <3>4
  <2>4. /\ key < 0 => HashOf[Node.name] < 0
        /\ \A n \in Functions : program[n].name \in Names /\ HashOf[program[n].name] \in Int
    <3>1. global_table.capacity \in Nat \ {0}  BY <1>3, WholeTables DEF SymbolsFit
    <3>2. \A name \in Names : HashOf[name] \in Int  BY TablesAssumption DEF Names
    <3>3. key < 0 => HashOf[Node.name] < 0  BY <2>2, <3>1, <3>2, HashFacts
    <3>4. ASSUME NEW n \in Functions PROVE program[n].name \in Names
      <4>1. program[n] \in Globals /\ IsFunction(program[n])
        BY LenProperties, ElementOfSeq DEF IInv, SymbolsInv, Functions
      <4>2. program[n] \in Of({"NAME"})  BY <4>1 DEF Globals, Callables, Of, IsFunction
      <4> QED  BY <4>2, NodesAssumption
    <3> QED  BY <3>2, <3>3, <3>4
  <2> HIDE DEF key, symbol
  <2>5. /\ u \in Whole
        /\ \A name \in Names : HashOf[name] >= 0 /\ Named(global_table, name) # {} => Named(u, name) # {}
        /\ HashOf[Node.name] >= 0 => Named(u, Node.name) # {}
    <3>1. global_table \in Tables /\ TableComplete(global_table)  BY <1>3 DEF Whole
    <3> QED  BY <2>2, <3>1, Bound DEF Whole
  <2> HIDE DEF u
  <2>6. TablesInv' /\ lost' \in BOOLEAN  BY <1>1, <1>3, <2>3, <2>5 DEF TablesInv
  <2>7. symbol_of' \in [Ids -> Symbols \cup {Null}]  BY <1>3, <2>1, <2>2, <2>3, SymbolMade DEF SetSymbol
  <2>8. \A n \in Functions :
          \/ Named(global_table, program[n].name) # {} => Named(global_table', program[n].name) # {}
          \/ HashOf[program[n].name] < 0
    BY <2>3, <2>4, <2>5
  <2>9. \A n \in Functions :
          \/ todo[1] # Do("collect", program[n])
          \/ HashOf[program[n].name] < 0
          \/ Named(global_table', program[n].name) # {}
    BY <1>5, <2>3, <2>4, <2>5
  <2> QED  BY <1>1, <1>2, <1>4, <2>6, <2>7, <2>8, <2>9, Stepped
<1> QED  BY <1>6, <1>7

LEMMA GlobalSteps ==
  ASSUME IInv, UNCHANGED <<program, checking, functions, aborted>>, ResolveGlobal \/ ResolveFunction
  PROVE  IInv'
<1>1. todo # <<>> /\ todo[1].do = "global" /\ UNCHANGED global_table
  BY DEF ResolveGlobal, ResolveFunction, Head1
<1>2. Node \in Globals /\ ~checking /\ todo[1].do # "collect"  BY <1>1, HeadItem
<1>3. tables \in Seq(Whole) /\ symbol_of \in [Ids -> Symbols \cup {Null}] /\ lost \in BOOLEAN
  BY DEF IInv, TablesInv, SymbolsInv
<1>4. CASE ResolveGlobal
  <2> DEFINE symbol == create_symbol(Node.left, <<>>, Node.left.t)
  <2>1. Node \in Nodes /\ Node.left \in Nodes /\ Node.left.type = "NAME"
    <3>1. Node \in Nodes /\ Node.type = "ASSIGNMENT" /\ IsName(Node.left)
      BY <1>2, <1>4 DEF ResolveGlobal, Globals, Callables, Of, IsFunction
    <3> QED  BY <3>1, Children DEF IsName
  <2>2. symbol \in Symbols  BY <2>1, SymbolMade
  <2>3. /\ Then(<<>>)
        /\ \/ BindInScope(symbol) /\ SetSymbol(Node.left, symbol)
           \/ UNCHANGED <<tables, symbol_of>> /\ (lost' = lost \/ lost' = TRUE)
    BY <1>4 DEF ResolveGlobal
  <2> HIDE DEF symbol
  <2>4. tables' \in Seq(Whole) /\ lost' \in BOOLEAN  BY <1>3, <2>2, <2>3, BoundInScope
  <2>5. symbol_of' \in [Ids -> Symbols \cup {Null}]  BY <1>3, <2>1, <2>2, <2>3, SymbolMade DEF SetSymbol
  <2>6. <<>> \in Seq(ResolveItems)  BY EmptySeq
  <2> QED  BY <1>1, <1>2, <2>3, <2>4, <2>5, <2>6, Walked
<1>5. CASE ResolveFunction
  <2> DEFINE own == create_symbol(Node, <<>>, NoType)
             others == [n \in DOMAIN Node.params |-> create_symbol(Node.params[n], <<>>, Node.params[n].t)]
             symbols == <<own>> \o others
             bound == BindAll(create_symbol_table, symbols)
             given == {symbols[n] : n \in {m \in DOMAIN symbols : HasBucket(bound[m - 1], symbols[m].name)}}
             items == <<Stmt(Node.right), PopScope, PopContext>>
  <2>1. Node \in Callables /\ Node \in Nodes /\ Node.type = "NAME"
    BY <1>2, <1>5 DEF ResolveFunction, Globals, Callables, Of, IsFunction
  <2>2. Node.params \in Seq(Variables) /\ Node.right \in Nodes  BY <2>1, Children
  <2>3. others \in Seq(Symbols)
    <3>1. \A n \in DOMAIN Node.params : Node.params[n] \in Nodes /\ Node.params[n].type = "NAME"
      BY <2>2, LenProperties, ElementOfSeq DEF Variables, Of
    <3>2. \A n \in DOMAIN Node.params : create_symbol(Node.params[n], <<>>, Node.params[n].t) \in Symbols
      BY <3>1, SymbolMade
    <3>3. others \in [DOMAIN Node.params -> Symbols]  BY <3>2
    <3> HIDE DEF others
    <3> QED  BY <2>2, <3>3, Mapped
  <2>4. symbols \in Seq(Symbols)
    <3>1. own \in Symbols  BY <2>1, SymbolMade
    <3> HIDE DEF own, others
    <3>2. <<own>> \in Seq(Symbols)  BY <3>1
    <3> QED  BY <2>3, <3>1, Prepended
  <2>5. items \in Seq(ResolveItems)  BY <2>2, ItemsMade
  <2>6. /\ Then(items)
        /\ \/ /\ tables' = Append(tables, bound[Len(symbols)])
              /\ symbol_of' = [id \in DOMAIN symbol_of |->
                   IF \E s \in given \ {own} : s.node = id
                   THEN CHOOSE s \in given \ {own} : s.node = id ELSE symbol_of[id]]
              /\ lost' \in BOOLEAN
           \/ UNCHANGED <<tables, symbol_of>> /\ lost' = TRUE
    BY <1>5 DEF ResolveFunction, Misses
  <2> HIDE DEF own, others, symbols, items
  <2>7. bound[Len(symbols)] \in Whole
    <3>1. create_symbol_table \in Tables /\ TableComplete(create_symbol_table)  BY WholeTables DEF Whole
    <3>2. Len(symbols) \in 0..Len(symbols)  BY <2>4, LenProperties
    <3>3. bound[Len(symbols)] \in Tables /\ TableComplete(bound[Len(symbols)])
      BY <2>4, <3>1, <3>2, BoundAll
    <3> QED  BY <3>3 DEF Whole
  <2>8. given \subseteq Symbols  BY <2>4, LenProperties, ElementOfSeq
  <2> HIDE DEF bound, given
  <2>9. tables' \in Seq(Whole) /\ lost' \in BOOLEAN
    <3>1. /\ tables' = Append(tables, bound[Len(symbols)]) \/ tables' = tables
          /\ lost' \in BOOLEAN
      BY <2>6
    <3>2. Append(tables, bound[Len(symbols)]) \in Seq(Whole)  BY <1>3, <2>7, Scopes
    <3> QED  BY <1>3, <3>1, <3>2
  <2>10. symbol_of' \in [Ids -> Symbols \cup {Null}]
    <3> DEFINE of(id) == IF \E s \in given \ {own} : s.node = id
                         THEN CHOOSE s \in given \ {own} : s.node = id ELSE symbol_of[id]
    <3>1. \A id \in Ids : of(id) \in Symbols \cup {Null}  BY <1>3, <2>8
    <3>2. symbol_of' = [id \in Ids |-> of(id)] \/ symbol_of' = symbol_of  BY <1>3, <2>6
    <3> HIDE DEF of
    <3> QED  BY <1>3, <3>1, <3>2
  <2> QED  BY <1>1, <1>2, <2>5, <2>6, <2>9, <2>10, Walked
<1> QED  BY <1>4, <1>5

LEMMA ScopeSteps ==
  ASSUME IInv, UNCHANGED <<program, checking, functions, aborted>>,
         PushScope \/ ReturnFromScope \/ EnterContext \/ ReturnFromContext
  PROVE  IInv'
<1>1. /\ todo # <<>> /\ todo[1].do \in {"push_scope", "pop_scope", "push_context", "pop_context"}
      /\ Then(<<>>) /\ UNCHANGED <<global_table, symbol_of, lost>>
      /\ push_scope \/ pop_scope \/ UNCHANGED tables
  BY DEF PushScope, ReturnFromScope, EnterContext, ReturnFromContext, Head1
<1>2. ~checking /\ todo[1].do # "collect"  BY <1>1, HeadItem
<1>3. tables \in Seq(Whole) /\ symbol_of \in [Ids -> Symbols \cup {Null}] /\ lost \in BOOLEAN
  BY DEF IInv, TablesInv, SymbolsInv
<1>4. tables' \in Seq(Whole)  BY <1>1, <1>3, Scopes DEF push_scope, pop_scope
<1>5. symbol_of' \in [Ids -> Symbols \cup {Null}] /\ lost' \in BOOLEAN  BY <1>1, <1>3
<1>6. <<>> \in Seq(ResolveItems)  BY EmptySeq
<1> QED  BY <1>1, <1>2, <1>4, <1>5, <1>6, Walked

LEMMA ResolveSteps ==
  ASSUME IInv, ResolveNext, UNCHANGED <<checking, functions, aborted>>
  PROVE  IInv'
<1>1. UNCHANGED program  BY DEF ResolveNext
<1> QED  BY <1>1, StatementSteps, ExpressionSteps, CollectSteps, GlobalSteps, ScopeSteps DEF ResolveNext

------------------------------------------------------------------------------
(* The start of each phase.                                                  *)

LEMMA Widened ==
  ASSUME NEW S, NEW R, R \subseteq S, NEW q \in Seq(R)
  PROVE  q \in Seq(S)
<1>1. Len(q) \in Nat /\ q \in [1..Len(q) -> R]  BY LenProperties
<1>2. q \in [1..Len(q) -> S]  BY <1>1
<1> QED  BY <1>1, <1>2

BeginsWith(r, p) == \A i \in DOMAIN p : i \in DOMAIN r /\ r[i] = p[i]

LEMMA Prolonged ==
  ASSUME NEW S, NEW p \in Seq(S), NEW q \in Seq(S)
  PROVE  p \o q \in Seq(S) /\ BeginsWith(p \o q, p)
<1> DEFINE r == p \o q
<1>1. /\ r \in Seq(S) /\ Len(r) = Len(p) + Len(q)
      /\ \A i \in 1..(Len(p) + Len(q)) : r[i] = IF i <= Len(p) THEN p[i] ELSE q[i - Len(p)]
  BY ConcatProperties
<1> HIDE DEF r
<1>2. /\ Len(p) \in Nat /\ Len(q) \in Nat
      /\ DOMAIN p = 1..Len(p) /\ DOMAIN r = 1..Len(r)
  BY <1>1, LenProperties
<1>3. \A i \in DOMAIN p : i \in DOMAIN r /\ r[i] = p[i]  BY <1>1, <1>2
<1> QED  BY <1>1, <1>3 DEF r, BeginsWith

LEMMA Initially == ASSUME Init PROVE IInv
<1> DEFINE A == [n \in DOMAIN program |-> Do("collect", program[n])]
           B == [n \in DOMAIN program |-> Do("global", program[n])]
           P == <<Do("push_scope", Null)>>
           Q == <<PopScope>>
<1>1. program \in Seq(Globals) /\ todo = A \o P \o B \o Q  BY DEF Init, StartResolving
<1>2. \A n \in DOMAIN program : program[n] \in Globals  BY <1>1, LenProperties, ElementOfSeq
<1>3. A \in Seq(ResolveItems) /\ B \in Seq(ResolveItems)
  <2>1. A \in [DOMAIN program -> ResolveItems] /\ B \in [DOMAIN program -> ResolveItems]
    BY <1>2, ItemsMade
  <2> HIDE DEF A, B
  <2> QED  BY <1>1, <2>1, Mapped
<1>4. P \in Seq(ResolveItems) /\ Q \in Seq(ResolveItems)  BY ItemsMade
<1>5. \A n \in DOMAIN program : n \in DOMAIN A /\ A[n] = Do("collect", program[n])  OBVIOUS
<1> HIDE DEF A, B, P, Q
<1>6. /\ todo \in Seq(ResolveItems)
      /\ \A n \in DOMAIN program : n \in DOMAIN todo /\ todo[n] = Do("collect", program[n])
  <2> DEFINE C == A \o P
             D == C \o B
  <2>1. C \in Seq(ResolveItems) /\ BeginsWith(C, A)
    BY <1>3, <1>4, Prolonged
  <2> HIDE DEF C
  <2>2. D \in Seq(ResolveItems) /\ BeginsWith(D, C)
    BY <1>3, <2>1, Prolonged
  <2> HIDE DEF D
  <2>3. todo = D \o Q  BY <1>1 DEF C, D
  <2>4. todo \in Seq(ResolveItems) /\ BeginsWith(todo, D)
    BY <1>4, <2>2, <2>3, Prolonged
  <2> QED  BY <1>5, <2>1, <2>2, <2>4 DEF BeginsWith
<1>7. SymbolsInv
  <2>1. symbol_of \in [Ids -> Symbols \cup {Null}]  BY DEF Init
  <2> QED  BY <1>1, <2>1 DEF Init, StartResolving, SymbolsInv
<1>8. TablesInv
  <2>1. tables = <<>> /\ global_table = create_symbol_table  BY DEF Init, StartResolving
  <2> QED  BY <2>1, WholeTables, EmptySeq DEF TablesInv
<1>9. ~checking /\ functions = <<>>  BY DEF Init
<1>10. TodoInv  BY <1>6, <1>9 DEF TodoInv
<1>11. CollectedInv  BY <1>6, <1>9 DEF CollectedInv, Functions
<1> QED  BY <1>7, <1>8, <1>10, <1>11 DEF IInv

LEMMA StartSteps == ASSUME IInv, StartChecking, Unchecked PROVE IInv'
<1> DEFINE items == [n \in DOMAIN program |-> Do("check_global", program[n])]
           S == GlobalItems \cup BodyItems \cup {PopFunctionItem}
<1>1. /\ todo = <<>> /\ ~checking /\ checking' = TRUE /\ todo' = items
      /\ UNCHANGED <<functions, aborted, program, tables, global_table, symbol_of, lost>>
  BY DEF StartChecking, Resolved, Unchecked
<1>2. program \in Seq(Globals) /\ functions = <<>>  BY <1>1 DEF IInv, SymbolsInv, TodoInv
<1>3. items \in Seq(GlobalItems)
  <2>1. \A n \in DOMAIN program : program[n] \in Globals  BY <1>2, LenProperties, ElementOfSeq
  <2>2. items \in [DOMAIN program -> GlobalItems]  BY <2>1 DEF GlobalItems, Do
  <2> HIDE DEF items
  <2> QED  BY <1>2, <2>2, Mapped
<1> HIDE DEF items, S
<1>4. SymbolsInv' /\ TablesInv'  BY <1>1 DEF IInv, SymbolsInv, TablesInv
<1>5. CollectedInv'
  <2>1. DOMAIN todo = {}  BY <1>1
  <2> QED  BY <1>1, <2>1 DEF IInv, CollectedInv, Functions
<1>6. TodoInv'
  <2>1. todo' \in Seq(S)  BY <1>1, <1>3, Widened DEF S
  <2>2. Split(todo', 0) /\ 0 \in 0..Len(todo')
    <3>1. Len(items) \in Nat /\ \A i \in 1..Len(items) : items[i] \in GlobalItems
      BY <1>3, LenProperties, ElementOfSeq
    <3> QED  BY <1>1, <3>1 DEF Split
  <2>3. functions' \in Seq(Symbols \cup {Null}) /\ Len(functions') = 0  BY <1>1, <1>2, EmptySeq
  <2> QED  BY <1>1, <2>1, <2>2, <2>3 DEF TodoInv, S
<1> QED  BY <1>4, <1>5, <1>6 DEF IInv

------------------------------------------------------------------------------
(* The steps of the type checker.                                            *)

CheckItems == GlobalItems \cup BodyItems \cup {PopFunctionItem}

(* The head tells how much of a function is left. *)
LEMMA Located ==
  ASSUME IInv, checking, todo # <<>>
  PROVE  \E k \in 0..Len(todo) :
           /\ todo \in Seq(CheckItems) /\ Split(todo, k)
           /\ functions \in Seq(Symbols \cup {Null})
           /\ Len(functions) = IF k = 0 THEN 0 ELSE 1
           /\ todo[1].do = "check_global" => k = 0
           /\ todo[1].do = "pop_function" => k = 1
           /\ todo[1].do \in {"check", "check_expression"} => k > 1
<1>1. PICK k \in 0..Len(todo) :
        /\ todo \in Seq(CheckItems) /\ Split(todo, k)
        /\ functions \in Seq(Symbols \cup {Null})
        /\ Len(functions) = IF k = 0 THEN 0 ELSE 1
  BY DEF IInv, TodoInv, CheckItems
<1>2. Len(todo) \in Nat \ {0}  BY <1>1, LenProperties, EmptySeq
<1>3. k = 0 => todo[1].do = "check_global"
  <2>1. k = 0 => todo[1] \in GlobalItems  BY <1>1, <1>2 DEF Split
  <2> QED  BY <2>1 DEF GlobalItems
<1>4. k = 1 => todo[1].do = "pop_function"  BY <1>1 DEF Split, PopFunctionItem, Do
<1>5. k > 1 => todo[1].do \in {"check", "check_expression"}
  <2>1. k > 1 => todo[1] \in BodyItems  BY <1>1 DEF Split
  <2> QED  BY <2>1 DEF BodyItems
<1>6. k = 0 \/ k = 1 \/ k > 1  OBVIOUS
<1> QED  BY <1>1, <1>3, <1>4, <1>5, <1>6

LEMMA CheckStep ==
  ASSUME IInv, checking, UNCHANGED checking, Unchecked, aborted' \in BOOLEAN, TodoInv'
  PROVE  IInv'
<1>1. SymbolsInv' /\ TablesInv'  BY DEF IInv, SymbolsInv, TablesInv, Unchecked
<1>2. CollectedInv'  BY DEF IInv, CollectedInv, Functions, Unchecked
<1> QED  BY <1>1, <1>2 DEF IInv

LEMMA BodyStep ==
  ASSUME IInv, todo # <<>>, todo[1].do \in {"check", "check_expression"}, Unchecked,
         NEW items \in Seq(BodyItems), Then(items), UNCHANGED <<checking, functions>>,
         aborted' \in BOOLEAN
  PROVE  IInv'
<1>1. checking  BY HeadItem
<1>2. PICK k \in 0..Len(todo) :
        /\ todo \in Seq(CheckItems) /\ Split(todo, k)
        /\ functions \in Seq(Symbols \cup {Null}) /\ Len(functions) = 1 /\ k > 1
  BY <1>1, Located
<1>3. items \in Seq(CheckItems)  BY Widened DEF CheckItems
<1>4. /\ todo' \in Seq(CheckItems) /\ Len(todo') = Len(items) + Len(todo) - 1
      /\ Len(items) \in Nat /\ Len(todo) \in Nat \ {0}
      /\ \A i \in 1..Len(items) : todo'[i] = items[i]
      /\ \A i \in (Len(items) + 1)..Len(todo') : todo'[i] = todo[i - Len(items) + 1]
  BY <1>2, <1>3, Replaced DEF Then
<1>5. \A i \in 1..Len(items) : items[i] \in BodyItems  BY ElementOfSeq
<1> DEFINE j == k - 1 + Len(items)
<1>6. j \in 0..Len(todo') /\ j # 0  BY <1>2, <1>4
<1>7. \A i \in 1..(j - 1) : todo'[i] \in BodyItems
  <2> TAKE i \in 1..(j - 1)
  <2>1. CASE i <= Len(items)  BY <1>4, <1>5, <2>1
  <2>2. CASE i > Len(items)
    <3>1. i - Len(items) + 1 \in 1..(k - 1) /\ i \in (Len(items) + 1)..Len(todo')
      BY <1>2, <1>4, <2>2
    <3> QED  BY <1>2, <1>4, <3>1 DEF Split
  <2> QED  BY <1>4, <2>1, <2>2
<1>8. todo'[j] = PopFunctionItem
  <2>1. j \in (Len(items) + 1)..Len(todo') /\ j - Len(items) + 1 = k  BY <1>2, <1>4
  <2>2. todo'[j] = todo[j - Len(items) + 1]
    <3> HIDE DEF j
    <3> QED  BY <1>4, <2>1
  <2> HIDE DEF j
  <2> QED  BY <1>2, <2>1, <2>2 DEF Split
<1>9. \A i \in (j + 1)..Len(todo') : todo'[i] \in GlobalItems
  <2> TAKE i \in (j + 1)..Len(todo')
  <2>1. i - Len(items) + 1 \in (k + 1)..Len(todo) /\ i \in (Len(items) + 1)..Len(todo')
    BY <1>2, <1>4
  <2> QED  BY <1>2, <1>4, <2>1 DEF Split
<1> HIDE DEF j
<1>10. TodoInv'
  <2>1. Split(todo', j)  BY <1>7, <1>8, <1>9 DEF Split
  <2>2. functions' \in Seq(Symbols \cup {Null}) /\ Len(functions') = 1  BY <1>2
  <2> QED  BY <1>1, <1>4, <1>6, <2>1, <2>2 DEF TodoInv, CheckItems
<1> QED  BY <1>1, <1>10, CheckStep

LEMMA FunctionSteps ==
  ASSUME IInv, CheckGlobalVariable \/ CheckFunction \/ PopFunction, Unchecked
  PROVE  IInv'
<1>1. todo # <<>> /\ todo[1].do \in {"check_global", "pop_function"} /\ UNCHANGED checking
  BY DEF CheckGlobalVariable, CheckFunction, PopFunction, CheckGlobal
<1>2. checking /\ (todo[1].do = "check_global" => Node \in Globals)  BY <1>1, HeadItem
<1>3. PICK k \in 0..Len(todo) :
        /\ todo \in Seq(CheckItems) /\ Split(todo, k)
        /\ functions \in Seq(Symbols \cup {Null})
        /\ Len(functions) = IF k = 0 THEN 0 ELSE 1
        /\ todo[1].do = "check_global" => k = 0
        /\ todo[1].do = "pop_function" => k = 1
  BY <1>1, <1>2, Located
<1>4. Len(todo) \in Nat \ {0}  BY <1>1, <1>3, LenProperties, EmptySeq
<1>5. symbol_of \in [Ids -> Symbols \cup {Null}] /\ aborted \in BOOLEAN  BY DEF IInv, SymbolsInv
<1>6. \A i \in (k + 1)..Len(todo) : todo[i] \in GlobalItems  BY <1>3 DEF Split
<1>7. ASSUME Then(<<>>), k \in {0, 1}, functions' = <<>>, aborted' \in BOOLEAN PROVE IInv'
  <2>1. <<>> \in Seq(CheckItems) /\ Len(<<>>) = 0  BY EmptySeq
  <2>2. /\ todo' \in Seq(CheckItems) /\ Len(todo') = Len(todo) - 1
        /\ \A i \in 1..Len(todo') : todo'[i] = todo[i + 1]
    <3>1. /\ todo' \in Seq(CheckItems) /\ Len(todo') = 0 + Len(todo) - 1
          /\ \A i \in (0 + 1)..Len(todo') : todo'[i] = todo[i - 0 + 1]
      BY <1>1, <1>3, <1>7, <2>1, Replaced DEF Then
    <3> QED  BY <1>4, <3>1
  <2>3. \A i \in 1..Len(todo') : i + 1 \in (k + 1)..Len(todo)  BY <1>4, <1>7, <2>2
  <2>4. Split(todo', 0) /\ 0 \in 0..Len(todo')  BY <1>4, <1>6, <2>2, <2>3 DEF Split
  <2>5. functions' \in Seq(Symbols \cup {Null}) /\ Len(functions') = 0  BY <1>7, EmptySeq
  <2>6. TodoInv'  BY <1>1, <1>2, <2>2, <2>4, <2>5 DEF TodoInv, CheckItems
  <2> QED  BY <1>1, <1>2, <1>7, <2>6, CheckStep
<1>8. CASE CheckGlobalVariable
  <2>1. /\ Then(<<>>) /\ UNCHANGED functions /\ todo[1].do = "check_global"
        /\ aborted' = (aborted \/ FollowsNull(Node.right, symbol_of))
    BY <1>8 DEF CheckGlobalVariable, CheckGlobal
  <2>2. k = 0 /\ functions = <<>>  BY <1>3, <2>1, EmptySeq
  <2>3. aborted' \in BOOLEAN  BY <2>1
  <2> QED  BY <1>7, <2>1, <2>2, <2>3
<1>9. CASE PopFunction
  <2>1. /\ Then(<<>>) /\ UNCHANGED aborted /\ todo[1].do = "pop_function"
        /\ functions' = SubSeq(functions, 1, Len(functions) - 1)
    BY <1>9 DEF PopFunction
  <2>2. k = 1 /\ Len(functions) = 1  BY <1>3, <2>1
  <2>3. functions' = <<>>
    <3>1. functions' = SubSeq(functions, 1, 0)  BY <2>1, <2>2
    <3>2. SubSeq(functions, 1, 0) \in Seq(Symbols \cup {Null}) /\ Len(SubSeq(functions, 1, 0)) = 0
      <4>1. 1 \in 1..(Len(functions) + 1) /\ 0 \in (1 - 1)..Len(functions)  BY <2>2
      <4> QED  BY <1>3, <4>1, SubSeqProperties
    <3> QED  BY <3>1, <3>2, EmptySeq
  <2> QED  BY <1>5, <1>7, <2>1, <2>2, <2>3
<1>10. CASE CheckFunction
  <2> DEFINE items == <<Check(Node.right), PopFunctionItem>>
  <2>1. /\ Then(items) /\ todo[1].do = "check_global" /\ IsFunction(Node)
        /\ functions' = Append(functions, symbol_of[Node.id]) /\ aborted' \in BOOLEAN
    BY <1>10 DEF CheckFunction, CheckGlobal, PopFunctionItem
  <2>2. k = 0 /\ functions = <<>>  BY <1>3, <2>1, EmptySeq
  <2>3. Node \in Callables /\ Node \in Nodes /\ Node.type = "NAME"
    BY <1>2, <2>1 DEF Globals, Callables, Of, IsFunction
  <2>4. Node.right \in Nodes /\ Node.id \in Ids  BY <2>3, Children
  <2>5. Check(Node.right) \in BodyItems  BY <2>4 DEF BodyItems, Check, Do
  <2>6. items \in Seq(CheckItems)
    <3>1. Check(Node.right) \in CheckItems /\ PopFunctionItem \in CheckItems  BY <2>5 DEF CheckItems
    <3> QED  BY <3>1
  <2>7. Len(items) = 2 /\ items[1] \in BodyItems /\ items[2] = PopFunctionItem  BY <2>5
  <2> HIDE DEF items
  <2>8. /\ todo' \in Seq(CheckItems) /\ Len(todo') = 2 + Len(todo) - 1
        /\ \A i \in 1..2 : todo'[i] = items[i]
        /\ \A i \in (2 + 1)..Len(todo') : todo'[i] = todo[i - 2 + 1]
    <3>1. /\ todo' \in Seq(CheckItems) /\ Len(todo') = Len(items) + Len(todo) - 1
          /\ \A i \in 1..Len(items) : todo'[i] = items[i]
          /\ \A i \in (Len(items) + 1)..Len(todo') : todo'[i] = todo[i - Len(items) + 1]
      BY <1>1, <1>3, <2>1, <2>6, Replaced DEF Then
    <3> QED  BY <2>7, <3>1
  <2>9. \A i \in 3..Len(todo') : i - 2 + 1 \in (k + 1)..Len(todo)  BY <1>4, <2>2, <2>8
  <2>10. Split(todo', 2) /\ 2 \in 0..Len(todo')
    <3>1. \A i \in 1..(2 - 1) : todo'[i] \in BodyItems  BY <2>7, <2>8
    <3>2. todo'[2] = PopFunctionItem  BY <2>7, <2>8
    <3>3. \A i \in (2 + 1)..Len(todo') : todo'[i] \in GlobalItems  BY <1>6, <2>8, <2>9
    <3> QED  BY <1>4, <2>8, <3>1, <3>2, <3>3 DEF Split
  <2>11. functions' \in Seq(Symbols \cup {Null}) /\ Len(functions') = 1
    <3>1. symbol_of[Node.id] \in Symbols \cup {Null}  BY <1>5, <2>4
    <3> QED  BY <1>3, <2>1, <2>2, <3>1, AppendProperties
  <2>12. TodoInv'  BY <1>1, <1>2, <2>8, <2>10, <2>11 DEF TodoInv, CheckItems
  <2> QED  BY <1>1, <1>2, <2>1, <2>12, CheckStep
<1> QED  BY <1>1, <1>8, <1>9, <1>10

LEMMA BodySteps ==
  ASSUME IInv, Unchecked,
         \/ CheckAssignment \/ CheckExpression \/ CheckConditional \/ CheckElse
         \/ CheckFor \/ CheckBlock \/ CheckReturn \/ CheckNothing
  PROVE  IInv'
<1>1. todo # <<>> /\ todo[1].do \in {"check", "check_expression"} /\ UNCHANGED <<checking, functions>>
  BY DEF CheckAssignment, CheckExpression, CheckConditional, CheckElse, CheckFor, CheckBlock,
         CheckReturn, CheckNothing, CheckIs
<1>2. Node \in Nodes /\ aborted \in BOOLEAN  BY <1>1, HeadItem DEF IInv, SymbolsInv
<1>3. \A n \in Nodes : Check(n) \in BodyItems /\ CheckExpr(n) \in BodyItems
  BY DEF BodyItems, Check, CheckExpr, Do
<1>4. <<>> \in Seq(BodyItems)  BY EmptySeq
<1>5. CASE CheckAssignment
  <2>1. Then(<<>>) /\ aborted' = (FollowsNull(Node.left, symbol_of) \/ FollowsNull(Node.right, symbol_of))
    BY <1>5 DEF CheckAssignment
  <2>2. aborted' \in BOOLEAN  BY <2>1
  <2> QED  BY <1>1, <1>4, <2>1, <2>2, BodyStep
<1>6. CASE CheckExpression
  <2>1. Then(<<>>) /\ aborted' = (aborted \/ FollowsNull(Node, symbol_of))
    BY <1>6 DEF CheckExpression
  <2>2. aborted' \in BOOLEAN  BY <2>1
  <2> QED  BY <1>1, <1>4, <2>1, <2>2, BodyStep
<1>7. CASE CheckConditional
  <2>1. Node.right \in Nodes  BY <1>2, <1>7, Children DEF CheckConditional, CheckIs
  <2>2. <<Check(Node.right)>> \in Seq(BodyItems)  BY <1>3, <2>1
  <2>3. (Then(<<>>) \/ Then(<<Check(Node.right)>>)) /\ (aborted' = TRUE \/ aborted' = aborted)
    BY <1>7 DEF CheckConditional
  <2>4. aborted' \in BOOLEAN  BY <1>2, <2>3
  <2> QED  BY <1>1, <1>4, <2>2, <2>3, <2>4, BodyStep
<1>8. CASE CheckElse
  <2>1. Node.right \in Nodes  BY <1>2, <1>8, Children DEF CheckElse, CheckIs
  <2>2. <<Check(Node.right)>> \in Seq(BodyItems)  BY <1>3, <2>1
  <2>3. Then(<<Check(Node.right)>>) /\ aborted' \in BOOLEAN  BY <1>2, <1>8 DEF CheckElse
  <2> QED  BY <1>1, <2>2, <2>3, BodyStep
<1>9. CASE CheckFor
  <2> DEFINE items == <<Check(Node.left), CheckExpr(Node.condition), CheckExpr(Node.update), Check(Node.right)>>
  <2>1. {Node.left, Node.right, Node.condition, Node.update} \subseteq Nodes
    BY <1>2, <1>9, Children DEF CheckFor, CheckIs
  <2>2. items \in Seq(BodyItems)  BY <1>3, <2>1
  <2>3. Then(items) /\ aborted' \in BOOLEAN  BY <1>2, <1>9 DEF CheckFor
  <2> HIDE DEF items
  <2> QED  BY <1>1, <2>2, <2>3, BodyStep
<1>10. CASE CheckBlock
  <2> DEFINE items == [n \in DOMAIN Node.right |-> Check(Node.right[n])]
  <2>1. Node.right \in Seq(Nodes)  BY <1>2, <1>10, Children DEF CheckBlock, CheckIs
  <2>2. items \in Seq(BodyItems)
    <3>1. \A n \in DOMAIN Node.right : Check(Node.right[n]) \in BodyItems
      BY <1>3, <2>1, LenProperties, ElementOfSeq
    <3>2. items \in [DOMAIN Node.right -> BodyItems]  BY <3>1
    <3> HIDE DEF items
    <3> QED  BY <2>1, <3>2, Mapped
  <2>3. Then(items) /\ aborted' \in BOOLEAN  BY <1>2, <1>10 DEF CheckBlock
  <2> HIDE DEF items
  <2> QED  BY <1>1, <2>2, <2>3, BodyStep
<1>11. CASE CheckReturn
  <2> DEFINE symbol == functions[Len(functions)]
             equals == type_equals(TypeOf(Node.right, symbol_of), SubType(symbol.type))
  <2>1. /\ Then(<<>>)
        /\ aborted' \in IF symbol = Null \/ FollowsNull(Node.right, symbol_of) THEN {TRUE}
                        ELSE {~equal : equal \in equals}
    BY <1>11 DEF CheckReturn
  <2> HIDE DEF symbol, equals
  <2>2. aborted' \in BOOLEAN  BY <2>1
  <2> QED  BY <1>1, <1>4, <2>1, <2>2, BodyStep
<1>12. CASE CheckNothing
  <2>1. Then(<<>>) /\ aborted' \in BOOLEAN  BY <1>2, <1>12 DEF CheckNothing
  <2> QED  BY <1>1, <1>4, <2>1, BodyStep
<1> QED  BY <1>5, <1>6, <1>7, <1>8, <1>9, <1>10, <1>11, <1>12

------------------------------------------------------------------------------
LEMMA Inductive == IInv /\ [Next]_vars => IInv'
<1> SUFFICES ASSUME IInv, [Next]_vars PROVE IInv'  OBVIOUS
<1>1. CASE ResolveNext /\ UNCHANGED <<checking, functions, aborted>>  BY <1>1, ResolveSteps
<1>2. CASE TypecheckNext
  <2>1. Unchecked  BY <1>2 DEF TypecheckNext
  <2> QED  BY <1>2, <2>1, StartSteps, FunctionSteps, BodySteps DEF TypecheckNext
<1>3. CASE UNCHANGED vars
  <2>1. UNCHANGED <<program, todo, tables, global_table, symbol_of, lost, checking, functions, aborted>>
    BY <1>3 DEF vars, resolver
  <2> QED  BY <2>1 DEF IInv, SymbolsInv, TablesInv, TodoInv, Split, CollectedInv, Functions
<1> QED  BY <1>1, <1>2, <1>3 DEF Next

LEMMA Invariant == Spec => []IInv
BY Initially, Inductive, PTL DEF Spec

------------------------------------------------------------------------------
(* Scopes and contexts.                                                      *)

(* What an item does to a stack. *)
Change(stack, item) ==
  IF item.do = (IF stack = "scope" THEN "push_scope" ELSE "push_context") THEN 1
  ELSE IF item.do = (IF stack = "scope" THEN "pop_scope" ELSE "pop_context") THEN -1 ELSE 0

(* depths[n] is how deep the stack is when it comes to the nth item. *)
IsWay(depths, stack, items, before, after) ==
  /\ depths[1] = before /\ depths[Len(items) + 1] = after
  /\ \A n \in 1..Len(items) : depths[n + 1] = depths[n] + Change(stack, items[n])

Leads(stack, items, before, after) ==
  \E depths \in [1..(Len(items) + 1) -> Nat] : IsWay(depths, stack, items, before, after)

Contexts == {"VOID_FUNCTION", "NONVOID_FUNCTION", "IF", "LOOP", "RETURN", "ASSIGNMENT", "OP", "AUG",
             "SUBSCRIPT", "CALL"}

(* What is left to do closes just the scopes and contexts that are open. *)
Balance ==
  /\ contexts \in Seq(Contexts)
  /\ ~checking /\ ~lost => /\ Leads("scope", todo, Len(tables), 0)
                           /\ Leads("context", todo, Len(contexts), 0)
  /\ checking => tables = <<>> /\ contexts = <<>>

(* What each item there is does to the stacks. *)
LEMMA Changes ==
  /\ \A stack, item : Change(stack, item) \in {-1, 0, 1}
  /\ \A stack, node : Change(stack, Stmt(node)) = 0 /\ Change(stack, Expr(node)) = 0
  /\ \A stack, node : Change(stack, Do("collect", node)) = 0 /\ Change(stack, Do("global", node)) = 0
  /\ Change("scope", PopScope) = -1 /\ Change("context", PopScope) = 0
  /\ Change("scope", PopContext) = 0 /\ Change("context", PopContext) = -1
  /\ Change("scope", Do("push_scope", Null)) = 1 /\ Change("context", Do("push_scope", Null)) = 0
  /\ \A c : Change("scope", Push(c)) = 0 /\ Change("context", Push(c)) = 1
BY DEF Change, Do, Stmt, Expr, PopScope, PopContext, Push

(* The same, by what the item says to do. *)
LEMMA ChangeOf ==
  ASSUME NEW stack \in {"scope", "context"}, NEW item
  PROVE  /\ item.do \in {"collect", "global", "statement", "expression"} => Change(stack, item) = 0
         /\ item.do = "push_scope" => Change(stack, item) = IF stack = "scope" THEN 1 ELSE 0
         /\ item.do = "pop_scope" => Change(stack, item) = IF stack = "scope" THEN -1 ELSE 0
         /\ item.do = "push_context" => Change(stack, item) = IF stack = "scope" THEN 0 ELSE 1
         /\ item.do = "pop_context" => Change(stack, item) = IF stack = "scope" THEN 0 ELSE -1
BY DEF Change

(* Items that open and close nothing. *)
LEMMA Flat ==
  ASSUME NEW stack, NEW S, NEW items \in Seq(S), \A item \in S : Change(stack, item) = 0, NEW d \in Nat
  PROVE  Leads(stack, items, d, d)
<1> DEFINE depths == [n \in 1..(Len(items) + 1) |-> d]
<1>1. Len(items) \in Nat /\ \A n \in 1..Len(items) : items[n] \in S
  BY LenProperties, ElementOfSeq
<1>2. \A n \in 1..Len(items) : n \in 1..(Len(items) + 1) /\ n + 1 \in 1..(Len(items) + 1)
  BY <1>1
<1>3. 1 \in 1..(Len(items) + 1) /\ Len(items) + 1 \in 1..(Len(items) + 1)
  BY <1>1
<1>4. \A n \in 1..Len(items) : depths[n + 1] = depths[n] + Change(stack, items[n])
  <2> TAKE n \in 1..Len(items)
  <2>1. Change(stack, items[n]) = 0  BY <1>1
  <2>2. depths[n + 1] = d /\ depths[n] = d  BY <1>2
  <2> QED  BY <2>1, <2>2
<1>5. IsWay(depths, stack, items, d, d)  BY <1>3, <1>4 DEF IsWay
<1>6. depths \in [1..(Len(items) + 1) -> Nat]  OBVIOUS
<1> HIDE DEF depths
<1> QED  BY <1>5, <1>6 DEF Leads

(* One after the other. *)
LEMMA Joined ==
  ASSUME NEW stack, NEW S, NEW p \in Seq(S), NEW q \in Seq(S), NEW c, NEW d, NEW e,
         Leads(stack, p, c, d), Leads(stack, q, d, e)
  PROVE  Leads(stack, p \o q, c, e)
<1> DEFINE r == p \o q
           lp == Len(p)
           lq == Len(q)
<1>1. PICK f \in [1..(lp + 1) -> Nat] : IsWay(f, stack, p, c, d)
  BY DEF Leads
<1>2. PICK g \in [1..(lq + 1) -> Nat] : IsWay(g, stack, q, d, e)
  BY DEF Leads
<1>3. lp \in Nat /\ lq \in Nat  BY LenProperties
<1>4. /\ Len(r) = lp + lq
      /\ \A i \in 1..(lp + lq) : r[i] = IF i <= lp THEN p[i] ELSE q[i - lp]
  BY ConcatProperties
<1>5. /\ f[1] = c /\ f[lp + 1] = d
      /\ \A n \in 1..lp : f[n + 1] = f[n] + Change(stack, p[n])
      /\ g[1] = d /\ g[lq + 1] = e
      /\ \A n \in 1..lq : g[n + 1] = g[n] + Change(stack, q[n])
  BY <1>1, <1>2 DEF IsWay
<1> HIDE DEF r, lp, lq
<1> DEFINE h == [n \in 1..(lp + lq + 1) |-> IF n <= lp THEN f[n] ELSE g[n - lp]]
<1>6. h \in [1..(lp + lq + 1) -> Nat]
  <2> SUFFICES ASSUME NEW n \in 1..(lp + lq + 1)
               PROVE  (IF n <= lp THEN f[n] ELSE g[n - lp]) \in Nat
    OBVIOUS
  <2>1. CASE n <= lp
    <3>1. n \in 1..(lp + 1)  BY <1>3, <2>1
    <3> QED  BY <2>1, <3>1
  <2>2. CASE ~(n <= lp)
    <3>1. n - lp \in 1..(lq + 1)  BY <1>3, <2>2
    <3> QED  BY <2>2, <3>1
  <2> QED  BY <2>1, <2>2
<1>7. h[1] = c /\ h[lp + lq + 1] = e
  <2>1. 1 \in 1..(lp + lq + 1) /\ lp + lq + 1 \in 1..(lp + lq + 1)  BY <1>3
  <2>2. h[lp + lq + 1] = g[(lp + lq + 1) - lp] /\ (lp + lq + 1) - lp = lq + 1
    BY <1>3, <2>1
  <2>3. h[1] = IF 1 <= lp THEN f[1] ELSE g[1 - lp]  BY <2>1
  <2>4. CASE 1 <= lp  BY <1>5, <2>2, <2>3, <2>4
  <2>5. CASE lp = 0
    <3>1. 1 - lp = 1 /\ lp + 1 = 1 /\ ~(1 <= lp)  BY <2>5
    <3> QED  BY <1>5, <2>2, <2>3, <3>1
  <2> QED  BY <1>3, <2>4, <2>5
<1>8. ASSUME NEW n \in 1..(lp + lq)
      PROVE  h[n + 1] = h[n] + Change(stack, r[n])
  <2>1. n \in 1..(lp + lq + 1) /\ n + 1 \in 1..(lp + lq + 1)  BY <1>3
  <2>2. /\ h[n] = IF n <= lp THEN f[n] ELSE g[n - lp]
        /\ h[n + 1] = IF n + 1 <= lp THEN f[n + 1] ELSE g[(n + 1) - lp]
    BY <2>1
  <2> HIDE DEF h
  <2>3. CASE n <= lp
    <3>1. n \in 1..lp  BY <1>3, <2>3
    <3>2. f[n + 1] = f[n] + Change(stack, p[n]) /\ r[n] = p[n]  BY <1>4, <1>5, <2>3, <3>1
    <3>3. h[n + 1] = f[n + 1]
      <4>1. CASE n + 1 <= lp  BY <2>2, <4>1
      <4>2. CASE ~(n + 1 <= lp)
        <5>1. n + 1 = lp + 1 /\ (n + 1) - lp = 1  BY <1>3, <3>1, <4>2
        <5> QED  BY <1>5, <2>2, <4>2, <5>1
      <4> QED  BY <4>1, <4>2
    <3> QED  BY <2>2, <2>3, <3>2, <3>3
  <2>4. CASE ~(n <= lp)
    <3>1. n - lp \in 1..lq /\ ~(n + 1 <= lp) /\ (n + 1) - lp = (n - lp) + 1  BY <1>3, <2>4
    <3>2. g[(n - lp) + 1] = g[n - lp] + Change(stack, q[n - lp]) /\ r[n] = q[n - lp]
      BY <1>4, <1>5, <2>4, <3>1
    <3> QED  BY <2>2, <2>4, <3>1, <3>2
  <2> QED  BY <2>3, <2>4
<1> HIDE DEF h
<1>9. IsWay(h, stack, r, c, e)  BY <1>4, <1>7, <1>8 DEF IsWay
<1>10. Leads(stack, r, c, e)
  BY <1>4, <1>6, <1>9 DEF Leads
<1> QED  BY <1>10 DEF r

(* Past the first item. *)
LEMMA Behind ==
  ASSUME NEW stack, NEW S, NEW q \in Seq(S), q # <<>>, NEW d, NEW e, Leads(stack, q, d, e)
  PROVE  d \in Nat /\ d + Change(stack, q[1]) \in Nat /\ Leads(stack, Tail(q), d + Change(stack, q[1]), e)
<1> DEFINE u == Tail(q)
           lq == Len(q)
<1>1. PICK f \in [1..(lq + 1) -> Nat] : IsWay(f, stack, q, d, e)
  BY DEF Leads
<1>2. lq \in Nat \ {0}  BY LenProperties, EmptySeq
<1>3. u \in Seq(S) /\ Len(u) = lq - 1 /\ \A i \in 1..Len(u) : u[i] = q[i + 1]
  BY HeadTailProperties
<1>4. f[1] = d /\ f[lq + 1] = e /\ \A n \in 1..lq : f[n + 1] = f[n] + Change(stack, q[n])
  BY <1>1 DEF IsWay
<1> HIDE DEF u, lq
<1> DEFINE g == [n \in 1..lq |-> f[n + 1]]
<1>5. f[1] \in Nat /\ f[2] \in Nat /\ f[2] = f[1] + Change(stack, q[1])
  <2>1. 1 \in 1..(lq + 1) /\ 2 \in 1..(lq + 1) /\ 1 \in 1..lq /\ 1 + 1 = 2  BY <1>2
  <2> QED  BY <1>4, <2>1
<1>6. g \in [1..lq -> Nat]
  <2>1. \A n \in 1..lq : n + 1 \in 1..(lq + 1)  BY <1>2
  <2> QED  BY <2>1
<1>7. Len(u) + 1 = lq  BY <1>2, <1>3
<1>8. g[1] = f[2] /\ g[lq] = e
  <2>1. 1 \in 1..lq /\ lq \in 1..lq /\ 1 + 1 = 2  BY <1>2
  <2> QED  BY <1>4, <2>1
<1>9. ASSUME NEW n \in 1..Len(u) PROVE g[n + 1] = g[n] + Change(stack, u[n])
  <2>1. n \in 1..lq /\ n + 1 \in 1..lq  BY <1>2, <1>3
  <2>2. g[n] = f[n + 1] /\ g[n + 1] = f[(n + 1) + 1] /\ u[n] = q[n + 1]  BY <1>3, <2>1
  <2> QED  BY <1>4, <2>1, <2>2
<1> HIDE DEF g
<1>10. IsWay(g, stack, u, f[2], e)  BY <1>7, <1>8, <1>9 DEF IsWay
<1>11. Leads(stack, u, f[2], e)  BY <1>6, <1>7, <1>10 DEF Leads
<1> QED  BY <1>4, <1>5, <1>11 DEF u

(* A single item, and so on. *)
LEMMA OneItem ==
  ASSUME NEW stack, NEW a, NEW d \in Nat, d + Change(stack, a) \in Nat
  PROVE  Leads(stack, <<a>>, d, d + Change(stack, a))
<1> DEFINE e == d + Change(stack, a)
           f == <<d, e>>
           s == <<a>>
<1>1. f \in [1..2 -> Nat] /\ f[1] = d /\ f[2] = e
  <2>1. e \in Nat  OBVIOUS
  <2> HIDE DEF e
  <2> QED  BY <2>1
<1>2. Len(s) = 1 /\ s[1] = a  OBVIOUS
<1> HIDE DEF f, s
<1>3. \A n \in 1..Len(s) : f[n + 1] = f[n] + Change(stack, s[n])
  <2> TAKE n \in 1..Len(s)
  <2>1. n = 1 /\ n + 1 = 2  BY <1>2
  <2> QED  BY <1>1, <1>2, <2>1
<1>4. Len(s) + 1 = 2  BY <1>2
<1>5. IsWay(f, stack, s, d, e)  BY <1>1, <1>3, <1>4 DEF IsWay
<1>6. Leads(stack, s, d, e)  BY <1>1, <1>4, <1>5 DEF Leads
<1> QED  BY <1>6 DEF s

(* Several items, through the depths between them. *)
LEMMA TwoItems ==
  ASSUME NEW stack, NEW a, NEW b,
         NEW d0 \in Nat, NEW d1 \in Nat, NEW d2 \in Nat,
         d1 = d0 + Change(stack, a),
         d2 = d1 + Change(stack, b)
  PROVE  Leads(stack, <<a, b>>, d0, d2)
<1> DEFINE f == <<d0, d1, d2>>
           s == <<a, b>>
<1>1. f \in [1..3 -> Nat] /\ f[1] = d0 /\ f[2] = d1 /\ f[3] = d2  OBVIOUS
<1>2. Len(s) = 2 /\ s[1] = a /\ s[2] = b  OBVIOUS
<1> HIDE DEF f, s
<1>3. \A n \in 1..Len(s) : f[n + 1] = f[n] + Change(stack, s[n])
  <2> TAKE n \in 1..Len(s)
  <2>1. n = 1 \/ n = 2  BY <1>2
  <2>2. 1 + 1 = 2 /\ 2 + 1 = 3  OBVIOUS
  <2> QED  BY <1>1, <1>2, <2>1, <2>2
<1>4. IsWay(f, stack, s, d0, d2) /\ Len(s) + 1 = 3  BY <1>1, <1>2, <1>3 DEF IsWay
<1>5. Leads(stack, s, d0, d2)  BY <1>1, <1>4 DEF Leads
<1> QED  BY <1>5 DEF s

LEMMA ThreeItems ==
  ASSUME NEW stack, NEW a, NEW b, NEW c,
         NEW d0 \in Nat, NEW d1 \in Nat, NEW d2 \in Nat, NEW d3 \in Nat,
         d1 = d0 + Change(stack, a),
         d2 = d1 + Change(stack, b),
         d3 = d2 + Change(stack, c)
  PROVE  Leads(stack, <<a, b, c>>, d0, d3)
<1> DEFINE f == <<d0, d1, d2, d3>>
           s == <<a, b, c>>
<1>1. f \in [1..4 -> Nat] /\ f[1] = d0 /\ f[2] = d1 /\ f[3] = d2 /\ f[4] = d3  OBVIOUS
<1>2. Len(s) = 3 /\ s[1] = a /\ s[2] = b /\ s[3] = c  OBVIOUS
<1> HIDE DEF f, s
<1>3. \A n \in 1..Len(s) : f[n + 1] = f[n] + Change(stack, s[n])
  <2> TAKE n \in 1..Len(s)
  <2>1. n = 1 \/ n = 2 \/ n = 3  BY <1>2
  <2>2. 1 + 1 = 2 /\ 2 + 1 = 3 /\ 3 + 1 = 4  OBVIOUS
  <2> QED  BY <1>1, <1>2, <2>1, <2>2
<1>4. IsWay(f, stack, s, d0, d3) /\ Len(s) + 1 = 4  BY <1>1, <1>2, <1>3 DEF IsWay
<1>5. Leads(stack, s, d0, d3)  BY <1>1, <1>4 DEF Leads
<1> QED  BY <1>5 DEF s

LEMMA FourItems ==
  ASSUME NEW stack, NEW a, NEW b, NEW c, NEW x,
         NEW d0 \in Nat, NEW d1 \in Nat, NEW d2 \in Nat, NEW d3 \in Nat,
         NEW d4 \in Nat,
         d1 = d0 + Change(stack, a),
         d2 = d1 + Change(stack, b),
         d3 = d2 + Change(stack, c),
         d4 = d3 + Change(stack, x)
  PROVE  Leads(stack, <<a, b, c, x>>, d0, d4)
<1> DEFINE f == <<d0, d1, d2, d3, d4>>
           s == <<a, b, c, x>>
<1>1. f \in [1..5 -> Nat] /\ f[1] = d0 /\ f[2] = d1 /\ f[3] = d2 /\ f[4] = d3 /\ f[5] = d4  OBVIOUS
<1>2. Len(s) = 4 /\ s[1] = a /\ s[2] = b /\ s[3] = c /\ s[4] = x  OBVIOUS
<1> HIDE DEF f, s
<1>3. \A n \in 1..Len(s) : f[n + 1] = f[n] + Change(stack, s[n])
  <2> TAKE n \in 1..Len(s)
  <2>1. n = 1 \/ n = 2 \/ n = 3 \/ n = 4  BY <1>2
  <2>2. 1 + 1 = 2 /\ 2 + 1 = 3 /\ 3 + 1 = 4 /\ 4 + 1 = 5  OBVIOUS
  <2> QED  BY <1>1, <1>2, <2>1, <2>2
<1>4. IsWay(f, stack, s, d0, d4) /\ Len(s) + 1 = 5  BY <1>1, <1>2, <1>3 DEF IsWay
<1>5. Leads(stack, s, d0, d4)  BY <1>1, <1>4 DEF Leads
<1> QED  BY <1>5 DEF s

LEMMA SixItems ==
  ASSUME NEW stack, NEW a, NEW b, NEW c, NEW x, NEW y, NEW z,
         NEW d0 \in Nat, NEW d1 \in Nat, NEW d2 \in Nat, NEW d3 \in Nat,
         NEW d4 \in Nat, NEW d5 \in Nat, NEW d6 \in Nat,
         d1 = d0 + Change(stack, a),
         d2 = d1 + Change(stack, b),
         d3 = d2 + Change(stack, c),
         d4 = d3 + Change(stack, x),
         d5 = d4 + Change(stack, y),
         d6 = d5 + Change(stack, z)
  PROVE  Leads(stack, <<a, b, c, x, y, z>>, d0, d6)
<1> DEFINE f == <<d0, d1, d2, d3, d4, d5, d6>>
           s == <<a, b, c, x, y, z>>
<1>1. f \in [1..7 -> Nat] /\ f[1] = d0 /\ f[2] = d1 /\ f[3] = d2 /\ f[4] = d3 /\ f[5] = d4 /\ f[6] = d5 /\ f[7] = d6  OBVIOUS
<1>2. Len(s) = 6 /\ s[1] = a /\ s[2] = b /\ s[3] = c /\ s[4] = x /\ s[5] = y /\ s[6] = z  OBVIOUS
<1> HIDE DEF f, s
<1>3. \A n \in 1..Len(s) : f[n + 1] = f[n] + Change(stack, s[n])
  <2> TAKE n \in 1..Len(s)
  <2>1. n = 1 \/ n = 2 \/ n = 3 \/ n = 4 \/ n = 5 \/ n = 6  BY <1>2
  <2>2. 1 + 1 = 2 /\ 2 + 1 = 3 /\ 3 + 1 = 4 /\ 4 + 1 = 5 /\ 5 + 1 = 6 /\ 6 + 1 = 7  OBVIOUS
  <2> QED  BY <1>1, <1>2, <2>1, <2>2
<1>4. IsWay(f, stack, s, d0, d6) /\ Len(s) + 1 = 7  BY <1>1, <1>2, <1>3 DEF IsWay
<1>5. Leads(stack, s, d0, d6)  BY <1>1, <1>4 DEF Leads
<1> QED  BY <1>5 DEF s

(* The items the statements and expressions leave to do. *)
LEMMA Patterns ==
  ASSUME NEW a, NEW b, NEW c, NEW g, NEW context, NEW l \in Nat, NEW m \in Nat,
         \A stack, item : item \in {a, b, c, g} => Change(stack, item) = 0
  PROVE  /\ Leads("scope", <<a, b, PopScope, PopContext>>, l + 1, l)
         /\ Leads("context", <<a, b, PopScope, PopContext>>, m + 1, m)
         /\ Leads("scope", <<a, PopScope>>, l + 1, l)
         /\ Leads("context", <<a, PopScope>>, m, m)
         /\ Leads("scope", <<a, b, c, g, PopContext, PopScope>>, l + 1, l)
         /\ Leads("context", <<a, b, c, g, PopContext, PopScope>>, m + 1, m)
         /\ Leads("scope", <<Push(context), a, PopContext>>, l, l)
         /\ Leads("context", <<Push(context), a, PopContext>>, m, m)
         /\ Leads("scope", <<a, Push(context), b, PopContext>>, l, l)
         /\ Leads("context", <<a, Push(context), b, PopContext>>, m, m)
         /\ Leads("scope", <<a, PopScope, PopContext>>, l + 1, l)
         /\ Leads("context", <<a, PopScope, PopContext>>, m + 1, m)
         /\ Leads("scope", <<a, b, PopContext>>, l, l)
         /\ Leads("context", <<a, b, PopContext>>, m + 1, m)
         /\ Leads("scope", <<a, PopContext>>, l, l)
         /\ Leads("context", <<a, PopContext>>, m + 1, m)
<1> DEFINE ps == PopScope
           pc == PopContext
           pu == Push(context)
           l1 == l + 1
           m1 == m + 1
<1>1. l1 \in Nat /\ m1 \in Nat /\ l = l1 + (-1) /\ m = m1 + (-1) /\ l = l + 0 /\ m = m + 0
      /\ l1 = l1 + 0 /\ m1 = m1 + 0 /\ m1 = m + 1
  OBVIOUS
<1>2. /\ Change("scope", ps) = -1 /\ Change("context", ps) = 0
      /\ Change("scope", pc) = 0 /\ Change("context", pc) = -1
      /\ Change("scope", pu) = 0 /\ Change("context", pu) = 1
  BY Changes
<1>3. \A stack : /\ Change(stack, a) = 0 /\ Change(stack, b) = 0 /\ Change(stack, c) = 0
                 /\ Change(stack, g) = 0
  OBVIOUS
<1> HIDE DEF ps, pc, pu, l1, m1
<1>4. /\ Leads("scope", <<a, b, ps, pc>>, l1, l) /\ Leads("context", <<a, b, ps, pc>>, m1, m)
  BY <1>1, <1>2, <1>3, FourItems
<1>5. /\ Leads("scope", <<a, ps>>, l1, l) /\ Leads("context", <<a, ps>>, m, m)
  BY <1>1, <1>2, <1>3, TwoItems
<1>6. /\ Leads("scope", <<pu, a, pc>>, l, l) /\ Leads("context", <<pu, a, pc>>, m, m)
  BY <1>1, <1>2, <1>3, ThreeItems
<1>7. /\ Leads("scope", <<a, pu, b, pc>>, l, l) /\ Leads("context", <<a, pu, b, pc>>, m, m)
  BY <1>1, <1>2, <1>3, FourItems
<1>8. /\ Leads("scope", <<a, ps, pc>>, l1, l) /\ Leads("context", <<a, ps, pc>>, m1, m)
  BY <1>1, <1>2, <1>3, ThreeItems
<1>9. /\ Leads("scope", <<a, b, pc>>, l, l) /\ Leads("context", <<a, b, pc>>, m1, m)
  BY <1>1, <1>2, <1>3, ThreeItems
<1>10. /\ Leads("scope", <<a, pc>>, l, l) /\ Leads("context", <<a, pc>>, m1, m)
  BY <1>1, <1>2, <1>3, TwoItems
<1>11. /\ Leads("scope", <<a, b, c, g, pc, ps>>, l1, l) /\ Leads("context", <<a, b, c, g, pc, ps>>, m1, m)
  BY <1>1, <1>2, <1>3, SixItems
<1> QED  BY <1>4, <1>5, <1>6, <1>7, <1>8, <1>9, <1>10, <1>11, Zenon DEF ps, pc, pu, l1, m1

(* A step balances if what it leaves to do closes what the step opened. *)
LEMMA Rebalanced ==
  ASSUME IInv, Balance, ~checking, ~lost, todo # <<>>, checking' = checking,
         NEW S, NEW items \in Seq(S), Then(items), contexts' \in Seq(Contexts),
         ~lost' => /\ Leads("scope", items, Len(tables'), Len(tables) + Change("scope", todo[1]))
                   /\ Leads("context", items, Len(contexts'), Len(contexts) + Change("context", todo[1]))
  PROVE  Balance'
<1>1. CASE lost'  BY <1>1 DEF Balance
<1>2. CASE ~lost'
  <2> DEFINE R == S \cup ResolveItems
             u == Tail(todo)
             l == Len(tables)
             m == Len(contexts)
  <2>1. todo \in Seq(ResolveItems)  BY DEF IInv, TodoInv
  <2>2. /\ Leads("scope", todo, l, 0) /\ Leads("context", todo, m, 0)  BY DEF Balance
  <2>3. /\ Leads("scope", u, l + Change("scope", todo[1]), 0)
        /\ Leads("context", u, m + Change("context", todo[1]), 0)
    BY <2>1, <2>2, Behind
  <2>4. u \in Seq(R) /\ items \in Seq(R)
    <3>1. u \in Seq(ResolveItems)  BY <2>1, HeadTailProperties
    <3> QED  BY <3>1, Widened
  <2>5. todo' = items \o u  BY DEF Then
  <2> HIDE DEF R, u, l, m
  <2>6. /\ Leads("scope", items \o u, Len(tables'), 0)
        /\ Leads("context", items \o u, Len(contexts'), 0)
    BY <1>2, <2>3, <2>4, Joined DEF l, m
  <2>7. Leads("scope", todo', Len(tables'), 0) /\ Leads("context", todo', Len(contexts'), 0)
    BY <2>5, <2>6, Zenon
  <2> QED  BY <2>7 DEF Balance
<1> QED  BY <1>1, <1>2

(* Nothing is opened or closed. *)
LEMMA Level ==
  ASSUME IInv, Balance, ~checking, ~lost, todo # <<>>, checking' = checking,
         todo[1].do \in {"collect", "global", "statement", "expression"},
         NEW S, NEW items \in Seq(S), \A stack, item : item \in S => Change(stack, item) = 0,
         Then(items), contexts' = contexts, Len(tables') = Len(tables)
  PROVE  Balance'
<1>1. Len(tables) \in Nat /\ Len(contexts) \in Nat /\ contexts \in Seq(Contexts)
  BY LenProperties DEF IInv, TablesInv, Balance
<1>2. Change("scope", todo[1]) = 0 /\ Change("context", todo[1]) = 0  BY ChangeOf
<1>3. Leads("scope", items, Len(tables), Len(tables)) /\ Leads("context", items, Len(contexts), Len(contexts))
  BY <1>1, Flat
<1>4. Len(tables) + 0 = Len(tables) /\ Len(contexts) + 0 = Len(contexts)  BY <1>1
<1>5. /\ Leads("scope", items, Len(tables'), Len(tables) + Change("scope", todo[1]))
      /\ Leads("context", items, Len(contexts'), Len(contexts) + Change("context", todo[1]))
  BY <1>2, <1>3, <1>4
<1>6. contexts' \in Seq(Contexts)  BY <1>1
<1> QED  BY <1>5, <1>6, Rebalanced

(* The stacks' depths. *)
LEMMA Depths ==
  ASSUME IInv, Balance
  PROVE  /\ Len(tables) \in Nat /\ Len(contexts) \in Nat /\ contexts \in Seq(Contexts)
         /\ push_scope => Len(tables') = Len(tables) + 1
         /\ \A c \in Contexts : push_context(c) =>
              Len(contexts') = Len(contexts) + 1 /\ contexts' \in Seq(Contexts)
         /\ \A t : tables' = Append(tables, t) => Len(tables') = Len(tables) + 1
         /\ \A symbol : BindInScope(symbol) => Len(tables') = Len(tables)
<1>1. tables \in Seq(Whole) /\ contexts \in Seq(Contexts)  BY DEF IInv, TablesInv, Balance
<1>2. Len(tables) \in Nat /\ Len(contexts) \in Nat /\ DOMAIN tables = 1..Len(tables)
  BY <1>1, LenProperties
<1>3. \A t : Len(Append(tables, t)) = Len(tables) + 1
  <2> TAKE t
  <2>1. tables \in Seq(Whole \cup {t})  BY <1>1, Widened
  <2> QED  BY <2>1, AppendProperties
<1>4. \A c \in Contexts : Append(contexts, c) \in Seq(Contexts) /\ Len(Append(contexts, c)) = Len(contexts) + 1
  BY <1>1, AppendProperties
<1>5. \A t : Len([tables EXCEPT ![Len(tables)] = t]) = Len(tables)
  <2> TAKE t
  <2> DEFINE u == [tables EXCEPT ![Len(tables)] = t]
  <2>1. u = [i \in 1..Len(tables) |-> IF i = Len(tables) THEN t ELSE tables[i]]  BY <1>2
  <2>2. u \in [1..Len(tables) -> Whole \cup {t}]
    <3>1. \A i \in 1..Len(tables) : tables[i] \in Whole  BY <1>1, ElementOfSeq
    <3> HIDE DEF u
    <3> QED  BY <2>1, <3>1
  <2> HIDE DEF u
  <2>3. Len(u) = Len(tables)  BY <1>2, <2>2
  <2> QED  BY <2>3 DEF u
<1>6. \A t : tables' = Append(tables, t) => Len(tables') = Len(tables) + 1  BY <1>3
<1>7. push_scope => Len(tables') = Len(tables) + 1  BY <1>6 DEF push_scope
<1>8. \A c \in Contexts : push_context(c) =>
        Len(contexts') = Len(contexts) + 1 /\ contexts' \in Seq(Contexts)
  BY <1>4 DEF push_context
<1>9. \A symbol : BindInScope(symbol) => Len(tables') = Len(tables)  BY <1>5, Zenon DEF BindInScope
<1> QED  BY <1>1, <1>2, <1>6, <1>7, <1>8, <1>9

(* resolve_statement: a scope, a context or both, and the items that close them. *)
LEMMA StatementsBalance ==
  ASSUME IInv, Balance, checking' = checking,
         \/ ResolveIf \/ ResolveElse \/ ResolveWhile \/ ResolveFor \/ ResolveReturn
         \/ ResolveAssignment \/ ResolveBlock \/ ResolveIncrementStatement
         \/ ResolveCallStatement \/ PassOverStatement
  PROVE  Balance'
<1>1. todo # <<>> /\ ~lost /\ todo[1].do = "statement"
  BY DEF ResolveIf, ResolveElse, ResolveWhile, ResolveFor, ResolveReturn, ResolveAssignment,
         ResolveBlock, ResolveIncrementStatement, ResolveCallStatement, PassOverStatement,
         StatementIs, Head1
<1>2. Node \in Nodes /\ ~checking  BY <1>1, HeadItem
<1> DEFINE l == Len(tables)
           m == Len(contexts)
<1>3. l \in Nat /\ m \in Nat /\ contexts \in Seq(Contexts)  BY Depths
<1>4. /\ l + Change("scope", todo[1]) = l /\ m + Change("context", todo[1]) = m
  <2>1. Change("scope", todo[1]) = 0 /\ Change("context", todo[1]) = 0  BY <1>1, ChangeOf
  <2> QED  BY <1>3, <2>1
<1>5. \A stack, node : Change(stack, Stmt(node)) = 0 /\ Change(stack, Expr(node)) = 0
  BY Changes
<1>6. ASSUME NEW S, NEW items \in Seq(S), Then(items), contexts' \in Seq(Contexts),
             Leads("scope", items, Len(tables'), l), Leads("context", items, Len(contexts'), m)
      PROVE  Balance'
  <2> HIDE DEF l, m
  <2> QED  BY <1>1, <1>2, <1>4, <1>6, Rebalanced DEF l, m
<1>7. CASE ResolveIf \/ ResolveWhile
  <2> DEFINE a == Expr(Node.left)
             b == Stmt(Node.right)
             items == <<a, b, PopScope, PopContext>>
  <2>1. Then(items) /\ push_scope /\ (push_context("IF") \/ push_context("LOOP"))
    BY <1>7 DEF ResolveIf, ResolveWhile
  <2>2. Len(tables') = l + 1 /\ Len(contexts') = m + 1 /\ contexts' \in Seq(Contexts)
    BY <2>1, Depths DEF Contexts
  <2>3. items \in Seq({a, b, PopScope, PopContext})  OBVIOUS
  <2>4. Leads("scope", items, l + 1, l) /\ Leads("context", items, m + 1, m)
    <3>1. \A stack, item : item \in {a, b, a, b} => Change(stack, item) = 0  BY <1>5
    <3> HIDE DEF l, m, a, b
    <3> QED  BY <1>3, <3>1, Patterns
  <2> HIDE DEF items, l, m
  <2> QED  BY <1>6, <2>1, <2>2, <2>3, <2>4
<1>8. CASE ResolveElse
  <2> DEFINE a == Stmt(Node.right)
             items == <<a, PopScope>>
  <2>1. Then(items) /\ push_scope /\ contexts' = contexts  BY <1>8 DEF ResolveElse
  <2>2. Len(tables') = l + 1 /\ Len(contexts') = m /\ contexts' \in Seq(Contexts)
    BY <1>3, <2>1, Depths
  <2>3. items \in Seq({a, PopScope})  OBVIOUS
  <2>4. Leads("scope", items, l + 1, l) /\ Leads("context", items, m, m)
    <3>1. \A stack, item : item \in {a, a, a, a} => Change(stack, item) = 0  BY <1>5
    <3> HIDE DEF l, m, a
    <3> QED  BY <1>3, <3>1, Patterns
  <2> HIDE DEF items, l, m
  <2> QED  BY <1>6, <2>1, <2>2, <2>3, <2>4
<1>9. CASE ResolveFor
  <2> DEFINE a == Stmt(Node.left)
             b == Expr(Node.condition)
             c == Expr(Node.update)
             g == Stmt(Node.right)
             items == <<a, b, c, g, PopContext, PopScope>>
  <2>1. Then(items) /\ push_scope /\ push_context("LOOP")  BY <1>9 DEF ResolveFor
  <2>2. Len(tables') = l + 1 /\ Len(contexts') = m + 1 /\ contexts' \in Seq(Contexts)
    BY <2>1, Depths DEF Contexts
  <2>3. items \in Seq({a, b, c, g, PopScope, PopContext})  OBVIOUS
  <2>4. Leads("scope", items, l + 1, l) /\ Leads("context", items, m + 1, m)
    <3>1. \A stack, item : item \in {a, b, c, g} => Change(stack, item) = 0  BY <1>5
    <3> HIDE DEF l, m, a, b, c, g
    <3> QED  BY <1>3, <3>1, Patterns
  <2> HIDE DEF items, l, m
  <2> QED  BY <1>6, <2>1, <2>2, <2>3, <2>4
<1>10. CASE ResolveReturn \/ ResolveIncrementStatement \/ ResolveAssignment
  <2>1. contexts' = contexts /\ tables' = tables
    BY <1>10 DEF ResolveReturn, ResolveIncrementStatement, ResolveAssignment, Walks
  <2>2. ASSUME NEW c, NEW a, NEW b, Then(<<Push(c), a, PopContext>>) \/ Then(<<a, Push(c), b, PopContext>>),
               \A stack : Change(stack, a) = 0 /\ Change(stack, b) = 0
        PROVE  Balance'
    <3> DEFINE s == <<Push(c), a, PopContext>>
               t == <<a, Push(c), b, PopContext>>
    <3>1. /\ Leads("scope", s, l, l) /\ Leads("context", s, m, m)
          /\ Leads("scope", t, l, l) /\ Leads("context", t, m, m)
      <4>1. \A stack, item : item \in {a, b, a, b} => Change(stack, item) = 0  BY <2>2
      <4> HIDE DEF l, m
      <4> QED  BY <1>3, <4>1, Patterns
    <3>2. s \in Seq({Push(c), a, b, PopContext}) /\ t \in Seq({Push(c), a, b, PopContext})  OBVIOUS
    <3>3. Then(s) \/ Then(t)  BY <2>2
    <3> HIDE DEF s, t
    <3>4. Len(tables') = l /\ Len(contexts') = m /\ contexts' \in Seq(Contexts)  BY <1>3, <2>1
    <3> HIDE DEF l, m
    <3> QED  BY <1>6, <3>1, <3>2, <3>3, <3>4
  <2>3. CASE ResolveReturn /\ Node.right = Null
    <3>1. Then(<<>>)  BY <2>3 DEF ResolveReturn, If
    <3>2. <<>> \in Seq({})  OBVIOUS
    <3> QED  BY <1>1, <1>2, <2>1, <3>1, <3>2, Level
  <2>4. CASE ResolveReturn /\ Node.right # Null
    <3>1. Then(<<Push("RETURN"), Expr(Node.right), PopContext>>)  BY <2>4 DEF ResolveReturn, If
    <3> QED  BY <1>5, <2>2, <3>1, Zenon
  <2>5. CASE ResolveIncrementStatement
    <3>1. Then(<<Push("OP"), Expr(Node.left), PopContext>>)  BY <2>5 DEF ResolveIncrementStatement
    <3> QED  BY <1>5, <2>2, <3>1, Zenon
  <2>6. CASE ResolveAssignment
    <3>1. Then(<<Expr(Node.left), Push("ASSIGNMENT"), Expr(Node.right), PopContext>>)
      BY <2>6 DEF ResolveAssignment
    <3> QED  BY <1>5, <2>2, <3>1, Zenon
  <2> QED  BY <1>10, <2>3, <2>4, <2>5, <2>6
<1>11. CASE ResolveBlock
  <2> DEFINE items == [n \in DOMAIN Node.right |-> Stmt(Node.right[n])]
             S == {Stmt(node) : node \in Nodes}
  <2>1. Node.right \in Seq(Nodes)  BY <1>2, <1>11, Children DEF ResolveBlock, StatementIs
  <2>2. items \in Seq(S)
    <3>1. \A n \in DOMAIN Node.right : Stmt(Node.right[n]) \in S
      BY <2>1, LenProperties, ElementOfSeq
    <3>2. items \in [DOMAIN Node.right -> S]  BY <3>1
    <3> HIDE DEF items, S
    <3> QED  BY <2>1, <3>2, Mapped
  <2>3. \A stack, item : item \in S => Change(stack, item) = 0  BY <1>5
  <2>4. Then(items) /\ tables' = tables /\ contexts' = contexts  BY <1>11 DEF ResolveBlock, Walks
  <2> HIDE DEF items, S
  <2> QED  BY <1>1, <1>2, <2>2, <2>3, <2>4, Level
<1>12. CASE ResolveCallStatement
  <2> DEFINE items == <<Expr(Node)>>
             S == {Expr(Node)}
  <2>1. items \in Seq(S)  OBVIOUS
  <2>2. \A stack, item : item \in S => Change(stack, item) = 0  BY <1>5
  <2>3. Then(items) /\ tables' = tables /\ contexts' = contexts  BY <1>12 DEF ResolveCallStatement, Walks
  <2> HIDE DEF items, S
  <2> QED  BY <1>1, <1>2, <2>1, <2>2, <2>3, Level
<1>13. CASE PassOverStatement
  <2>1. Then(<<>>) /\ tables' = tables /\ contexts' = contexts  BY <1>13 DEF PassOverStatement, Walks
  <2>2. <<>> \in Seq({})  OBVIOUS
  <2> QED  BY <1>1, <1>2, <2>1, <2>2, Level
<1> QED  BY <1>7, <1>8, <1>9, <1>10, <1>11, <1>12, <1>13

(* resolve_expression opens contexts only. *)
LEMMA ExpressionsBalance ==
  ASSUME IInv, Balance, checking' = checking,
         \/ ResolveLiteral \/ ResolveTarget \/ ResolveOperator \/ ResolveSubscript
         \/ ResolveArrayList \/ ResolveCall \/ ResolveDefinition \/ ResolveCallee \/ ResolveUse
  PROVE  Balance'
<1>1. todo # <<>> /\ ~lost /\ todo[1].do = "expression"
  BY DEF ResolveLiteral, ResolveTarget, ResolveOperator, ResolveSubscript, ResolveArrayList,
         ResolveCall, ResolveDefinition, ResolveCallee, ResolveUse, ExpressionIs, Head1
<1>2. Node \in Nodes /\ ~checking  BY <1>1, HeadItem
<1> DEFINE l == Len(tables)
           m == Len(contexts)
<1>3. l \in Nat /\ m \in Nat /\ contexts \in Seq(Contexts)  BY Depths
<1>4. l + Change("scope", todo[1]) = l /\ m + Change("context", todo[1]) = m
  <2>1. Change("scope", todo[1]) = 0 /\ Change("context", todo[1]) = 0  BY <1>1, ChangeOf
  <2> QED  BY <1>3, <2>1
<1>5. \A stack, node : Change(stack, Expr(node)) = 0  BY Changes
<1>6. ASSUME NEW S, NEW items \in Seq(S), Then(items), contexts' \in Seq(Contexts),
             Leads("scope", items, Len(tables'), l), Leads("context", items, Len(contexts'), m)
      PROVE  Balance'
  <2> HIDE DEF l, m
  <2> QED  BY <1>1, <1>2, <1>4, <1>6, Rebalanced DEF l, m
<1>7. ASSUME NEW S, NEW items \in Seq(S), \A stack, item : item \in S => Change(stack, item) = 0,
             Then(items), contexts' = contexts, Len(tables') = Len(tables)
      PROVE  Balance'
  BY <1>1, <1>2, <1>7, Level
<1>8. <<>> \in Seq({})  OBVIOUS
<1>9. ASSUME NEW n PROVE <<Expr(n)>> \in Seq({Expr(n)}) /\ \A stack, item : item \in {Expr(n)} => Change(stack, item) = 0
  BY <1>5
<1>10. ASSUME NEW nodes \in Seq(Nodes)
       PROVE  /\ [n \in DOMAIN nodes |-> Expr(nodes[n])] \in Seq({Expr(node) : node \in Nodes})
              /\ \A stack, item : item \in {Expr(node) : node \in Nodes} => Change(stack, item) = 0
  <2> DEFINE items == [n \in DOMAIN nodes |-> Expr(nodes[n])]
             S == {Expr(node) : node \in Nodes}
  <2>1. \A n \in DOMAIN nodes : Expr(nodes[n]) \in S  BY LenProperties, ElementOfSeq
  <2>2. items \in [DOMAIN nodes -> S]  BY <2>1
  <2>3. \A stack, item : item \in S => Change(stack, item) = 0  BY <1>5
  <2> HIDE DEF items, S
  <2>4. items \in Seq(S)  BY <2>2, Mapped
  <2> QED  BY <2>3, <2>4 DEF items, S
(* An operator, a subscript, a call: a context, and its end after the operands. *)
<1>11. ASSUME NEW c \in Contexts, NEW a, NEW b, push_context(c), tables' = tables,
              Then(<<a, b, PopContext>>) \/ Then(<<a, PopContext>>),
              \A stack : Change(stack, a) = 0 /\ Change(stack, b) = 0
       PROVE  Balance'
  <2> DEFINE s == <<a, b, PopContext>>
             t == <<a, PopContext>>
  <2>1. /\ Leads("scope", s, l, l) /\ Leads("context", s, m + 1, m)
        /\ Leads("scope", t, l, l) /\ Leads("context", t, m + 1, m)
    <3>1. \A stack, item : item \in {a, b, a, b} => Change(stack, item) = 0  BY <1>11
    <3> HIDE DEF l, m
    <3> QED  BY <1>3, <3>1, Patterns
  <2>2. s \in Seq({a, b, PopContext}) /\ t \in Seq({a, b, PopContext})  OBVIOUS
  <2>3. Then(s) \/ Then(t)  BY <1>11
  <2>4. Len(tables') = l /\ Len(contexts') = m + 1 /\ contexts' \in Seq(Contexts)  BY <1>11, Depths
  <2> HIDE DEF s, t, l, m
  <2> QED  BY <1>6, <2>1, <2>2, <2>3, <2>4
<1>12. CASE ResolveLiteral \/ ResolveCallee \/ ResolveUse
  <2>1. Then(<<>>) /\ tables' = tables /\ contexts' = contexts
    BY <1>12 DEF ResolveLiteral, ResolveCallee, ResolveUse, Walks
  <2> QED  BY <1>7, <1>8, <2>1
<1>13. CASE ResolveTarget
  <2>1. contexts' = contexts /\ tables' = tables  BY <1>13 DEF ResolveTarget, Walks
  <2>2. CASE Node.type # "AUG"
    <3>1. Then(<<Expr(Node.left)>>)  BY <1>13, <2>2 DEF ResolveTarget
    <3> QED  BY <1>7, <1>9, <2>1, <3>1
  <2>3. CASE Node.type = "AUG"
    <3> DEFINE a == Expr(Node.left)
               s == <<Push("AUG"), a, PopContext>>
    <3>1. Then(s)  BY <1>13, <2>3 DEF ResolveTarget
    <3>2. Leads("scope", s, l, l) /\ Leads("context", s, m, m)
      <4>1. \A stack, item : item \in {a, a, a, a} => Change(stack, item) = 0  BY <1>5
      <4> HIDE DEF l, m, a
      <4> QED  BY <1>3, <4>1, Patterns
    <3>3. s \in Seq({Push("AUG"), a, PopContext})  OBVIOUS
    <3>4. Len(tables') = l /\ Len(contexts') = m /\ contexts' \in Seq(Contexts)  BY <1>3, <2>1
    <3> HIDE DEF s, l, m
    <3> QED  BY <1>6, <3>1, <3>2, <3>3, <3>4
  <2> QED  BY <2>2, <2>3
<1>14. CASE ResolveOperator
  <2>1. "OP" \in Contexts /\ push_context("OP") /\ tables' = tables
    BY <1>14 DEF ResolveOperator, Contexts
  <2> DEFINE operands == IF Node.type \in Operators THEN <<Expr(Node.left), Expr(Node.right)>>
                         ELSE <<Expr(IF Node.type = "INCREMENT" THEN Node.left ELSE Node.right)>>
             S == {Expr(node) : node \in {Node.left, Node.right}}
             q == <<PopContext>>
  <2>2. Then(operands \o q)  BY <1>14 DEF ResolveOperator
  <2>3. operands \in Seq(S)
    <3>1. Expr(Node.left) \in S /\ Expr(Node.right) \in S  OBVIOUS
    <3> HIDE DEF S
    <3> QED  BY <3>1
  <2>4. \A stack, item : item \in S => Change(stack, item) = 0  BY <1>5
  <2>5. q \in Seq({PopContext})  OBVIOUS
  <2>6. Leads("scope", q, l, l) /\ Leads("context", q, m + 1, m)
    <3>1. Change("scope", PopContext) = 0 /\ Change("context", PopContext) = -1  BY Changes
    <3>2. l + 0 = l /\ (m + 1) + (-1) = m /\ m + 1 \in Nat  BY <1>3
    <3> HIDE DEF l, m
    <3> QED  BY <1>3, <3>1, <3>2, OneItem
  <2>7. Len(tables') = l /\ Len(contexts') = m + 1 /\ contexts' \in Seq(Contexts)  BY <2>1, Depths
  <2> HIDE DEF operands, S, q, l, m
  <2>8. m + 1 \in Nat  BY <1>3
  <2>9. Leads("scope", operands, l, l) /\ Leads("context", operands, m + 1, m + 1)
    BY <1>3, <2>3, <2>4, <2>8, Flat
  <2> DEFINE R == S \cup {PopContext}
             items == operands \o q
  <2>10. operands \in Seq(R) /\ q \in Seq(R)  BY <2>3, <2>5, Widened
  <2> HIDE DEF R
  <2>11. items \in Seq(R)  BY <2>10, ConcatProperties
  <2>12. Leads("scope", items, l, l) /\ Leads("context", items, m + 1, m)
    BY <2>6, <2>9, <2>10, Joined
  <2> HIDE DEF items
  <2> QED  BY <1>6, <2>2, <2>7, <2>11, <2>12 DEF items
<1>15. CASE ResolveSubscript
  <2>1. "SUBSCRIPT" \in Contexts /\ push_context("SUBSCRIPT") /\ tables' = tables
        /\ Then(<<Expr(Node.left), Expr(Node.right), PopContext>>)
    BY <1>15 DEF ResolveSubscript, Contexts
  <2> QED  BY <1>5, <1>11, <2>1
<1>16. CASE ResolveArrayList
  <2>1. Node.right \in Seq(Nodes)  BY <1>2, <1>16, Children DEF ResolveArrayList, ExpressionIs
  <2>2. Then([n \in DOMAIN Node.right |-> Expr(Node.right[n])]) /\ tables' = tables /\ contexts' = contexts
    BY <1>16 DEF ResolveArrayList, Walks
  <2> QED  BY <1>7, <1>10, <2>1, <2>2
<1>17. CASE ResolveCall
  <2> DEFINE callee == <<Expr(Node.left), PopContext>>
             S == {Expr(node) : node \in Nodes}
             q == [n \in DOMAIN Node.params |-> Expr(Node.params[n])]
             R == S \cup {Expr(Node.left), PopContext}
             items == callee \o q
  <2>1. "CALL" \in Contexts /\ push_context("CALL") /\ tables' = tables /\ Then(items)
    BY <1>17 DEF ResolveCall, Contexts
  <2>2. Node.params \in Seq(Nodes)  BY <1>2, <1>17, Children DEF ResolveCall, ExpressionIs
  <2>3. q \in Seq(S) /\ \A stack, item : item \in S => Change(stack, item) = 0  BY <1>10, <2>2
  <2>4. Leads("scope", callee, l, l) /\ Leads("context", callee, m + 1, m)
    <3> DEFINE a == Expr(Node.left)
    <3>1. \A stack, item : item \in {a, a, a, a} => Change(stack, item) = 0  BY <1>5
    <3> HIDE DEF l, m, a
    <3> QED  BY <1>3, <3>1, Patterns DEF a
  <2>5. callee \in Seq(R)  OBVIOUS
  <2>6. Len(tables') = l /\ Len(contexts') = m + 1 /\ contexts' \in Seq(Contexts)  BY <2>1, Depths
  <2>7. S \subseteq R  OBVIOUS
  <2> HIDE DEF callee, S, q, R, l, m
  <2>8. Leads("scope", q, l, l) /\ Leads("context", q, m, m)  BY <1>3, <2>3, Flat
  <2>9. q \in Seq(R)  BY <2>3, <2>7, Widened
  <2>10. items \in Seq(R)  BY <2>5, <2>9, ConcatProperties
  <2>11. Leads("scope", items, l, l) /\ Leads("context", items, m + 1, m)
    BY <2>4, <2>5, <2>8, <2>9, Joined
  <2> HIDE DEF items
  <2> QED  BY <1>6, <2>1, <2>6, <2>10, <2>11
<1>18. CASE ResolveDefinition
  <2> DEFINE symbol == create_symbol(Node, <<>>, Node.t)
  <2>1. contexts' = contexts /\ (BindInScope(symbol) \/ tables' = tables)
    BY <1>18 DEF ResolveDefinition
  <2> HIDE DEF symbol
  <2>2. Len(tables') = Len(tables)  BY <2>1, Depths
  <2>3. CASE Node.left = Null
    <3>1. Then(<<>>)  BY <1>18, <2>3 DEF ResolveDefinition, If
    <3> QED  BY <1>7, <1>8, <2>1, <2>2, <3>1
  <2>4. CASE Node.left # Null
    <3>1. Then(<<Expr(Node.left)>>)  BY <1>18, <2>4 DEF ResolveDefinition, If
    <3> QED  BY <1>7, <1>9, <2>1, <2>2, <3>1
  <2> QED  BY <2>3, <2>4
<1> QED  BY <1>12, <1>13, <1>14, <1>15, <1>16, <1>17, <1>18

(* A function opens a scope and a context; where it fails, the resolution is lost. *)
LEMMA GlobalsBalance ==
  ASSUME IInv, Balance, checking' = checking,
         CollectFunction \/ CollectNothing \/ ResolveGlobal \/ ResolveFunction
  PROVE  Balance'
<1>1. todo # <<>> /\ ~lost /\ todo[1].do \in {"collect", "global"}
  BY DEF CollectFunction, CollectNothing, ResolveGlobal, ResolveFunction, Head1
<1>2. ~checking  BY <1>1, HeadItem
<1>3. ASSUME Then(<<>>), contexts' = contexts, Len(tables') = Len(tables) PROVE Balance'
  <2>1. <<>> \in Seq({})  OBVIOUS
  <2> QED  BY <1>1, <1>2, <1>3, <2>1, Level
<1>4. CASE CollectFunction \/ CollectNothing
  <2>1. Then(<<>>) /\ contexts' = contexts /\ tables' = tables
    BY <1>4 DEF CollectFunction, CollectNothing
  <2> QED  BY <1>3, <2>1
<1>5. CASE ResolveGlobal
  <2> DEFINE symbol == create_symbol(Node.left, <<>>, Node.left.t)
  <2>1. Then(<<>>) /\ contexts' = contexts /\ (BindInScope(symbol) \/ tables' = tables)
    BY <1>5 DEF ResolveGlobal
  <2> HIDE DEF symbol
  <2>2. Len(tables') = Len(tables)  BY <2>1, Depths
  <2> QED  BY <1>3, <2>1, <2>2
<1>6. CASE ResolveFunction
  <2> DEFINE l == Len(tables)
             m == Len(contexts)
             a == Stmt(Node.right)
             items == <<a, PopScope, PopContext>>
  <2>1. l \in Nat /\ m \in Nat /\ contexts \in Seq(Contexts)  BY Depths
  <2>2. /\ Then(items) /\ (lost' \/ \E t : tables' = Append(tables, t))
        /\ push_context("VOID_FUNCTION") \/ push_context("NONVOID_FUNCTION")
    BY <1>6 DEF ResolveFunction
  <2>3. lost' \/ Len(tables') = l + 1  BY <2>2, Depths
  <2>4. Len(contexts') = m + 1 /\ contexts' \in Seq(Contexts)  BY <2>2, Depths DEF Contexts
  <2>5. Leads("scope", items, l + 1, l) /\ Leads("context", items, m + 1, m)
    <3>1. \A stack, item : item \in {a, a, a, a} => Change(stack, item) = 0  BY Changes
    <3> HIDE DEF l, m, a
    <3> QED  BY <2>1, <3>1, Patterns
  <2>6. items \in Seq({a, PopScope, PopContext})  OBVIOUS
  <2>7. l + Change("scope", todo[1]) = l /\ m + Change("context", todo[1]) = m
    <3>1. Change("scope", todo[1]) = 0 /\ Change("context", todo[1]) = 0  BY <1>1, ChangeOf
    <3> QED  BY <2>1, <3>1
  <2> HIDE DEF items, l, m
  <2> QED  BY <1>1, <1>2, <2>2, <2>3, <2>4, <2>5, <2>6, <2>7, Rebalanced DEF l, m
<1> QED  BY <1>4, <1>5, <1>6

(* The stacks change as their items say. *)
LEMMA StacksBalance ==
  ASSUME IInv, Balance, checking' = checking,
         PushScope \/ ReturnFromScope \/ EnterContext \/ ReturnFromContext
  PROVE  Balance'
<1>1. todo # <<>> /\ ~lost /\ Then(<<>>)
      /\ todo[1].do \in {"push_scope", "pop_scope", "push_context", "pop_context"}
  BY DEF PushScope, ReturnFromScope, EnterContext, ReturnFromContext, Head1
<1>2. ~checking  BY <1>1, HeadItem
<1> DEFINE l == Len(tables)
           m == Len(contexts)
           ds == Change("scope", todo[1])
           dc == Change("context", todo[1])
<1>3. l \in Nat /\ m \in Nat /\ contexts \in Seq(Contexts)  BY Depths
<1>4. l + ds \in Nat /\ m + dc \in Nat
  <2>1. todo \in Seq(ResolveItems)  BY <1>2 DEF IInv, TodoInv
  <2>2. Leads("scope", todo, Len(tables), 0) /\ Leads("context", todo, Len(contexts), 0)
    BY <1>1, <1>2 DEF Balance
  <2> QED  BY <1>1, <2>1, <2>2, Behind
<1>5. ASSUME Len(tables') = l + ds, Len(contexts') = m + dc, contexts' \in Seq(Contexts)
      PROVE  Balance'
  <2> DEFINE S == {}
  <2>1. <<>> \in Seq(S)  OBVIOUS
  <2>2. \A stack : \A item \in S : Change(stack, item) = 0  OBVIOUS
  <2> HIDE DEF S, l, m, ds, dc
  <2>3. Leads("scope", <<>>, l + ds, l + ds) /\ Leads("context", <<>>, m + dc, m + dc)
    BY <1>4, <2>1, <2>2, Flat
  <2>4. /\ Leads("scope", <<>>, Len(tables'), l + ds)
        /\ Leads("context", <<>>, Len(contexts'), m + dc)
    BY <1>5, <2>3
  <2> QED  BY <1>1, <1>2, <1>5, <2>1, <2>4, Rebalanced DEF l, m, ds, dc
<1>6. ASSUME NEW S, NEW stack \in Seq(S), Len(stack) + (-1) \in Nat,
             NEW rest, rest = IF stack = <<>> THEN <<>> ELSE SubSeq(stack, 1, Len(stack) - 1)
      PROVE  Len(rest) = Len(stack) + (-1) /\ rest \in Seq(S)
  <2>1. Len(stack) \in Nat \ {0}  BY <1>6, LenProperties
  <2>2. rest = SubSeq(stack, 1, Len(stack) - 1)  BY <1>6, <2>1, EmptySeq
  <2>3. 1 \in Int /\ Len(stack) - 1 \in Int /\ \A i \in 1..(Len(stack) - 1) : stack[i] \in S
    <3>1. \A i \in 1..(Len(stack) - 1) : i \in 1..Len(stack)  BY <2>1
    <3> QED  BY <2>1, <3>1, ElementOfSeq
  <2> DEFINE n == Len(stack) - 1
             k == Len(stack)
  <2>4. n \in Int /\ \A i \in 1..n : stack[i] \in S  BY <2>3
  <2>5. n \in Nat /\ n = k + (-1)  BY <2>1
  <2> HIDE DEF n
  <2>6. /\ SubSeq(stack, 1, n) \in Seq(S)
        /\ Len(SubSeq(stack, 1, n)) = IF 1 <= n THEN n - 1 + 1 ELSE 0
    BY <2>4, SubSeqProperties
  <2>7. (IF 1 <= n THEN n - 1 + 1 ELSE 0) = n  BY <2>5
  <2>8. rest = SubSeq(stack, 1, n)  BY <2>2 DEF n
  <2>9. Len(rest) = n /\ rest \in Seq(S)  BY <2>6, <2>7, <2>8
  <2> QED  BY <2>5, <2>9
<1>7. CASE PushScope
  <2>1. push_scope /\ contexts' = contexts /\ todo[1].do = "push_scope"  BY <1>7 DEF PushScope, Head1
  <2>2. ds = 1 /\ dc = 0  BY <2>1, ChangeOf
  <2>3. Len(tables') = l + 1  BY <2>1, Depths
  <2> HIDE DEF l, ds, dc
  <2>4. Len(tables') = l + ds /\ Len(contexts') = m + dc  BY <1>3, <2>1, <2>2, <2>3
  <2> QED  BY <1>3, <1>5, <2>1, <2>4
<1>8. CASE EnterContext
  <2>1. push_context(Node) /\ tables' = tables /\ todo[1].do = "push_context"
    BY <1>8 DEF EnterContext, Head1
  <2>2. Node \in Contexts
    <3>1. todo[1] \in ResolveItems
      <4>1. todo \in Seq(ResolveItems)  BY <1>2 DEF IInv, TodoInv
      <4> QED  BY <1>1, <4>1, LenProperties, EmptySeq, ElementOfSeq
    <3>2. todo[1].node \in {"RETURN", "ASSIGNMENT", "AUG", "OP"}  BY <2>1, <3>1 DEF ResolveItems
    <3> QED  BY <3>2 DEF Node, Contexts
  <2>3. ds = 0 /\ dc = 1  BY <2>1, ChangeOf
  <2>4. Len(contexts') = m + 1 /\ contexts' \in Seq(Contexts)  BY <2>1, <2>2, Depths
  <2> HIDE DEF m, ds, dc
  <2>5. Len(tables') = l + ds /\ Len(contexts') = m + dc  BY <1>3, <2>1, <2>3, <2>4
  <2> QED  BY <1>5, <2>4, <2>5
<1>9. CASE ReturnFromScope
  <2>1. pop_scope /\ contexts' = contexts /\ todo[1].do = "pop_scope"
    BY <1>9 DEF ReturnFromScope, Head1
  <2>2. ds = -1 /\ dc = 0  BY <2>1, ChangeOf
  <2>3. tables \in Seq(Whole)  BY DEF IInv, TablesInv
  <2>4. Len(tables') = Len(tables) + (-1)  BY <1>4, <1>6, <2>1, <2>2, <2>3 DEF pop_scope
  <2> HIDE DEF m, ds, dc
  <2>5. Len(tables') = l + ds /\ Len(contexts') = m + dc  BY <1>3, <2>1, <2>2, <2>4 DEF m
  <2> QED  BY <1>3, <1>5, <2>1, <2>5
<1>10. CASE ReturnFromContext
  <2>1. pop_context /\ tables' = tables /\ todo[1].do = "pop_context"
    BY <1>10 DEF ReturnFromContext, Head1
  <2>2. ds = 0 /\ dc = -1  BY <2>1, ChangeOf
  <2>3. Len(contexts') = Len(contexts) + (-1) /\ contexts' \in Seq(Contexts)
    BY <1>3, <1>4, <1>6, <2>1, <2>2 DEF pop_context
  <2> HIDE DEF l, ds, dc
  <2>4. Len(tables') = l + ds /\ Len(contexts') = m + dc  BY <1>3, <2>1, <2>2, <2>3 DEF l
  <2> QED  BY <1>5, <2>3, <2>4
<1> QED  BY <1>7, <1>8, <1>9, <1>10

(* One scope is opened for the globals and closed after them. *)
LEMMA BalancedInitially == ASSUME Init PROVE Balance
<1> DEFINE A == [n \in DOMAIN program |-> Do("collect", program[n])]
           B == [n \in DOMAIN program |-> Do("global", program[n])]
           P == <<Do("push_scope", Null)>>
           Q == <<PopScope>>
           S == ResolveItems
           T == {Do(what, node) : what \in {"collect", "global"}, node \in Globals}
<1>1. /\ program \in Seq(Globals) /\ todo = A \o P \o B \o Q
      /\ tables = <<>> /\ contexts = <<>> /\ ~checking
  BY DEF Init, StartResolving
<1>2. \A n \in DOMAIN program : program[n] \in Globals  BY <1>1, LenProperties, ElementOfSeq
<1>3. A \in Seq(S) /\ B \in Seq(S) /\ A \in Seq(T) /\ B \in Seq(T)
  <2>1. A \in [DOMAIN program -> T] /\ B \in [DOMAIN program -> T]  BY <1>2
  <2>2. T \subseteq S  BY ItemsMade
  <2> HIDE DEF A, B, S, T
  <2>3. A \in Seq(T) /\ B \in Seq(T)  BY <1>1, <2>1, Mapped
  <2> QED  BY <2>2, <2>3, Widened
<1>4. P \in Seq(S) /\ Q \in Seq(S)  BY ItemsMade
<1>5. \A stack : \A item \in T : Change(stack, item) = 0
  <2> SUFFICES ASSUME NEW stack, NEW what \in {"collect", "global"}, NEW node \in Globals
               PROVE  Change(stack, Do(what, node)) = 0
    OBVIOUS
  <2> QED  BY Changes
<1> HIDE DEF A, B, S, T
<1>6. \A stack : \A d \in Nat : Leads(stack, A, d, d) /\ Leads(stack, B, d, d)
  BY <1>3, <1>5, Flat
<1>7. /\ Leads("scope", P, 0, 1) /\ Leads("context", P, 0, 0)
      /\ Leads("scope", Q, 1, 0) /\ Leads("context", Q, 0, 0)
  <2> DEFINE p == Do("push_scope", Null)
             q == PopScope
  <2>1. /\ Change("scope", p) = 1 /\ Change("context", p) = 0
        /\ Change("scope", q) = -1 /\ Change("context", q) = 0
    BY Changes
  <2> HIDE DEF p, q
  <2>2. 0 + 1 = 1 /\ 1 + (-1) = 0 /\ 0 + 0 = 0 /\ 0 \in Nat /\ 1 \in Nat  OBVIOUS
  <2>3. Leads("scope", <<p>>, 0, 1)  BY <2>1, <2>2, OneItem
  <2>4. Leads("context", <<p>>, 0, 0)  BY <2>1, <2>2, OneItem
  <2>5. Leads("scope", <<q>>, 1, 0)  BY <2>1, <2>2, OneItem
  <2>6. Leads("context", <<q>>, 0, 0)  BY <2>1, <2>2, OneItem
  <2> QED  BY <2>3, <2>4, <2>5, <2>6 DEF p, q
<1> HIDE DEF P, Q
<1>8. ASSUME NEW stack, NEW d \in Nat, Leads(stack, P, 0, d), Leads(stack, Q, d, 0)
      PROVE  Leads(stack, A \o P \o B \o Q, 0, 0)
  <2> DEFINE C == A \o P
             D == C \o B
  <2>1. C \in Seq(S) /\ Leads(stack, C, 0, d)  BY <1>3, <1>4, <1>6, <1>8, Joined, ConcatProperties
  <2> HIDE DEF C
  <2>2. D \in Seq(S) /\ Leads(stack, D, 0, d)  BY <1>3, <1>6, <1>8, <2>1, Joined, ConcatProperties
  <2> HIDE DEF D
  <2>3. Leads(stack, D \o Q, 0, 0)  BY <1>4, <1>8, <2>2, Joined
  <2> QED  BY <2>3 DEF C, D
<1>9. Leads("scope", todo, 0, 0) /\ Leads("context", todo, 0, 0)
  <2>1. 0 \in Nat /\ 1 \in Nat  OBVIOUS
  <2> QED  BY <1>1, <1>7, <1>8, <2>1
<1>10. Len(tables) = 0 /\ Len(contexts) = 0 /\ contexts \in Seq(Contexts)
  BY <1>1, EmptySeq
<1> QED  BY <1>1, <1>9, <1>10 DEF Balance

(* With nothing left to do, nothing is open. *)
LEMMA Closed == ASSUME IInv, Balance, Resolved PROVE tables = <<>> /\ contexts = <<>>
<1>1. CASE checking  BY <1>1 DEF Balance
<1>2. CASE ~checking
  <2>1. todo = <<>> /\ ~lost  BY DEF Resolved
  <2>2. Leads("scope", <<>>, Len(tables), 0) /\ Leads("context", <<>>, Len(contexts), 0)
    BY <1>2, <2>1 DEF Balance
  <2>3. ASSUME NEW stack, NEW d, Leads(stack, <<>>, d, 0) PROVE d = 0
    <3>1. PICK f \in [1..(Len(<<>>) + 1) -> Nat] : IsWay(f, stack, <<>>, d, 0)  BY <2>3 DEF Leads
    <3>2. Len(<<>>) + 1 = 1  BY EmptySeq
    <3> QED  BY <3>1, <3>2 DEF IsWay
  <2>4. Len(tables) = 0 /\ Len(contexts) = 0  BY <2>2, <2>3
  <2> QED  BY <2>4, EmptySeq DEF IInv, TablesInv, Balance
<1> QED  BY <1>1, <1>2

(* The type checker leaves the stacks as they are. *)
LEMMA Balanced == ASSUME IInv, Balance, [Next]_vars PROVE Balance'
<1>1. CASE ResolveNext /\ UNCHANGED <<checking, functions, aborted>>
  BY <1>1, StatementsBalance, ExpressionsBalance, GlobalsBalance, StacksBalance DEF ResolveNext
<1>2. CASE TypecheckNext
  <2>1. tables' = tables /\ contexts' = contexts /\ lost' = lost  BY <1>2 DEF TypecheckNext, Unchecked
  <2>2. contexts' \in Seq(Contexts)  BY <2>1 DEF Balance
  <2>3. CASE StartChecking
    <3>1. Resolved /\ checking'  BY <2>3 DEF StartChecking
    <3>2. tables = <<>> /\ contexts = <<>>  BY <3>1, Closed
    <3> QED  BY <2>1, <2>2, <3>1, <3>2 DEF Balance
  <2>4. CASE ~StartChecking
    <3>1. /\ checking' = checking
          /\ todo # <<>> /\ todo[1].do \in {"check_global", "check", "check_expression", "pop_function"}
      BY <1>2, <2>4 DEF TypecheckNext, CheckGlobalVariable, CheckFunction, PopFunction, CheckAssignment,
         CheckExpression, CheckConditional, CheckElse, CheckFor, CheckBlock, CheckReturn,
         CheckNothing, CheckIs, CheckGlobal
    <3>2. checking  BY <3>1, HeadItem
    <3> QED  BY <2>1, <2>2, <3>1, <3>2 DEF Balance
  <2> QED  BY <2>3, <2>4
<1>3. CASE UNCHANGED vars
  <2>1. UNCHANGED <<todo, tables, contexts, lost, checking>>  BY <1>3 DEF vars, resolver
  <2> QED  BY <2>1 DEF Balance
<1> QED  BY <1>1, <1>2, <1>3 DEF Next

------------------------------------------------------------------------------
(* Whatever the program and however long its names: tables have no more      *)
(* buckets in use than buckets, nodes have symbols of nodes, and the type   *)
(* checker is in one function at most (symbols.c, typecheck_globals).       *)
THEOREM TypeCorrect == Spec => []TypeOK
BY Invariant, Shape, PTL

(* However often a table grows, each symbol is in the bucket its name hashes *)
(* to, names are unique, the size counts the buckets in use, and no function*)
(* whose name has a bucket is missing when the types are checked (bind,     *)
(* rehash_variable_symbols, rehash_function_symbols).                       *)
THEOREM TablesStayComplete == Spec => []TablesComplete
BY Invariant, Complete, PTL

(* When resolve_tree has returned, no scope and no context is left open,      *)
(* whatever the program and however its blocks, loops and calls nest: what  *)
(* is left to do always closes just what is open (push_scope, pop_scope,    *)
(* push_context and pop_context in nameresolution.c).                       *)
THEOREM ScopesClose == Spec => []ScopesAreClosed
<1>1. Init => IInv /\ Balance  BY Initially, BalancedInitially
<1>2. IInv /\ Balance /\ [Next]_vars => (IInv /\ Balance)'  BY Inductive, Balanced
<1>3. IInv /\ Balance => ScopesAreClosed  BY Closed DEF ScopesAreClosed, Balance
<1> QED  BY <1>1, <1>2, <1>3, PTL DEF Spec
=============================================================================
