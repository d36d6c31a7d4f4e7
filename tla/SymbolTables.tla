------------------------------ MODULE SymbolTables ------------------------------
(***************************************************************************)
(* Symbol tables (symbols.c, and bind in Semantics/nameresolution.c):      *)
(* buckets of symbols, grown when all of them are in use.                  *)
(***************************************************************************)
EXTENDS Integers, Sequences, FiniteSets, SequencesExt

CONSTANTS
  HashOf,          \* name -> its hash, negative when the sum overflows an int
  TableCapacity    \* INIT_TABLE_CAPACITY, 300

ASSUME TablesAssumption ==
  /\ HashOf \in [DOMAIN HashOf -> Int]
  /\ TableCapacity \in Nat /\ TableCapacity > 1

Names == DOMAIN HashOf

------------------------------------------------------------------------------
Empty(capacity) ==
  [capacity |-> capacity, size |-> 0, symbols |-> [b \in 0..(capacity - 1) |-> <<>>]]

create_symbol_table == Empty(TableCapacity)

(* The remainder of C takes the sign of the dividend. *)
hash(capacity, name) ==
  IF HashOf[name] >= 0 THEN HashOf[name] % capacity ELSE -((-HashOf[name]) % capacity)

SymbolsOf(table) == UNION {ToSet(table.symbols[b]) : b \in DOMAIN table.symbols}
Named(table, name) == {symbol \in SymbolsOf(table) : symbol.name = name}

InUse(symbols) == Cardinality({b \in DOMAIN symbols : symbols[b] # <<>>})

(* The buckets in order, each from its head: the order they are rehashed in. *)
AllSymbols(table) == FlattenSeq([b \in 1..table.capacity |-> table.symbols[b - 1]])

(* Put at the head of its bucket. *)
Insert(table, symbol) ==
  LET symbols == [table.symbols EXCEPT ![hash(table.capacity, symbol.name)] = <<symbol>> \o @]
  IN  [table EXCEPT !.symbols = symbols, !.size = InUse(symbols)]

(* rehash_variable_symbols, rehash_function_symbols. *)
Rehash(table, symbols) ==
  LET rehashed[n \in 0..Len(symbols)] ==
        IF n = 0 THEN table ELSE Insert(rehashed[n - 1], symbols[n])
  IN  rehashed[Len(symbols)]

(* Mutant: the symbols stay in the buckets they had. *)
MutantGrowInPlace(table) ==
  [table EXCEPT !.capacity = 2 * @,
                !.symbols = [b \in 0..(2 * table.capacity - 1) |->
                               IF b < table.capacity THEN table.symbols[b] ELSE <<>>]]

(* Twice the buckets, emptied, and the symbols hashed anew. *)
Grow(table) == Rehash(Empty(2 * table.capacity), AllSymbols(table))

Full(table) == table.size >= table.capacity

(* bind: refused for a name the table has, with a message and no more. *)
Bind(table, symbol) ==
  IF Named(table, symbol.name) # {} THEN table
  ELSE Insert(IF Full(table) THEN Grow(table) ELSE table, symbol)

(* A name is bound if its hash is not negative. *)
HasBucket(table, name) == hash(table.capacity, name) >= 0

(* The table after each of a sequence of symbols. *)
BindAll(table, symbols) ==
  LET bound[n \in 0..Len(symbols)] ==
        IF n = 0 THEN table
        ELSE IF HasBucket(bound[n - 1], symbols[n].name) THEN Bind(bound[n - 1], symbols[n])
        ELSE bound[n - 1]
  IN  bound

(* The hash of a bound name may be negative in the grown table, where it is  *)
(* less than -1: its symbol is then written to memory before the buckets.   *)
Misses(table, symbols) == \E s \in symbols : Named(table, s.name) = {}
==============================================================================
