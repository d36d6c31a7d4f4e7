# ZXAL in TLA+

ZXAL is a compiler for a small statically typed language. It reads one `.z`
file and produces x86-64 assembly, which it hands to fasm. This directory holds
TLA+ models of the compiler from the arguments of `main` to the machine its
output runs on, TLC configurations that check them on small instances, and TLAPS
proofs of what matters most for every instance. All paths below are relative to
the repository's `src/` directory.

## 1. Inventory

`main.c:14` runs the phases one after the other in a single thread; the first
four are each followed by `phase_accumulated_errors`, and errors end the run.

    lex -> parse -> resolve_tree -> typecheck_tree
        -> build_tacs -> build_cfg -> reg_alloc -> codegen

The phases communicate by shared data, not by messages: the token array, the
tree, the symbols hanging on its nodes, the table of three-address instructions,
the function list with its graphs, and the `assigned_register` field of every
operand. Nothing runs concurrently and nothing is persisted. What makes this
code hard to test is therefore not interleaving but *order and state inside a
phase*: loops that must reach a fixed point, decisions made once and used long
after, stacks that recursive functions push and pop, hand-grown arrays, and
tables whose meaning differs by a line from what their names say.

| Component | State it keeps | Operations | What is hard | Correct when |
|---|---|---|---|---|
| Arena (`bumpallocator.c`) | a chain of blocks, each with an offset | `create_arena`, `arena_allocate`, `arena_reallocate`, `free_arena` | exact fits, padding at a block's end, requests larger than a block | allocations are inside their block, disjoint, aligned, and stay valid |
| Lexer (`Lexer/lexer.c`) | position, line, token array | `lex`, `get_operator`, `get_delimeters`, literals | two-character operators, end of input inside a literal | every character is consumed once, lexing ends |
| Parser (`Parser/parser.c`) | position in the tokens, tree | `parse`, `parse_statement`, `parse_block`, `synchronize` | recovery after an error, loops without a test for the end of input | parsing ends, precedence is right |
| Name resolution (`Semantics/nameresolution.c`, `symbols.c`) | scope stack, context stack, function symbols | `resolve_tree`, `push_scope`, `bind`, lookups | shadowing, refused redeclarations, tables that grow | every name has the symbol of its innermost declaration |
| Type checker (`Semantics/typechecker.c`, `types.c`) | stack of function symbols | `typecheck_tree`, `typecheck_expression` | assertions in place of errors | accepted trees have types that fit |
| Three-address builder (`IR/tac.c`) | instruction table, context stack, label counters | `build_tacs`, one case per node | chains and loops nested in each other, labels emitted far from their jumps, arguments kept aside | the table computes what the tree says |
| Control-flow graph, liveness, interference (`IR/cfg.c`) | function list, leaders, blocks, four sets per block, live set and next uses per instruction, bundles | `build_cfg` | fixed point, off-by-one leaders, live sets on the wrong side of an instruction | no live operand is missed |
| Register allocator (`RegAlloc/regalloc.c`) | `assigned_register`, `permanent_frame_position` of each operand | `reg_alloc` | greedy and one-sided, restrictions, registers running out | interfering operands are kept apart and everyone has a place |
| Code generator (`Codegen/codegen.c`) | instruction lists, spill and reload schedules, frame offsets | `codegen` | spills around calls, arithmetic in place, flags between a comparison and its jump | the lines compute what the table says; registers and stack are restored on every path |
| Driver and errors (`main.c`, `errors.c`, `compilercontext.c`) | phase, one error table per phase, the context's arenas | `log_error`, `emit_errors`, `phase_accumulated_errors` | tables selected by a phase only two phases set | no phase runs on a program with errors, each error is shown |

The hazards that follow from the fourth column are listed, each at its line,
in `PROJECT.json`, with the properties that cover them or the reason why none
does.

## 2. The modules

| Module | Models | State |
|---|---|---|
| `Lexer` | `lex`: one token per turn of its loop | `text`, `end`, `tokens`, `lexer_errors` |
| `ParserLoop` (extends `Lexer`) | `parse`: one global per turn, given what the function for the global makes of the parser (`parse_global`), which is to read on (`ReadsOn`) | `parser` (tokens, position, errors, node returned, whether the call returns), `ast` |
| `Parser` (extends `ParserLoop`) | every parse function as an operator from the parser before a call to the parser after it | none |
| `Syntax` (extends `Parser`) | nothing: the reference, a printer of trees | none |
| `Driver` (extends `ParserLoop`) | `main`, the compiler context, the error tables; composes the two phases above and calls the others | `main`, `phase`, `live` (what is allocated), `ran`, `shown`, `exit`, `turns` |
| `Words` (extends `Driver`) | nothing: the reference of the lexer, words set down one after the other | none |
| `Frontend` (extends `Words`, `Parser`, `Syntax`) | the driver with the parser's functions, started on programs that were printed | none |
| `SymbolTables` | symbol tables: buckets, hashing, binding, growth | none |
| `Resolve` (extends `SymbolTables`) | `resolve_tree` and both stacks | `todo` (the recursion as a worklist), `tables`, `global_table`, `contexts`, `symbol_of`, `lost` |
| `Typecheck` (extends `Resolve`) | `typecheck_tree` on the tree that is left, given what type expressions have (`TypeOf`) and which follow a missing symbol (`FollowsNull`) | `checking`, `functions`, `aborted` |
| `Types` (extends `Typecheck`) | `typecheck_expression`, as operators | none |
| `Scoping` (extends `Types`) | nothing: the reference, lexical scopes and typing rules | none |
| `Instructions` | instructions and operands, and the node types that have one | none |
| `Expressions` (extends `Instructions`) | `build_tac_from_expression_dag` and the statements that only compute, as operators on a builder (table, counter, last instruction) | none |
| `Meaning` (extends `Expressions`) | nothing: the reference, what nodes mean | none |
| `Tac` (extends `Instructions`) | `build_tac_from_statement_dag` for a whole function, given what nodes that only compute turn into (`ExpressionCode`, `StatementCode`) | `todo`, `table`, counters, `context_stack`, `abandoned` |
| `TacRun` (extends `Tac`, `Meaning`) | `Tac` with the code of `Expressions`, then a run of the table beside a run of the source | `pc`, `store`; `rest`, `source` |
| `LiveVariables` | nothing: the abstract promise of `live_analysis` | `answer` |
| `Liveness` | `fixed_point_iteration` and the set helpers | `in_set`, `out_set`, the loop's `i` and `changed`, `done` |
| `Cfg` | the pure part of `cfg.c`: leaders, blocks, edges, use and def sets, recorded live sets, next uses, bundles, restrictions | none |
| `RegAlloc` | `regalloc.c` | operands' places, the two argument counters, position and pass |
| `Backend` | `build_cfg` followed by `reg_alloc`, then a run of the function | instances of `Liveness` and `RegAlloc`, the function, `stage`, `pc`, `holds` |
| `Frame` (extends `Cfg`) | `schedule_callee_register_spills` and `get_bytes_for_stack_frames`, one step per instruction | `at`, `spills`, `reloads`, `frame_byte_offset`, `temp_register`, `total_frame_bytes`, `failed` |
| `Assembly` (extends `Frame`) | `generate_function_body`: one instruction's text per step | `asm`, `emitted` |
| `Codegen` (extends `Assembly`) | fasm, the processor and the callees (external), and the meaning of three-address code beside them | registers, frame, stack, flags, `rbp`, `ip`; `pc`, `env`, `result`; `outcome` |
| `Arena` | `bumpallocator.c` | `blocks`, `allocations` (all pointers handed out), `alive` |
| `LivenessProofs`, `RegAllocProofs`, `ArenaProofs`, `CodegenProofs`, `BackendProofs`, `TacProofs`, `TypecheckProofs`, `DriverProofs` | theorems | |
| `MC...` | finite instances for TLC | |

Three modules compose components. `Driver` moves a text through the lexer into
the parser, and asks the error tables between them. `Backend` instantiates
`Liveness` and `RegAlloc` over variables of its own and moves data from one to
the other with `Cfg`'s operators, in the order `build_cfg` and `main` call them.
`Codegen` takes a function with blocks, live sets, next uses and places, and puts
frame, text and machine behind each other. `Liveness` implements `LiveVariables`
under the refinement mapping `answer <- IF done THEN in_set`; `TacRun` and
`Codegen` state what is to be implemented as a second run in the same state, in
step with the first. `Tac` knows nothing of expressions but the code they turn
into: the code of control is one recursion in the source and the code of
expressions another, the first calls the second, and apart they can be reasoned
about apart. `Typecheck` is apart from `Types` for the same reason.

**How state and actions correspond to the code.** Each action is one iteration
of a loop, or one case of a `switch`, with everything the iteration does. In
`Liveness`, `StartPass` is the head of the `while` taken, `Visit` the body of the
`for` for one block, `Return` the head not taken. In `RegAlloc` there is one
action per case of `application_binary_interface` and one per outcome for a
bundle: `SkipBundle`, `AssignRegister`, `GiveFramePosition`. In `Tac` and
`Resolve` there is one action per node type; what a case does after the recursive
call is put on the worklist behind what the call is to do; a statement
whose condition yields no instruction leaves its case early, and that nothing
follows it is noted in `abandoned`. In `Frame` there is
one action per kind of instruction. In `Arena` the two actions of
`arena_allocate` are its two ways to find room. In `Driver` each statement of
`main` is an action, and so is each turn of the loops of `lex` and `parse`.

**What the models abstract.**

- *Lexer.* A text is a sequence of symbols: a run of letters or of digits is one,
  every other character is one of its own. Lines and columns are not kept.
- *Parser.* A node is its type, its name, its declared type and its children.
  Names are taken to be terminated: `copy_token` (`Parser/parser.c:190`) writes
  the terminating zero to the string it copies from, so the copy ends in
  whatever the arena's memory held, in practice zeroes.
- *Resolve, Typecheck.* A symbol is the node that declares it, with name,
  parameters and type; a table has its buckets, chains, count and growth.
- *Expressions, Tac, TacRun.* An operand is what it stands for: a symbol, a temporary, a
  literal. The size of an array's element is 1. The module `Meaning` computes
  modulo `WordSize`, and calls answer either way, zero or not.
- *Cfg, Liveness.* Operand sets are arrays without duplicates in the code and sets
  here. The comparison `operands_equal` is not abstracted away: operands of the
  kinds it does not list form the set `Opaque`, and are equal to nothing,
  themselves included. In `Cfg` an operand is its identity, instruction kinds
  the code treats alike share a name, a call has at most as many arguments as
  there are argument registers (six in the code, and in README.md:45), and every
  return has a value: one without has no bundle and fails an assertion.
- *Backend.* `WellBuilt` says what a function of the builder looks like: its
  operands have their kinds, parameters come first and are distinct, labels are fresh, a jump ends
  a block, a condition is a temporary of its own and nothing is read before it is
  written. The last two leave out a break that ends the first branch of an
  if-else (two jumps in a row), and variables declared without a value. Its run assumes of the code generator that registers a call needs
  are saved, and that a condition is tested from the flags of the comparison
  before the jump. `Codegen` is where these assumptions are looked at.
- *Codegen.* Words have three bits and are signed where the code is. A value
  nobody vouches for is `Junk`; a jump on `Junk` goes either way. Each register
  of the caller holds a value of its own, so that restoring is seen. A called
  function returns a word that depends on its arguments and leaves `Junk` in the
  registers it may destroy. Offsets count slots of eight bytes.
- *Arena.* `malloc` succeeds and its memory is aligned; nothing uses a pointer
  after `free_arena`.
- *Driver.* The phases behind the parser are one step each, which may end in an
  assertion; an arena of the context may fail. Errors are their type and their
  token.

## 3. What TLC checks

| Run | Instance | Shows |
|---|---|---|
| `frontend` | programs of the constructs of `Syntax`, with expressions of depth two and statements nested two deep, and the eight forms the parser spoils alone, beside good statements and inside blocks; set down tightly, with spaces and with comments; four programs with one word taken out, doubled or replaced by each of seventeen others; `main` with and without argument and file | every text is lexed to its words, a tree is parsed back as it was written if it has none of the spoiled forms and only then, a program with errors gets past no phase and its errors are shown, the context is freed on every way out, each turn of the two loops reads on |
| `semantics` | all pairs of 15 statements before 13 endings of a function beside a second one, and special programs: more names than buckets, hashes that overflow, functions of one name, globals, void | names have the symbol of their innermost declaration, tables lose nothing when they grow, the type checker's verdict is that of the typing rules |
| `semantics_returns` | the same | a disagreement between README.md and the code, see below |
| `tac` | every chain of one to three branches with empty, computing, returning, breaking and continuing bodies; loops around chains, chains around loops, loops around loops; expressions of depth two, calls in arguments, elements of an array of two, steps; words modulo 3 | the table makes the source's calls, sets its variables and elements, tests its conditions and returns its value; jumps have labels, the context stack is balanced |
| `tac_shapes` | the same with two more shapes of chain | a disagreement between README.md and the code, see below |
| `liveness` | every graph of up to 3 blocks that `link_function_cfgs` can build, every use and def set over two operands, one of them opaque | the iteration's sets only grow, stay below every solution, and on return are the least solution; it returns unless some block reads an opaque operand, and then never does |
| `regalloc` | every list of up to 3 bundles over 3 variables, 5 instruction lists, 4 restrictions, 3 registers of which 2 carry arguments | no sharing between interfering operands, restrictions, calling convention, the frame as last resort, everyone placed, places final |
| `backend` | five families of functions (straight line, if with and without else and return, else-if chain, while, call) and one with a reassigned variable, 3 registers | edges for every step control takes, live sets that miss no read, a run that reads from a register what it wrote there, except where an operand with several definitions has overwritten it |
| `backend_skipped` | the same | a disagreement between a comment and the code, see below |
| `codegen` | eleven families of functions (arithmetic, unary, branches, stored comparisons, logic, recursion, gcd, loop, division, calls), 6 registers of which 2 carry arguments, none or three of them reserved, at most one operand in the frame, arguments 0, 2 and 7 (that is -1) | what the generator copes with is assembled, runs along the three-address code and returns its value; the caller gets its registers back; slots of the frame have one owner |
| `codegen_conditions` | `quad_or_triple` of the repository's tests, called with its threshold | a disagreement between a test and the code, see below |
| `arena` | blocks of 12 bytes, alignment 4, five requests out of 0, 1, 3, 4, 7, 12, 13 bytes | in bounds, disjoint, aligned, valid until freed |

**Why the bounds are enough.** Expressions of depth two have an operator of each
precedence above and below one of each other, and a call or a subscript in every
place of another. Chains of three branches have a first, a middle and a last one,
and contexts of any two nestings are on the stack together. A table of three
buckets grows with the third bucket in use, with chains in it. Three blocks
contain a self loop, a loop of two blocks with a block before and after it, an
irreducible pair and unreachable blocks; a set needs one ordinary operand to
travel and one opaque one to stop the loop. Three bundles over three variables
make every pattern of one-sided, mutual and repeated interference, and with three
registers, restrictions and pre-colored parameters, each of "first free", "first
free but restricted" and "none free" occurs. Words of three bits have negative
numbers and overflow; with three of six registers reserved operands land in the
argument registers and in the frame, and a frame of eight slots (`MaxSlots`) is
never full. Of the six registers one, rbx, is saved by the callee, so saving it
on every path is checked and the order of several pops is not. The block of twelve bytes has exact fits, fits that fail for the padding alone,
and requests larger than itself. The theorems below remove the bounds for the
liveness analysis, the allocator, the whole back end before the generator, the
stack and the labels of `Tac`, the symbol tables, `main`, the arena and the frame.

**Fairness.** `Terminates` and `DeliversLiveVariables` (run `liveness`) and
`Returns` (run `codegen`) are checked under weak fairness of the whole next-state
relation: each model is one thread in a loop that takes its next step whenever
there is one, and waits for nobody. No fairness is assumed of branches or of
callers. The front end needs none: `turns` counts the turns of a loop, and
`TurnsReadOn` bounds them by what has been read. For a turn of the parser that is
its guard (`ReadsOn`); a turn that reads nothing has no step, and the deadlock check
of `frontend` would show it. `frontend` and the two runs
of `semantics` check deadlock; elsewhere `CHECK_DEADLOCK FALSE` is set because
the model comes to an end: a phase, or the program it has compiled, returns.

**What the passing properties say.** `TreeFollowsSource` is what the front end
delivers: printing a tree and reading it again gives the tree, without an error,
with the parentheses precedence asks for and no others, exactly if no node of it
is of a spoiled form (see below). `ResolvesInnermost` and
`VerdictIsTyping` compare the walk over the tree with scopes and rules stated
without one; a compilation passes only if every return that is looked at can be
typed. `FollowsSource` runs the table and the source side by side and compares
the events they come to. `Terminates` and `OpaqueUseDiverges` together say
exactly when the `while` at `IR/cfg.c:902` ends. `LiveSetsSound` compares the
sets recorded per instruction with a definition by paths. `ReadsIntact` says
that a read from a register finds the operand there. It covers operands with one
definition, and reassigned ones that are live nowhere above their first definition
and are not assigned to themselves (`DefinedAbove`). It does not promise that
nothing is lost: an operand with several definitions may overwrite another, because
it is colored for the first of its bundles only, as `backend_skipped` shows. `FollowsTac` and `Returns` say that the
lines written do what the table says, and end.

**What is set apart.** Some properties hold only of what their component copes
with, and the conditions are definitions of their modules, each one a limit of
the code that showed while modelling:

- `abandoned` of `Tac`: a condition without an instruction (a call of an
  undeclared function, say) makes its statement return with the context still on
  the stack (`IR/tac.c:979`). `ContextsBalanced` then says that the stack is at
  least as high as it should be, and `JumpsAreDefined` says nothing.
- `Supported` of `TacRun`, for `FollowsSource`: names have symbols (an undeclared
  one drops its statement); a call that is a
  statement has no arguments (`IR/tac.c:937` looks for them where the parser hangs
  none, so they are neither evaluated nor passed); no name is read late (`x + x++`
  adds the new x, because a name is an operand that is read by the addition).
- `Supported` of `Codegen`: no `<=`, `>=` or `||` directly before a jump and
  no jump on a bare variable, for which none is written (`SimpleJumps`); the first
  operand of arithmetic, which is computed in its register, is not used
  afterwards unless it is saved for a call (`OperandsSurvive`); what lives across a
  call is in a register that survives it, or is saved (`CallsPreserve`); no
  argument is read from a register an earlier one was moved to
  (`ArgumentsInOrder`); the two sides of an assignment before a call whose target
  outlives it are used after it, as the code asserts (`SourcesAreUsed`); operands
  of the frame occur in plain lines only (`FrameIsPlain`); no load and store of
  a first operand that is kept are swapped (`NoSwappedStores`); pushes and pops
  around instructions nest (`PopsNest`); no unary plus, for which no code is
  written (`AllTranslated`); dividends are not negative, `div` being unsigned
  (`DividesNaturals`).
- `Spoiled` of `Frontend`, for `TreeFollowsSource`: eight forms of a well-written
  program that `Parser/parser.c` does not read as they are written. The property
  says that with one of them the tree is never the one written; without, it is,
  and no error is logged.

  | Form | Example | What becomes of it |
  |---|---|---|
  | `ForOfName` | `for (i = 0; i < n; i++)` | the condition loses its first token (1182): `!a` becomes `a` without an error, other loops are dropped and their bodies left |
  | `UpdateAssigns` | `for (let i: int = 0; i < n; i = i + 1)` | an error: the update is an expression (995, 1135, 1204) |
  | `GlobalArrayListed` | `let a: int[1] = {1};` outside a function | an error at the next global, or a read past the last token: the semicolon is passed over before it is looked for (2075); with an empty list the variable is dropped without an error (2070) |
  | `ListEndsInOperator` | `let a: int[2] = {1, 2 + 3};` | the last element loses its right operand, without an error (1870) |
  | `ArrayDeclared` | `let a: int[2];` in a function | the declaration loses its array, without an error (703) |
  | `ElementStepped` | `a[1]++` | an error (283, 1316) |
  | `ExpressionAlone` | `a += 1;` | passed over word by word (1434), mostly without an error |
  | `AssignsTightly` | `a += b - 1` | read as `(a += b) - 1`, without an error (511, 529) |

  The repository's README promises loops and arrays nowhere, so these are limits and
  not disagreements. What `Syntax` does not print is not compared with a tree:
  `str` and struct variables, a `for` with a part missing, subscripts of
  subscripts, and `switch`, which has tokens and no case in the parser.
- `Hashable` of `Scoping`: the sum that hashes a name does not overflow an int;
  for one that does, the remainder may be negative and the name is lost.
- `IsWord` of `Words`: `'`, `"`, `|`, `.` alone and the keyword `str` make no
  token of the language. Damaged programs are held to `TypeOK`,
  `TokensFollowText`, `ErrorsEndCompilation`, `ContextIsFreed` and `TurnsReadOn`,
  but not to a tree: `parse_args` goes round for ever at a missing argument, and
  the loops for statements, parameters and elements may read past the last token.
  Those are outcomes of the model (`hangs`, `overruns`, `crashes`).

**The disagreements found.**

1. `RegAlloc/regalloc.c:135` calls the operands it skips "pre colored"; the test
   also skips operands an earlier bundle of the loop has colored. A reassigned
   variable keeps the register chosen for its first live range, where another
   variable may live by now. `let x: int = 1; let y: int = 5; x = 7; return x + y`
   returns 14.
2. README.md:27 lists if and else if. An `if` that is the last statement of its
   block and has no else jumps to `end_label`, while `IR/tac.c:1004` emits
   `next_jmp_label`, NULL in that case. A chain that ends in an `else if` and has
   a statement after it never emits the `end_label` its other branches jump to
   (`IR/tac.c:1061`). Run `tac` leaves the two shapes out, and `tac_shapes` shows
   them.
3. `tests/arithmetic.z:6` branches on `a >= 4` and line 14 calls the function with
   4. The jump that leaves the branch is `jle` for `>=` as for `>` (and `jge` for
   `<=` as for `<`, `Codegen/codegen.c:92`), so equality leaves it too, and the
   call returns 8 where 16 was meant.
4. README.md:46 says that a return whose operand has another type than the
   function invokes `assert`. The body of an if, else if or while whose condition
   is not of type bool is not looked at (`Semantics/typechecker.c:404`), nor is a
   return in it.

## 4. What is proved

All theorems hold for every value of the constants that satisfies the named
assumption of the module (`OpaqueAssumption`: opaque operands are operands;
`RegistersAssumption`: there is a register, and the argument registers are
registers; `BackendAssumption`: both, `rdx` is a register and the result an operand; `ArenaAssumption`: block size and alignment are positive;
`NodesAssumption` of `Tac`: bodies are blocks of statements in which an else follows an
if, and the update of a for is an expression; `NodesAssumption` of `Resolve`: a
node has the children the parser gives its type; `TablesAssumption`: hashes are
numbers, and a table begins with more than one bucket; `SymbolsAssumption`: a run
is of letters or of digits and not empty, and no keyword or character with a meaning of its own; `NullAssumption`: no status is no status; `ArgumentsAssumption`: the number of argument registers is one).

**Liveness.** `TypeCorrect` and `Monotone` (no visit removes an operand).
`NeverOverestimates`: in sets stay below every solution. `LeastSolution`: on
return they are the least one. `OpaqueUseNeverReturns`. `Implements`: every
behaviour of `fixed_point_iteration` is one of `LiveVariables`. Two invariants
carry these. `GrowingInv` says every set is contained in what recomputing it
would give, because it was computed from sets no larger than today's; this is
what makes `Visit` monotone. `SettledInv` says that while the pass has changed
nothing, the blocks already visited satisfy their equations: at the end of such
a pass, all do, so the exit test means "fixed point". Neither is inductive
without the types and, for the comparison with other solutions, `BelowSolutions`.

**RegAlloc.** `Invariant` is the inductive one. For each bundle the loop has passed
it says: its operand has a place; if this bundle gave it, the register is not
restricted and differs from that of every interfering operand placed before,
and a frame position means that all registers allowed were taken. It survives later steps because a
place is never changed (`PlacesStay`) and because an operand placed later by another
bundle was not placed before this one. The safety properties of the run follow
from it: `NeverSharesWithEarlier`, `MutualInterferenceRespected` (of two bundles
that name each other the later one sees the earlier), `RestrictionsRespected`,
`FrameIsLastResort`, `NobodyForgotten`. `ArgumentsTravel`: the arguments of every call
get the convention's registers in their order, and the frame after the last. Its
invariant, `ArgInv`, says where the walk stands: the counter is the number of
arguments since the last call, up to the number of registers, and the arguments
passed have their places. It needs `LabelsAreFresh`, that the operand an argument
takes its register for is no other instruction's, as `tac.c:686` makes it; else
a later argument could take the register away.

**Arena.** `Invariant` says every allocation ends at or below the offset of its block and
offsets stay within capacities; with it go `TypeCorrect`, `NeverOverlap` and
`NeverPastTheEnd`. Disjointness is not inductive on its own: a new allocation is
disjoint from the others only because it begins at or after the offset.
`StaysValid`: a step of a living arena appends a block or raises the offset of
the last one, so no pointer handed out becomes invalid. `AlwaysAligned`: by
quotient and remainder of the offset, the padding ends at a multiple of the alignment.

**Codegen.** `SlotsStayOwn`: no two operands share a slot of the frame, and every
slot lies in it, for every function, allocation and number of registers, whatever
the schedules say. Slots are handed out in two places, by
`get_bytes_from_operand` and by the case of a division, over one counter. The
invariant `FrameInv` adds to the property the types, which say that the counter
is a number. Each case of the layout either gives an operand the next slot
(`NextSlotIsNew`), enlarges the frame (`LargerFrame`) or leaves both variables
alone (`SameFrame`), and so do text and machine.

**Cfg.** The first part of `BackendProofs` says what the blocks of a function are, whatever its
instructions: leaders listed in order (`InOrderLists`) start blocks that follow
each other without a gap (`BlockShape`, `BlockEnds`), so every instruction is in
exactly one block, in its place (`OwnBlock`), and the one after it is in the same
block or heads the next (`NextInstruction`). `BundlesInOrder` says the same of the
list of bundles. The order is defined by counting, and `EveryRankIsTaken` is what
counting needs.

**Backend.** Four theorems hold for every function that is `WellBuilt` and any
number of registers.
`Staged`: each stage leaves the next what it needs; its invariant `StageInv`
carries the invariants of `LivenessProofs` and `RegAllocProofs` through the
composition, by showing that steps of the instances are steps of the modules
(`SameLiveness`, `SameAllocation`).
`ControlFollowsTheGraph` (`StepsAlongEdges`): a step of the run stays in its block
or goes along an edge of the graph to a block's first instruction (`EdgeStep`).
`LiveSetsMissNothing`: `LiveSetsSound`, where no variable is assigned to itself
(`NoSelfAssignment`; for `x = x` the sets of the block do miss `x`, see
`IR/cfg.c:1281`). The sets of the fixed point hold whatever a path can read
(`LiveBackwards`, along `EdgeStep` and the equations of `LivenessProofs`), and the
walk that records them per instruction loses nothing of it (`RecordedLive`).
`ReadsFindTheirOperands` (`ReadsIntact`): a read of an operand that is
`DefinedAbove` finds it in its register, unless the last to write the register was
an operand with several definitions. That exception is the first disagreement above and cannot be
proved away. The invariant `RunInv` says it of every operand that *waits*, and not
only of those read by the next instruction. To wait is to be live inside a `Region`
of the code: a set of instructions below a definition of the operand that control
enters only across one. For an operand with one definition that is the stretch to
its last read, for a reassigned one every instruction it is live at
(`ReadsAreInRegions`). A step keeps the invariant because an operand with one
definition that it writes has another register: what waits is recorded as live at
the write, so it is in the bundle of what is written (`LiveIsNeighbour`), and what
is written is placed after it and saw it (`NeverClobbered`); two parameters are
apart by the calling convention (`ParametersApart`). For this the allocator's lemmas say which bundle of an
operand places it, and when: the first in the list (`FirstBundle`,
`WriterIsPlaced`).

**Tac.** The theorems range over every set of statements and over every code of
expressions that contains neither labels nor jumps (`CodeIsPlain`); that
`Expressions` builds such code follows its recursion, and TLC checks it for the
statements of run `tac` and the first temporaries. `TypeCorrect`: every label was
taken from the counter. `ContextsAreBalanced` (`ContextsBalanced`): one context is
on the stack for each statement being translated. The worklist holds a context's
pop, or the else that is to replace the context. Counted from its front these
places move with every step, so the invariant counts them from the end (`FromEnd`),
where a step only replaces the last: `Balanced` says that there are as many as
contexts, and `Linked` that an item's next sibling is what comes next, which is
what makes an if leave its context to an else and to nothing else.
`JumpsHaveLabels` (`JumpsAreDefined`): if an if has an else or a statement after it
and nothing follows a chain that ends in an else if (`BlocksEnd`, `ChainsEnd`: the
shapes finding 2 is about are the others), every jump of a finished table has its
label. Its invariant `LabelsMet` says where the label of a jump is until then: it
stands in the table, or it comes with an item of the worklist, or an else waits
whose context, the one of its rank from the end, will emit it. Either half alone
is not inductive: the label of a branch passes from the context to the worklist
when the else is taken.

**Codegen.** The theorems range over every function, every allocation, and whatever goes
wrong when the output runs. `SlotsStayOwn` (`SlotsAreOwn`): no operand shares a slot;
that no offset is beyond `total_frame_bytes` is what makes the next one new.
`RbpIsRestored` (`RbpRestored`, what `CalleeSavedRestored` says of `rbp`): a function that
returns gives its caller's `rbp` back. A text is `Sound` if it has no line that writes to
slot 0, where `rbp` is saved, and a `leave` in front of every `ret`; each case of the
switch writes such a text (`BodySound`), the schedules name slots of operands only
(`LayoutSchedules`), and what is put together of such texts is one (`EmitSound`). Its
invariant, `Kept`, needs two more facts of a running machine: that the text is complete,
and that every jump has its label, as fasm has checked (`Assembles`), since otherwise
a jump could come to a `ret` past its `leave`. The theorem's hypothesis `IsProgram` says of
the instructions what the builder gives each kind: operands where they are read, and the
operators of comparisons, arithmetic and logic.

**Semantics.** The theorems range over every program, every hash of its names and
whatever `TypeOf` and `FollowsNull` say of expressions. `TablesStayComplete`
(`TablesComplete`): through every growth a table keeps each symbol in the bucket
its name hashes to, names are unique in it and its size counts the buckets in
use; and when the types are checked, no function whose hash did not overflow is
missing from the global table. A growth empties the table and puts the symbols
back one by one, in the order of the buckets and their chains: `Inserted` is one
of these steps, `Rehashed` all of them, `Flattened` says that the order leaves
none out, and `Grown` that just the symbols with a bucket in the larger table are
in it. That no function is missing is not inductive before all are collected:
`CollectedInv` says that a function is in the table or still to be collected.
`TypeCorrect`: among the rest, the type checker is in one function at most, so
that a return is compared with the function around it. For this `TodoInv` says
what is left to do: while a function is on the stack, statements of it, then the
end that pops it, then the globals after it, and the place of that end moves with
every step (`Split`). `ScopesClose` (`ScopesAreClosed`, the first conjunct of
`ResolvesInnermost`): when `resolve_tree` returns, every scope and every context is
closed, however blocks, loops, calls and operands nest. The depth of the stacks is not
bounded by the program's constants, so its invariant, `Balance`, is about what is left
to do: item by item it leads each stack from the depth it has now down to nothing,
and never below (`Leads`). A step keeps this if what it puts in front leads from the depth
it leaves to the depth behind its head (`Rebalanced`); `Flat`, `Joined` and `Patterns`
say so of each list of items that the walk makes. A failed assertion ends the walk, and
`Balance` says nothing behind it.

**Driver.** The theorems range over every text and every call of the compiler, and
over every `parse_global`: of what the parser's functions make of their tokens only
this much is used, which is a guard of the step (`ReadsOn`): they leave a list of
errors and one of four ways to end, the tokens as they were, and stand on a later
one. That the guard keeps nothing out is what the deadlock check of
`frontend` shows. The inductive invariant `Inv` has one part for each place where
`main` stands, with the phase, the two tables of errors, the phases run and what is
allocated there (`Standing`). `ErrorsAreFinal` (`ErrorsEndCompilation`) needs it
because `ctx->phase` stays the parser's behind the parser, so `main`'s checks there
look at a table it has already found empty. `NothingIsLeft` (`ContextIsFreed`)
holds for each allocation that may fail. `LoopsReadOn` (`TurnsReadOn`): every one of
the nine cases of a token moves on and none past the text's end (`TokenReadsOn`),
and a turn of `parse` that reports an error or skips to the next global reads on
too (`Synchronized`, `GlobalReadsOn`). `TypeCorrect` (`TypeOK`) is proved with it, by one
invariant, `Reading`: the parser stands on a token only because no token but the last
is the end of the input, and the loop stops there.

**Lexer.** `LexerInvertsWriting` (`TokensFollowText`): for every alphabet and every
sequence of words of the language, the lexer makes of the text, set down tightly, with
spaces or with remarks between the words, the words' tokens and no others. The text
is put together by a fold, so the first half says where each word of it begins
(`Places`, `WrittenOut`). The second is one lemma per kind of word (`WordRead`): read where it stands, a
word is taken whole and no further, because what follows it does not go on with it
(`BehindWord`, from `Fuse`). The invariant, `Lexed`, says that the lexer stands between two
words, or in the blank behind one, and that the tokens made are those of the words
before (`TurnLexes`). It needs the words' symbols apart from each other, which is what
`SymbolsAssumption` says of runs.

**Induction.** A recursive function of a finite sequence, such as the sets recorded
backwards through a block or the rounds of `TrulyLive`, exists and has its values
by a least counterexample (`Smallest` and `Largest` of `BackendProofs`): the first index
where the two sides differ is none, because the one before it does not.
`TypecheckProofs` takes this apart: that every set of numbers has a least one
(`Least`) follows from the well-foundedness of strict inclusion on finite sets,
what holds step by step holds up to the end (`UpTo`), and a step from each number
to the next defines a function (`Defined`), which is how `Rehash`, `BindAll` and
the flattening of buckets come to have values at all.

**Model-checked only.** Liveness under fairness (`Terminates`, `Returns`) is
beyond the prover. `Parser`, `Syntax`, `Types`, `Scoping`, `Expressions` and `Meaning`
follow the recursion of the code with recursive operators, which the prover's
backends cannot see through; so `TreeFollowsSource` of run `frontend`, that the parser's functions read on (`ReadsOn`), what
`ResolvesInnermost` says of bindings and `VerdictIsTyping` of run `semantics`, and
`FollowsSource`, are checked by TLC. `FollowsTac` compares two meanings of
arithmetic over bounded words, and what `CalleeSavedRestored` says of the callee saved
registers depends on schedules that nest along every path; both are checked by TLC.

## 5. Plan

1. *(done)* `LiveVariables`, `Liveness`, `RegAlloc`, `Cfg`, `Backend`: the core, where a
   mistake silently miscompiles. `Arena`: what all phases stand on. `Tac`: control flow.
2. *(done)* `Frame`, `Assembly`, `Codegen`: layout, text and machine, against the
   meaning of three-address code; the theorem on slots.
3. *(done)* `SymbolTables`, `Resolve`, `Typecheck`, `Types`, `Scoping`: scopes,
   tables and types against references.
4. *(done)* `Lexer`, `Parser`, `Syntax`, `Driver`: the front end against a printer.
5. *(done)* `Expressions`, `Meaning`: the whole builder against the meaning of the source.
6. *(done)* `BackendProofs`: blocks, edges, live sets and the run.
   `Tac` apart from `TacRun`, and `TacProofs`: the stack's balance and the labels.
   `Typecheck` apart from `Types` and `Scoping`, and `TypecheckProofs`: the symbol
   tables, the type checker's stack, and the scopes and contexts of the resolution. `ParserLoop`, `Driver` and `Words` apart from
   `Parser` and `Syntax`, and `DriverProofs`: errors, the context, progress, and that
   the lexer inverts writing.
7. Left: the registers of `CalleeSavedRestored` for schedules that nest. `GrowingList` over
   `Arena`, the doubling arrays and stacks with their byte counts (abstract
   specification: a sequence).

## 6. What is not modelled, and why

Printing of tokens, tables and trees, and the wording of errors, have no state.
The memory of the growing arrays and stacks is a sequence in the models: the
hazards at `IR/tac.c:124` and `IR/tac.c:498` (a push that grows one too late, a
reallocation in elements instead of bytes) are listed and not covered.
Parameters and arguments beyond the six in registers, whose code is partly
commented out (`Codegen/codegen.c:1663`), array accesses in the generator (an
array's subscript already stops `fixed_point_iteration`, which
`OpaqueUseDiverges` covers), writing the file, and fasm itself but for the lines
it rejects are left out. Failure of `malloc` is modelled for the context's arenas
only: elsewhere most callers assert on it. `struct` and `enum` are parsed and
have no meaning in any later phase.
