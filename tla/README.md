# A TLA+ model of the cote-lang virtual machine

cote-lang is a small scripting language: a Pratt parser produces bytecode for a
register machine, an interpreter runs it over a generational garbage collector,
and functions that run often are compiled by a baseline JIT. Everything runs in
one thread; what is hard here is not concurrency but the *interleaving of a
program's instructions with collections*, a function that changes from bytecode to
machine code between two calls, code generation in one pass with one register
stack, and the state that one collection, one call or one program leaves for the
next.

## Inventory

| part | source (`src/src/`) | state | operations | correct when |
|---|---|---|---|---|
| collector | `heap.h` | table `mem` (object id -> header), mark bits in the headers, `young_roots`, `old_roots`, `large_roots`, `allocated_`, the arena and its `used` | `alloc_array`, `minor_gc`, `major_gc`, `large_gc`, `call` | what the program can reach stays usable with its contents; garbage is freed; counters and lists agree with the table; the arena never overflows |
| values | `value.h` | 64-bit tagged values | tag tests, `as_unmarked`, `get_len` | values of different types never compare equal |
| registers and frames | `vm.cpp`, `vm.h` | `stack`, `fp`, `call_stack`, `ip` | `op_call`, `op_return`, `op_returnnil`, `op_move`, loads | the registers a frame can read are roots, and nothing stale becomes one |
| array instructions, natives | `vm.cpp`, `lang_stdlib.cpp` | the heap's cells | `op_alloc`, `op_arrget`, `op_arrset`, `len`, `GET_*`, `GC_CALL` | an element read is the last one stored; index and type errors are raised before anything changes |
| dispatch | `vm.cpp` | per function `hotness`, `banned`, `jitted` | `op_call`, `invoke_jit`, `compile_safe` | a function behaves the same before and after it becomes hot, in this program and in the next one loaded |
| JIT | `jit_runtime.cpp/.h` | machine code | `compile` and one emitter per instruction | each compiled instruction does what the interpreted one does, or the function is rejected |
| emitter | `bytecode_emitter.cpp` | `funcs`, `global`, `label_pos`, `pending_labels`, constants | `emit_*`, `label`, `jmp*_label`, `resolve`, `begin_func`, `end_func`, `initVM` | each jump lands on its label; entry points and code do not overlap |
| scopes and code generation | `var_manager.cpp`, `ast.h`, `expr_semantic.cpp` | scope levels with their `sp`, `var_names` | `new_scope`, `push_var`, `close_scope`, `emit_bytecode` of each node | live variables and temporaries never share a register |
| parser, lexer | `parser.cpp`, `lexer.cpp`, `exceptions.cpp` | current token, loop stack, `panic_mode` | the parse functions, `get_tok`, `roll_back`, `panic` | precedence and loop labels are those of the rule table the header documents; one bad parse does not change the next |
| asmjit, disassembler | `libs/asmjit`, `ins_to_string.h` | | | not part of this development |

How they interact: the emitter fills the machine's code and function table
(`initVM`); the interpreter's `run` fetches from it, calls the collector inside
`op_alloc`, through the native `GC_CALL` and every `GC_CALL_INTERVAL`
instructions; the collector reads the registers below `get_sp()`, which it
computes from `fp` and the top frame; `op_call` counts calls and hands hot
functions to the JIT, whose code works on the same registers and calls back
`op_arrget`, `op_arrset` and natives.

The hazards are listed in `PROJECT.json`, each at its line, with the properties
that would catch it.

## Modules

| module | models |
|---|---|
| `Values` | object ids, `Scalar` for every value that is not an array; `Closure`, the reachable set |
| `GarbageCollector` | `heap.h` as operators on a heap record; each operator has the name of the function it models |
| `Registers` | stack, frames and the instructions that leave the heap alone; roots (`get_sp`) |
| `ArrayVM` | the machine: `Registers` and a heap, one action per instruction, the run loop's collection; properties |
| `IdealHeap` | abstract specification: arrays without a collector |
| `Arithmetic` | `value.h`'s tagged values and what the interpreter computes from them |
| `Jit` | what the machine code of one instruction computes, and the list of operands on which that differs |
| `Interpreter` | abstract specification of dispatch: a loaded program under the interpreter alone |
| `Dispatch` | the machine with hotness, banning, compiled code and reloads; a refinement of `Interpreter` |
| `Expressions` | the Pratt parser over tokens, with `rules[]`; grammars by levels of operators: the table's, and those `parser.h` describes |
| `ExpressionCode` | `eval_expr`: the code of an expression tree, a symbolic machine, what the tree means |
| `Emitter` | labels, pending jumps, `resolve` |
| `Compiler` | statements, functions and programs: the parser from `parse_block` on, `VarManager`, errors |
| `Statements` | what statements mean, and what their code does |
| `MCArrayVM`, `MCDispatch`, `MCExpressions`, `MCStatements` | instances for TLC |
| `ArrayVM_proofs`, `Flat_proofs` | the collector: type correctness; safety for programs that store only scalars into arrays |
| `Graph_proofs`, `Ideal_proofs` | the collector under programs that build any graph; the refinement of `IdealHeap` |
| `Jit_proofs`, `Dispatch_proofs`, `Refinement_proofs` | instruction by instruction agreement, the function table, frames inside the stack, the refinement of `Interpreter` |
| `Compiler_proofs` | jumps land, breaks leave the innermost loop and variables keep apart, for all programs |

`ArrayVM` is about the heap and leaves arithmetic out; `Interpreter` and `Dispatch` are
about control and values and treat an array element as any value. `Expressions` and
`ExpressionCode` are about one expression; `Compiler` and `Statements` are about what
surrounds expressions and use one pseudo-instruction, `EVAL`, for the code of one. What
`ComputesTheTree` says is what justifies it: that code leaves the value in the next
register and nothing else.

### How the state corresponds to the code

**Heap.** The heap record's `mem` is the global table reduced to *where* an entry
points: `young`, `old` or `large` storage, `none` (no entry: `mem.at` throws),
`dangling` (an entry of a dead young array, left behind by `reset_young`, whose
cells are freed and later reused). `marked` is the mark bit of the header the
entry designates. `old_roots` is a vector in the code that may hold an id several
times; the model keeps how often. `young_roots` and `large_roots` hold no id
twice. `len` and `slots` are the cells behind a header. Cells are abstracted to
ids and `Scalar`; the header copies that `op_arrget` writes back carry length
and mark bits nobody reads. Reading through `none` (an uncaught
`std::out_of_range`) or `dangling` (undefined behaviour) collects the id in
`faults`, and the instruction that does so ends the behaviour with
`status = "fault"`. The collections are atomic, as in the code, except that the
first fault ends the process; the order in which the depth-first search meets
arrays is irrelevant to its result, which is the set of arrays reachable over
unmarked headers (`Traversed`). The operators were compared with the real `heap.h`
by running random programs on both and comparing the whole state after every
step; they agreed.

**Registers and frames.** `Registers` leaves the program open: any instruction with
operands below `NumRegs` may come next, so a property that holds is a property of
all programs within the bounds. `call_stack` is kept as the saved frame bases, most
recent first. A runtime error stops the behaviour with `status = "thrown"`.

**Values.** A register is a pair of a type (the high half) and a two's complement
number (the low half). The width is a parameter: `Half` is 2^31 in the code and
`Byte`, the width of the 8-bit register the JIT stores from, is 2^8. Integers wrap;
`INT_MIN / -1` is a `TRAP`. A float is the bit pattern in the low half, in a small
format with two zeros, a few magnitudes and one NaN per sign: the properties depend
on signs, zeros, NaN and order, never on digits.

**Dispatch.** A program maps a function number to arity and code; `ip` is a function
and an index (the layout in `vm.code` is abstracted). A callable denotes a function
of the program, since only `LOADFUNC` makes one. `jitted[f]` is the bytecode the
machine code was generated from, `jip` the position in it while compiled code runs.
`diverged` is a history variable: compiled code has met one of the operands, calls
or reloads listed in `Jit` and `Departs`.

**Parsing and code generation.** `open` is the recursion of the parse functions made
explicit, one record for each construct that is being parsed, and `expects` what the
next token is asked for; an action is what the parser does between two decisions. The
program text is not given in advance: the next statement is chosen, so all programs
within the bounds are parsed. `stale` (how many labels `loops` held when the parse
began) and `rebound` (a loop body changed what a name of the loop's header means)
are history variables; `cost` and `parses` only bound the model.

## Runs

| run | checks | shows |
|---|---|---|
| `flat` | `RootsUsable`, `FlatInv`, `CountsObjects`, `ImplementsIdeal`, `GarbageFreed` | programs that store scalars only, all three generations, calls, returns and errors: registers in scope stay usable at every collection, counters count, every step is a step of `IdealHeap`, and while the program runs there is again and again a moment without garbage outside the arena |
| `graphs` | `TypeOK`, `Arena`, `FreshIds`, `Registry`, `AgesOnly`, `ExactWithinGenerations` | arbitrary graphs of small and large arrays: accounting of the arena, freshness of ids, every array in storage is in the list that would free it, arrays only age and never come back; a collection is exact whenever no reachable array refers to one of another generation |
| `dispatch` | `DispatchTypeOK`, `Settled`, `Final`, `ImplementsInterpreter` | every operator, branch and kind of call on values of every type, before and after a function becomes hot, and after a reload: until it meets a listed departure, the machine with the JIT does what the interpreter does |
| `expressions` | `ParsesTheTable`, `ParsesTheGrammar`, `ComputesTheTree` | every token sequence over six alphabets, as far as the parser reads on: the parser builds the only tree that the levels of `rules[]` give, which is the one of `parser.h` wherever its two accounts agree, and its code computes it, in the right registers and order |
| `statements` | `Follows`, `JumpsLand`, `BreaksInnermost`, `VariablesApart` | every program within the bounds, and a second one after it: the code of each function does what its statements say for every outcome of the tests, and a `break` leaves the innermost loop |
| `lost_child`, `stale_large`, `full_collection` | `ReachableUsable` (violated) | three ways in which a reachable array is lost once arrays refer to each other across generations |
| `twice_listed` | `CountsObjects` (violated) | an old array is listed again when a young survivor refers to it |
| `float_less` | `FloatLessIsLess` (violated) | compiled code compares two floats and stores 0 although the first is less |
| `stale_code` | `RunsLoadedProgram` (violated) | code compiled in one program runs in the next one, for the function with the same number |
| `stale_loops` | `BreakOnlyInLoops` (violated) | after a parse that failed inside a loop, a `break` outside any loop is compiled |

Bounds. *Heap*: `MaxObjs` arrays may be allocated, the arena has `YOUNG_THRESHOLD`
cells (the code builds with 21), thresholds are 1 or 2 (code: 10), the stack has
`StackSize` registers, a frame covers `MaxStack` (code: 120) of which operands use
`NumRegs`. A full arena, a promotion, a second collection over what the first one
promoted, and a third that sweeps it all happen within four allocations at these
thresholds. `Fits` keeps frames inside the stack, which the code does not check (see
the hazards). *Dispatch*: `HOT_THRESHOLD = 2`, three frames, two programs: a function
is called cold, becomes hot, runs compiled and is met again by another program. `Half
= Byte = 4` gives eight low halves, enough for wrapping, both zeros, NaN and two
magnitudes; `MCDispatch` has one program for each operator and shape of control flow,
with `main` reading fresh operands of any type before each call. *Expressions*: long
sequences over few tokens and shorter ones over many, so that three operators of
different precedence, calls inside the arguments of calls and indexing all occur.
*Statements*: `Cost` lets `MaxCost = 9` hold back the statements that branch most;
three constructs and a function nest (`MaxDepth = 4`); two functions, so that a label
or a scope left over by one would show in the other; a second program of up to
`LaterCost = 4`; runs of up to `Tests = 3` tests, which is a loop entered twice and
left. `CHECK_DEADLOCK FALSE` everywhere, because programs halt, throw or run out of
ids, and parses end.

### What is violated, and what that delimits

`findings` in `PROJECT.json` quotes what each violated property contradicts. They
also explain the conditions in the passing properties. Reachability over *elements*
is not preserved across generations, so the passing properties speak of programs
that store only scalars (`StoresArrays = FALSE`), of states in which no reachable
array refers to one of another generation (`SameGeneration`, in
`ExactWithinGenerations`), or of accounting that the faults do not disturb. That
condition is the whole difference: `WithinSafe` and `WithinIsIdeal` prove that a
program which keeps to it never loses an array, never faults and counts right,
whatever graphs it builds, so each of the four findings about the heap needs such a
reference. The JIT differs on the operands that `Jit` lists, so the refinement ends at
the first of them (`diverged`). A parse that fails inside a loop leaves its labels
behind, so `Follows` and the second part of `JumpsLand` speak of parses that began
without (`stale = 0`).

What `parser.h` says of the operators is kept out of the findings, because it is not one
statement. The comments of its enum (`parser.h:34-37`) put `==` and `!=` on one level
below the comparisons; the comment on the grammar (`parser.h:79-80`) lists `==, !=, <=,
>=, <, >` with "priority in non-increasing order", so that equalities bind at least as
tightly as comparisons. And the rows of `rules[]` (`parser.cpp:168-171`) stand in another
order than the tokens that index them (`lexer.h:38-41`), so `==` binds like `and` and `!=`
like `or`. The code departs from each account:

| expression | parsed as | enum | comment on the grammar |
|---|---|---|---|
| `x != x < x` | `x != (x < x)` | the same | `(x != x) < x` |
| `x != x == x` | `x != (x == x)` | `(x != x) == x` | the same if `==` binds tighter than `!=`, else as the enum |

No run reports this as a violation: in each case one account, or one reading of it, agrees
with the code against the other. `ParsesTheTable` checks the parser against
the table as it stands, for every sequence. `ParsesTheGrammar` takes the enum and the
readings of the comment (`CommentLevels`: equalities beside the comparisons, above
them, above them with `==` tighter than `!=`), and demands the documented tree wherever
all of them name the same one, as they do for `(x < x) == x` and `x == x != x`. So what
the misplaced rows change is limited to what the accounts dispute; they are not shown
to be right there.

The refinement of `Interpreter` ends at the listed departures. It shows that the list is
complete, and does not catch what is on it: code kept for another program, calls through a
register, truth of nil and arrays, type errors that come back as a value, exceptions of
`op_arrget`, and the operands on which comparisons and arithmetic differ. `RunsLoadedProgram`
and `FloatLessIsLess` are violated by two of these on their own. What both specifications
share, such as the `call_stack` that `initVM` keeps, no refinement can show. In the same
way `Follows` ends where a loop body changes what a name of the header means (`rebound`),
and nothing is said of the value of a variable whose declaration was not reached.

### Fairness

`GarbageFreed` assumes that the run loop's collection comes again and again while
the program runs. The code justifies it: `run` increments `GC_T` on every instruction
and collects at `GC_CALL_INTERVAL`. `FairSpec` writes `WF_vars(gc_call)` with the
enabling condition spelled out, for TLC's speed. It is the interpreter's loop
(`vm.cpp:27-32`) that counts: compiled code never advances `GC_T`, so `GarbageFreed` says
nothing of a program that stays in a long compiled loop. No fairness is assumed of the
program, and no other property needs any: nothing waits for anything else here.

## Proofs

**Heap.** `TypeCorrect` (`ArrayVM_proofs`): `Spec => []TypeOK` for all values of the
constants that satisfy the modules' assumptions. `TypeOK` is inductive; the work is
in the collector, where each phase gets a lemma that it yields a heap and a lemma
that names the fields it leaves alone. It includes that the arena stays below the
limit `YoungArena::allocate` asserts: `BeforeAllocType` shows that after the
collection there is room for the array and its header.

`FlatSafe` and `RootsSafe` (`Flat_proofs`): for `FlatProgram` (no array is stored
into an array, and operands lie in the window that `get_sp()` covers,
`NumRegs <= MaxStack`), `Spec => []FlatInv` and `Spec => []RootsUsable`.
`RootsUsable` is not inductive: a return brings registers back into scope, a
collection frees what its list says, and an allocation overwrites an entry. The
strengthening `FlatInv` adds that each list is exactly its generation, with each
old array listed once (`FlatHeap`), that ids to be handed out are unused, that
saved frame bases descend below `fp` (`FramesNest`), and that nothing has faulted.
In a flat heap `Closure` adds nothing to the roots (`FlatReach`, `FlatTraversed`),
so each collection keeps `listed \cap roots`, whatever marks it finds. The
condition on operands is necessary: a register above the window is not a root.

`RegistryAlways`, `FreshAlways`, `ArenaAlways` and `AgesAlways` (`Graph_proofs`) hold of
every program, also of those that lose arrays. Part one of the module says what each
collection leaves in every field (`MajorFields`, `LargeFields`, `EvacuatedFields`), so that
no later proof opens the collector. The inductive invariant is `Consistent`: `TypeOK`,
the three properties as far as they are about the heap (`Sound`), registers born
(`StackIsBorn`), and no failed access. The last is what the four properties need of
each other: `rebind_mem` would list an array that is gone, and so break `Registry` and
`AgesOnly`, but it reads that array first and the step ends the process instead.
`Tidied`, which composes, says that one collection keeps all this, and is proved for each
of the three and then for their sequences in `call` and `BeforeAlloc`.

`ExactAlways` proves `ExactWithinGenerations` for programs whose operands lie in the
window (`InWindow`). A collection is several phases, and the condition that makes a
phase exact must survive the one before: `Sane` is that condition for one heap (exact
lists, what is reachable is usable, references within the generations), `Keeps` says
that a phase reaches a sane heap with the same reachable arrays, and every phase of
every collection is shown to keep what a sane heap reaches. `Traversed`, the search that
stops at marks, then finds all that is reachable of the generation that is collected
(`SeenOwn`): its headers have just been unmarked, and a path that ends in that generation
has never left it. What the search misses elsewhere the sweep of this list does not ask
for. An evacuation moves every reachable young array at once, so two arrays that were
together stay together (`KeepsIf`).

`WithinSafe` and `WithinIsIdeal` (`Ideal_proofs`) are about whole programs, again with
operands in the window: as long as
`SameGeneration` holds (`Spec /\ []SameGeneration`), `ReachableUsable`, `CountsObjects`
and no fault, and `ImplementsIdeal`, the refinement of `IdealHeap` under which `objs` is
what the table serves. The inductive invariant is `Tended`: `Consistent`, what is
reachable is usable, each list exactly its generation (`ListedOnce`), frames nest (or a
return would bring a register back that no collection saw), no fault, and `Cleared`: an
array without storage has no length and no elements, or the abstract heap would keep what
the concrete one has dropped. `ReachableUsable` is preserved because every instruction
leaves reachable only what was, and the new array: the least closed set that holds the
roots lies in any other (`ReachableIn`). Each collection is then a `Forget` of
`IdealHeap`, or part of an `Alloc`: it forgets only what is unreachable, and what it
forgets reads as empty from then on. `FlatIsIdeal` and `FlatCounting` are corollaries: a
`FlatProgram` has no references at all (`FlatAlwaysWithin`).

**JIT.** `Jit_proofs` proves for every `Half` and `Byte`, operator by operator, that on
operands not listed in `BinaryDiverges`, `NegDiverges` and `TruthDiverges` the compiled
instruction yields what the interpreted one does (`BinaryAgrees`, `NegAgrees`,
`TruthAgrees`). `AlwaysSettled` and `AlwaysFinal` (`Dispatch_proofs`) are about the
function table. The inductive invariant `IInv` is the table's type (`TableOK`), `Settled`
and `PositionOK`: compiled code runs only in a frame of a function that has some, at a
position inside it. `FirstProgramRuns` delimits `stale_code`: until a second program is
loaded (`loads = 1`), compiled code is generated from the function it runs for
(`OwnCode`). `Refinement` (`Refinement_proofs`) is `DispatchSpec =>
ImplementsInterpreter`: the initial states are initial states of `Interpreter`, and
each step that does not set `diverged` is one of its steps or a stutter, by the agreement
of the instructions and `IInv`. All of this rests on `CodeAssumption` (functions are not
empty, jumps and fall-through stay inside), which is what `JumpsLand` and the `RETURNNIL`
behind every function give, and on array elements being register values.

`AlwaysTyped` (`Dispatch_proofs`) is `DispatchTypeOK`, and it cannot hold of every program:
`op_call` limits the number of frames, and nobody asks whether a frame lies in the stack.
The theorem names what a run must satisfy (`Fits`): calls nest at most `D` deep, the
frame of a callee begins at most `B` registers above its caller's, operands are below `W`,
and `D * B + W <= StackSize`. With the code's constants (2000 frames, 4096 registers) the
call limit alone does not imply it for `B > 2`; `MCDispatch` satisfies it with 3, 1 and 3.
`Fits` also says that the global code never returns, which is how `initVM` of the emitter
ends it (a call of `main` and a `HALT`). The inductive invariant `FInv` counts the depth:
of the frames on the call stack, the topmost `d` belong to the program that runs, each
begins at most `B` above the one it returns to and returns into a function of this program,
and only the last one into global code (`AtDepth`). Frames below them are left from a
program that threw, and their return addresses mean nothing. `Jit_proofs` adds that what
an instruction yields always fits a register (`BinaryType`, `JitBinaryType`, `NegType`),
for every width.

**Compiler.** `JumpsAlwaysLand`, `BreaksAlwaysInnermost` and `VariablesAlwaysApart`
(`Compiler_proofs`): `Spec => []JumpsLand`, `Spec => []BreaksInnermost` and `Spec =>
[]VariablesApart`, for all sets of names, expressions, assignments and parameter lists and
all bounds. None is inductive. `CInv` relates
the stack of open constructs to everything else: its depth to the number of scope
levels (`DepthOK`), the pending jumps to labels that are placed or that open constructs
still owe (`PendingOK`), the label that a loop will jump back to to its place
(`TargetsOK`), and `loops` to the constructs that have a header, from the outside in (`LoopsOK`), which
makes its last entry the innermost loop;
`PendingOK` and `LoopsOK` are conditional on `stale = 0`. `ScopeOK` is the scopes' own part:
registers ascend through the levels, and every name belongs to one. There is one
lemma per action and one per operator of `Emitter` and `VarManager` that it uses.

**Only model-checked**: `GarbageFreed`, a liveness property (the safety half of its
argument, that one `GC_CALL` leaves no garbage outside the arena, is in `ExactAlways`);
and `Follows`, `ParsesTheTable`, `ParsesTheGrammar` and `ComputesTheTree`, which compare recursive
definitions and are out of the prover's reach.

## Plan

1. Collector, registers, array instructions, with their theorems: lists, ids and
   arena for all programs, the refinement of `IdealHeap` (done, proved).
2. Dispatch, and the refinement of an interpreter without a JIT (done, proved).
3. JIT against interpreter, instruction by instruction (done, proved).
4. Emitter: jumps land (done, proved). Left: the layout of functions in `vm.code`.
5. Scopes and code generation (done; registers of variables proved). Left:
   assignments to array elements.
6. Parser: expressions against the grammar, statements, what a failed parse leaves
   (done).

## Not modelled

- asmjit: vendored, 95000 of the repository's 101000 implementation lines. The code it
  encodes is modelled by what its instructions do (`Jit`); register allocation and
  encoding are its own business. Of cote's own code the map names most of what keeps
  state.
- Text: the lexer's scanning (`and` and `or` are never lexed as operators, and
  `continue` is lexed as `break`, so `parse_continue` is dead), printing natives, the
  disassembler, files that are empty or commented out.
- Expressions `()` and `(x, y)`, which the parser reads as function signatures and for
  which no code is generated; strings and members, which the code generator rejects;
  assignments to array elements; expressions as statements other than calls. A
  `return` without a value is a syntax error.
- `panic()`, which would skip to the next function: nothing calls it.
- Native calls and `op_arrset` in compiled code: both call the interpreter's functions.
- Frames beyond the register stack (`Fits`), operands beyond their 8 bits, more than
  1024 functions, code beyond `CODE_MAX_SIZE`: unchecked limits, far beyond what TLC
  enumerates; they are listed as hazards. `JUMP_MAX`, the checked one, is modelled.
- The wrap of object ids: `Ids` is finite and a run ends with it, so that the 32 bits of
  `object_ptr` may come round and meet a stale reference is left to the hazards.
- `cleanup()`.
