# libadreno: models, checks and proofs

libadreno (`src/src/adreno`) is a small virtual machine in C: an assembler front end compiles a
script to bytecode, a loader reads and writes script files, an interpreter with a value stack runs
the functions, and containers and allocators of its own carry all of it. It is single-threaded. What
is hard in it is not interleaving but *ownership*: reference counts kept by hand in every
instruction, frames found through registers, cells, nodes and pools that are given back while
something may still point at them, and long sequences of legal calls that reach a state nobody wrote
a test for.

The models follow the default build of `src/src/adreno/CMakeLists.txt`: `ADRENOSTACK_CAN_EXPAND` 1,
`ADRENOMP_USE_LINKED_LIST` ON, `USE_MEMORY_MANAGER` ON, `BITARRAY_USE_ANCHOR_OFFSET` ON. Other builds
are constants of the modules, and `BitPool` is the pool with the linked list switched off.

## 1. Inventory

| Component | State | Operations | What makes it correct |
|---|---|---|---|
| Interpreter, call protocol (`vm/vm.c`, `vm/stack.c`) | `ctx->Stack`, `CurrentFunction`, `InstructionPointer`, `ArgumentsPointer`, `Locals`; `vm->State`, `vm->Error` | `SetFunctionByName`, `Run` with its opcodes, `Push`, `Take`, `Pop`, `Clear` | return infos stay intact, a return restores its caller, operands are never return infos |
| Operators (`vm/vm.c` 62-186, 658-940) | none | `ADD` to `LE` | words wrap consistently, comparisons agree with each other |
| Values (`vm/value.c`, `vm/value.h`) | `Type`, `GCFlags`, `ReferenceCounter` of each value | `Load*`, `CreateReference`, `Dereference`, `Free` | counters are exact, nothing in use is in the pool, a stopped script leaves nothing |
| API functions (`vm/stdlib.c`) | none | `print`, `inttostr`, `strtoint` | they keep the rules of the stack and of the counters |
| VM arrays (`vm/vm.c`, `vm/value.c`) | a hash table per array, a cell per element | `NEWARR`, `STELEM`, `LDELEM`, `LDLEN`, `RMELEM`, `Free` | an element is owned once and released once |
| Hash table (`utils/hashtable.c`) | binary tree, `NodeCount`, iterators, `HT_UseCount` | `Initialize`, `Set`, `Get`, `Remove`, `Clear`, `Count`, iterator, `Destroy` | a dictionary; the iterator is complete and in order |
| Memory pool (`utils/memorypool.c`) | pages, `UseCount`, `Reuse` and header words, or a bit array; the registry `MPools` | `New`, `Alloc`, `Free`, `Destroy` | a cell handed out was not in use; a pool lives as long as someone holds it |
| Life cycle (`vm/vm.c` 21-42, 1189-1207) | `AdrenoVM_ValuePool`, `AHT_NodePool` | `StaticInit`, `StaticDestroy`, `VM_Initialize`, `VM_Free` | the pools outlive what was taken from them |
| Memory manager (`memory.c`) | blocks by size class, units, list of large allocations | `Alloc`, `Realloc`, `Free`, `memmgr_verify`, `memmgr_final` | same promise as the pool, for any size |
| Bit array (`utils/bitarray.c`) | words, anchor | `Set`, `Unset`, `Get`, `Search`, `Clear`, `Resize` | the search finds the first clear bit |
| Memory stream, pointer array (`utils/`) | buffer and position; vector | `Write`, `Read`, `Seek`, `Clone`; `Add` | a stream keeps what was written |
| Emitter (`vm/emit.c`) | string table, stream, labels, jumps to patch | `AddString`, `CreateFunction`, `EmitOp*`, `EmitJump`, `SetLabel`, `Finalize` | every jump lands on its label |
| Script files (`vm/script.c`) | string table, function table | `Save`, `Load`, `Free` | `Load` of `Save` is the same script |
| Front end (`ail/`) | scanner's buffer, parser's stack, `CurrentFunction`, `Prefix` | `Compile`, `ail_comment`, `ail_parse_string` | the bytecode is the program |
| Blowfish (`crypt/blowfish.c`) | subkeys and tables | `SetKey`, `Encrypt`, `Decrypt` | decrypting undoes encrypting |
| `ailc`, `vmdebug`, tests | | | callers of the above |

How they interact. All calls are synchronous; there are no callbacks but the API functions, which
run inside `OP_CALL` on the context of the caller. The interpreter's values live in
`AdrenoVM_ValuePool`, hash-table nodes in `AHT_NodePool`, both pools of `memorypool.c`, shared through
its registry, whose pages come from `memory.c`. A script's functions, the VM's API functions, a
function's labels and every VM array are hash tables, and the last of them to go takes the node pool
with it. The parser calls the emitter, the emitter fills a script, `Save` and `Load` move it through a
memory stream, and `AdrenoContext_AttachScript` gives it to the interpreter.

Where it is hard, with the lines, is the list `hazards` of `PROJECT.json`; each names the properties
that would notice, or says why none does.

## 2. Modules

| Module | Models | Checked by | Proved in |
|---|---|---|---|
| `Heap` | abstract: what an allocator promises | as a property | |
| `MemoryPool` | `memorypool.c`, linked-list build | `memory_pool` | `MemoryPoolProofs` |
| `BitArray`, `BitPool` | `bitarray.c`, and `memorypool.c` built on it | `bit_pool` | `BitProofs` |
| `LifeCycle` | registry of pools and its users | `life_cycle` | `LifeCycleProofs` |
| `MemoryManager` | `memory.c`, default build | `memory_manager` | `MemoryManagerProofs` |
| `AdrenoFrames` | the call protocol of `AdrenoVM_Run` | `frames_once`, `frames_default`, `stack_expand` | `AdrenoVMProofs` |
| `AdrenoVM` | values and reference counts on top of `AdrenoFrames` | `values`, `values_api` | `AdrenoVMProofs` |
| `AdrenoOperators` | what the operators compute | assumptions of `MCAdrenoVM` | `AdrenoVMProofs` |
| `KeyTree` | the shape of a table and its wrong `Parent` fields, as operators | `arrays`, `hashtable` | with the two below |
| `AdrenoArrays` | arrays and the cells of elements, on top of `KeyTree` | `arrays` | `AdrenoArraysProofs` |
| `Dictionary` | abstract: what a hash table promises | as a property | |
| `TableShape` | abstract: the same operations as steps of `KeyTree` | as a property | |
| `Hashtable` | `hashtable.c` with its iterator | `hashtable` | `HashtableProofs` |
| `MemoryStream`, `Emitter`, `ScriptFile` | `memorystream.c`, `emit.c`, `script.c`, each EXTENDing the one before | `compiler` | with `Compiler` |
| `Scanner` | buffer, comments and literals of `lex.ail_.c` | `compiler` | |
| `Compiler` | parser and tool, composing the four above | `compiler` | `CompilerProofs` |
| `Blowfish` | cipher and modes | | `BitProofs` |
| `MC*` | constants, symmetry, views, and bounded checks of pure operators | | |

**MemoryPool.** `pageCount`, `useCount`, `reuse` are the fields of the same name, `link` the header
word before every cell. `AllocReuse`, `AllocFresh` and `AllocExpand` are the three branches of
`AdrenoMemoryPool_Alloc`; the last one is `Expand` followed by the recursive call, in one step as in
the code. `live`, `outstanding` and `order` are history: which cells the callers hold, how many
allocations are open, and the free cells from the last one freed. A header word nobody has written
holds `Garbage`, so a walk that depended on one would leave the type invariant.

**BitArray and BitPool.** A bit array is a record: the positions of its 1 bits, its words, its anchor. The
operators are the functions of `bitarray.c`, bounds checks included; `Finds` relates an array to what
`Search` returns. `BitPool` has the same actions and history as `MemoryPool`, with `freeList` for the
list. Bit *i* is the *i*-th cell of all pages in a row.

**LifeCycle.** A pool is its number in the order of creation, with its size, its `Index`, its
`DestroyLock` and whether it is there. `registry` is the list of all pools ever made and the array
`MPools` with its count: `Destroy` decrements the count although the entry cleared need not be the last,
and a later `New` writes over one in use. The users are pools the program holds itself, the node pool
(through `HT_UseCount`) and the value pool. What is allocated from a pool is left out except that taking
from one that is gone stops the model in `WILD`. `orderly` is history: the program gave every pool back
in the reverse order of making them, had no machine left at `StaticDestroy`, and called `StaticInit` again
before it made a machine after one.

**MemoryManager.** `mm` is one record of the static variables of `memory.c` and all its blocks, and the
operators from `BlockMalloc` to `AfterFreeLarge` map a manager to the next one, so that `Realloc` is
`Alloc` and `Free` in one step, as in the code. The size field of a head is the size of a cell in use
and the link to the next free unit otherwise, `Full` is the 0xFFFF that ends the list. `inUse` is
`head->block`, arbitrary where a block starts to serve another size. Callers free what they hold, so
the checks for foreign, freed and overflowed pointers do not occur. `asked`, `live` and `outstanding` are
history.

**AdrenoFrames.** One action per group of opcodes that treat the stack alike. A slot holds a return
info or `Plain`. The stack keeps what pops leave behind, because `ENTER` makes locals of it without
clearing (`Take`, stack.c:82-83). `Continue` and `Stop` are the epilogue (vm.c:1176-1188), part of
every action: running past the bytecode ends the script, and ending it clears the stack.
`callers` is history, the calls still pending with a copy of what was pushed; the properties compare
the real slots with it, the guards of the real instructions never use it except for the rules
below. Undefined behaviour (a stale return info used as a value; `LDARG` making a second owner of a
return info; `StackPointer` wrapping) goes to the state `"WILD"`, where nothing more is said.

Three rules are assumed of scripts because nothing in the code checks them and every script in the
repository keeps them. A function runs `ENTER` first and only there, and an instruction pops only
operands its own function pushed: the guard `ip = 0` of `Enter` and the guards on `Depth`. The third is
the constant `ArgumentsInRange`: the index of `LDARG` is that of an operand of the caller (`Arguments`).
The code compares no more than `ptr >= StackSize`, after the addition of a signed index (vm.c:1243-1253),
so that any slot of the stack can be copied, locals, return infos and popped values of any function
included. `ArgumentsInRange = FALSE` is that (`Indexed`); a slot that holds a return info then gets a
second owner, which is the step `LoadReturnInfo`.

**AdrenoVM.** Extends `AdrenoFrames`: each action is one of its steps conjoined with what happens to
the strings: `ref` (which string a slot refers to), `rc` (the counters), `used` (cells out of the
pool), `lost` (history: references popped into a C variable and forgotten). `Settle` gives the effect
of all `AdrenoValue_Dereference` calls of an instruction together with `AdrenoStack_Clear` if it is the
last. A counter is unsigned and wraps at `RcMod`. Two more rules for scripts are *constants*, so
that a run can drop them: `CleanLocals` (`ENTER` finds no reference in its locals) and
`ApiOnIntegers` (API functions get no strings). Here `ArgumentsInRange` is assumed: the references in
slots below the stack pointer, which an index out of range would copy without being counted, are not
followed.

**AdrenoOperators.** A value is null, a word, a string or an array. `DualResults` and `SingleResult` give
what an instruction may push, or the error that stops the script, in the order of the tests of the
two contracts in `vm.c`. Results are sets because a shift by the width of a word is undefined in C.

**AdrenoArrays.** One function with locals and an operand stack; values carry the counter and the
`GCFlags`, because both are copied with elements. `AdrenoValue_Dereference` and `AdrenoValue_Free` call
each other in `value.c`: releasing an array walks its table and releases each element, which may be an
array. The model has their calls as data. A heap is the cells, the values an instruction still has to
release, and the calls of `Free` that are not finished, each with the elements it has left; `Go` is one
step, the next element of the innermost call or the next value, and `Release` takes steps until nothing
is left, all within the instruction. `Enough` is how many there can be, from the number of arrays (`Tables`).

The table of an array is its shape from `KeyTree`: which key's node hangs under which, and at which keys
`stale` the `Parent` field is not the node above, since `TreeRemove` sets none (hashtable.c:201). `FreeNext`
follows the iterator of `AdrenoValue_Free`: on its way on from an element it reads the fields of the
nodes in `Leaving`, and one of them that is stale leads to a node given back (`Strays`), from where the real
loop may release elements again. That ends in `WILD`, as does any use of a cell that is in the pool or
the release of a C variable into it; following the NULL root of an empty table ends in `CRASH`. `lost`,
`orphans` (element cells replaced or removed) and `loaded` are history; the model ends a behaviour's
interest in `LDELEM` after the first load.

**Hashtable.** A node is five fields; `Unlink` and `RemoveNode` are `TreeRemove` with the special case
of the root; a node given back keeps its fields, as in the pool, so the iterator can be seen reading
it. `cursor` is the iterator; `seen`, `removed` and `drift` are history. An iterator is made only when
`ParentsHold`, unless the constant `IterateAnyway` says otherwise. Two keys with one hash are one key, in
the code and here. `TableShape` has `Set`, `Remove` and `Clear` as the steps of `KeyTree` on the keys alone, and
`HasTableShape` says that the nodes implement it, stale `Parent` fields included: what `AdrenoArrays` builds
on is checked against the model of the code, not assumed.

**MemoryStream, Emitter, ScriptFile, Scanner, Compiler.** The first four are operators on records with
the fields of their structures: a stream with its room, a function with its stream, labels and jumps
to patch, a script with its strings and functions, a flex buffer with its two end marks. `Compiler` has
the state: `at` and `taken` are what the top of Bison's stack says may come next and the token whose
text the next reduction uses; a step shifts a token or reduces one rule with its action. `Grammar` has
every word of an instruction that the scanner knows with what it is followed by; `newarr`, `stelem`,
`ldelem`, `rmelem` and `ldlen` have none, and reach the interpreter by `AdrenoEmit` only. The programs checked
use `Inputs`.
A comment may stand at the beginning of the program, and is read character by character in the loop of
`ail_comment`. After `Accept` the tool saves and frees the script, and a program loads and frees the
file; phases `WILD` and `CRASH` are the double free after a syntax error and the walk of an empty table.
`source` is history, the statements parsed, from which `Means` says what the bytecode must do.
Hashes of names are constants, taken to differ.

**Blowfish.** Words are functions from bit numbers to Booleans, the round function is a constant
operator: nothing of the cipher's inversion depends on it. Key schedule and tables are left open.

## 3. Runs and bounds

| Run | Instance | What it shows |
|---|---|---|
| `memory_pool` | 2 pages of 2 cells | list empties, a page fills, the pool grows, cells of both pages mix on the list; `IsHeap` |
| `bit_pool` | 4 pages of 3 cells, words of 2 bits | words and pages overlap, `Resize` gets multiples of a word and others; `IsHeap` |
| `life_cycle` | 5 pools, 2 of the program's own of 2 sizes, a machine and a table | who holds a pool is served; orderly programs keep the registry exact |
| `memory_manager` | 3 blocks, units of two classes, large cells | blocks pass between classes and the empty list, all lists exact; `IsHeap` |
| `frames_once` | `main` and a recursive `f` with one local, 3 instructions each, 7 slots | frames and returns, three calls deep, all error paths, context run once |
| `frames_default` | the same, expandable, run again, `LDARG` of any slot | the same until the first undefined step |
| `values` | 5 slots, one constant, two cells, one lost reference before the last step; words of 4 bits | exact counters, no dangling reference, all released at the end; operators against arithmetic |
| `arrays` | 4 cells, 3 operands, 1 local, 3 keys, 2 strings or arrays; loads with 3 cells in use | exact counters and sound memory until an element is loaded or an array with a wrong `Parent` is freed; the leaks |
| `hashtable` | 5 keys, 5 nodes, 2 values | dictionary, shape and wrong `Parent` fields, no leak, iterator, exact error of `NodeCount` |
| `compiler` | 2 functions, 3 statements, 2 labels, 4 opcodes of every form; comments of up to 4 characters | bytecode means the program; one function lost in a file; tables balance; comments end |
| `stack_expand`, `values_api` | small | the findings of section 5 |

Why these bounds are enough. Three instructions let a function do something between `ENTER` and its
last instruction any number of times, since jumps go back. Five slots hold an argument, a return
info, a local and two operands; seven hold two frames below `main`'s. One constant and two cells let
one string be made from another that is released. Four cells hold an array
and an element of each key, or two arrays, one in the other, that have an element each. Three keys are the fewest with which a
removal leaves a wrong `Parent` and the array is not empty: `arrays` reaches `WILD` that way. `MaxLoading` keeps
down what follows a load, of which the two invariants say nothing: three cells, an array, a string and the element
that refers to it. `MaxComputing` keeps down the integers whose counter is 0, which only `LDELEM` and what comes
after it tell from others: two cells, an array and an element.
Three blocks give a list of a class a middle; a class of one unit to a block has its blocks full at once
and empty again at once, a class of three threads two free units through one in use. Four pages of three
cells in words of two bits make a cell's word and its page differ, and have `Resize` called with
remainder and without. Five keys are the fewest with which the entry that replaces a removed one comes
from further below and leaves a child behind; `CountMod = 3` makes `NodeCount` wrap within the run. In
`life_cycle` the sizes are such that one of the program's pools is shared with the values' (23 is rounded
up to 24) and the other with none; five pools let an entry be lost, written over, and its index used
outside of `MPools`. In `compiler` three statements are a label, a jump and something to jump over, in either
order; bytes have 8 values and operands two of them, so that a backward jump wraps through both; the
names' hashes are in the other order than the names, and one string is a function's name.

The bounds are named in the modules: `MaxPages`, `MaxBatches`, `MaxObjects`, `MaxLoading`,
`MaxComputing`, `MaxLost`, `MaxPools`, `MaxItems`,
`MaxFunctions`. The theorems hold for every value of those they involve. (`LDELEM` runs once in `arrays` and in the
theorems about it: after a load the two invariants say nothing more.)

The views and symmetries of the MC modules leave out what no later step can read: dead slots other
than whether `ENTER` may take them, registers that are set again before they are used, names of
nodes and cells, and in `MCAdrenoArrays` of a state that nothing follows all but what the invariants say
of it. `CHECK_DEADLOCK FALSE` appears where a host may simply not run a context again, where
a tool has ended, or where the model stops in `WILD` or `CRASH`.

**Fairness.** The interpreter does only what a script tells it to, and a script may loop for ever:
nothing must happen eventually there, and its specifications state no fairness. `Compiler` states weak
fairness of `Skipping`, the loop that skips a comment: it is a loop in one thread that calls nothing that
waits (its input is in memory), so it goes on as long as it has not ended. Under it
`ClosedCommentIsLeft` says that the loop ends where it should.

## 4. Properties

- `FramesOnStack`, `RegistersDescribeFrame`: however deep the calls, every pending return info is in its
  slot, inside the frame its contents describe, and the registers locate the running frame.
- `OperandsArePlain`: neither `LDARG` of a caller's operand nor arithmetic can copy a return info, which is
  owned once, as long as the index of `LDARG` is in range; a script that breaks that rule is in `WILD` once
  it has copied one.
- `ReturnRestoresCaller`, `ReturnsAreBalanced`: a return puts the caller back where its call left it; a
  `STACK_CORRUPTION` means that operands were left over.
- `NeverWild`: on a stack of fixed size, in a context run once, under the three rules, no return info left in
  a popped slot is used and none is copied, although locals are never initialised: `RET` overwrites each
  return info with the result.
- `CountsAreExact`: of strings (`AdrenoVM`), a counter is the script's hold plus the slots in use that
  refer to the string plus the references lost; `NoDanglingReference`, `StopReleasesAll` follow from it,
  with `UsedIsCounted`. Of arrays (`AdrenoArrays`), element cells count too, replaced ones included,
  until an element has been loaded.
- `OnlyTanglesBreak`, `ElementCellsStay`: storing and replacing elements, removing them and freeing arrays never
  touch a cell or node that was given back, but for two ways: `LDELEM`, which copies a reference without
  counting it, and the release of an array that `RMELEM` has left with a wrong `Parent`. The cell of an element
  that is a reference is never given back.
- `ReuseThreadsFreeCells`, `CarvedAccounted`, `PagesFillInOrder`, `GrowsOnlyWhenFull`, `IsHeap`: the
  pool's list is exactly the free cells, and the pool is an allocator.
- `SearchLosesNone`, `BitsTellLive`, `IsHeap`: the same of the other build.
- `HoldersServed`, `OrderlyProgramsShare`: a pool is there as long as someone holds it and its cells are
  large enough, whatever the order; the registry is exact for programs that keep the reverse order.
- `FreeUnitsThreaded`, `BlocksAreListed`, `AssertionsHold`, `VerifyTellsLive`, `CellsFit`: a
  block's free units, a class's blocks and the empty blocks are each on their list and nowhere else,
  `memmgr_verify` knows the cells in use, and no unit is too small for what it was asked for.
- `IsDictionary`, `NodesAreInTree`, `HasTableShape`, `IteratesInOrder`, `CountDrifts`: the tree is a dictionary after
  any sequence of operations, leaks nothing, and its iterator is complete, in order, without repetition when
  the `Parent` fields are right; which fields removals leave wrong is a function of the keys alone.
- `CodeRunsAsWritten`: every finished function, decoded as `AdrenoVM_Run` decodes it, is its source.
- `LoadDropsLast`, `TablesBalance`: exactly what a round trip through a file loses, and exactly the hash
  tables that are never destroyed.
- `ClosedCommentIsLeft`: liveness of the scanner; a comment is left at its first end.

`MCAdrenoVM` and `MCCompiler` also check pure operators as assumptions: bitwise operators against sums,
shifts against each other, room for literals, operands written exactly where they are skipped, `Seek`
and `Read` of a stream. Every property of a passing run has a mutant in `PROJECT.json`: a plausible mistake
in a modelled operation, defined before it in the same module, that makes the run fail.

## 5. Where the code disagrees with its documentation, and what else was met

Shown by a run that expects a violation:

- **The expandable stack** (`stack_expand`). CMakeLists.txt:10 calls the stack expandable. `Push` and
  `Take` enlarge it at its high end, while it grows downwards: `StackPointer` stays 0 and wraps.
- **Arguments of API functions** (`values_api`). `print`, `inttostr` and `strtoint` release their argument in
  place; the test script pops it once more, with `pop.s 2`. A string the script made is released twice.

Part of the models, and of what the properties say:

- `.initlocals 2` initialises nothing: locals start with what was popped from their slots, and `STLOC` or
  `RET` releases it again (vm.c:1101). `CleanLocals = FALSE` shows it.
- `TreeRemove` leaves the child's `Parent` at the freed node; `AdrenoValue_Free` iterates over an array that
  `OP_RMELEM` may have removed keys from. Store the keys 1, 2 and 3 in this order, remove 2, and free the array:
  the iterator climbs from 3 to the freed node. The run `arrays` has the state (`WILD` with `TangledFreed` not
  empty); `IterateAnyway = TRUE` makes `IteratesInOrder` fail.
- `NodeCount` is one short, and so is the number of functions in a file: `Load` drops the last one in the
  order of the hashes (script.c:68). A script of one function loads as one of none.
- Releasing an empty array, saving or freeing a script without functions and freeing a machine without
  functions follow a NULL root (hashtable.c:274).
- `LDELEM` neither counts the reference it copies nor takes `GC_FREE` off the copy (vm.c:549); `LDLEN`
  pushes nothing (571); elements replaced or removed are never released (496, 643).
- A syntax error frees the script twice (ailc.c:45-46). A jump to an unknown label leaves its
  function's labels allocated and the jumps after it unpatched (emit.c:139). A comment that is not closed makes
  flex read from a file that is NULL.
- A program that lets `AdrenoVM_Initialize` call `StaticInit` gives the pools back out of order unless
  another table is there before, since the value pool is younger than the node pool the machine's table makes. The pointer is not reset by
  `StaticDestroy` (vm.c:30). In the bit-array build `New` takes off a header word it never added
  (memorypool.c:118), and cells come out a word too small: `Linked = FALSE` shows it, and the
  theorem `BitArrayCellsTooSmall` says by how much, for every size.
- `OP_NE` answers 0 for strings of different size (vm.c:882). `Resize` of a bit array reserves nothing for
  fewer bits than a word has, and `Clear` keeps the anchor (bitarray.c:134, 143).

## 6. Proofs

TLAPS proves the following for every value of the constants that satisfies the named assumptions
(`PoolAssumption`, `FramesAssumption`, `VMAssumption`, `BitArrayAssumption`, `BitPoolAssumption`,
`OperatorsAssumption`, `LifeCycleAssumption`, `ManagerAssumption`, `AddressAssumption`,
`HashtableAssumption`, `EmitterAssumption`, `ScriptFileAssumption`, `CompilerAssumption`,
`KeyTreeAssumption`, `ArraysAssumption`), none of which is stronger than what the code needs: sizes are positive, markers differ from data, a page has at least as
many cells as a word has bits, a pool's cells are larger than a word, a unit's head is smaller than a block,
what `malloc` returns is no part of a block, there is a key and a value to set, names have
different hashes, a program's bytecode and strings can be addressed by an operand. `VMAssumption` and
`ArraysAssumption` ask for a counter wider than the number of references there can be (slots, element
cells and the bound on lost references), which a counter of 32 bits is, and `VMAssumption` for a stack
of fixed size, because after a wrap of `StackPointer` there is nothing left to say.

- `MemoryPoolProofs`: `IInv` is the conjunction of the run's invariants with `TypeOK`. They need each other:
  that `link[reuse]` is the next free cell rests on the list having no repetition, which rests on
  a freed cell having been held (`CarvedAccounted`). `PoolIsHeap` then shows that each step is a step of
  `Heap` or a stutter; `PoolThreadsFreeCells`, `PoolAccountsForCells` and `PoolFillsPages` state the parts.
- `BitProofs`, the pool: `IInv` adds to the two invariants of the run that the words suffice for every cell
  (`WordsSuffice`, which rests on the odd formula of `Resize` erring upwards from one word on) and that the anchor is
  within them. `SearchFinds` shows that `Alloc` never gets -1 from the search; `BitPoolIsHeap` follows.
  `ClearLosesWords` is about `Clear`, which nothing calls.
- `AdrenoVMProofs`, the call protocol: `IInv` strengthens `FramesOnStack` by what every frame says of the one above it
  (`TopOf`), by operands being plain, by the stack being empty when the machine is not running, and by
  `ReturnInfosArePending`, the fact behind `NeverWild`: no return info outlives its call. Most
  instructions touch only slots of the running frame and share one lemma, `WithinFrame`; `CALL` and `RET`
  are the cases with work in them. All but `NeverUndefined` hold whatever the index of `LDARG`, since the step that
  copies a return info is the last. `FramesTyped` is the type invariant alone.
- `AdrenoVMProofs`, the values: `VMImplementsFrames` makes all of this available to the values. The counting invariant
  `CountInv` is proved by a balance: every instruction moves references between slots in use, slots it
  pops, and `lost`; `Settle` takes off the counter exactly those that left. Lemmas on `Refs`, a
  cardinality, say how it changes when a slot is added, dropped or written; each instruction's lemma
  (`StoreKeeps`, `ReturnKeeps`, ...) instantiates the balance. `ReturnInfosHoldNothing` is needed because
  `RET` overwrites a slot without releasing it. The three results assume `CleanLocals`, `ApiOnIntegers` and
  `ArgumentsInRange`.
  The same module has the theorems about `AdrenoOperators`: results of arithmetic and comparisons are words,
  for any width; division, remainder, multiplication and addition agree; a wrap is undone; comparisons
  agree; when `NE` negates `EQ`.
- `BitProofs`, the cipher: a round of the exchanged halves undoes a round (`RoundUndone`), so decrypting, which uses
  the subkeys backwards, undoes encrypting two rounds at a time. The modes follow block by block,
  since the link of `Decrypt` is a block of its input.

- `LifeCycleProofs`: `WhoHoldsIsServed` rests on `HoldersInv`: the lock of a pool counts those that hold it,
  a pool is alive while its lock is not 0, and its cells are as large as whoever holds it asked for. Of the
  registry's entries it says only that those not NULL are pools that are alive (`EntriesLive`), which is
  all that survives an arbitrary order of `Destroy`. `OrderKeepsRegistry` is about programs that keep the
  order: `OrderInv` adds that indices follow the order of creation, so that the youngest pool is the last
  entry and clearing it is popping it. Both assume the linked-list build (`Linked`): in the other one
  `BitArrayCellsTooSmall` refutes `HoldersServed`.
- `MemoryManagerProofs`: `IInv` says of the manager `m` and the cells `l` in use (`Good(m, l)`) that the units
  given back of every block that serves a class are on one list from `unit_unfill`, each once (`IsThread`),
  with the counters to match; that the empty blocks are on a list and the blocks of each class with a unit
  to give on a doubly linked one, and `unfill_prev` is NULL for all others; that the large cells in use are
  on theirs; and that size fields of cells in use are what was asked for. It is stated of any manager and
  any set of cells, because `Realloc` is `Alloc` and `Free` in one step and the manager between them must have
  it too. Lemmas on lists (`ThreadPush`, `ThreadPop`, `DoublePush`, `DoubleRemove`) say what each change of
  links does, whatever list it is; lemmas on numbers (`HashFits`, `SmallSizes`) that `size2hash` and `hash2size`
  agree. All invariants of the run follow, and `ManagerIsHeap`, step by step. The invariants that walk
  a list by a recursive function rest on `WalkExists` and `WalkMeets`, and `UsageIsCounted`, that the bytes in use are
  counted right (which no run checks), on `TotalOfMore`,
  that a sum does not depend on the order of its members; these replace induction by the least
  counterexample (`LeastNatural`), which needs no operator as a parameter.
- `HashtableProofs`: `TableInv` says that the nodes in use are a search tree (`SearchTree`): there is a function
  `sub`, what lies below and at each node, with the root's being all nodes in use and each node's keys
  split by its own. That a node has one parent and a key one node follows. Kept as a function, `sub` changes
  with a step as simply as the fields: `Unlink` takes `gone` out of every value of it, `SetBelow` adds the new
  node wherever `up` is. So `Remove` is two lemmas, `UnlinkedTree` for the node that goes and
  `RekeyedTree` for the entry put in the target's place, and the second needs only that the key is the least to
  the target's right (`LeftMostInTree`). What a recursive function of the model computes is shown in two parts:
  the function exists whatever the fields of unused nodes hold (`FollowExists`, `GatherExists`), and on the
  nodes in use it has its value by induction over the tree (`BottomUp`, `TopDown`), which is the choice of a
  node whose `sub` is least and takes a set as its parameter, not an operator. `TableIsDictionary` is then a
  description of `Contents` by the nodes (`Describes`) before and after each action, `TableCounts` the
  arithmetic of remainders (`Wraps`), `TableIteratesInOrder` that climbing ends at the least node above
  (`UpInTree`). The last and `TableTyped` assume `~IterateAnyway`: where a `Parent` field is wrong it does not say
  where a node hangs. `ParentsHoldAtFirst` is why the tables of functions, which nothing is removed from, keep
  that. `HasTableShape` is only model-checked.
- `CompilerProofs`: `CInv` says of the parser which function is under construction and that its labels and
  references are those of the statements read so far (`Refers`), which decides whether `Finalize` succeeds;
  with it `CompilerBalancesTables` follows by the cardinality of `Unresolved`, the functions that failed. For
  `LoadLosesOne` three more facts are invariant: every function's `nameIndex` is the place of its name in the
  string table (`NamesInv`), the file is what `Saved` made of the script (`FileInv`), and the order of the
  hashes exists and is a permutation of the functions (`OrderFacts`), so that one function less is the one
  of the greatest hash. What the folds of the community modules compute is obtained from their
  definitions (`FoldExists`, `LoadedRuns`): the function they choose exists, and its values are a run of the loop.
  `CompilerWritesProgram` needs an invariant of its own, `CodeInv`. Of the function under construction
  (`Building`) it says that each instruction written so far is at the address its statements give with its
  operand, or with 0 and an entry of the reference list if the operand is a label; that labels are at the
  address they were last set at; and that the references are in the order of the statements. Of a finished one
  (`Written`) it says what the interpreter reads of each instruction, jumps after the first unknown label
  included, which go on to the next instruction. Every step leaves names, strings and
  finished functions alone (`Keeps`). The lemmas on numbers are `OperandRead`, that an operand of any width is
  read back as it was written, and `JumpArithmetic`, that adding the patched operand to `ip` modulo 2^w gives
  the label in either direction; on the stream `Writes`, that a write at its end changes no byte before
  it; on addresses `Apart`, that two operands never overlap, so that a patch of `Finalize` leaves the other
  operands alone (`FinalizedRuns`, `PatchedJump`). The bounds in `CodeInv` keep the addresses below 2^w
  with `CompilerAssumption`.
- `AdrenoArraysProofs`: `ArraysInv` adds `Ledger` to the type invariant and `OnlyTanglesBreak`: until an element is
  loaded, or the script runs into `CRASH` or `WILD`, the heap is `Good` and no value on the stack or in a local has
  `GC_FREE`. `Good` is stated of any heap, also of one in the middle of a release: each element's cell is a copy and is
  in one place only (`Placed`); the unfinished calls of `Free` free different arrays, whose counters are 0
  (`Apart`); and every counter is what refers to the cell from outside plus the values still to release plus
  the element cells that do (`Exact`). `CountsAreExact` alone is not inductive: inside a release the counters
  are exact only if the references still to be counted down are part of the balance, and that an array is not
  freed twice rests on `Apart`. Each step of `Go` keeps `Good` or stops in `CRASH`, or
  in `WILD` at an array whose tree has a stale `Parent`, and takes something off a
  measure, so that after `Enough(h, s)` steps nothing is left (`Settled`): how deep arrays are nested does not
  matter, and no induction over their structure is needed. The instructions then differ only in what they do
  before they release. `ArraysTyped` and `ElementCellsLeak` hold after a load too: there nothing is known of
  the counters, but a release gives back no cell of a reference (`Shrinks`), and an instruction writes one only
  where the cell was free.

Before each proof TLC checked the inductive invariant on the instance of the run (`IInv` of `MemoryManager`
also with two batches of blocks).

Only model-checked: liveness (`ClosedCommentIsLeft`), the refinement `HasTableShape`, and the assumptions of `MCAdrenoVM` and `MCCompiler`
about pure operators, except where a theorem states the same. The library's induction theorems cannot be
instantiated by the installed provers; where a proof needs induction it chooses a least counterexample.

## 7. Not modelled

- The key schedule and the tables of `crypt/blowfish.c`: a fixed computation with nothing to go wrong in
  its order; the proofs hold for any.
- The tables of flex and Bison that recognise words and choose reductions, and flex's buffer stack: the
  models have the grammar they were generated from.
- Option parsing and file input and output of `ailc`, the stub `vmdebug`, wording of messages.
- In the interpreter the `ref` prefix of `LDLOC` and `LDARG`, which makes a reference to a stack slot, and API
  functions other than those of `stdlib.c`. (`OP_SWITCH` has no code: it is the error of an unknown opcode.)
- `memmgr_final`, which calls `AdrenoMM_Free` for whatever is in use when the program ends; `CAlloc`,
  `Strdup` and `WStrdup` of `memory.c`, which are `Alloc` and a copy; `Remove`, `IndexOf` and `Free` of
  the pointer array; the bytes of a script file and the hash functions, both taken as data.

## 8. Plan

1. The `ref` prefix: references to slots in `AdrenoFrames`, which a return or an enlarged stack leaves
   dangling (vm.c:333, 372), with the proofs of both modules carried over.
2. `memmgr_final` as an action at the end of a program, and that it returns what was never freed.
