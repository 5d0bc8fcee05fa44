# TLA+ models of php-pico

php-pico is a PHP-subset runtime in C99 for microcontrollers (RP2040) and hosts:
a compiler, a bytecode VM with reference counting and a cycle collector on top of a
pool allocator, a standard library, peripherals ("pgems"), a shell and a small file
system layer. This directory holds TLA+ models of its core, TLC configurations that
check them on small instances, and TLAPS proofs. Source paths below are relative to
the repository.

## 1. Inventory

| Part | State | Operations | Talks to | What makes it correct |
|---|---|---|---|---|
| Pool allocator `src/alloc.c` | block headers with boundary tags, 24x4 free lists | init, alloc, free, realloc, track, stats, check | everything allocates here | blocks tile the pool; a block is free iff listed; clients never share bytes |
| Values, reference counts `src/value.c` | 16-bit count per heap value | retain, release | destroy functions, collector | every count equals its owners; freed once; nothing dangles |
| Cycle collector `src/gc.c` | candidate buffer, node table, flags | buffer, unbuffer, collect | release, destructors | takes only garbage; finds every lost cycle that fits its tables |
| Objects and classes `src/pclass.c` | slots, class tables, list of objects | new, clone, destroy, `__destruct`, inheritance | VM (destructors run PHP code) | destructor once; list and classes outlive users |
| Arrays `src/parray.c` | packed or hashed entries, tombstones | get, set, remove, push, clone | values | behaves as an ordered map, in every representation |
| VM `src/vm.c` | operand stack, frames, catch tables | 100+ opcodes, throw/unwind, nested invocation | all of the runtime | stack discipline, ownership, unwinding, safe points |
| State, modules, includes `src/state.c`, `src/module.c` | globals, classes, functions, modules | exec, include, rollback, close | compiler, loader, VM | a failed chunk leaves no trace; nothing freed is referenced |
| Exceptions `src/exception.c` | preallocated OOM exception | create, trace | VM | available when memory is not |
| Bytecode loader `src/pbc.c` | - | load, verify, write, dump | VM | only well-formed code reaches the VM |
| Compiler `compiler/` | AST arena, scopes, patch lists | lex, parse, generate | loader format | jumps and stack heights agree |
| Standard library `stdlib/` | - | ~200 functions | values, VM (callbacks) | ownership around callbacks |
| Events, timer, console `hal/`, `pgems/`, `ports/rp2040` | event ring, ticks, console bytes, GPIO callbacks | push (interrupt), tick (timer), pop and poll (VM) | VM safe points | FIFO, no lost wake-up, Ctrl-C always works |
| Shell and files `shell/`, `fs/` | current directory, open files | run, upload, copy, boot files | VM, littlefs | a power cut or time-out leaves old files intact |

The hard behaviours: PHP code that runs *inside* a C operation (a destructor in the
middle of a store, of a collection or of the shutdown; a callback in the middle of a sort
or a poll); interrupt handlers and the timer against the VM loop; struct copies of the VM
state that nested invocations run on, which go stale; out of memory in the middle of
anything; counts and tables at their limits; power loss during an upload; and a language
whose meaning is fixed by another implementation. `PROJECT.json` lists them one by one
under `hazards`, with the properties that cover them.

## 2. Modules

| Module | Models | Abstract or reference counterpart |
|---|---|---|
| `PoolAlloc` | all of `src/alloc.c` | `RegionStore`, disjoint regions (refinement); proofs in `PoolAllocProofs` |
| `Heap` | `src/value.c`, `src/gc.c`, the destroy functions, stores of `src/vm.c` | - |
| `VmEvents` | event ring, ticks, safe points, nested VMs, poll, shell loop | `EventFifo` (refinement); proofs in `VmProofs` |
| `Symbols` | `src/symbol.c` and the copies nested VMs make of the table | proofs in `SymbolProofs` |
| `PArray` | `src/parray.c` | `OrderedMap` (refinement); proofs in `ArrayProofs` |
| `Codegen`, `CompiledVm` | control flow of `compiler/codegen.c`; the interpreter loop of `src/vm.c` on its output | `PhpReference`, what the source means |
| `ArrayLvalues`, `ArrayVm` | places inside arrays and properties in `compiler/codegen.c`; array instructions of `src/vm.c` | the reference of the same module, arrays as values |
| `Definitions` | classes, functions, modules, includes, rollback: `src/state.c`, `src/module.c`, `src/vm.c` | what PHP says is declared, in the same module; proofs in `StateProofs` |
| `Shutdown` | `pphp_clear_user_classes`, `pphp_close` and the destructors they run: `src/state.c`, `src/pclass.c` | proofs in `StateProofs` |
| `Hierarchy`, `ClassTable` | class declarations: `compiler/codegen.c`, `src/vm.c`, `src/pclass.c` | PHP's rules, stated as properties |
| `ObjectAccess` | property, method, static, constructor and clone instructions: `src/vm.c`, `src/pclass.c` | PHP's answers, in the same module; proofs in `VmProofs` |
| `IntegerOps`, `Numeric` | `src/value_ops.c` | `NumericReference`; proofs in `IntegerOps` |
| `ExpressionParser` | the expression part of `compiler/parser.c` | `PhpGrammar`, PHP's precedences as a grammar |
| `Pbc` | `src/pbc.c` | the module that was written |
| `ArraySort` | `call_array_sort` of `stdlib/arrays.c` | stable sorting, as a property; proof in `ArrayProofs` |
| `ArrayFunctions` | thirteen functions of `stdlib/arrays.c` | PHP's functions, in the same module |
| `Streams` | `stdlib/files.c` over `fs/fs_lfs.c` | PHP's file and position, in the same module; proofs in `DeviceProofs` |
| `DeviceShell` | `shell/p2sh_device.c` over `fs/fs_lfs.c`, `tools/p2upload.py`, power | the files as they should be; proofs in `DeviceProofs` |
| `LineEditor` | the console loop of `ports/rp2040/main.c` | `TextEditor` (refinement); proofs in `DeviceProofs` |
| `MC*` | instances for TLC, see below | - |

An `MC` module instantiates one module, or several that share a subject; a behaviour then is
of one *part*, chosen in the initial state, and the variables of the other parts keep their
first values. A property of such a module holds in each part. `VmEvents` is run as it is.

| `MC` module | Parts |
|---|---|
| `MCPoolAlloc` | `PoolAlloc` |
| `MCHeap` | `Heap` on three cells, on two cells with a full buffer, and (for the counterexample) with stale holders |
| `MCCompiledVm` | `CompiledVm` with `Codegen` and `PhpReference` |
| `MCArrayVm` | `ArrayVm` with `ArrayLvalues` |
| `MCArrays` | `PArray`; string subscripts; `ArrayFunctions`; `ArraySort` |
| `MCState` | `Definitions` with classes, with includes four VMs deep, and with destructors that declare classes; `Symbols`; `Shutdown` with destructors that drop, store and lose objects |
| `MCObjects` | `ClassTable`; `ObjectAccess` |
| `MCDevice` | `DeviceShell` with an impatient and a patient host; `LineEditor`; `Streams` |
| `MCLanguage` | `Numeric` at two widths; `ExpressionParser` twice (operators, members and calls); `Pbc` |

The properties of the runs are conjunctions of named parts (`HeapSound` is `RefCountExact`,
`NoDangling`, `DestroyedOnce` and so on), each stated and commented in its module.

In several modules a definition stands beside another one commented "Mutant": the same
operation with a plausible mistake. `PROJECT.json` pairs each property with one of them; put
in the place of the real operation it makes the property fail.

### PoolAlloc

`heap.hdr` maps the offset of every block to its header (size, used, tracked, size of the
block before it); the sentinel is the header of size 0. `heap.bins` holds the free lists,
`live` what clients hold (payload pointer to bytes asked for). One action per function of
the interface: `pphp_pool_init`, `pphp_alloc` / `AllocFails`, `pphp_free`, `ReallocInPlace`
/ `pphp_realloc` / `ReallocFails`, `pphp_alloc_track`. The helpers have the names of the
code (`mapping`, `remove_free`, `insert_free`, `find_free`, `block_set`). `mapping` is
written with thresholds instead of shifts; `MCPoolAlloc` assumes (TLC evaluates it) that it
equals the arithmetic of the code for sizes up to 512. Clients are assumed to free only
what they hold; that is what the guards of `pphp_free` check at run time. Contents are not
modelled; `RegionStore.Move` demands that old and new region are apart, which is what the
`memcpy` of `pphp_realloc` needs.

### Heap

A cell is an array, object or closure with `NSlots` slots; variables are globals. `ctl` is
the stack of pending C work: `Release(c)` a call of `pv_release`, `Put(h, v)` the assignment
behind the release of a holder's old value, `Destructor`/`Unguard` the two halves of
`pobject_run_destructor`, `Sweep` the loop of a destroy function, `Clear` and `Collected`
the tail of `pphp_gc_collect`. Only the topmost item moves, and a statement of the PHP
program executes when `ctl` is empty or a destructor is on top. `Assign`, `New` and `Unset`
are whole statements (load, store, drop of the operands); a store retains the new value,
releases the old one and only then overwrites the holder, as `pa_set` and `OP_PROP_SET` do.

Two things programs may do break the heap, so they are switches. `TouchesStale` lets a
destructor use the holder whose overwriting triggered it; `Resurrects` lets a destructor
store its `$this`. With both off the properties hold; each is a finding (section 5).

### VmEvents

`vms` is the stack of VM structs: the task's own, then a copy per nested invocation
(`pphp_vm_invoke`: callbacks, magic methods; `pphp_exec_include`; destructors, which copy
the task's VM). Each copy has its own view of "a tick is due" and of the head of the object
list, taken when it starts; `pphp_tick` reaches only the task's. An instruction is `NoTick`
or `Tick` (the safe point: one console byte, then the poll) followed by its effect; a tick
may fall between the two, which is how a nested VM comes to see one. The poll walks the
list and invokes callbacks (`PollInvoke`), nested VMs may poll too. An error of a nested VM
becomes the caller's: uncatchable behind a poll, an ordinary Error behind a call, dropped
behind a destructor. `hal_event_push` runs in an interrupt, `hal_event_pop` with interrupts
off, so each is one step.

`CallbacksReturn`, `Swallows` and `DropsInCallbacks` restrict what nested PHP code does;
each relaxed alone gives a finding.

### Symbols

`tables` holds, for every VM on the stack, its copy of the table's pointer, count and capacity;
`mem` the blocks behind the pointers. `psymbol_intern` makes room first and looks up second,
as the code does. `NestedNames` is what nested VMs intern. The caller does not count these names:
up to a quarter of a new table's slots the free slots of the load factor make up for them (a nested
VM interns one name of a table of four in `MCState`), beyond that a lookup may find no slot (section
5). What a caller does with a table that a nested VM has moved is undefined, and it interns no more
there (`MayIntern`).

### PArray

An array has the entry vector, the bucket vector, size, used, next index and the packed flag;
every allocation may fail, and a failed insertion keeps what its earlier steps did
(`SetFailures`). `normalize_key` and `numeric_string_key` turn subscripts of every type into
keys; strings are sequences of characters there. The refinement mapping `AsMaps` shows what
an iteration with `pa_entry_at` meets. The hash function, the first sizes, the limit of
`uint16_t` and the largest integer are constants.

### Codegen and CompiledVm; ArrayLvalues and ArrayVm

A program is a small syntax tree. `Codegen` translates it as `codegen.c` does, with forward
jumps patched, finally blocks inlined before jumps out of them, and exception tables;
`CompiledVm` executes the code one instruction per step; `PhpReference` evaluates the tree
directly. The two are compared by what they print and how they end. `ArrayLvalues`,
`ArrayVm` does the same for writes into shared arrays, where the VM counts
references and separates, and the reference copies.

### Definitions and Shutdown

Every nested VM is a copy of the C structure. `Definitions` keeps the stack of copies, the
blocks their pointers name and reference counts of modules, and compares them with the
classes and functions PHP says are declared. `Shutdown` follows the two walks over the list
of objects: after a chunk, objects nothing reaches are destructed, round by round, and the
classes nothing reaches released; at the end all objects are destructed and the tables go one
by one. A destructor is one step that may drop, store or lose an object. What a program
stores where is a constant (`Holds`). What a destructor creates after `pphp_close` began
(`made`) may outlive the globals, and the properties say so.

### ClassTable and ObjectAccess

Build with `PPHP_TYPECHECK` and `PPHP_VIS_CHECK`. `ClassTable` runs scripts of declarations
through the code generator's checks and the `OP_DEF_*` instructions. Names are compared
exactly; `void`, `callable` and `float` types are left out. In `ObjectAccess` the program is
any program: a frame may try every instruction on every name. Reads are invariants (the
answer is PHP's, in every state), the rest are actions. Methods take no arguments. Not
compared: private constants, static methods called on an object, `__get` beside a hidden
property.

### Numeric

Values are tagged tuples, integers have `Width` bits and wrap, a float is an exact fraction.
`string_numeric` and the conversions work on characters. `NumericReference` states PHP's
arithmetic and comparison. Objects, rounding and the notation of floats other than halves
are left out.

### ExpressionParser

Tokens are named by their spelling; a source grows token by token and is parsed at each
step. `PhpGrammar` decides by splitting which trees PHP's grammar gives. Literals, array
literals, closures, `match` and strings are operands. Four differences are known and not
compared in `GroupsAsPhp`: `instanceof` beside `!` or `**`, `clone` beside `**`,
`throw` beside `and`/`or`/`xor`, and two ternaries in a row.

### Pbc

Default build. The writer's two passes, the loader's bounds checks and the abstract
interpretation of every function (instruction boundaries, operands in range; neither the
code nor the model follows the height of the operand stack). A file is a sequence of bytes that may be cut anywhere or changed in one
byte.

### Library: ArraySort, ArrayFunctions, Streams

`ArraySort` makes one comparison per step; a `usort` callback answers anything and may throw, and
any comparison may fail.
`ArrayFunctions` applies the code's and PHP's function to the same array and compares
items, order, keys and the next index. `Streams` keeps a handle's view of a file beside the
file on the flash and beside PHP's; `feof` is not compared and files have no holes.

### DeviceShell and LineEditor

`DeviceShell` joins the shell, the console bytes, the host's uploader and the flash. A file
reaches the flash when it is closed, power may go at any step, time passes on its own.
littlefs and the host tool are external, modelled by how the shell uses them. Moves are of
empty directories or files. The prompt echoes what is typed, and the host reads the echo
(`Echo`): a line of a payload that ends in OK is one byte `"OK"` and `"nl"` here. Bytes of a
payload that would edit the line (Backspace, Ctrl-C, ESC) are text at the prompt. `LineEditor` draws on a terminal it cannot read back; the row is
wide enough, so nothing wraps.

## 3. Runs

Each run answers one question. `pass` runs finish within the bounds of their `.cfg`;
`violation` runs are the counterexamples behind section 5.

| Run | Result | Checks | Question |
|---|---|---|---|
| `pool` | pass | `BoundaryTags`, `NoFreeNeighbours`, `ListsMatchHeaders`, `ClientsOwnUsedBlocks`, `FindFreeComplete`, `StatsBalance`, `ClientsUndisturbed` | Every history of pphp_alloc, pphp_realloc, pphp_free, pphp_alloc_track and re-initialisation on a small pool keeps headers, lists and clients consistent and implements a store of disjoint regions |
| `heap` | pass | `HeapSound`, `LostCyclesFound`, `WorkDone` | Every program over three cells and two variables, with stores, destructors and collections in any order, and every program over two destructible cells when the buffer of candidates is full: counts stay exact, nothing dangles, the collector takes garbage, all of it and nothing else, and every store comes to an end |
| `vm_events` | pass | `QueueIsFifo`, `CtrlCStopsTask`, `EventsAreDispatched` | Interrupts, timer, console and nested VMs together: the ring is a FIFO, events are dispatched and Ctrl-C ends the task, provided callbacks return and nobody catches the interruption |
| `compiled` | pass | `RunsAsWritten`, `StackDiscipline`, `ProgramsFinish` | Over a thousand programs of nested loops, switches, try blocks, calls and short circuits, compiled and executed, print what their source means and keep the operand stack in order, as long as handlers do not sit inside foreach or switch and finally blocks end normally |
| `array_values` | pass | `HoldersCounted`, `ArraysAreValues` | Over some 1,800 programs that share an array between variables and properties and write to its elements, nested elements and properties in every form, arrays behave as values, counts stay exact and temporaries are cleared |
| `arrays` | pass | `Searchable`, `IntegersOnly`, `FunctionsAsPhp`, `IsOrderedMap`, `SortsStably` | Arrays through every sequence of sets, pushes, removals, clones and failed allocations are ordered maps; subscripts are integers exactly when PHP says so; sequences of array functions leave PHP's arrays; sort, rsort and usort end, keep every entry and sort stably |
| `state` | pass | `DefinitionsFound`, `ModulesOwned`, `OnceRunsOnce`, `NestedSound`, `NamesKept`, `EndsOrderly` | Classes, functions, modules and includes through nested VMs, failures and rollbacks; interned names through collisions, rehashes and failed allocations; destructors at the end of a chunk and at pphp_close: what was declared is found, what is used is alive, and nothing is left |
| `objects` | pass | `DeclaredAsPhp`, `AnswersAsPhp`, `MembersGuarded` | Scripts that declare classes in every combination the rules of inheritance distinguish, and code that makes objects and uses members of every visibility: what is accepted is sound, what is refused is wrong in PHP, and every access gets PHP's answer |
| `device` | pass | `AnswersAreTrue`, `OthersIntact`, `FilesAsPhp`, `ShellUsable`, `EditsText` | The device's shell with uploads, time-outs, a full flash and power cuts at any point, its line editor under every sequence of keys, and its file functions under every sequence of calls |
| `language` | pass | `OperatorsAsPhp`, `ParsesAsPhp`, `LoadsWhatWasWritten` | Every operator on every pair of awkward operands, every short numeric string, every short expression over two alphabets against PHP's grammar, and bytecode files written, cut, damaged in any byte and loaded |

Violation runs (one property each): `heap_touches_stale`, `compiled_catch_in_loop`.

Why the bounds are enough.

- Pool: up to four blocks, so every combination of free and used neighbours occurs, splits
  with and without a remainder, exact fits, and sizes beyond the first-level table
  (`FL_COUNT` is 6 there so that the clamp is reached).
- Heap: three cells give every shape of cycle with a tail; two slots give shared children;
  a buffer of one for two cells drops candidates and nodes and forces collections.
  `RcMax` is out of reach on purpose: see the hazard at `src/gc.c:191`.
- Events: a ring of 3 is full with two events, so three interrupts cover full, empty and
  wrap-around; three VMs give a callback inside a callback.
- Symbols: six names with colliding hashes, tables of 4, 8 and 16 slots: two rehashes, probes
  that wrap; three VMs, of which the nested ones intern one of the names.
- Arrays: two arrays, one a clone of the other when it is made from it; the first capacities
  are small, so that promotion, growth and rehash are met within three entries; the inputs 0,
  3 and null have colliding hashes. Subscripts are all strings of up to four of nine
  characters.
- Programs: two levels of nesting of every statement in every other, which is where handlers,
  iterators and inlined blocks meet; array programs of two statements over a shared array.
- Definitions: three VMs, of which one is nested in the other, with two classes and tables that
  move at the first declaration; four VMs nested in each other with includes that define
  functions; destructors that declare classes while a chunk is rolled back (`NestedSound`).
- Shutdown: three objects, four classes (one extends another, one names another in its
  destructor), two globals: an object before, at and behind the walk's position.
- Classes: scripts of up to five declarations chosen so that parent, interface and override
  rules meet; objects: two objects, three frames, four hierarchies.
- Numbers: 4-bit integers and floats around their edges are all combined with each other;
  strings of up to five characters with 6-bit integers.
- Expressions: seven tokens hold three binary operators or a ternary with one operator beside
  it, six tokens a call with an argument behind a member.
- Bytecode: three modules with every operand kind, all cuts and all single bytes.
- Sort: four values of three ranks, so that ties, shifts over several places and sorted ends
  occur. Array functions: three items, integers up to 3, offsets and lengths -2, -1, 0, 1
  and 3; range steps fit the range.
- Files: two to three bytes, one handle and the whole-file functions, six calls. Shell: four
  paths, four payloads (two lines, none, and one that says OK), one power cut. Editor: a buffer of 4, two history entries, three lines.

`DtorSteps`, `CallbackSteps`, `DepthMax`, `ConsoleMax`, `InterruptMax`, `MaxEntered`,
`MaxObjects`, `MaxDepth` and `MaxVms` only bound the length of user code and input.

Fairness. `MCHeap!MCFairSpec` has weak fairness of the C steps of the two-cell heap: the C code
runs on. The program itself may stop. `VmEvents!FairSpec` has weak fairness of the VM (the processor runs it) and
of the timer (a repeating 1 ms timer); users, pins and the shell owe nothing. `CompiledVm`,
and `MCArrays` have weak fairness of the interpreter's or the sort's own step; callbacks of
`ArraySort` are assumed to return. `MCDevice` has weak fairness of the device and its clock,
none of the host or of the power supply.

Deadlock is checked except where the system may stop: at the end of a program, script or
bounded history; those `.cfg` files say `CHECK_DEADLOCK FALSE`.

## 4. Proofs

Every theorem holds for all values of the constants that satisfy the named assumption of its
module. The runs check the same formulas on small instances. What a theorem needs beyond the
assumption stands in its statement.

### The allocator

`PoolAllocProofs` proves, for every pool size and alignment, bin layout, link size and
request size (`SizesAssumption`: the header is 8 bytes, as on both targets; `RequestsAssumption`:
no request is one of the seven sizes for which `align_up` wraps, section 5):

- `PoolTyped`, `PoolBoundaryTags`, `PoolCoalesced`, `PoolLists`, `PoolOwnership`:
  `Spec => []P` for `TypeOK`, `BoundaryTags`, `NoFreeNeighbours`, `ListsMatchHeaders` and
  `ClientsOwnUsedBlocks`;
- they follow from `PoolCorrect`, `Spec => []PoolInv`. `PoolInv` is inductive; none of the
  five is alone. Splitting needs that a listed block is free and fits (lists and tags);
  merging needs that neighbours found through the tags are blocks (tags), that a free
  neighbour is listed (lists) so that it can be unlinked, and that there were no free
  neighbours before (coalescing) so that one merge per side suffices; ownership needs all
  of them. The proof has one lemma per transformation of the heap (`UseWhole`, `UseFront`,
  `Merge`, `MarkFree`, and unlinking and inserting in lists) and one step per action.

- `PoolFindsFree`: `Spec => []FindFreeComplete`. `find_free` looks through the bin of the
  request first and then takes the head of any later bin; it fails only if a walk over all
  blocks in those bins would. It follows from `PoolInv` and from `mapping` being monotonic;
- `PoolBalances`: `Spec => []StatsBalance`. The walks of `pphp_pool_check` and
  `pphp_pool_get_stats` are functions defined along the blocks. That the second is defined at
  all, and what both return, is shown from the sentinel backwards (`WalkBack`);
- `PoolClientsUndisturbed`: `Spec => ClientsUndisturbed`, the refinement of `RegionStore` and
  the action property that no step touches a region of another client. `pphp_realloc` is the
  hard step: its new block comes from the free lists while the old one is still used, so the
  two are apart and the copy cannot overlap.

### Integers

`IntegerOps` proves for every width of integers (`MaxAssumption`) that the overflow tests of
`src/value_ops.c` are exact: `AddExact`, `SubtractExact`, `NegateExact` and `MultiplyExact`
say that an operation yields the mathematical result when that is an integer of the width and
reports overflow (the caller then computes in floats) otherwise. The tests are divisions and
comparisons made before the operation; the multiplication needs one case for each pair of
signs. `MCLanguage` runs the same operators, at two widths, against the reference arithmetic.

### Arrays

`ArrayProofs` holds for every hash function into the naturals (`HashAssumption`), every
first capacity, smallest hash and limit of 16-bit positions (`LimitsAssumption`), every
largest integer (`MaximumAssumption`: at least ten) and all subscripts and values
(`InputsAssumption`: a subscript is a pair of type and payload, integers are in range).

- `ArraysSound` is the inductive invariant. `Sound(a)` joins five parts that need each other:
  types and limits (`Fits`); no key twice, and the next index behind every integer key but
  the largest integer (`Apart`); the size counts the entries that were not removed
  (`Counted`); a packed array is a list (`AsList`); in a hash each bucket leads to its
  youngest entry and each entry to the next older one of its bucket, and a quarter of the
  buckets is free (`AsHash`).
- `ArraysSearchable`: `Spec => []Searchable`. That `find_entry` finds a key is a walk along a
  chain whose links descend; that iterating meets the same entries, in order, is
  `ElementsAre`. Both are recursive functions, and their values are derived by the least
  position at which they would be wrong (`Least`).
- `ArraysAreOrderedMaps`: `Spec => IsOrderedMap`, the refinement of `OrderedMap`. Promotion,
  rehash and growth show the same map (`RehashSound`, `PromoteSound`, `EnsureIs`); an
  insertion appends (`InsertSound`), an overwrite replaces in place (`OverwriteSound`), a
  removal relinks one chain and closes the gap (`RemovalSound`). At the largest integer a
  push overwrites the element there, which is the abstract `Set`, not `Push`.

### Subscripts

`KeysAreDecimal` of `ArrayProofs` is `TextSpec => []IntegersOnly`: `parse_integer_string` takes a
subscript of any characters and length for an integer exactly when it is the decimal notation of
one that fits, for every width of integers; minus zero is the exception (section 5). The proof is
an induction over the digit loop (`LoopReads`): a prefix that was read is the decimal notation of
its value, and the test before each digit fails exactly when the next value does not fit.

### Sorting

`SortKeepsOrder` of `ArrayProofs` is `SortSpec => SortsStably`, for arrays of any length, any
integers as ranks and whatever a `usort` callback answers or throws (`SortConstants`).
The invariant `SortInv`: with the entry in hand put into the slot that waits for it, each
entry is in one slot (`Arranged`) and owned twice, by array and slot; between insertions the
slots before `outer` are in order; during one, the slot that waits divides them into two parts
in order, the second of which is greater than the entry. `StepsLeft` falls with each step.

### The heap

`HeapProofs` (`HeapAssumption`: finitely many cells and variables, at least one slot, counts
that stick above one): `HeapStaysSound` is `Disciplined /\ Spec => []HeapSound`, for every
number of cells, variables, slots, candidates and destructor statements. `Disciplined` says

- `~TouchesStale`, `~Resurrects`: destructors do not use a holder that is being overwritten
  and do not store their `$this`. Without either the code frees a cell in use (section 5);
- `~WalksSwept`: a collection started inside a destructor does not meet a cell whose slots
  are being released. TLC checks `HeapSound` without this restriction on the instances of
  `MCHeap`; from four cells on it is needed (section 5);
- `BufferMax * NSlots < RcMax`: the slots of the nodes of one collection cannot hold as many
  references as a count can. With 256 nodes and counts of 16 bits that is up to 255 slots a
  cell; beyond, a cell whose count is stuck could look unreferenced.

`HeapSound` is not inductive: what a step does depends on where the C code is in the
destructions and stores it interrupts. `HeapInv` describes that stack of work items:

- `DyingAlone`: the cell of a destructor, of the guard behind it or of a sweep has no other
  reference, and the collector does not know it; `SweptAlone`: a cell being swept has none
  at all; `UnguardedAtOnce`: the guard reference is only ever under the release of the
  destructor's callable;
- `StoresWait`: under a store that overwrites holder `h` the item on top releases or destroys
  exactly what `h` still names; the store owns its object and its value, and no other store
  waits for the same holder;
- `CollectedApart`: only cells that the collector takes apart name those that it takes apart,
  and it holds one reference to each; `FreeAreBlank`: a free block names nothing.

Counts are sizes of sets: `Owners(c)` is the number of holders that own a reference to `c`
and of the references that work items will give up, so each step shows which holder or work
item lets go and which one takes over (`GivesUp`, `Takes`, `FramesJoin`). `StepKeeps` states
once what any step must show of the items it puts on the stack and of those below; the steps
are its instances. For the collection, the nodes are a recursive function over its two loops
(`NodesAre`), and `NoExternalRef` is the core: a node whose count is used up by slots of nodes
is owned by nobody else, because a dying node has the two references of its destructor and at
most one stale holder names it.

### The event ring

`VmProofs` (`EventsAssumption`: at least two slots): `EventQueueCorrect` is
`Spec => QueueIsFifo`. Whatever the stack of VMs does, a push and a pop are the steps of
`EventFifo`, and an event is dropped only at a full ring. The invariant `QueueTyped` keeps
both indices inside the ring; the proof is the arithmetic of a difference modulo its size.

### Members of objects and classes

`VmProofs`, for every class hierarchy (`HierarchiesAssumption`: finitely many classes, parents
are declared, a class owns its members and has no two properties of one name, which
`pclass_add_property` refuses), any number of objects and frames, and programs that try
everything:

- `MembersStayGuarded`: `AccessSpec => MembersGuarded`, the action property that a private
  property, static or not, changes only while code of its class runs and a readonly one not
  after it was written, in the object or in a clone;
- `ObjectsStaySound`: `AccessSpec => [](SlotsMatchClass /\ NothingUninitialized)`.

They rest on `AccessInv`: each object has the slots of a class of the table, those marked as
written hold what was stored and the others their default; each frame runs code of a class of
the table, on an object that exists. Lookup needs that the walk up to the root ends, and finds
the nearest owner (`AncestorsDeclared`, `NearestIs`, by least counterexample). That every answer
is PHP's (`AnswersAsPhp`) is not true of every hierarchy (section 5) and stays with TLC.

### Includes

`StateProofs`: `IncludedOnce` is `Spec => []OnceRunsOnce`, for any number of files,
VMs and tables. A file that was completed, or is being run, under `include_once` is not
entered again. The property alone is not inductive: `OnceInv` adds the shape of the stack of
VMs (only the bottom one is not nested, and a closed state has nothing on top) and that the
files being run once are marked, incomplete and different (`Marked`).

### Declarations

`DeclarationsAreFound` of `StateProofs` is `MaxDepth <= 2 => (Spec => []DefinitionsFound)`: for any
classes, functions, files and chunks, any first capacities, any number of VMs one after the
other, and includes, callbacks and destructors of every kind, running code looks into tables
that are alive and finds exactly what was declared and not rolled back. `MaxDepth <= 2` says
that one VM at most is nested in the root. It excludes the differences of section 5: further
down the code itself loses tables.

The invariant `DefInv` says of the heap that the running VM's classes and the root's modules are
live blocks, which a moved table cannot share (`Tables`, `Apart`); of what is seen through
them (`View`), that it is what PHP says is declared (`KnownAt`); and of every checkpoint, that
it is a part of the view that holds what was declared then (`Point`). A callback's own list
shows the functions of the root's list and of the module the root executes (`Borrowed`).
`GrowIs` says what growing a table does to every other table, `ThoseAre` what compacting one
keeps: its loop is a recursive function, and a least number of turns after which the result
would be wrong is refuted. A step that only declares more keeps all checkpoints
(`SeenGrows`, `ExtendedKeeps`); a rollback returns to one and keeps the earlier ones
(`CutBack`).

`ModulesAreOwned` is `MaxDepth <= 2 => (Spec => []ModulesOwned)`: the count of each module is the
number of its owners, a module whose code runs is not destroyed, and, without destructors that
declare classes, none is left behind by a rollback, a cleared chunk or `pphp_close`. `OwnInv` adds
to `DefInv` an account of every reference: a module has one for each place in the list of
modules, for each function and each existing class of it, for the running chunk and for a called
module (`Balanced`). `Holding` and `Placed` say whose modules these are, `Fresh` that a class
that is gone was not declared by running code, `Unleaked` that without destructors the classes
that exist are those in the root's table.

### The end of a state

`StatesEndOrderly` of `StateProofs` is `SurvivorsNameNoOthers => (ShutdownSpec => EndsOrderly)`,
for any number of classes, variables and objects (`ShutdownAssumption`) and destructors that
drop, store and create objects at every point. `SurvivorsNameNoOthers` restricts the program,
not the code: what globals hold needs only the classes its own class extends (section 5). The
instance of `MCState` satisfies it. The invariant has one part per reason:

- `ObjectsSound`: what a variable, a static property or the walk holds is in the list, and what
  has left the list has had its destructor;
- `TableSound`: the table keeps what its classes extend and name, and the class of every object
  with a destructor to come; `Quiet`: only walks hold objects;
- `Clearing`: until a walk runs a destructor, what is marked is held by what is marked, with all
  its class extends, so that the classes released after a round without destructors are needed
  by none to come. That the marking is complete is proved by counting: a round that adds nothing
  is the last, and there are no more rounds than objects and classes;
- `ClosingInv`: behind the walk of `pphp_close` every object it found has had its destructor;
  it is then released by the variables, the static properties or the collector.

### Interned names

`SymbolProofs` holds for any names and hash function, any capacities, any number of VMs, nested
in any way, and allocations that may fail at every point (`SymbolsAssumption`).

- `NamesFoundOnce`: `SymbolSpec => [](InternedOnce /\ NothingLeft)`. Whatever nested VMs intern, a
  VM whose table was not freed finds every name any of them interned, in one slot, and destroying
  the table leaves no block.
- `NamesStayKept`: `FewNested => (SymbolSpec => []NamesKept)`. The loop of `find_slot` ends as
  well, if nested VMs intern at most as many names as a quarter of a new table's slots
  (`FewNested`: 16 names for the 64 slots of the code). They may be any names, and the VMs any
  number. With more, the caller, who does not count them, may find the table full (section 5).
- `SmallProgramsKeepNames`: `FewNames => (SymbolSpec => [](NamesKept /\ NoneStale))`. With at most
  46 names (`FewNames`) the table is never moved, so no VM is left with a freed one.

In the first two, a VM whose table was freed by a nested one interns no more: what the code does
there is undefined (`MayIntern`, section 5).

`SymbolInv` says that there is one live block (`BlockIn`), and of each VM on the stack that it
knows this block or a freed one (`Knows`). In the first case it counts no more names than there
are, and at least those that only the task's own VM interns. Of the live block:

- `SoundTable`: each name sits in one slot, and its probe passes occupied slots of other names
  only before it comes to that slot (`Reaches`);
- the names in the slots are the names interned. With `FewNested` the count that a VM knows falls
  short by at most a quarter of the slots, which the load factor of three quarters leaves free, so
  that a free slot ends every probe (`RoomStops`: linear probing visits every slot).

`EnteredIs` keeps this when a name enters the slot that `find_slot` returns, and `RehashedIs`
when the table is rehashed: the loop is a recursive function, and a least slot after which the
new block would not be sound is refuted. `AccessIs` joins them for one call of
`psymbol_intern`.

### The shell

`DeviceProofs` holds for every tree of files, flash size, chunk size, set of commands
and uploads, and number of power cuts (`DeviceShellAssumption`: finitely many paths, each
entry of the initial flash lies in a directory, `mv` is not asked to move a directory into
itself).

- `CommandsKeepOthers`: `Spec => []OthersIntact`. Only the target of a command changes before
  its answer, through time-outs, a full flash and power cuts. `ShellInv` says which command
  the job at hand belongs to (`JobFits`), that the stack of `remove_tree` goes down from its
  target, and that every path of the flash lies in a directory.
- `CommandsDoWhatTheyAnswer`: `Spec => []AnsweredMeansDone /\ FailuresLeavePart`. Whatever the
  host sends, a command that answers success has its whole effect. One that answers an error may
  have begun: it leaves everything as it was, or a strict prefix of a copy, an upload of fewer
  bytes than announced, an empty file (`echo`), a tree of which some is removed (`LeavesPart`).
- `AnswersTrue`: `~Overlaps /\ Spec => AnswersAreTrue`. The host also believes only what
  happened, if it waits for the answer to an upload before it begins the next; with
  `Overlaps` it may take one answer for another. The one exception is in `HostIsRight`: after
  a failed upload the console echoes the rest of the payload, and a payload that says OK itself
  (`SaysOK`) makes the host believe a file that is cut off (section 5). For all other payloads
  the proof shows that no echo is an answer.

### Files

`DeviceProofs`: `StreamsAsPhp` is `Agreeing /\ StreamsSpec => []FilesAsPhp`. `Agreeing` leaves out
the three known differences of `fgets` (section 5). For files of every length and content,
and every sequence of calls, the results are PHP's and so is the file. The invariant relates
the handle's copy, the flash and PHP's file: a handle that wrote nothing has what the flash
holds, and a handle that appends extends it.

### The console

`ConsoleEdits` of `DeviceProofs` is `EditorSpec => IsTextEditor /\ [](BufferIsString /\
HistoryIsRecent)`, for every size of the line buffer and the history and every set of characters
(`EditorAssumption`): the escape sequences, erasures and recalls of the console edit a text, the
buffer ends in a zero byte and the history is the most recent lines. `ConsoleEditsText` is
`DEL \notin EraseKeys => (EditorSpec => EditsText)`: with that, the row of the terminal shows the
text. The premise is needed because a DEL that is not an erase key enters the line and shows
nothing (section 5). The invariant has three parts:

- `LineInv`: length, cursor and terminator of the buffer;
- `HistoryInv`: an account of what each entered line left behind, of which the history is the
  recent part;
- `ScreenInv`: each cell of the row shows the line or a blank. The bytes of a redraw are
  backspaces, a text and backspaces, and `Draws`, `Over` and `Follows` say where they leave the
  cursor.

### What is not proved

Only model-checked: `NestedSound`, the declarations of classes, what member
accesses answer, compiled programs, array instructions and `FunctionsAsPhp`. In other modules than the arrays, integers, files and the console, what the
code computes for every input (the code generator, the parser, the verifier, the conversions
between strings and numbers) is written with `RECURSIVE` operators, which the prover cannot take
in. Liveness (`WorkDone`, `LostCyclesFound`, `CtrlCStopsTask`, `EventsAreDispatched`,
`ProgramsFinish`, `ShellUsable`) rests on fairness, which it cannot use either.

## 5. Findings and known differences

Two violation runs show what the code does against its own documentation:

- `heap_touches_stale`: `src/parray.c:278` (and `OP_PROP_SET`) release the old value of a
  holder before they overwrite the holder. A `__destruct` that runs inside that release and
  assigns to the same variable releases the old value a second time.
- `compiled_catch_in_loop`: `src/vm.c:645`, `throw_exception()` cuts the operand stack down to
  the locals of the frame, where `foreach` keeps its iterator and `switch` its subject: the
  loop around a `catch` ends with an error.

The other differences met while modelling are excluded from the passing runs by a constant,
by the choice of programs, or by a named exception in the property. Where it is a constant,
giving it the other value makes TLC show the difference.

| Where | Difference | Excluded by |
|---|---|---|
| `src/pclass.c:864` | the count after `__destruct` is forced to zero: a destructor that stores `$this` leaves a dangling reference | `Heap`: `Resurrects` |
| `src/parray.c:278, src/gc.c:44` | the collector follows a holder whose old value is being released (the first finding) into a half-released cell and takes it apart again; needs four cells, a shared child and a second destructor | `Heap`: `WalksSwept`; out of the reach of the instances of `MCHeap` |
| `src/vm.c:3423` | nested VMs never see a new tick: a loop in a callback, destructor or included file cannot be interrupted | `VmEvents`: `CallbacksReturn` |
| `src/vm.c:3440` | a Ctrl-C that a nested VM reads can be caught as an Error, and a destructor drops it | `VmEvents`: `Swallows` |
| `pgems/pgems.c:811` | the poll reads `gc_next` of an object its callback may have freed | `VmEvents`: `DropsInCallbacks` |
| `compiler/codegen.c:979` | a `finally` inlined before a jump lies in the range of its own handler: its effects happen twice when it throws | `Codegen`: `FinallyThrows` |
| `compiler/codegen.c:2536` | `break` in a `finally` entered by an exception pops an iterator that is gone | `Codegen`: `FinallyJumps` |
| `src/parray.c:58` | "-0" becomes the integer key 0; PHP keeps it as text | exception in `IntegersOnly` |
| `src/parray.c:318` | the largest integer key does not move the next index: pushes go behind another key or overwrite, where PHP refuses them; negative keys do not count for the next index (PHP 8.3) | `OrderedMap` states the rule of the code; `ArrayFunctions`: no `Push` there, and `NextAsPhp` asks for PHP's index only while PHP has one |
| `src/parray.c:129` | removed entries are never reused: 32768 pushes and removals exhaust an array | every allocation may fail in `OrderedMap` |
| `compiler/codegen.c:1230, 1409` | containers of nested elements, and the old value of a compound assignment, are read before the right-hand side | programs of `MCArrayVm`: right-hand sides assign to other names |
| `compiler/codegen.c:2290` | the array of `array_push()` is separated before the other arguments are evaluated | programs of `MCArrayVm` |
| `src/vm.c:464` | `unset($a[5][1])` without `$a[5]` is an Error; PHP does nothing | programs of `MCArrayVm` |
| `src/state.c:589, src/vm.c:3424` | an included file does not see the classes of an including file that is itself included, nor the functions of files it includes | `Definitions`: `MaxDepth`; four deep only `NestedSound` is checked |
| `src/vm.c:3450, src/state.c:361` | two VMs deep a class table that moved, or was rolled back, leaves the VM in the middle with the old one | `Definitions`: `MaxDepth` |
| `src/state.c:346` | a class that a destructor declares during a rollback is never released | `NothingLeaks` is checked without `"destructor"` in `Kinds` |
| `src/symbol.c:42, 105` | names interned by nested VMs fill the shared table behind the caller's back: beyond a quarter of its slots a lookup may never end; when a nested VM grows the table, its caller keeps the freed one | `Symbols`: `NestedNames`, `MayIntern` |
| `src/alloc.c:185, 188` | `align_up` wraps for the sizes UINT32_MAX-14 to UINT32_MAX-8 on 32-bit targets: a small block is returned. No caller asks for them | `PoolAlloc`: `RequestsAssumption` |
| `compiler/codegen.c:33, 2531` | the limit of 256 jumps out of a loop is tested before inlined `finally` blocks add theirs, and jumps already patched stay in the list | programs of `MCCompiledVm` stay below |
| `src/state.c:149` | destructors of objects that destructors create at the end run between globals already released | exception in `DestructorsSeeGlobals` and `NothingRemains`: objects beyond `made` |
| `src/state.c:941` | the classes that methods of surviving objects name are released with the chunk | `Shutdown`: `SurvivorsNameNoOthers` |
| `src/vm.c:2689` | a class that failed to build blocks every later declaration | scripts of `MCObjects`: errors are caught before a class is begun or after it is registered |
| `src/pclass.c:628, 479` | a subclass cannot redeclare a property; parameters behind a variadic one are not compared | scripts of `MCObjects` |
| `src/pclass.c:197, src/vm.c:2513` | constants of interfaces are not inherited; a class may extend an interface | not stated |
| `src/vm.c:1519, 1690, 1691, 1694, 3343, src/pclass.c:784, 811` | private methods can be replaced, abstract static ones called, `parent::` forgets the called class, a foreign method gets `$this`, private `__clone` runs, `__clone` cannot write readonly properties, protected overrides are hidden from siblings | hierarchies of `MCObjects` |
| `src/value_ops.c:1531, 1525, 1551` | `===` of numeric strings; null with a string; a number with a string that is none | exceptions in `IdenticalValues`, `CompareAsPhp` |
| `src/value_ops.c:797, 1081` | shifts by a negative distance or the width and more; powers of strings such as "3e" | exceptions in `ArithmeticAsPhp` |
| `src/value_ops.c:1231, 1245` | `+` of two arrays is an Error (PHP joins them); `&`, `\|` and `^` of two strings work on the numbers they spell (PHP: byte by byte) | `NotOnNumbers` in `ArithmeticAsPhp` |
| `compiler/parser.c:28, 883` | `!$a instanceof B` negates `$a`; comparisons chain | `KnownDifference`; acceptance is compared one way |
| `stdlib/arrays.c:981` | a comparison that fails after a shift (a `usort` callback that throws, values that cannot be compared) leaves one value released twice | `OwnedOnce`: `current = Nobody` |
| `stdlib/arrays.c:716, 167` | `array_pop` recomputes the next index; `array_slice` allocates for the length asked for | `ArrayFunctions`: `AnyPop`; `Memory` exceeds every length asked for |
| `stdlib/files.c:315, 296, 328` | `fgets` reads one byte more than PHP, stops at 256 bytes, and loses what follows a zero byte | `Streams`: `Limits`, `DefaultLimit`, `FileBytes` |
| `shell/p2sh_device.c:384` | after a time-out the rest of an upload is typed at the prompt | `PayloadNeverRuns` is checked with `Patient = TRUE` |
| `tools/p2upload.py:42` | an answer is taken for that of a later upload | `DeviceShell`: `Overlaps` |
| `ports/rp2040/main.c:207, 247, tools/p2upload.py:42` | after a failed upload the console echoes the rest of the payload; a line of it that ends in OK is taken for the answer, and a file that is cut off is reported as uploaded | exception in `HostIsRight`: `SaysOK(payload)`. `MCPayloads` has such a payload |
| `ports/rp2040/main.c:230` | Backspace (127) at the beginning of a line inserts a DEL | `LineEditor`: `EraseKeys` |

## 6. Plan

Next, in this order:

1. Statements in the parser and the lexer's modes (inline HTML, heredocs).
2. Closures: captures, bound scope, and the module references that keep their code alive.
3. `json_decode` and `sprintf`, the two text functions with nesting or state of their own.

## 7. Not modelled

- String, JSON, formatting, mathematics and time functions: text and numbers in, text and
  numbers out, without state or control that another part depends on.
- The lexer and the grammar of statements, string interpolation, closures and `match` in the
  compiler; calls with argument arrays, dynamic names and argument type checks in the VM.
- The debug checker `rc_debug.c` (`RefCountExact` is its statement), the embedding API
  (wrappers), the host's shell and command line.
- Register access of the peripherals; littlefs, the Pico SDK and libc (external).
- The C stack: recursion of the parser, of destroy functions and of nested VMs is unbounded
  in the models where the code has no counter.
