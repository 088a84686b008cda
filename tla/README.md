# A verification development of cfunge

cfunge (`src/`) is an interpreter of Befunge-93, -98 and -109 in C. This
directory holds TLA+ modules of its core, TLC configurations that model-check
them on small instances, and proofs, checked by the TLA+ proof system, of what
matters most for instances of every size.

The reference is the code under `src/`, in its default configuration: concurrent
Funge (`CONCURRENT_FUNGE`), pointers in the IP list (`LARGE_IPLIST`), exact
bounds (`CFUN_EXACT_BOUNDS`) and cells of 64 bits.

## 1. The system

A program is a plane of cells, *funge-space*, in which any number of instruction
pointers (IPs) travel along straight lines and execute what they come across.
The program reads and writes the plane it consists of.

| component | code | state | operations |
|---|---|---|---|
| funge-space storage | `src/funge-space/funge-space.c` | static array, hash table, counts of used cells per column and row, bounds, `boundsexact` | get, set, set while loading, rectangle, shrinking the bounds, load and save |
| wrapping | the same, `src/ip.h` | an IP's position and delta | `ip_forward`, `ip_backward`, `fungespace_wrap` |
| IP list | `src/ip.c` | array of IPs, `top`, `size` | duplicate (`t`), terminate (`@`) |
| main loop | `src/interpreter.c` | the index it is at, `needMove` of the IPs | one instruction of one IP, then the next IP |
| `k` | `src/instructions/iterate.c` | activations on the C stack | executes another instruction many times, perhaps another `k` |
| stacks | `src/stack.c` | per IP a stack of arrays | push, pop, strings, `{` `}` `u`, copy, free |
| `y` `i` `o` `=` | `src/instructions/` | a cached answer (`y`) | system information, files, `system()` |
| input | `src/input.c` | one line and a pointer into it | `&` `~` |
| fingerprint manager | `src/fingerprints/manager.c`, `FING` | per IP and letter a stack of functions | load, unload, call, swap, push, pop, copy |
| handle fingerprints | `FILE`, `SOCK`, `SCKE` | tables of handles shared by all IPs | open, close, read, write, seek, connect |
| other fingerprints | `REFC`, `TURT`; `SUBR`, `STRN`, `TOYS`, `DATE` | an array of references, a drawing; the IP's own | up to 26 letters each |
| libraries | `lib/` | hash tables, memory pools, string buffers | |

How they interact. The main loop walks the IP list from its top downwards and
reads the cell each IP is on. The instruction it finds gets a pointer to the IP
*and to the main loop's index*, because `t` inserts into the list and `@`
removes from it while the loop is in it, and `k` calls the main loop's
`execute_instruction` again. Instructions push and pop on the IP's top stack,
and read and write funge-space, whose bounds decide where IPs wrap. `y` reports
the bounds, which makes them exact first. `t` copies an IP with its stacks and its
semantics, `@` frees them.

There is one thread, nothing is persisted but the files a program writes, and
nothing is sent. What makes the code hard is therefore not the machine's
concurrency but the program's: a list that changes under the loop that walks it,
pointers and indices that are kept over such a change, values computed
incrementally and lazily (counts, bounds), arithmetic on signed coordinates, and
arrays whose growth is decided in a dozen places. `PROJECT.json` lists these
hazards one by one, at the line where they bite.

What makes each component correct:

* **storage** - a write stores its value at its position and nowhere else; the counts are the numbers
  of used cells; the bounds never leave a used cell out; bounds marked exact are.
* **wrapping** - the cells of a line are visited in order, none is skipped, and an
  IP outside of the bounds comes back.
* **IP list and main loop** - the used slots hold distinct live IPs; each IP gets
  one turn in a tick, children from the next tick on; the order of execution is
  kept; an IP's death affects no other but the one right below, which may lose a turn;
  every IP runs again and again.
* **k** - kills only its own IP, and leaves the loop with an IP to go on with.
* **stacks** - behave as unbounded sequences over zeros, whatever the capacities;
  every stack has one owner.
* **files** - characters land where their line and column put them, and what was
  saved comes back.
* **input** - one stream with one position, however characters, lines and numbers
  are mixed.
* **manager** - a letter does what was loaded last; unloading undoes loading; running
  out of memory leaves what was there.
* **handles** - every open stream or socket has its handle, whatever failed.
* **y** - one cell is the one that asking for all would have put there.
* **strings, areas, dates, drawing** - what is taken apart fits together again, and
  what was written is found.

## 2. The modules

| module | what it models | lines |
|---|---|---|
| `CellMap` | abstract: a plane of cells and a rectangle around the used ones | external behaviour of `funge-space.h` |
| `FungeSpace` | the storage, implements `CellMap` | `funge-space.c` 63-643, 708-716 |
| `Wrap` | movement on a line and wrapping | `funge-space.c` 651-743, `ip.h` 109-170 |
| `Scheduler` | main loop, IP list, control flow of `k` | `interpreter.c` 523-657, `ip.c` 163-355, `iterate.c` |
| `Dictionary` | abstract: pairs in the order of insertion, and an iteration | the interface of `ght_hash_table_priv.h` |
| `MemPool` | the blocks the entries of tables live in | `cfunge_mempool_priv.h` |
| `HashTable` | the tables, implements `Dictionary` on `MemPool` | `hash_table_priv.h` |
| `Stacks` | abstract: a sequence of sequences per IP | external behaviour of `stack.h` |
| `StackStack` | arrays, capacities, pointers, implements `Stacks` | `stack.c`, `FRTH.c` |
| `Vectors`, `Lines` | vectors; wrapping as an operator of the bounds | `funge-space.c` 446-471, 651-743 |
| `Operands`, `Machine` | the stack of one IP as a sequence; the record an instruction works on | `stack.c` 132-302, `funge-space.c`, `ip.h` |
| `Interpreter` | what one IP executes: strings, spaces, comments, `k`, SUBR, arithmetic, cells | `interpreter.c` 79-570, `iterate.c` 60-236, `SUBR.c` |
| `SystemInfo` | `y`, with its cache and pick | `sysinfo.c`, `safe_env.c` |
| `Calendar`, `Strings`, `Toys`, `Turtle` | DATE, STRN, TOYS, TURT | the files of these names |
| `Files` | loading, `i` and `o` | `funge-space.c` 745-1080, `io.c` |
| `Characters` | the constants `Files` and `Input` share | |
| `InputStream` | abstract: a stream and a position | the interface of `input.h` |
| `Input` | the line buffer, implements `InputStream` | `input.c`, `support.c` |
| `Semantics` | abstract: a sequence of semantics per IP and letter | `manager.h`, `FING.spec` |
| `Fingerprints` | which letters every fingerprint loads, and which its table lists | the loaders, `fingerprints.h` |
| `Manager` | arrays of functions, `(` `)`, FING; implements `Semantics` | `manager.c`, `FING.c` |
| `HandleTable`, `FileHandles`, `Sockets` | the tables of handles, FILE, SOCK with SCKE | the files of these names |
| `References` | REFC | `REFC.c` |
| `FungeSpaceProofs`, `HashTableProofs`, `InstructionProofs` (of `Wrap`, `Calendar` and `SystemInfo`), `ReaderProofs`, `ExecutionProofs` (of `Scheduler` and `Toys`), `StackStackProofs`, `FingerprintProofs` | theorems, see section 5 | |
| `CommonLemmas` | lemmas several of them rest on: least numbers, texts joined | |
| `MCFungeSpace`, `MCHashTable`, `MCStackStack`, `MCWrap`, `MCReaders`, `MCFingerprints`, `MCInstructions` | the instances TLC checks | |

`Wrap` EXTENDS `Lines` (with one IP that moves), and `Machine` instantiates `Lines`
with the bounds in its record. `Interpreter`, `Strings` and `Toys` EXTEND `Machine`.
`MCFungeSpace` (with `y`) and the last three MC modules put components beside each other
that share no state: a behaviour takes one of them (`uses`) and leaves the others at their start, so one run
explores the sum of their states and not the product.

`PROJECT.json` maps every definition to its lines.

### FungeSpace

`static` and `entries` are `cfun_static_space` and `fspace.entries`. The static array is
flat, as in the code: `Index` is the offset `STATIC_COORD` computes, and
`FUNGESPACE_RANGE_CHECK` compares the coordinates as unsigned numbers (`Unsigned`, modulo
`Modulus`), so that a check or an offset that is wrong makes two cells share a place. `cols` and `rows` are the two
pairs of array and hash table with the counts. `tl`, `br`, `boundsexact` and
`boundsvalid` are the fields of `fspace`.

| action | code |
|---|---|
| `SetInitial`, `Loaded` | `fungespace_set_initial` while the program file is read, in the order of the file; its end |
| `Set` | `fungespace_set` and `fungespace_set_offset`: grow the bounds, store, count |
| `GetBoundsRect` | `fungespace_get_bounds_rect`: shrink the bounds if they are not exact, report them |
| `WrapMinimize` | what `fungespace_wrap` changes: it shrinks the bounds when they are far apart |

`Store` and `CountCell` translate `fungespace_set_no_bounds_update` and
`fungespace_count`; `SparseScan` and `InwardScan` are the two loops of
`fungespace_minimize_bounds`, given by their result. Two history variables tie the
storage to what it was asked for: `written` is the value and the position of the last call
that writes, and `CellMap` demands that this cell, and no other, reads as that value from then
on; `rect` is the rectangle that was handed out since the last write, and `CellMap` demands
that it holds every used cell.

After the load, `GetBoundsRect` and `WrapMinimize` need a used cell: the instruction
that asks for the bounds is one. When a program has erased its last cell the
interpreter goes on over spaces for ever, which is left out here.

### MemPool and HashTable

`mem` maps the number of every block a pool handed out to what it holds: an entry
with its four pointers, or, once freed, the link to the next free block, which the
union in `memory_block` puts over the entry's data. `ht` is the table: the heads of
the chains, their lengths, the ends of the list by age, the counter.

| action | code |
|---|---|
| `InsertPresent`, `InsertNew`, `Link` | `insert`: a known key; the new entry, with the decision to rehash; linking it |
| `Copy`, `FreeChain`, `Swap` | `rehash`: one entry copied into `p_tmp`, one chain freed, the tables exchanged and the bucket computed again |
| `Get`, `Replace`, `RemoveKey` | the calls of that name (`remove`) |
| `First`, `NextPair` | one step of the caller's loop |

A call that loops is one action per turn of the loop, so the invariants hold in the
middle of a rehash as well. Callers are arbitrary within what the header asks of
them: an iteration removes nothing it has not yielded yet. cfunge itself changes
nothing at all while it iterates (`largemodel_minimise`, `fungespace_dump_sparse`).
`replace` answers -1 for an unknown key, and `remove` 0: the header speaks of NULL,
and both could as well be data. No caller looks at either.
The transposition heuristics are compiled out (`GHT_HEURISTICS` is `NONE`).

### Wrap

One IP, fixed bounds. `Move` is `ip_forward`; `FetchChar` (`'` and `#`), `Begin`
(`{`, which looks at the next position for the storage offset), `Corner` and
`CanOpener` (L and R of TOYS) and `Jump` are the instructions that move along a
line or look beside it; `Turn` stands for all that only change the delta. `Lines`
holds the arithmetic; C's truncating division is `Quotient`. Cells do not overflow in
this model: the bounds are far from the ends of 64 bits.

### Scheduler

`slots`, `size` and `top` are the fields of `ipList`; a slot holds an
IP, or `NULL` where `iplist_terminate_ip` cleared it, or `JUNK` where realloc
left it. An IP is named by its memory, which the pool hands out again after its death
(`Child`, any name in `Unused`), so births and deaths go on without end; a name is not used
again in the tick its IP died in, since the history variables go by names. The number `y` reports,
which counts births (`highestID`), is left out: nothing here depends on it. `i` is the variable
of `interpreter_main_loop` that instructions get a pointer to. `frames` holds the activations
of `run_iterate_implement`, each with what it keeps in local variables: how often it has still
to execute its instruction, the IP it works for, and the index it found that IP at.
`executing`, `present` and `ran` are history variables for the properties.

The program is arbitrary: an IP can find any instruction under it.

| action | code |
|---|---|
| `Plain` | any instruction that takes a tick and leaves the list alone |
| `Free` | the ones that take none: spaces, `;;`, further spaces in a string |
| `Split`, `Quit`, `QuitLast` | `t`, and `@` with and without other IPs |
| `SplitOutOfMemory` | the exits in `iplist_duplicate_ip` |
| `Iterate`, `IteratePlain`, `IterateSplit`, `IterateQuit`, `IterateQuitLast`, `IterateNested`, `IterateReturn` | `k`, one action per instruction it executes |
| `Forward` | `thread_forward` and the step of the loop to the next IP |

`t` with a list that cannot be extended reflects and changes nothing here.
`crashed` is the state after `k` dereferenced a slot that holds no IP.

### Stacks and StackStack

`heap` maps addresses to `funge_stack` records, whose `entries` is an array of
`size` items of which the first `top` are in use; the others hold old values or
`JUNK`. `stackstack` and `stack` are the fields of the IP. Operators have the names
of the C functions; the instructions are the actions in `Step`. `Begin` may find no
memory (`BeginOutOfMemory`): only the count is gone then.
The refinement mapping takes the first `top` items of every array. Null pointers are
address 0; `Nothing` is what is at a free address, and the stack-stack of no IP.

### Machine and Interpreter

A machine is a record of one IP and its funge-space; every instruction is an operator
from a machine to the machine after it, so that `k` can execute it again. The bounds
grow with what is written, and `Bounded` lets `fungespace_get_bounds_rect` shrink them
or not, since exactness depends on what happened before. `Interpreter` runs one IP on a
line: `Skip` are the instructions without a tick (spaces, `;;`), `ReadString` a
character of a string, `Iterate` a `k`, `Execute` the rest. `spins` is the state in which a
loop of the code finds nothing to end it, `beyond` one that left the program's line.

### SystemInfo, Calendar, Strings, Toys, Turtle

`SystemInfo`: `run_sys_info_all`, `run_sys_info_one`, and between two `y`s pushes and
new stacks. `CacheStack` is `create_cache_stack` with the environment filter.
`Calendar`, `Strings` and `Toys` have one action per letter; the sequences of letters
come from `Next`. The loops of `Toys` are one operator, `Loop`, over the sequence of what the code runs
over (`LowOrder`, `HighOrder`, `FarFirst`), so that its copying order is there to be reasoned about. In `Turtle` the list of the code is `path`, whose elements are shown
by `generate_paths` as the file shows them; `strokes` and `touched` are history: what
the turtle was told to draw.

### Files

One action per character read, for each of the two loaders (`InitialChar` for the
program, `OffsetChar` for `i`) and for binary files: what a carriage return
means depends on what follows. `Output` builds the bytes `o` writes.

### Input and InputStream

`lastline`, `linesize` and `lastline_current` as in `input.c`; `BufferSizes` are what the
loop of `cf_getdelim` grows the buffer through. A number is looked for
with one step per line (`Answer`), so that the abstract stream sees the lines that are
skipped.

### Fingerprints, Manager, Semantics

`Fingerprints` has for each fingerprint the letters its loader pushes (`load_X`) and
the string of the table (`ImplementedFingerprints`), two lists from two sources.
`fingerOpcodes` is one record per letter: an array, its size and its top, which
loading, FING and `opcode_stack_duplicate` grow, each of which may find no memory.

### FileHandles, Sockets, References

Tables grow by chunks and reuse the lowest free index (`HandleTable`). The streams
of stdio and the descriptors of the kernel are external: a stream is a text and a position,
the kernel gives out the lowest free descriptor, and every call may fail.

## 3. What is checked

| run | bounds | properties |
|---|---|---|
| `funge_space` | 2 columns, 3 rows, 2 characters; a static array of 2x3; `SIMPLEBOUNDS_MAX` 1, unsigned numbers below 16; `y` see below | `TypeOK`, `CountsMatch`, `BoundsCover`, `ExactBoundsTightOrAtOrigin`, `ImplementsCellMap`; for `y`, `OneOfAll` |
| `scheduler` | 4 IPs alive or dead in this tick, counts to 2, one `k` under another, list grows by 2 | `TypeOK`, `SlotsDistinct`, `TurnOrder`, `TurnsLost`, `OrderKept` |
| `scheduler_flat` | 4 IPs alive or dead in this tick, births and deaths without end, no nested `k`, fairness | `OthersUnaffected`, `EveryIPRuns` |
| `stacks` | two IPs, 2 stacks each, 3 addresses, 3 items | `NoJunk`, `Ownership`, `ImplementsStacks` |
| `hash_table` | 4 keys of 2 hash values, 2 data, 1 bucket at first, pools of 2 blocks, 5 inserts | `WellLinked`, `OneOwner`, `ImplementsDictionary` |
| `wrap_flying` | bounds to 4x2, deltas to 2, starts around them | `LineInOrder`, `ComesBack`, `LookComesBack` |
| `readers` | every file and every input of up to 4 characters | `LoadedAsWritten`, `SavedComesBack`, `BufferSound`, `ImplementsStream`, `AnswerComes` |
| `fingerprints` | every fingerprint above TOYS; FING, BOOL and 2 IPs with 4 calls; handles with 4 to 5 calls | `ImplementsSemantics`, `UnloadUndoesLoad`, `StreamsHeld`, `LinesWhole`, `SocketsHeld`, `ReferencesKept` |
| `instructions` | lines of 4 cells over 7 characters, 3 instructions before any cell and one of the 7; see below | `SkipsAgree`, `StringsRead`, `ReturnUndoesCall`, `CalendarSound`, `StringsComeBack`, `AreasArrive`, `DrawingShowsStrokes` |

Three more runs end with a counterexample: `scheduler_kk_crash`, `null_fingerprint` and
`sysinfo_pick` (section 6).

What they say, and why the bounds are enough:

* **funge_space.** The columns are the first of the static array and the first right of it,
  the rows the last above it and two through it: they lie at the edges where the range check
  is tight. Their distance exceeds `SIMPLEBOUNDS_MAX`, so both kinds of storage, of counts and of
  scans occur, alone and mixed. Were the check late by one column, the cell right of
  the array would share its place with the first of the next row, and a write would show
  in both: the mutant of `ImplementsCellMap`. The storage implements
  the plane of cells: in any sequence of writes, overwrites, erasures and shrinkings
  each write stores its value at its position, no other read changes, and no reported rectangle
  is too small. One coordinate left of the array is checked by the proof alone.
  What `boundsexact` promises holds only up to the origin
  (`ExactBoundsTightOrAtOrigin`, see section 6). `y`, in the same run, reports bounds that
  are constants there: 2 stacks of 2 cells, requests from -1 to 60, which lead beyond all that
  is on them, in 98 and 109, sandboxed or not. CHECK_DEADLOCK is off: the `y`s are bounded
  by `MaxAsks`.
* **scheduler.** Three IPs besides the one that executes suffice to
  move every index the loop or `k` may keep, in a list that grows and shrinks without end. Whatever
  happens, the loop's index is a used slot, the used slots hold distinct IPs, and
  those still to come in this tick are exactly IPs that were there at its start and had
  no turn (`TurnOrder`). An IP loses its turn only to another's death
  (`TurnsLost`), at most one for each.
* **scheduler_flat.** What an IP executes kills and moves no other IP, and a cleared
  `needMove` never outlives the instruction that cleared it. Every IP that lives on gets
  its turn again and again, whatever is born and dies above it meanwhile, but for the turns
  that the death right above it costs it (`Skipped`).
* **stacks.** Stacks with old items above `top` meet every way
  of growing, with `ALLOCSIZE_STACK` 2: arrays that are full, that are full but for
  one, and copies of the exact size. Counts above and below what is there occur,
  and negative ones. Every stack has one owner at all times and none is
  lost. Deadlock is not checked: the program ends with the last `@`.
* **hash_table.** The fourth key is the one that makes the table grow, from a single
  chain into two, so keys that shared a bucket part and others stay together; with
  pools of two blocks the copies come from new pools, and the blocks of the old
  entries are used again by the fifth insert. Removals happen at every place of a
  chain and of the list, before and after.
* **wrap_flying.** The bounds include a single cell, a row and a
  column; deltas of length two skip cells, and starts outside on all sides reach
  every combination of signs in the arithmetic.
* **readers.** Files are made of a character, a space, LF, CR and FF: four of them hold
  every pair of line ends with something before and after. Each is loaded, loaded again
  at an offset as text or binary, an area is saved, and loaded again. Inputs are made of
  two digits (one of base 16 only), an upper-case digit, another character and both line
  ends; the buffer starts at 2 and has to grow. `AnswerComes` needs
  fairness (section 4). CHECK_DEADLOCK is off: the calls are bounded by `MaxCalls`.
* **fingerprints.** "table" loads and unloads every fingerprint over one that has all
  letters; "manager" loads, moves and copies a few of them with arrays of 3 at most
  (`MaxTop`), so that every way of growing and of running out occurs. Handles and
  sockets: three open at once in tables of chunks of two; every external call can fail, and so can
  every read in the middle of a line. The one after a carriage return is not looked at by the
  code: `LinesWhole` says that G parts CR and LF then, and only then.
  References grow their array twice.
* **instructions.** `Interpreter`: lines of four cells over space, `;`, `"`, `k`, `z`, `2`
  and `j` hold comments and strings that wrap around the end of the line, and `k`s before
  them; `k`, `C` and `p` stand before any of the characters that are modelled (`Core`),
  with one of those seven after it; at most 6 instructions (`MaxSteps`), `k` counts to 3 (`MaxCount`), in all three standards.
  Six turns hold a string that ends in a space and the first spaces of the next, which takes five:
  the flag that the opening quote resets is stale then. `SkipsAgree` covers comments
  that wrap, `ReturnUndoesCall` a C on its own and one that `k` executes once.
  DATE: windows of days around the first Julian day, the missing year 0, and the leap days of
  1900 and 2000. STRN: 4 calls on stacks of at most 7 cells, with strings that begin with
  a space, repeat, or hold a number; 2 places, left of and in the bounds; I may find the
  end of the input. TOYS: 3 fields,
  every pair of source and target out of 5 corners, areas to 2x2, every cell of funge-space looked at before and after one
  instruction (`MaxToys`), those beside the areas as well. TURT: 7 calls, which
  suffice for two strokes with a turn, a move and a colour between them.

Bounds are constants named in the modules: `Modulus` (FungeSpace), `MaxID`, `MaxCount`, `MaxNesting`,
`MaxFree` (Scheduler), `MaxTop`, `MaxStacks`, `Addresses` (StackStack), `MaxCalls`
(Files, MCFingerprints, Strings, Turtle), `MaxOpen`, `MaxText`, `MaxDescriptor`,
`MaxReferences`, `MaxSteps`, `MaxToys`, `MaxAsks`, `MaxCells`, `MaxStack`, `Reach`.

Every property of a passing run comes with a mutant in `PROJECT.json`: a change of
one definition like a plausible bug in that function, with which the property
fails. Mutants stand before the definition they change, marked as such.

## 4. Fairness

`EveryIPRuns` assumes `WF_vars(Next)`: the interpreter is a loop that never waits
(input blocks, but blocks everybody), so it goes on as long as there is a next step.
Fairness between IPs is not assumed, it is what the loop's walk over the list has to
provide. `MaxFree` bounds the instructions without a tick in a row: an IP that finds
no other kind, in a funge-space of nothing but spaces, does keep all others from
running in the code. `MaxID` bounds the IPs that are alive or died in this tick, not the
births and deaths of a behaviour. With ever new IPs that die right above it an IP can
lose its turn tick after tick (section 6). The property does not exclude that; it says that
every IP runs or loses a turn in this way again and again, so nothing else keeps it
waiting.

`ComesBack` assumes `WF_vars(Move)`: over spaces, the loops in
`execute_instruction` move the IP on without any condition. Outside of the bounds
there is nothing but spaces, and no other action of that module is possible.

`AnswerComes` assumes `WF(Answer)`: the loop of `&` reads line after line until it finds a
number or the input ends, with nothing between.

## 5. What is proved

For all values of the constants that satisfy the named assumptions of the modules,
which TLC evaluates in the runs:

| theorem | statement | assumptions |
|---|---|---|
| `FungeSpaceProofs!TypeCorrect` | `Spec => []TypeOK` | any finite set of coordinates, any characters, a static array of any size and place, any `SIMPLEBOUNDS_MAX`, unsigned numbers in which no coordinate comes round to the array (true of all cells of 64 bits) |
| `FungeSpaceProofs!CountsCorrect` | `Spec => []CountsMatch` | |
| `FungeSpaceProofs!BoundsCorrect` | `Spec => []BoundsCover` | |
| `FungeSpaceProofs!BoundsTight` | `Spec => []ExactBoundsTightOrAtOrigin` | |
| `FungeSpaceProofs!Refinement` | `Spec => ImplementsCellMap` | |
| `HashTableProofs!ListsAgree` | `Spec => []WellLinked` | any keys, hash values and sizes of a table and a pool's arrays, any number of inserts |
| `HashTableProofs!BlocksOwned` | `Spec => []OneOwner` | |
| `HashTableProofs!DictionaryImplemented` | `Spec => ImplementsDictionary` | |
| `ExecutionProofs!TypeCorrect` | `Spec => []TypeOK` | any number of IPs, counts, nesting and chunk size |
| `ExecutionProofs!SlotsSound` | `Spec => []SlotsDistinct` | |
| `ExecutionProofs!TurnsInOrder` | `Spec => []TurnOrder` | |
| `ExecutionProofs!TurnsLostBounded` | `Spec => []TurnsLost` | |
| `ExecutionProofs!OrderPreserved` | `Spec => OrderKept` | |
| `ExecutionProofs!OthersLeftAlone` | `MaxNesting = 0 /\ Spec => OthersUnaffected` | the same, and no `k` executed by another (section 6 says why) |
| `InstructionProofs!LinesInOrder` | `Spec => LineInOrder` | any bounds, starts, deltas and jumps |
| `InstructionProofs!LooksComeBack` | `Spec => LookComesBack` | |
| `ReaderProofs!LoadersSound` | `FileSpec => []FilesInv` | any files, characters, positions, offsets and sizes |
| `ReaderProofs!EveryFileLoaded` | `FileSpec => []LoadedAsWritten` | |
| `ReaderProofs!SavedFilesReadBack` | `FileSpec => []SavedComesBack` | |
| `StackStackProofs!StacksInPlace` | `Spec => []PlacesInv` | any number of IPs, addresses, stacks and items, any cells and chunk sizes |
| `StackStackProofs!NoJunkSeen` | `Spec => []NoJunk` | |
| `StackStackProofs!StacksOwned` | `Spec => []Ownership` | |
| `StackStackProofs!StacksImplemented` | `Spec => ImplementsStacks` | |
| `ReaderProofs!BufferStaysSound` | `Spec => []BufferSound` | any characters and streams, any bases, width of a cell and first buffer |
| `ReaderProofs!StreamImplemented` | `Spec => ImplementsStream` | |
| `FingerprintProofs!ArraysSound` | `Spec => []ManagerInv` | any set of IPs, any requests, any limit `MaxTop` to the arrays |
| `FingerprintProofs!SemanticsImplemented` | `Spec => ImplementsSemantics` | |
| `FingerprintProofs!LoadedComesOff` | `Spec => UnloadUndoesLoad` | |
| `FingerprintProofs!EveryStreamHeld` | `FileSpec => []StreamsHeld` | any bytes and files, any number of streams and handles |
| `FingerprintProofs!LinesReadWhole` | `FileSpec => LinesWhole` | |
| `FingerprintProofs!EverySocketHeld` | `SocketSpec => []SocketsHeld` | any number of descriptors and handles |
| `FingerprintProofs!EveryReferenceKept` | `RefSpec => []ReferencesKept` | any vectors, any number of references |
| `FingerprintProofs!StrokesAreDrawn` | `TurtSpec => []DrawingShowsStrokes` | any distances, places, colours and limits of the picture, a list of any length |
| `InstructionProofs!OneCellOfAll` | `SysSpec => []OneOfAll` | any environment, arguments and values, any requests, stacks and standard |
| `InstructionProofs!DatesCounted` | `DateSpec => []DateInv` | any days, years, dates and spans, all without an end |
| `InstructionProofs!EveryDateFound` | `DateSpec => []CalendarSound` | |
| `ExecutionProofs!AreasAlwaysArrive` | `ToysSpec => []AreasArrive` | any finite fields, corners, sizes, shifts and numbers, any number of instructions |

**Funge-space.** The inductive invariant is
`TypeOK /\ CountsMatch /\ BoundsCover /\ FreshIsEmpty`. None of the first three is
inductive alone: that a shrink keeps all used cells (`MinimizeCovers`) needs the
counts, since the scans look at nothing else; that the bounds after a shrink have an
edge at all needs a used cell. `FreshIsEmpty` says that nothing is used until the
bounds are valid, because the first write replaces them instead of growing them.
`CountedMatches` is the heart of the counts: one counted change of one cell takes a
matching array and hash table to a matching one, also when an entry appears in or
leaves the table. `StoreKeepsCounts` lifts it to both axes, using the cardinality
of the used cells of a line. For the refinement, `StoreIsWrite` shows that a store makes
the position it was called with read as the value it was called with, and changes
what is read at no other, which `StoreGet` says of the storage: places in the array are within it
(`IndexInArray`), and no two cells share one (`IndexInjective`), because rows do not
overlap (`RowsApart`) and the range check refuses what an unsigned number makes of a
coordinate left of the array or above it (`OffsetsSound`). Then `StepRefines` maps every action to `Write`,
`Report` or a stutter. That exact bounds are tight needs `TightInv` besides: the lines of the
arrays that no cell is on count nothing, so a scan never stops at one of them, and bounds
that are exact have a used cell, because erasing the last one on an edge takes the mark away.

**Hash tables.** `WellLinked` and `OneOwner` follow pointers with a recursive function, of which
nothing can be proved by induction. The invariant `IInv` says instead that there *are* sequences of
blocks, one for each chain, one for the list by age and one for the free list, such that each
pointer leads from a block to the one behind it (`Path`), the back pointers lead back (`Back`),
and no block is in two of the sequences that may not share one (`Owned`). Each step then is a
change of sequences: a block in front, at the end, taken out, or a chain put before the free
list (`PathFirst`, `PathLast`, `PathWithout`, `PathBefore`), and the lists it does not touch stay.
`LinkSound` and `UnlinkSound` do this for both lists an entry is in at once. During a
rehash, the copies are those of the entries from the oldest to the one before `cursor` (`Copied`),
which is why a key is never found in the copy before its turn: `pc = "critical"`, an error the code
reports, is not reached. Only `WalkIs` has to do with the recursive function: along a path it
returns the path, by the least number of steps for which it would not.

For the refinement, what `Dictionary` has is read off those sequences: `Pairs` are the pairs
of the list by age, oldest first, of the table or, once `cursor` is NULL, of the copy that is
about to replace it, which by then has the same pairs in the same order. The steps of a
rehash, and of an insert before `Link`, therefore change nothing the caller can see
(`InsertingSeen`, `SamePairs`), and `Link` appends the pair (`LinkSeen`). What an iteration still owes, `Rest`, is the part of the list
from `p_next` on (`PathFrom`, `RestIs`). That needs `Iterating` in the invariant
`RInv`: an iteration stands on an entry of the list, so `p_next` never dangles. A removal keeps that, because
callers remove only what was yielded, and what was yielded is in front of `p_next`
(`DueIs`, `DueAfter`). The assumption on the data is that there are any.

**Scheduler.** The inductive invariant is
`TypeOK /\ SlotsDistinct /\ IterateTakesTick /\ Pending`. `TurnOrder` speaks of the
moments before an instruction only; `Pending` says in between as well which slots hold
IPs whose turn is to come: those below the loop's index, and the one at it until an
instruction that takes a tick begins. It survives a birth because a child comes
above its parent, and a death because the index moves down by one with the slots above it:
those below never move (`DuplicateKeepsList`, `TerminateKeepsList`). `IterateTakesTick`
excludes a `k` that has begun without its turn being counted. The order of the IPs is an
action property and follows from the same two facts about the list. `TurnsLost` compares two
cardinalities that change in different steps: `LossInv` keeps them balanced at every
point of a turn, and adds that the IP a `k` is about to kill was there when the tick
began, without which its death would make up for nothing. `OthersUnaffected` does not hold when a
`k` executes another, which the theorem excludes by the constant; births and deaths under a
single `k` remain. `MoveInv` says that `needMove` is clear for the IP at the loop's index at
most, and for none when an instruction starts; `OneK` says of the one `k` there is that, as long
as it has something left to do, the IP it works for is still the one at that index. After an
`@` under `k` another IP is at the index, and `OneK` says that its flag is not cleared.

**Wrapping.** Both properties are about single steps from any position, and the type invariant
suffices. `QuotientRange` is C's division. `FracPasses` says that the steps `wrap_frac`
computes reach the edge or pass it, so that a position wrapped into the bounds has none
of its line's cells before it (`WrapEnters`). `SameTrack` says that positions a whole number of
steps apart, in either direction, have the same cells on their lines; with `NoTrack`, a row or
column outside the bounds has none, nothing that wrapping does changes them (`WrapKeepsTrack`).
`ThereAndBack` is about cardinal deltas alone, with which wrapping ends just outside the
other edge, or where it began.

**Files.** `FilesInv` says where a loader stands in the middle of a file: at the next
character's line and column or, with `last_was_cr` set, at those of the carriage
return that waits, with nothing but form feeds behind it (`Standing`). `AfterReturn` is the
case the code is about: the same place is right when a line feed comes next, and the start of
the next line when anything else does, or the end of the file. What has been read is in
funge-space and nothing else is (`CellsLoaded`), for which no two characters may have the
same line and column (`ColumnsInOrder`). `Widest` holds the size `i` pushes between two
characters: the longest line so far is in it, or it is the one the loader stands in. A file that `o` wrote
is as good as any (`WrittenIsText`).
That what `o` wrote is read back is shown without the loader, from where the
characters of the file belong: the lines are found in the file one behind the other
(`JoinedAt`, `Laid`), the characters of a line have its number and their place in it as row and
column (`LaidOut`), wherever the file is cut off (`CutLaid`), and what was cut off, or stripped
from the end of a row, shows nothing (`StrippedIs`, `ReadBack`). A text of one character is not written;
it can only be the area's first cell. Characters are assumed to be told apart from each other
and from cells that are no characters.

**Stacks.** The inductive invariant `PlacesInv` is `Arrays`, every array is at least as long
as what is in use of it, and `Places`: the levels of the stack-stacks of all IPs and the
allocated addresses correspond one to one, with `stack` at the current level. It is the second
that makes the first provable: a push through one pointer changes no other stack
because no two places share an address. The first part of `StackStackProofs` shows of every
operation what it does to the items of its stack, whatever is behind them, which `StacksImplemented` lifts to the instructions
(`BeginDone`, `OffsetOnTop`, `BothMoved` for `{`, `}` and `u`). `Contents`, all cells are values
or were never written, gives `NoJunk` with it. `OneEach` counts the places for `Ownership`.

**Input.** `IInv` says that the buffer is a line of the stream: what it holds are the last
characters that were read, with no line feed before its end, and it ends at one or with
the stream (`Holds`). `LineFetched` shows that `get_line` makes this true whether it reads or not,
`SizeSuffices` that the buffer it makes has room. Each call then is a call
on the stream: `NumberTaken` needs that a number never goes on in the next line, since the
line feed between is not a digit, and that the 0 after the line is none either.

**Manager.** `ManagerInv` says that the array of each letter is at least as long as what is in
use of it and that all in use was pushed; what `realloc` added and what a drop left behind are in
the array, but never in use. From above, a push appends and a drop takes away the last
(`PushLive`, `DropLive`), also where the array grows or is a child's copy with room for one
more (`DuplicateLive`), and FING's pops and pushes come to what `Semantics` says of them
(`SwapRefines`, `PushRefines`). A loader that runs out of memory between two letters is a partial load there.
`TableListed` goes through the 31 entries of the table: every loader but that of NULL pushes
the letters the table lists for it, which `UnloadUndoesLoad` comes down to (section 6 for NULL).

**Handles.** `Matched`, in the invariant of FILE, says that the entries of the table and the
open streams correspond one to one; the lemmas about `HandleTable` say that
the lowest free index is free also after the table grew, and that a handle keeps its entry.
It says without sets and counts what `StreamsHeld` says, which follows from it, and is inductive
with the types. `LineLengthOf` and `TakenAndLeft` say where G stops in the text and what it leaves,
`LineIsTorn` that a carriage return is parted from its line feed exactly when the read between
them fails. For
SOCK the converse does not hold (section 6), and `SocketsHeld` is inductive with the types.

**The turtle.** `TurtleInv` says that what was drawn is what the list stands for
(`Strokes`), and where the turtle is: one that did not move without drawing is where the list
ends, unless the paper was cleared under it, and then nothing is on it. Neither
flag of the code says that alone, and without it a stroke could start elsewhere than the
line the file shows of it. What the file shows of a list is an argument of its own, about the loop of
`generate_paths`: after each point the pieces that ended and the one being written show the
strokes so far, and the one being written ends where the last point is (`Drawn`,
`RoundDraws`, `ListDrawn`), whichever colours cut the list, the 0 that a
move without the pen carries among them.

**Dates.** The conversions are inverse to each other for every integer, negative days and years
included, which a window of days can only sample. `ymd_to_julian` counts in years that begin in
March; with the parts of a year's number (`YearParts`) later years begin later (`YearsInOrder`),
and no two dates are the same day (`OneDateADay`). `julian_to_ymd` finds the
century, in it the year, in it the month (`CenturyFound`, `YearFound`, `MonthFound`): each
division with its odd constants gives the one part that fits, so its date leads back to
the day (`DateFound`) and by the first half every date is found (`DayFound`). What is left follows from the days
alone: the next day is the next on the wall (`TomorrowIsNext`), and T finds the month that
ends last before the day (`FullFindsDate`). The arithmetic is that of integers: days
so far away that a product of the formulas leaves 64 bits are not modelled.

**TOYS.** The invariant is that the machine is one, `SomeMachine`: finitely many cells of
funge-space, corners, position and delta that are vectors, and a stack. It leaves open what
the cells hold, since nothing depends on it. That no instruction loses this takes most of the second
half (`BoundedIs`, `OnStackIsMachine`, `OnIPIsMachine`, `ToysNextIsMachine`). What arrives is then an
argument about one instruction on any machine. A loop is a sequence of machines (`Rounds`,
`LoopRuns`), and of a loop that copies cells from p to q two facts are shown by the number of
steps: what has been written is what was at its source at the start, and nothing else has changed.
The first needs that no cell is written before it is read (`Safe`), and that is where overlapping areas
come in: `LowOrder` goes from the least corner on (`LowOrderIs`), so that what is written
lies before all that is yet to be read if the target lies before the source (`LowIsSafe`), and `HighOrder`
is its reverse (`HighIsSafe`). A move also blanks the source, so its target may not be erased later,
and the target may not be the source. F and G meet on the stack: G pushes from the last cell to the first (`ReadsPush`), F
pops from the first on (`WritesPop`). The shifts go from the far end (`FarFirstIs`); the finiteness of funge-space
is what gives them two ends (`FiniteRanged`). That nothing else has changed is said of every
cell of funge-space before or after, and for the shifts of every cell of the row or column
and every cell off it (`LineShifted`, `RowShifted`, `ColumnShifted`).

**y.** `SysTyped`, that stacks and the cache hold cells, is all the invariant `OneOfAll` needs,
and that what is cached is cells (`CacheIsCells`) is about texts joined (`Joined`). The rest is
where a cell lies in sequences joined one to the next, counted from the end (`NthOfBoth`):
`FirstCells` takes the pushes of `push_all` apart, from the last to the first, and finds the 23
entries of `push_yval` in their order, and that there are at least 23 of them; so a request
beyond all of them is never one for the table, and the pick's index is that of the cell at this
depth below them. That the index may be 0 (section 6) is left out by name.

`Least` (in `CommonLemmas`), a nonempty set of numbers has a least element, is proved from
well-foundedness; arguments by induction over a number (the loop of `u`, the sizes of
a buffer) take the least counterexample with it.

Only model-checked:

* liveness (`EveryIPRuns`, `ComesBack`, `AnswerComes`): fairness and ENABLED are beyond the
  prover;
* what a single IP executes by `Interpreter` and `Strings`: `StringsRead`, `SkipsAgree`,
  `ReturnUndoesCall` and `StringsComeBack` compare with recursive definitions over programs and texts.

## 6. Where the code and what is said of it differ

Three runs end with a counterexample; all were reproduced with the interpreter.

* `scheduler_kk_crash`: `k` under `k` over `@` can leave the outer `k` with a slot
  that was cleared. It also kills other IPs than its own, which is why
  `OthersUnaffected` is checked without nested `k`s.
* `null_fingerprint`: NULL's loader stops before Z, its table has Z, so unloading NULL
  takes from Z what was there before.
* `sysinfo_pick`: for a request one beyond all cells of `y` and of the stack,
  `y` asks the stack for index 0.

What else came up while the code was modelled. The models do what the code does, and
the properties leave these cases out by name:

* Bounds marked exact need not be (`funge-space.c:73`): `largemodel_minimise` starts from
  0 when its hash table is empty, so `y` may report a least column 0 with nothing in it,
  once the bounds were far apart.
* A space takes no tick (`interpreter.c:185`): on a line with nothing on it the search for the next
  instruction never ends, and no other IP gets its turn.
* After `@`, the main loop decrements the index that `iplist_terminate_ip` calls the "index
  of next to execute" (`interpreter.c:544`), and an IP loses its turn; the one
  below can lose it tick after tick when new IPs keep dying above.
* L and R of TOYS at the edge of funge-space leave the IP beside its line. With a flying delta
  that reaches the edge exactly, `{` on the last cell of a line comes back before it and is
  executed again. `LookComesBack` is therefore about cardinal deltas.
* The header of the hash table allows an insert during an iteration, but the rehash it may cause
  frees the entry the iterator goes to next. cfunge has no loop that inserts. `replace`
  answers -1 and `remove` 0 for an unknown key, where the header speaks of NULL.
* Files: `o` as text writes a file of one character empty (`funge-space.c:1064`); the size a binary
  `i` answers is an absolute position (`funge-space.c:981`); the height of a text counts line
  ends, not lines; an `o` that fails has truncated the file.
* `&` drops what follows a number up to CR as well as LF; `I` of BASE takes
  digits of base 16 in upper case too.
* A fingerprint that runs out of memory while it is loaded leaves the letters it has pushed;
  S of SOCK leaves a handle when socket() fails (`SOCK.c:391`), which P of SCKE then
  polls as descriptor -1.
* G of FILE does not look at the read after a carriage return (`FILE.c:165`): if it fails, the line
  is pushed without its line feed, which the next G then takes for a line of its own; the
  error stays marked on the stream, so that G may reflect at the end of the file.
* STRN: M leaves the cells behind the slice and their 0 on the stack; G reflects for a string that P
  put beginning with spaces left of the bounds.
* DATE: W answers negative days before 4714 BC, where it says "0=Monday"; T
  accepts the year 0 and negative days.
* TOYS: M and V onto themselves erase the area; J and O leave the last cells of what they shift; W polls
  its cell without the storage offset but pushes back the vector minus the offset.
* TURT: after N the first line of the file starts at the origin, and a pen put down
  without moving leaves no dot; the bounds of the picture count only the ends of strokes and the dots
  (`TURT.c:202`), so a stroke that starts where the turtle went with its pen up may begin outside.
* MODU: M gives 2 for -4 mod 2.
* `k` over `z` returns without the skip of Funge-109.

## 7. What is not modelled

`PROJECT.json` lists every component with its status. Left out for good: fingerprints
that pop, compute and push (floating point, fixed point, roman numbers, regular
expressions, the 3D matrices), the terminal, clocks, output, `system()`, options and
messages, tracing, the AFL build, the build without `LARGE_IPLIST` and the one without
exact bounds, the XML writer. Overflow of cells at 64 bits is left out: funge-space
coordinates and counts stay far from it in the instances. Memory failures are modelled
where the program goes on after them. External, and modelled by what the code expects of them:
stdio and the file system, sockets, and whoever views TURT's file.

## 8. Plan

1. *Done:* storage, files, wrapping, scheduler, stacks, hash tables, input,
   fingerprint manager and handles, `y`, the instructions of one IP, and the proofs of
   section 5.
2. Proofs: that `k` and the skips of `Interpreter` agree, once they are stated without `RECURSIVE`.
3. Models: FungeSpace composed with Interpreter for several IPs; arithmetic
   of the width of a cell.
