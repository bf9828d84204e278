# A verification of Capote in TLA+

Capote compiles a small object language ("Cish", `.csh` files) to C. The compiler
reads the sources, checks types, analyses which heap objects may outlive the
procedure that made them, generates register code and writes it out as C text
behind a fixed runtime, `stdheader.c`. The emitted program runs on a PC or on a
VEX robot under the PROS kernel.

Two very different things can go wrong here. The *compiler* is a sequential
program whose difficulty lies in long interactions between passes: what one
pass concludes about a value is read, changed and relied upon by later ones.
The *emitted program* contains a garbage collector that is right only if the
compiler told it everything it needs to know. The project follows that line:
its core is the collector and the analysis that feeds it, together; around it
stand the parts whose protocol is easy to state and hard to test.

Contents: [Inventory](#1-inventory) · [Modules](#2-modules) ·
[Correspondence](#3-how-the-modules-correspond-to-the-code) ·
[Runs](#4-what-the-runs-check) · [Proofs](#5-what-is-proved) ·
[Weaknesses found](#6-what-was-found) · [Not modelled](#7-what-is-not-modelled) ·
[Plan](#8-plan)

To repeat the checks: `tlc -workers 2 -config MCCapoteHeap.cfg MCCapoteHeap.tla`
(and so on for each `.cfg`, see section 4), `tlapm CapoteHeapProofs.tla` (and the
other `*Proofs` modules).

## 1. Inventory

Line numbers are those of the files under `src/`; compiler files are in `src/src/`.

| Part | State | Operations | Hard behaviour | Right when |
|---|---|---|---|---|
| **Runtime heap and gc** (`stdheader.c` 186-401, 487-579; heap instructions in `emit.c` 223-377) | `heap_allocs` cut into gc frames by `heap_frame_bounds`, `heap_traces`, `freed_heap_allocs`, `reset_stack`; per object `reg_with_table`, `pre_freed`, `gc_flag`, registers | `alloc`, `free_alloc`, `trace`, `supertrace`, `gc_clean`, `free_runtime`; STORE, FREE, GC_NEW_FRAME, GC_TRACE, GC_CLEAN | structs freed by inner frames while outer frames still list them; flags that are permanent or last one collection; walks that stop at flags | each struct has one owner, a flag protects, nothing stays flagged by accident, a finished program has returned every struct |
| **Escape analysis** (`postproc.c`, trace placement in `compiler.c` 341-353, 506-559, 639-653) | `gc_status` of every variable and value, mutated in program order | postprocessing of variables, stores, loads, calls, returns | the status of a variable is what earlier statements left there | no live variable reaches a released object |
| **Control flow** (`ast.c` 226-267, 648-668, 734-860; `compiler.c` 565-681) | jump patch lists (`lp_break_jumps`, `escape_jumps`), the scan of `code_paths_return` | one per statement kind | one static array for all loops; early exits of a recursive scan | jumps go where the text says; control never leaves a procedure by its end |
| **Robot events** (`pros.c`) | `op_mode`, `inited`, `ran` (volatile) | `initialize`, `autonomous`, `opcontrol`, `disabled`, `competition_initialize` | kernel tasks run concurrently and are dropped at any point | the program runs once, on a complete runtime; waiting ends |
| **Compiler memory** (`error.c`) | entry, free-slot and transfer tables with their `alloced_*` counters | `safe_malloc`, `safe_realloc`, `safe_free`, `safe_transfer_malloc`, `safe_gc_transfer_to`, `free_safe_gc` | every allocation can fail, in the middle of table updates; a second table is merged into the first | single ownership; everything released once at any early return |
| **Source files** (`scanner.c` 307-349, include in `ast.c` 868-884) | `visited_hashes`, the stack of open files | `multi_scanner_visit`, `multi_scanner_scan_tok` | files include one another; a file is released inside the request for the next token | each file read once and whole; token text stays valid; reading ends |
| Scanner (`scanner.c` 1-304) | current character, position | `scanner_scan_tok` | end of file inside comments and literals | – |
| **Scopes** (`ast.c` 42-127, 565-718, 774-883, 1067-1092) | stack of frames, locals, globals, slot counters | `new_frame`, `close_frame`, `decl_var`, `find_var`; blocks, procedures, declarations | slots reused by later blocks; a procedure's name is declared after its body; blocks that begin in one file and end in another | a name means one variable and that one is found; slots of variables seen together differ and fit the recorded size |
| **Record declarations** (`ast.c` 159-201, 308-325, 375-485, 884-1057, 1196-1267; `postproc.c` 758-796) | record prototypes: base, use requirement, children, properties, defaults, offset; provisional requirements of type parameters | mention, declare, extend, give a default, create, link | records used and extended before they are declared, in any order | a forest without children of final records; one slot per property; complete objects; arguments meet requirements |
| Expressions (`ast.c` 1094-1607) | none beyond the tables above | precedence climbing | – | – |
| Type checker (`type.c`) | none | compatibility, substitution | covariant type arguments, `any` | what it admits, the guards at run time make true of the objects |
| Code generation of values (`compiler.c` 15-563, `machine.c`) | register counters, `max_locals`, defined signatures | register allocation, instruction selection | temporaries that overlap across calls | no live register is overwritten; STACK_VALIDATE covers every register used |
| Labels and emission (`labels.c`, `emit.c`) | label numbers | text output | every jump target gets a label | – |
| **Types at run time** (`stdheader.c` 413-485, `emit.c` 61-90, 163-181, 513-653, `compiler.c` 471-542, 723-775) | `defined_signatures` with a stack at its end, `type_table`, the registers of type arguments, each object's `type_sig` | creation, generic call and return, `is`, `dynamic_cast`, guarded stores | signatures pushed by a call and popped after it, resolved against one frame and read in another; covariant aliases | registers and objects keep denoting their types; tests and guards answer as the types say |
| Call stack of the program (`emit.c` 190-218) | `positions`, `global_offset` | CALL, RETURN, STACK_OFFSET, STACK_VALIDATE | limits; widths | calls and returns match; no register beyond the stack |
| **Library** (`stdlib/data/`, `buffer.csh`, `sort.csh`; `std_realloc` in `stdheader.c` 751-765) | arrays with a count; buckets | set, map, list, stack, sorting and searching | open addressing without wrap-around; growth within growth; stretches moved onto themselves | abstract sets, dictionaries and sequences; sorted permutations |
| Driver (`source.c`), file reading, hashing, debug tables, robot devices, foreign functions | – | sequential I/O, pure functions | – | – |

How they interact. `main` calls scanner, parser, postprocessor, compiler and
emitter one after the other; they share the `safe_gc` table, the `ast` and, between
analysis and code generation, the `gc_status`, `free_status` and `trace_status`
fields of its nodes. The emitted program shares nothing with the compiler but the
meaning of the instructions. In a robot program the kernel calls the five event
functions from tasks of their own.

The hazards this leads to are listed, line by line and with the properties that
cover each, under `hazards` in `PROJECT.json`.

## 2. Modules

| Module | What it is |
|---|---|
| `CapoteHeap` | the runtime heap under any sequence of heap instructions |
| `MCCapoteHeap` | its instance for TLC |
| `CapoteHeapProofs` | its inductive invariant and proofs |
| `CapoteProgram` | extends `CapoteHeap`: the same heap, driven only by the instructions the escape analysis places |
| `Escape` | extends it: what the statuses of the analysis mean, for two kinds of programs |
| `MCCapoteProgram` | its instance: families of programs |
| `CapoteProgramProofs` | every emitted program implements `CapoteHeap`; the analysis is sound for programs of these two kinds |
| `ControlFlow` | one procedure from its statements to jumps, and every run of it |
| `AffectsState` | which values of a body are kept (`postproc.c`), as operators |
| `RegAlloc` | extends it: the register of every value (`compiler.c`), as operators |
| `CodeGen`, `MCCodeGen` | extends it: the instructions, a machine that executes them, and what the body means |
| `TypeSigs`, `MCTypeSigs` | the run-time types of a generic program: type arguments, signatures, tests, guards |
| `CapoteEvents`, `CapoteEventsProofs` | the tasks of a robot program |
| `Ownership` | abstract specification: what the compiler's memory tables promise |
| `SafeGc`, `MCSafeGc`, `SafeGcProofs` | the tables themselves; implement `Ownership`, proved |
| `MultiScanner` | include files: the token stream of a compilation |
| `Scopes`, `MCScopes` | extends it: frames, variables, blocks and procedures of the parser that asks for those tokens |
| `ScopesProofs` | proofs about both |
| `Inheritance` | abstract specification: records form a forest, final ones are leaves |
| `Records`, `RecordsProofs` | record declarations, default values, creation and linking; implement `Inheritance`, proved; proofs about both |
| `Generics`, `MCGenerics` | extends `Records`: type parameters, provisional and declared requirements |
| `AbstractList`, `ArrayList` | a sequence; the lists and stacks of the library |
| `Dictionary`, `HashMap` | a partial function that grows; the map of the library |
| `HashSet`, `Sorting` | the set of the library; its sorts and searches |
| `Collections` | the list, the set and the map side by side, and what is checked of them |
| `CollectionsProofs` | proofs about it: lists implement a sequence, sets lose nothing, maps implement a dictionary |
| `MCCollections` | a program that uses one of these, or sorts |
| `Recursion` | lemmas: functions defined by recursion exist, and induction up to a number |

`CodeGen` composes three passes of the compiler with the machine the emitted C is: a
property of it can fail because a value was not marked, was given a register that is in
use, was left in another register than its user reads, or was emitted out of order.

`CapoteProgram` composes two components that only work together: each of its
statements puts into `code` the instructions `postproc.c` and `compiler.c` would
emit, and `Execute` lets the heap of `CapoteHeap` run them. `SafeGc` implements
`Ownership` under the mapping `owned <- live \ lost`, `closed <- phase = "over"`.
`Records` implements `Inheritance` (`parent` is `base` on the records whose declaration
has begun, `sealed` are the final ones among them), `HashMap` implements `Dictionary`
(`dict` is what the buckets hold), and `ArrayList` implements `AbstractList` (`items` are
the first `count` entries of the array). `Scopes` composes the parser's tables with the
scanner beneath it: the parser decides when a token is asked for, and the scanner takes
files off its stack in the middle of that.

## 3. How the modules correspond to the code

### CapoteHeap

| Variable | Code |
|---|---|
| `frame`, `table[k][o]` | `heap_frame`; how often `o` occurs between bounds k-1 and k of `heap_allocs` |
| `traces[k]` | the part of `heap_traces` that belongs to frame k |
| `reset`, `freed` | `reset_stack`; occurrences in `freed_heap_allocs` |
| `reg`, `pre`, `flag` | `reg_with_table`, `pre_freed`, `gc_flag` |
| `refs[o]` | the references in `o`'s registers that are initialised and traced |
| `mallocd` | what `malloc` returned and `free` has not got back |
| `perm` | history: flagged by `supertrace` |

The order of `heap_allocs` within a frame is not kept, because nothing reads it: the
compaction in `gc_clean` keeps or drops entries one by one. `gc_clean` is
`GcCleanBegin`, one `GcMark` per trace entry, and `GcSweep`; the order of the
trace entries is kept, since a permanent walk before or after a transient one
makes a difference. `trace`, `supertrace` and `free_alloc` are recursive walks
that turn back at flagged (or freed) objects; `Walk(o, stop)` is the set such a walk
visits, defined as a least fixpoint and not by recursion, so that it can be proved
about.

`trace_mode` and `init_stat` of registers are folded into `refs`: a register takes
part if it is initialised and traced. How much of `Limit` one overwrite frees is left
open.

Undefined behaviour. Following a pointer into a struct whose registers have been
released is undefined in C. `CapoteHeap` has no step there (`\subseteq Allocated`
conjuncts): its theorems are about programs that never do so, and whether emitted
programs never do so is exactly the question `NoDangling` asks in `CapoteProgram`.

### CapoteProgram

A behaviour is one run of some program of a *family*, a set of features from
`params` (procedures take objects), `globals`, `overwrite` (a store may displace a
reference), `returns` (procedures return objects), `loads` (a property is read into
a variable), `assigns` (a global is assigned a variable) and `reuses` (a procedure uses a
global again after it has assigned it). `env[k]` holds the
variables of frame k as pairs of object and gc status. A statement (`New`,
`SetProp`, `GetProp`, `SetGlobalNew`, `SetGlobalVar`, `Call`, `Return`,
`ReturnValue`) reads the statuses, updates them as `ast_postproc_value` does, and
appends the GC_TRACE, STORE, FREE, GC_NEW_FRAME and GC_CLEAN instructions that
result. A procedure sees the globals (`Globals`) as `superext` until it assigns them; `written[k]`
holds those frame k has assigned, with the status that has left them with: an object that was supertraced leaves
`supertraced`, under which the next one assigned is not traced. `VarTrace`, `VarStatus`, `ValueStatus`, `SetParent`, `StoreParent`, `RecordParent`, `PropStatus` and
`ArgTrace` are the decisions of `postproc.c`.

`Escape` says what the statuses promise. The level of an object is the frame that lists it, and
it survives the collections down to frame j if each of the frames between keeps it: `Held`.
Where procedures take objects and read their properties, `StatusesSound` says that an object is held as far
down as the variables and the objects that refer to it, `extern` promising less than the others.
Where procedures share objects through globals, `SupertracesSound` says that what can be reached from a
global or an escaped record is flagged, or found by the collection of its own frame: a permanent
walk turns back at flags, so it has to start above them (`Rooted`). `CodeSound` extends both over the
instructions that are emitted and not yet executed.

The analysis runs at compile time and sees each statement once, in program order;
the model runs analysis and execution in step, which is faithful for straight-line
procedures (branches and loops can make the two differ; see section 7).

### ControlFlow

The body of a procedure is a sequence of tokens (a statement, a condition, a closing
brace). Each action takes one token through `parse_statment`, `code_paths_return` and
`compile_code_block`/`compile_conditional`. These are separate passes in the compiler,
but each of them goes through the statements in the same order and none depends on a
later one, so the result is the same. `open` is the C call stack of the two recursive
functions: `start`, `check`, `breaks` and `escapes` are the locals of
`compile_conditional`; `forever`, `block` and `clauses` are the parameter and local
variables of `code_paths_return`. `lp` is the static array `lp_break_jumps`.
`Where` and `IfFalse` say what the text means and never look at the code; `Land` and
the `Run...` actions execute the code and never look at the text but to keep `at` up
to date. `abort` is a `return` for this module; a `for` is the `while` it is turned into.
A break beyond `MAX_BREAKS` puts the compiler in phase `"cut"`: nothing more is emitted (`Emit`), the jumps that are open
stay unpatched, and because `compile_value` ignores the result for a procedure's body, the program is
compiled all the same and is run.

### AffectsState, RegAlloc, CodeGen

The compiler's passes over values are recursive functions of an expression tree, so
they are recursive operators here, with the names of the cases of the C switch. A tree
node is `[op, v, kids]`; a value's id is its path from the body, except that the copies
of a default value share `DefaultId`, as the parser's copies do. `AllocValue` threads the
record of what is written meanwhile (`eval_regs`, `move_eval`, `var_regs`,
`proc_call_offsets`, `proc_call_max_locals`) and returns the next free register in
`next`. `Marked` is the loop `while (ast_postproc_codeblock_affects_state(...)) {}`;
`ForeignStoresOf` is the part of the gc analysis that the second marking reads. What the analysis itself
writes goes by the first marking (`FirstUsed`): `HasMutated` has the variables whose assignments it visited, and not those
found used only afterwards.

`CodeGen` compiles a body in one step (`Compile`) and executes it with one action per
kind of instruction. `loc` is the part of `stack` from `global_offset` on; `lost` has the constants whose
register a variable that shares it has overwritten, with what is there now. A call to
another procedure is one step: it puts its result where the callee leaves it and `Junk`
in everything above, which is what the callee's frame occupies. Values are terms over the
parameters' initial values (`<<"+", a, b>>`), so that two computations give the same value
only if they applied the same operations to the same operands. All binary operators are
`+`, and the error exits of instructions (index out of range, uninitialised element, division by
zero) are not taken: they end the program.

`Meaning` evaluates the body directly: operands once and from left to right, every
assignment made. It stands for what the language's programs take for granted and shares
nothing with the compiler's passes but the tree.

### TypeSigs

| Variable | Code |
|---|---|
| `defined` | `defined_signatures[0 .. defined_sig_count - 1]`, numbered from 1 |
| `frames[k].regs`, `.pops` | the registers `param_count + 1 + i` of the frame; the operand of POP_ATOM_TYPESIGS behind its call |
| `objects[i].at`, `.sig` | `type_sig`: a pointer into `defined_signatures`, or a copy of the object's own |
| `frames[k].targs`, `objects[i].type` | histories: the ground types meant |

A source type is translated (`Compiled`) and then lives as a signature; `Atomize`,
`GetSuper`, `Downcast`, `IsSuper` and `Match` are the functions of `stdheader.c`, in the same
recursion. `Compatible` is `typecheck_compatible` on ground types, the meaning everything
is held to. The program's text (records, creations, calls, tests, stores) is a constant; any
statement of the current procedure may be next. A test or a store may be applied to any object the checker would
admit there: one whose type is compatible with the static one.
The signatures are listed once per procedure and type, where the compiler defines one per
use; they are equal. `is_super_type` reads in front of `type_table` for codes below 10: the answer is then
`"undefined"`, which may let a cast or a store pass or stop it. `InFront` says, from the ground types, when that happens, and
`Right` that every other answer is definite and the right one. A call that hands down an
unresolved signature (section 6) ends the behaviour in status `"escaped"`.

### CapoteEvents

One action per access to a shared word. `Start(f)` is the kernel and external: it may
drop the task it runs at any step and start another function. `eager` kernels start
tasks before `initialize` has returned (the busy-wait exists for them), others do not.

### SafeGc

`entries`, `availible` and `transfers` are the arrays of `safe_gc_t`; `alloced` holds
the `alloced_*` counters and `room` what was really allocated: they differ once a
`realloc` has failed, because the code raises the counter first. `lost` is a history of
blocks whose hand-over failed. After a failed allocation the compiler returns to
`main` (`phase = "panic"`), which calls `free_safe_gc`. A slot is taken for an entry
without a block in `safe_transfer_malloc` when `malloc` fails: it holds `JUNK`, freeing
it is undefined and `FreeAll` has no step there. Storing beyond an array
is likewise no step (`CanPush`).

### MultiScanner and Scopes

`open` is the stack of scanners with the next position of each, `visited` the
paths behind `visited_hashes`, `managed` the sources in memory. `ReadTok` is the
`READ_TOK` macro: `multi_scanner_scan_tok` pops files at their end until one gives a
token. Files are sequences of words, includes and words the scanner rejects.

A word is a statement, or a part of one, seen as the symbol tables see it: it declares a
variable (`decl`, `global`), names one (`use`), names one in the default value of a
record's property (`default`), opens a block or a procedure (`open`, `proc`), closes one
(`close`), or does none of that. `parser.frames` is `ast_parser.frames`: `nested` stands for
`parent_frame`, `scoped` and `max` for `scoped_locals` and `max_scoped_locals`; `block`,
`proc` and `word` say what the frame is for, which in the code is the C stack of the
recursive parser. `decls` and `scope_size` are histories: every variable declared, and what
was recorded for every block at its end. `owed` is the `do` of `parse_code_block`, which parses a
statement before it looks for a closing brace. A parser that asks for a statement where no
file is left ends in phase `"lost"`: the C code then reads in front of `file_paths`.

### Records and Generics

| Variable | Code |
|---|---|
| `state[n]` | no prototype; `typeargs_defined` or not yet, `fully_defined` |
| `base`, `use`, `children` | `base_record`, `use_reqs`, `child_record_count` |
| `props`, `defaults` | `properties` with their `id`, `default_values` |
| `offset`, `linked` | `index_offset`, `linked` |
| `req`, `typed`, `baseArgs` | `generic_req_types`, `typeargs_defined`, the arguments in `base_record` |
| `created`, `asked` | histories: what the last `new` put together; every use of a generic record, and whether it left a type parameter in a provisional requirement (`loose`) |
| `shifted` | history: records whose provisional requirement was found over a climb that changes the arguments |

A body is read between `Begin` and `End`, one item at a time; no record is declared inside
another. `new` is one step (`Create`): the values between the braces, the defaults of the record and
of those above it, and the linking, which renumbers the properties (`Link`). `Slot` is the
`prop->id` that indexes `overriden_defaults`. `LowestCommon` keeps the order of the
code, in which the arguments of a common base record are those from before the climb.
`Devolve` looks a type parameter up in the frame the parser is in, whichever frame it was written in, as the code does;
where that frame has no such parameter the code follows a null pointer, which is `NoType` here and ends
the parsing (`Broken`). Whether a word is a type, and how a type is written, is left out.

### Collections

`HashSet`, `HashMap`, `ArrayList` and `Sorting` have one action per procedure of
the library, the procedures beneath as operators: `Insert` and `Stored` are `insert` and `emplace` in
their recursion, in which the loop over the old array (`Grown`) calls the procedure that may replace
the array again. They are functions of the depth to which the calls may go, at most `MAXBUCKETS`: every growth adds buckets, so an
array that would need more is beyond the bound, and neither `SetAdd` nor `MapEmplace` takes such a step.
`RecSort` and `BinSearch` are functions of the depth of their calls too, and `Runs` of the number of runs of `sort`: as many as
the array has elements, and one, are enough, because the parts get shorter, and because every run puts one more element in its
place (that the loop has ended by then is part of `Sorts`). `Memswap` copies through a temporary array as `memswap` does. An index outside the array is an answer
(`OutOfBounds`, `Fault`), since the program then ends. Elements of a set are their
hashes, because the code compares nothing else; keys of a map have hashes of their own.
Lists are called with legal indices: the emitted program checks others only against
the array and not against the count.

## 4. What the runs check

| Run (`.cfg`) | Instance | Properties |
|---|---|---|
| `heap` (`MCCapoteHeap`) | 3 structs, 3 frames, 1 reference per struct, 2 trace entries in all frames together; 2,510,057 states | `TableExact`, `StructAccounting`, `FlaggedAlive`, `NoStrayFlag`, `MarkClosed`, `ExitsClean` |
| `program` (`MCCapoteProgram`) | 3 structs, 3 frames, 5 families, 3 trace entries; 1,586,214 states | `NoDangling`, `SupertraceKeepsAlive`, `AnalysisSound` |
| `control_flow` (`ControlFlow`) | bodies of up to 8 tokens, room for 2 breaks per loop; 735,530 states | `InStep`, `Returns`, `RejectedRightly` |
| `control_flow_returns` (`ControlFlowReturns`) | same | violates `ReturnsAlways` |
| `codegen` (`MCCodeGen`) | 11,525 bodies, 17 registers; 129,297 states | `Translated`, `EffectsKept`, `FrameCovered`, `OperandsReady` |
| `shared_defaults` (`MCSharedDefaults`) | 4 bodies that make two lists | violates `DefaultInRecord` |
| `typesigs` (`MCTypeSigs`) | 6 records, 3 procedures, 4 frames, 2 objects; 69,036 states | `Denoted`, `TestsRight`, `GuardsRight` |
| `events` (`CapoteEvents`) | the whole system; 434 states | `RunsInitialised`, `RunsOnce`, `WaitEnds` |
| `safe_gc` (`MCSafeGc`) | 4 blocks, arrays of 1 or 2 that grow by 1; 6,770 states | `OneOwner`, `FreeSlotsExact`, `ImplementsOwnership` |
| `scopes` (`MCScopes`) | 3 files of up to 2 words that include each other, 2 open at once; programs of up to 5 words, 3 frames, 3 names; 143,355 states | `SourcesLive`, `Located`, `ParsedWhole`, `Slots`, `Resolves`, `Ends` |
| `declarations` (`MCGenerics`) | 3 records beside 6 declared ones, 4 families; 508,900 states | `Layout`, `CreatedWhole`, `RequirementsMet`, `ImplementsInheritance` |
| `collections` (`MCCollections`) | arrays of 2 that grow by 1 or 2; sets of 5 hashes, maps of 5 keys, lists of 5, all arrays of up to 5 of 3 elements; 42,591 states | `NothingLost`, `ExactWhileDense`, `ImplementsDictionary`, `ImplementsList`, `SortsAndSearches` |

What they show:

* **heap.** `TableExact`: `reg_with_table` tells exactly whether a struct is in
  `heap_allocs`, where it has one entry. `StructAccounting`: a struct is either alive or
  on the recycling stack, once; so `alloc` never gives one struct to two owners and
  nothing is freed twice. `FlaggedAlive`: neither FREE nor a collection releases a
  flagged object. `NoStrayFlag`: every flag is on the reset stack, permanent, or on a
  trace entry. `MarkClosed`: what the marking loop has reached is closed under
  references, so the sweep leaves no marked object with a dangling register, whichever of a frame's
  two trace entries, permanent or not, comes first.
  `ExitsClean`: a program that ends has given everything back.
* **program.** `NoDangling`: for procedures with parameters that read properties,
  for programs with globals that overwrite references, and for procedures that return
  objects, no variable of an open frame leads to a released object. `SupertraceKeepsAlive`
  holds for these, for assignments of variables to globals, and for procedures that use a global again after
  assigning it. `AnalysisSound` (`StatusesSound` and
  `SupertracesSound` of `Escape`) says why, for the first two families: at every instruction the
  statuses of the analysis are true of the heap.
* **control_flow.** `InStep`: the emitted jumps do what the text says for every nesting
  of loops, ifs, breaks, continues and returns, but for the two cases of section 6 (`Clobbered`, `Overfull`).
  `Returns` and `RejectedRightly`: `code_paths_return` is neither too lenient (again but
  for one case, `Misjudged`, and procedures that are cut off) nor too strict.
* **codegen.** Whatever the nesting of operators, calls, creations, loads and stores, the
  compiled body returns what it means (`Translated`), does the calls and stores it does
  and leaves every variable with its last value (`EffectsKept`); it reads no
  register that was not given a value (`OperandsReady`) and uses none beyond the frame that
  STACK_VALIDATE checks (`FrameCovered`). The bodies for which this is not so are listed in
  section 6; but for the 56 that `Misshared` names they are not in the instance.
* **typesigs.** `Denoted`: through nested and mutually recursive generic calls, with
  signatures pushed and popped around them, each frame's type arguments and each object's
  signature stand for the types meant. `TestsRight`: `is` and `dynamic_cast` say yes exactly if
  the object's type is compatible with the one named, across base records that rename or nest
  type arguments. `GuardsRight`: a store through a covariant alias passes exactly if the
  object itself admits the value. The tests and stores the code gets wrong are excluded by
  `TestCovered`, `Reaches` and `PutCovered`, those that read in front of `type_table` by `InFront`; section 6 lists them.
* **events.** The program runs once at most, however tasks are cut off; it runs on a
  complete runtime only; a waiting task gets on if `init_all` succeeded.
* **safe_gc.** Single ownership across slot reuse, moves and the merging of tables, with
  every allocation failing in turn, and a refinement of `Ownership`.
* **scopes.** Text under the parser stays in memory; a program that parses has been parsed
  whole, each file once; parsing ends; and the parser loses its place (`Located`) only
  where blocks stay open or a statement is owed. `Slots`: variables seen together have slots of their own, and
  every slot is below the size recorded for its procedure, through blocks that follow and contain
  each other. `Resolves`: a name has one meaning at every point, and the parser finds it.
* **declarations.** Whatever the order of mentions, declarations, creations and the end of
  the program: the records are a forest in which no final one has a child
  (`ImplementsInheritance`); the properties of an object fill its slots one by one, those of the record it
  extends first (`Layout`); a new object has a value for every property that needs one, the
  nearest default unless one is given (`CreatedWhole`); and every argument a generic record
  is used with, also through the parameter of another record, meets its requirement
  (`RequirementsMet`), but for the two cases the code accepts wrongly, which `loose` and `shifted` name (section 6).
* **collections.** A set loses nothing through growth within growth (`NothingLost`) and is
  exact unless a removal has left a gap (`ExactWhileDense`); a map is a dictionary, a list or a stack a sequence; both sorts
  sort, and the halving search finds what it looks at.

Bounds, and why they are enough.

* Three structs and three frames let an object be released by an inner frame, be
  recycled by another, and still be listed by an outer one; let a walk pass through a
  middle object that is flagged; and let a collection move objects twice. One
  reference per struct gives all chains and cycles; `Limit = 2` was explored for
  `program` (5.5 million states) and shows nothing new. `MaxTraces` bounds the trace entries of all
  frames together: 2 in `heap` are two of one frame in either order, or one of each of two frames, or a struct
  recorded twice; 3 in `program` are a call with two traced arguments or a store that
  traces both sides, and one more in another frame.
* `MaxVars` bounds the variables holding objects in one frame, 3 in general, 1 for
  the family with `assigns`.
* Eight tokens are what it takes to write a loop with an if, an else and a
  break (the shortest program that `code_paths_return` misjudges), or three nested
  conditionals; nine were explored too (4.3 million states). Two breaks per loop stand
  for 64, so that the limit is met, and passed.
* The bodies of `codegen` are all expressions of two levels of operators over a constant,
  a parameter and a variable; the same with an assignment or an increment as the last operand;
  all sequences of two statements (one possibly an if, taken or not) between declarations
  and a return; arrays with a computed size, index and element; two creations with one
  default; bodies in which a variable read only by a store into the parameter's object is assigned; and top-level code. Two levels put any operand beside any other in every position
  an allocation case distinguishes. `MaxReg = 16` is above the 12 registers they use.
* `typesigs` has one record of each shape a guard or a climb distinguishes: no arguments, an argument
  kept, an argument nested by the base record (`crate<T> extends box<box<T>>`), a property
  whose type mentions the parameter, and a property whose number is not its parameter's. Two objects are a record and the value
  stored into it; four frames hold two pushing calls above a plain one, and `SigMax` is two above
  the signatures of the program, so that a third push is refused.
* In `safe_gc` every array is full after one or two elements, so that every
  growth, and its failure, happens.
* In `scopes` `MAX_VISITED` is the number of paths, so only the limit of open files is
  exceeded; two words per file put a word before or after each include, and the limit
  on open files is met by a chain of three. `HashOf` is injective: two paths with one
  hash would make the second one silently ignored (`scanner.c` 318), which the instance
  leaves out. Five words are a procedure with a parameter around a declaration and a use,
  two blocks one after the other, or one in the other; three frames let the limit be met;
  a block that another file begins or ends needs three words and two.
* `declarations`: three records are the shortest circle that is not seen at its first step,
  and the shortest chain with a middle; the families each ask one question (inheritance; the layout of up to three
  items; creation with two names; generics with two uses), because together they multiply. The
  prelude's `box<T>`, `jar<T> extends box<T>` and `crate<T> extends box<box<T>>` give types that meet below their
  common record with arguments to compare, the same after the climb as before it or not; two uses
  are a use and the one it is compared with, or a use before the declaration and the declaration.
* `collections`: with two buckets at first and one more each time, hashes 0 to 5 collide, fall beyond the end
  and make the array grow three times within one insertion. Sets have up to 7 buckets; maps up to 12, more than these
keys ever need. A list of two that grows by two inserts and removes
  at each end, in the middle, and just after it has grown. Arrays of five of three
  elements give every order with duplicates for two levels of partition.
* Symmetry is used over structs and blocks only, in runs that check safety.

Deadlock is not checked (`CHECK_DEADLOCK FALSE`) where the modelled program ends:
after `free_runtime`, when a map is aborted or an array faulted, after a record is rejected, after a procedure returns or is rejected, after `free_safe_gc`, at
the end of parsing, where a compiled body has returned, and where a failed cast ends the program of `typesigs`. `CapoteEvents` never stops and is checked for deadlock.

Fairness. `CapoteEvents` assumes weak fairness of `initialize` and of the steps of the
current task up to the call of `run`: PROS schedules preemptively with time slices,
so a spinning task does not starve the others. Nothing is assumed of the kernel, nor
that the program ends. `Scopes` assumes weak fairness of its single thread. The other
modules assume none and state safety only.

Each property comes with a mutant, a definition that changes one mapped definition in
the way a plausible mistake would, and that TLC then finds to violate the property; the
mutants stand next to what they mutate and are listed in `PROJECT.json`.

## 5. What is proved

With TLAPS, for every number of structs, frames, references, trace entries, variables,
and every family of programs:

| Theorem | Statement |
|---|---|
| `CapoteHeapProofs!TypeCorrect` | `Spec => []TypeOK` |
| `CapoteHeapProofs!Invariance` | `Spec => []IInv` |
| `TableCorrect`, `AccountingCorrect`, `FlagsProtect`, `FlagsAccounted`, `MarkingClosed` | each invariant of the run `heap` |
| `CleanExit` | `Spec => ExitsClean` |
| `CapoteProgramProofs!ProgramTypeCorrect` | `ProgramSpec => []ProgramTypeOK` |
| `ProgramImplementsHeap` | `ProgramSpec => Spec`: every emitted program is a behaviour of the open heap |
| `ProgramAccounting` | therefore struct accounting holds in it |
| `StatusesCorrect`, `SupertracesCorrect` | `ProgramSpec => []StatusesSound`, `ProgramSpec => []SupertracesSound` |
| `AnalysisCorrect` | together `ProgramSpec => []AnalysisSound`, the invariant of the run `program` |
| `ParamsAndLoadsSafe` | in families within {params, loads}, `NoDangling` and `SupertraceKeepsAlive` at all times |
| `GlobalsSafe` | the same in families within {globals, overwrite}: a global is not used again by the procedure that assigned it |
| `CapoteEventsProofs!CalledOnce`, `StartsInitialised` | the safety properties of the run `events` |
| `ModeKnown` | the mode of a running program is that of its task |
| `SafeGcProofs!OneOwnerCorrect`, `FreeSlotsCorrect` | the invariants of the run `safe_gc` |
| `OwnershipImplemented` | `Spec => ImplementsOwnership` |
| `ScopesProofs!SourcesCorrect`, `SlotsCorrect`, `ResolvesCorrect` | `ScopesSpec => []SourcesLive`, `[]Slots`, `[]Resolves` |
| `WordsParsed` | a program that parses has been parsed whole as far as its files were opened |
| `ParsedWholeCorrect` | `ScopesSpec => []ParsedWhole`, if no two paths share a hash |
| `LocatedCorrect` | `ScopesSpec => []Located` |
| `RecordsProofs!FinalStaysLeaf`, `AlwaysForest` | what `Inheritance`, the forest of records, promises |
| `TypeCorrect` | `Spec => []TypeOK` |
| `LayoutCorrect`, `CreatedWholeCorrect` | `Spec => []Layout`, `Spec => []CreatedWhole` |
| `RecordsImplementInheritance` | `Spec => ImplementsInheritance`: therefore no final record has a child and every walk up the records ends |
| `CollectionsProofs!ListTypeCorrect` | `Spec => []TypeOK` |
| `ListImplements` | `Spec => ImplementsList`: lists and stacks are sequences, and no legal call leaves the array |
| `NothingLostCorrect` | sets: `Spec => []NothingLost` |
| `ExactCorrect` | sets: `Spec => ExactWhileDense` |
| `DictionaryImplemented` | maps: `Spec => ImplementsDictionary` |
| `SortsAndSearchesCorrect` | arrays: `Spec => SortsAndSearches`, for arrays of any length |

Assumptions: `FRAME_LIMIT \in Nat \ {0}`, `Limit`, `MaxTraces \in Nat`, families are sets
of known features, `MaxVars` is a function into `Nat`; no record is
called `None`; an array's first length is a natural number, its growth a positive one; hashes are
natural numbers, those of a map's keys differ, elements to be sorted are compared as integers, and the arrays of sets and maps are not empty at first; `NULL` is no
block and no table; a file is a sequence of words, include statements and rejected text, a word declares
and names what its kind says; limits are positive. `ParsedWholeCorrect` alone has a hypothesis, on the hashes of
paths, because `multi_scanner_visit` (`scanner.c` 318) compares nothing else: of two paths with one hash
the second is silently left out. Nothing else is assumed.

The argument for the heap. `IInv` is the conjunction of the type invariant and the five
properties. None of the later ones is inductive alone:

* `StructAccounting` needs `TableExact` (a struct is recycled by `gc_clean` only if
  its one entry is in the closing frame) and, for a struct that is freed, that it was not yet;
* `FlaggedAlive` needs both: a flag is set by walks that stay among allocated
  structs, and lost by `alloc`, which takes a struct off the recycling stack, where by
  accounting nothing is allocated, so nothing is flagged;
* `NoStrayFlag` needs `reset` empty outside collections and follows the entries of the
  frame being closed as they are consumed: the entry leaves `Recorded` in the step in
  which `trace` puts it on the reset stack or `supertrace` makes it permanent;
* `MarkClosed` rests on the lemma `WalkClosed`: a walk turns back only at flagged objects.

`Walk` is a least fixpoint; what is used of it are the lemmas `WalkStart`, `WalkClosed`
and `WalkAvoids`, proved from its definition.

For `CapoteProgram`, `StepIsHeapStep` shows that each statement either stutters on the
heap or allocates, and that each instruction executed is a heap step, so the theorems
about the heap carry over whatever the analysis decides.

That the analysis decides *rightly* is `Sound` for the family {params, loads} and `Supertraced` for
{globals, overwrite}; together with `IInv` and the types they are inductive. `NoDangling` itself
is far from it: it says that what variables reach is alive, and the invariants say why it will
still be so after the collections to come. What a collection keeps is `Below` its roots, a least fixpoint like `Walk`, and the
work of a proof is in two places. A statement changes the statuses and extends `code`: with the new
roots and links each promise must hold *as if* the instructions had been executed
(`links`, `Due`, `Roots`), so that executing one of them (`Execute`) changes nothing that is promised. And
the sweep moves what it keeps one frame down and releases the rest: what was held past the closed
frame still is, and nothing that a variable or a live object refers to is among the rest. Both
theorems hold for any number of objects, frames and variables, so also for those bounds at which the other families fail (section 6).

For `CapoteEvents` the invariant
relates `ran` to the progress of the task: between `Claim` and the end `ran = 1`, and with
`ran = 0` no program has been started.

For the records, the parser's two counters stand in for looking at the tree: `children` counts
the declarations that extended a record before it was there, so a final record may begin only if it
is 0, and `use` is looked at for a base that is there. The invariant `RInv` of `RecordsProofs` says that
between them they tell exactly whether a record has a child, and that what has not
begun extends nothing; `SameAbove` turns the loop against circles into the abstract closure. That a
declaration keeps the forest is then a fact about `Inheritance` alone (`DeclareForest`): a set of records
each of which extends one of the set would have held the new record, and so
everything above its base, which is a smaller such set.

`Layout` is about places, and the place of a property is its number plus the sizes of all records above
its own, which the linker sums up along the chain. `LInv` adds to the forest that
what is listed is known, that a record is linked after its base (`LinkedUp`), and that a record's properties are
numbered from 0 in the order of its list (`Numbered`). That the sum exists, and is one, is `OffsetUp`:
a record without a sum would have a base without one, and so on, which no forest allows. A linked record's
places are then those of its base and, above them, its own (`LinkedFilling`), and as many
as there are properties (`FillingCounts`).

`CreatedWhole` is about the values of a new object, which `Assembled` collects along the chain of records. `DefaultsOK` adds
that a record's defaults are of properties of its own or of records above it. `SlotsApart`: as a slot is filled by one property only, a slot found filled is that property's. So a record adds
exactly its defaults that are not there yet (`TakeAdds`), and no earlier entry is changed; the nearest record that has a
default for a property is the one that sets it (`WholeObject`). The chain and both loops are recursive functions;
that they are defined at all is `ForestRecursion` (along a forest) and `Recursion` (along the numbers).

For the compiler's memory, `IInv` of `SafeGcProofs` says where every block may stand: an entry and a transfer
are never of one block, no table holds what another one does but for the blocks being
moved, and the free slots are, each once, the entries that hold nothing. A transfer that gives up half way is the hard
case: `After` is split at the first entry that was not moved (`UpTo`), and the blocks behind it are those
that become `lost`. The refinement then goes action by action; each changes `live \ lost` by one
block, or not at all.

For the parser, the invariant has two independent halves. `SInv` is about the scanner: no file is open
twice, what is in memory is what is open, and the parser's token is the one before the topmost file's
position. `PInv` is about the tables: which frames belong to one procedure can be read off `nested`
alone (`Nesting`), frames further up give out slots above those of the frames they stand in
(`Above`), names seen together differ, every variable that can still be meant is in a table
(`AllListed`), and how many slots a procedure needs is known to one of its frames or recorded (`SlotsCounted`). The last
conjunct is what `Slots` needs and what closing a frame must hand outwards; that a block's number differs from its
procedure's (`ProcNotNested`) is what keeps the size recorded for a closed procedure. `FindVarIs` reduces the
search to a set, `{e.decl : e \in Visible, e.name = n}`. For `ParsedWhole`, `Accounted` counts the words before each
file's position; a file taken off the stack has been read past its end (`HandledWhole`). `Located` is the same count for
braces alone: the frames that are open, and the closing braces the parser has left behind, are one more than the
opening ones (`InBalance`); asking for a token changes neither side (`ReadTokPassed`), and the word that is taken
changes both alike (`TokenPassed`, `Counts`).

For the lists, `MemswapMoves` says what moving a stretch of an array does, wherever it is moved to, and
`Inserted` and `Removed` what that makes of the elements below `count`. That the first place of an
element exists is the least of finitely many naturals (`LeastOf`), from the library's well-founded
inclusion of finite sets; induction over numbers (`EachUpTo`) and the existence of recursive functions (`Recursion`) follow from it,
without an operator as a parameter.

For the set, `Adds` says what adding an element to an array is: whatever was found still is, the element is too, and if there
were no gaps there are none, and the answer is right. It is proved for `Insert` by induction over the depth to which the calls may still
go (`InsertAdds`), with one condition on the array: that many more buckets would take it beyond its `MAXBUCKETS`. A growth starts from an
empty array, so that what is moved into it lies without gaps however it lay before (`GrownKeeps`). After a removal there may be
gaps, and `Adds` promises less: that is why `NothingLost` needs nothing but the types and itself, and
`ExactWhileDense` its condition. A map has no removals: `InPlace`, the same without gaps and with different keys, is its invariant, and
the pairs of its array, as a function (`DictOf`), the dictionary.

For the sorts, `Rearranged` says that part of an array has its elements in another order, and the rest as it was: the elements
occur as often (an exchange is a bijection between the places of each, `SwapRearranges`), and what lies in the part lay in it before, so that
a bound of its elements stays one. A run of `sort` that finds all but the first m elements in their places puts the greatest of those
m behind the others (`PassDoes`); `PartitionParts` is the loop of `partition`, with what is smaller than the pivot up to i and the rest
up to j; `RecSortSorts` and `BinSearchFinds` go by induction over the depth of the calls, which bounds the length of the part.

Only model-checked: `NoDangling` and `SupertraceKeepsAlive` for procedures that return objects, and
`SupertraceKeepsAlive` for `assigns` (a returned object is unknown to its new frame until it is traced there, with a
permanent flag or a transient one by turns; the invariant that follows it has not been found);
`RequirementsMet`; the properties of `ControlFlow`, `CodeGen` and `TypeSigs`
(the last two of which are recursive), and the liveness properties
`WaitEnds` and `Ends`. Liveness under fairness and ENABLED, induction over data and modules
with RECURSIVE operators are outside what the installed provers can do.

## 6. What was found

Two disagreements are each shown by a run that finds the violation:

1. **`code_paths_return` takes a fall-through branch in a `while(true)` for one that
   returns** (`ast.c` 266). `while(true) { if(c) a; else b; break; }` at the end of
   a procedure gets no return, and control runs on into the code behind the procedure.
2. **Two creations of one record share the registers of its default values**
   (`ast.c` 1247, 270; `compiler.c` 156). If the second of two lists is declared at a lower register
   than the first, the default array of the first (`stdlib/data/list.csh` 4) is computed
   in the register of the list itself, and then stored into itself.

Two more were shown by runs that have since made room for others; the modules still hold what
is needed to see them:

3. **A supertraced object can be released** (`emit.c` 366; `stdheader.c` 487 promises the
   opposite). GC_TRACE *assigns* the flag. A procedure that returns an object it got from
   another call records it with flag 0; if the object was supertraced because a global
   refers to it, its permanent flag is gone. Without the condition that leaves out {globals, returns},
   `SupertraceKeepsAlive` is violated with two structs, four frames and that family in `MCCapoteProgram.cfg`.
4. **A failed `init_all` leaves waiting tasks spinning** (`pros.c` 44, 53). In `CapoteEvents`
   a task whose program counter is at `Wait` stays there for ever once `initialize` has
   returned without `Publish`; `WaitEnds` is stated for the other outcome.

Other weaknesses met while modelling, which no text of the repository contradicts and for
which no run is kept. The passing properties exclude them by a named condition or family:

* A loop's break before an inner loop that also breaks is lost: `lp_break_jumps` is
  static (`compiler.c` 571). The outer break becomes a jump to instruction 0, the start
  of the program. `Clobbered` names the case.
* More breaks in one loop than `lp_break_jumps` holds are an error, ERROR_INTERNAL (`compiler.c` 656), but `compile_value`
  does not look at the result of `compile_code_block` for a procedure's body (`compiler.c` 337; for the
  top-level code the result is looked at). The program is compiled without the rest of the procedure, its gc_clean and return included,
  with jumps to instruction 0, and running it leaves the procedure by its end. `Overfull` names the
  case; `InStep` fails in no other.
* The escape analysis loses objects in richer families (`NoDangling` fails):
  {globals, loads} (a local record stored into another one becomes "local" again when it is read back, although
  a global has been stored into it: `postproc.c` gives a loaded value the status of what it is loaded from, and
  what is then stored into the global's object is never traced; five variables); {returns, loads} with four frames and three variables (a child stored under a
  permanently flagged object and read as "local" is never traced, because walks stop at
  flags); {params, loads, overwrite}; {params, returns, loads}; {returns, loads,
  overwrite}; {globals, params} (three structs). With `assigns`, `compiler.c` 345 frees the old value of
  a variable even if it is shared.
* A global that its own procedure has assigned (the family {globals, reuses}, with three structs). The first `g = new r`
  supertraces the object and leaves the global with the status POSTPROC_GC_SUPERTRACED_ALLOC (`postproc.c` 740, 566),
  which is none of the two that make the next assignment one to a shared place (559-564): a second
  `g = new r` is analysed as one to a local variable, is not traced, and gc_clean releases what the global holds. What is
  stored into the global's object after the first assignment is not traced either. `NoDangling`
  fails; it holds, and is proved, where the procedure does not use the global again.
* The last thing in a program being an include of a file already read, or an empty
  program, makes `debug_table_add_loc` read `file_paths[-1]` (`debug.c` 76); `Located`
  is stated for programs that end in a statement of their own.
* Bodies the compiler mistranslates, found with `CodeGen` and left out of `MCPrograms`. The flag
  that says whether a value has to be moved to its target is passed on by an assignment
  (`compiler.c` 84, 96, 107), although it was computed for another target: in
  `y = x = a + b` the outer variable is never written; `f(x = a + b)` and `return x = a + b`
  lose the value likewise, and so do `return r.f = g(x)` and `f(r.f = -x)`. A property assignment as the left operand
  does not reserve the register of its value (`compiler.c` 99-108). A new record is
  allocated into the variable before its initial values are read, so `x = new rec { p = x.p; }`
  reads the new one (`compiler.c` 290). `z + (z = 1)` sees the later assignment, because a
  variable is read where it is and not where it stands. `(x = 5)++` increments the constant's
  register. At top level the value of a statement is put into the first local
  (`compiler.c` 219).
* Bodies that are mistranslated and are in the instance: `has_mutated` is written by the analysis (`postproc.c` 556, 573),
  which passes over assignments to variables not found used by the first marking (550; 799 and 809). A variable
  only a store into a caller's object reads is found used by the second (811): its `has_mutated` stays 0, and
  it shares the register of the constant or the variable it is initialised with (`compiler.c` 173-183) although it is
  assigned. In `int w = 1; w = 2; r.f = w` the assignment overwrites the constant 1, for the whole program. `Misshared` names these bodies;
  without it `Translated` and `EffectsKept` are violated.
* Effects the marking drops (`postproc.c` 143-233): a store through a second variable of a
  local object; a store into a parameter's object after `if(c) p = r;`, because the status found in
  a branch is discarded; a call that is the index of a store into an unused array; and
  `int unused = f(1) + y` emits an operand that was given no register.
* Types at run time. Whether the signature of a type argument is resolved before a call is decided by
  the call's *result* type (`compiler.c` 531): in a generic `f<T>`, a call `g<list<T>>(x)` that
  returns an int hands down a signature that `g` reads against its own registers, for ever if
  the numbers coincide. `any` is looked for before a parameter of the pattern is resolved
  (`stdheader.c` 463): `x is list<T>` with T = any matches only `list<any>`. For an operand whose
  type is a parameter that stands for an array or for any, the parameter's type is tested and not the object's
  (`emit.c` 543). `is_super_type` reads in front of its table (`stdheader.c` 438), as in
  `array<int> is array<float>`, and so does the guard of a store (a `crate<dog>` seen as `box<any>` and given a `box<any>`): what it answers there is
  left to what stands before the table. `InFront` names these. POP_ATOM_TYPESIGS releases one signature however many it pops
  (`emit.c` 177: the inner `i` shadows the instruction's).
* Guards of stores. The guard of a property that is a type parameter takes the type argument with the
  number of the *property* (`compiler.c` 382); guards know the static record's parameters, not those
  of the record that declares the property, so that a right store into an inherited property can be refused;
  children declared after their base record is complete are not counted (`ast.c` 955), and
  the downcast they need is left out. Arrays of arrays and of record 0 have no guard
  (`emit.c` 600 has `> 10` where the property guards have `>= 9`), nor have `array<any>` and
  stores of primitive values.
* Records (`Records`, `Generics`). A property may be declared twice, or hide an inherited one, because the
  record is not fully defined while its body is read (`ast.c` 311). `new rec` without braces
  creates an abstract record (`ast.c` 1196; `debug.c` 30 has an error for it). The default of an inherited
  property keeps the child's own type parameter when a grandchild is created (`ast.c` 1258-1262): the
  compiler crashes. `substitute_value_types` writes the element type into the one array
  all copies share (`ast.c` 270). `do_gc` of a record without a base is never initialised (`postproc.c` 764, 771).
  `typecheck_lowest_common_type` compares the arguments from before its climb (`type.c` 118): with
  `crate<T> extends box<box<T>>`, a use with `crate<cat>` and one with `box<cat>` are gathered as `box<cat>`, which the crate is not,
  and a declaration that requires it is accepted (`shifted`). A type parameter given to a record that is not declared yet becomes
  part of its provisional requirement, and is later looked up, by its number, among the parameters of whatever
  record is being read (`type.c` 198, 35-38; `ast.c` 917): wrong programs are accepted (`loose`), and at top level, where there are no parameters, the
  compiler follows a null pointer. `RequirementsMet` is violated without either of these conditions. `init_value_count` and
  `allocated_properties` are `uint8_t` (`ast.h` 53, 274): room for initial values and for properties wraps at 256
  (`ast.c` 316, 1189), which the bounds of the model do not reach. The generics of a frame get room for
  `TYPE_MAX_SUBTYPES` words, not entries (`ast.c` 55).
* Scopes. A `global` variable, or a procedure, declared inside a branch at top level is global
  (`ast.c` 678-709) and can be named after it, also when the branch was not taken: the call then jumps
  through an unassigned register. `int x = x;` is accepted. An include as the last statement of a block is refused, since a
  statement is parsed after it at once (`ast.c` 868), and a file that ends inside a block runs off the open files.
* Collections. After `setRemove` an element can be in a set twice (`set.csh` 16, 44); negative hashes
  index in front of the buckets; `mapEmplace` of a key that is there aborts the program
  (`map.csh` 30). `search` answers whether the key is missing, and `binSearch` never looks at the first element and
  indexes an empty array (`sort.csh` 55, 67). A division by a variable that is assigned in
  a loop can be refused as a division by zero (`ast.c` 1588).
* A comment begun with `rem` in the last line of a file is skipped to a newline that never
  comes (`scanner.c` 152). `longpow` does not end for a negative exponent (`stdheader.c` 587).
* The file limits fail with ERROR_NONE (`scanner.c` 321). A failing `malloc` in
  `safe_transfer_malloc` leaves an unassigned entry to be freed (`error.c` 100); a failing
  growth of the free-slot list is ignored by all callers of `safe_free` (`error.c` 154).
* A `for` whose third part is missing is compiled from an uninitialised statement
  (`ast.c` 818). Continue in a `for` skips the increment.

## 7. What is not modelled

* *Branches and loops in `CapoteProgram`.* The analysis visits both branches of an if in
  order and a loop body once; the model takes straight-line procedures. Generic values,
  whose traces are decided at run time (`DYNAMIC_TRACE`, `DYNAMIC_FREE`), temporaries of
  nested expressions, and procedures without `do_gc` are left to later work.
* *Failing allocations of the runtime* (`PANIC_ON_FAIL(..., CISH_ERROR_MEMORY)`): they end
  the program like `Abort`, which is modelled; the widths of the runtime's counters
  (`uint16_t`) are not.
* *In `CodeGen`*: loops (their jumps are in `ControlFlow`), else, type operators, array literals,
  generic arguments, procedures as values, the short-circuit that AND and OR do not have, and the
  gc instructions (in `CapoteProgram`).
* *In `TypeSigs`*: the memory of signatures, procedure types, requirements on type parameters
  (`T extends rec`), and how a program gets from one statement to the next.
* *In `Records`, `Generics` and `Scopes`*: expressions (`parse_value`, `parse_expression`) but for
  what they do to the tables; procedure types; the type parameters of procedures; the bound of
  255 properties is met with a smaller one; `readonly` and the type guards of properties (in `TypeSigs`).
* *In the collections*: `mapForall`, `listToArray`, `memcat`, `memcmp`, `memchk` and
  `memsetLazy`, which read an array or fill a new one; a hash function or a comparison that changes something.
* *Characters and tokens* (`scanner.c` 1-304): a pure function of the text with one word of lookahead.
* *Robot devices, foreign functions, file and text output, `hash.c`, `common.c`*: pure
  functions or I/O without a protocol of their own.

## 8. Plan

Done, in this order: `CapoteHeap`, `CapoteProgram`, their proofs, `CapoteEvents` with
proofs, `SafeGc` and `Ownership`, `MultiScanner`, `ControlFlow`, `AffectsState`, `RegAlloc`,
`CodeGen`, `TypeSigs`, `Inheritance`, `Records` and their proofs, `Generics`, the collections,
`Scopes`, the proof of `ArrayList`; `Escape` and the soundness of the analysis for two kinds of programs,
the proofs of `SafeGc` with its refinement, of `Scopes` with `MultiScanner`, of the layout of records and the values of their objects, and of sets, maps and sorts.

Next, most important first:

1. `CallStack`: `positions`, `global_offset`, STACK_VALIDATE and the registers of type
   arguments across calls.
2. Branches, generics and temporaries in `CapoteProgram`; loops and generic calls in `CodeGen`.
3. The memory of signatures in `TypeSigs`; procedure types.
4. Precedence and constant folding in `parse_expression`, against the value of the text.
5. `GrowTable`: tables whose capacity is a `uint16_t`.

Proofs: `InStep` for straight-line bodies; `NoDangling` for {returns}; an abstract object pool (a set of live
objects with owners) implemented by `CapoteHeap`.

The runs share instances where they can: a new question joins an existing run of its module
before it gets a run of its own.
