# A model of rashid

rashid runs x86_64 macOS programs on Apple Silicon. It loads a Mach-O image into
its own address space, interprets its instructions or compiles them block by
block, and lets it call native arm64 functions, which may call back. This
directory holds TLA+ modules of its core, TLC configurations that check them on
small instances, and proofs for TLAPS. Paths below are relative to `src/src/`.

## Inventory

| part | state | operations | talks to |
|---|---|---|---|
| address space, `as.c` | sorted regions with permissions, capacity of the array, two remembered hits for compiled loads and two for stores, host pages | `rsd_as_map`, `_protect`, `_unmap`, `_note`, `_free`; `_ok` and `_mapped` read | system calls and loader change it; both engines ask it |
| access checks, `cpu.c` `access_ok`, `jit.c` `put_region_check` | none | decide whether an access goes ahead | read regions and hits |
| run loop, `cpu.c` `rsd_cpu_run`, `step` | registers, flags, rip, running, fault, icount | one instruction or one block per turn; budget; exit; faults | cache, address space, native code |
| callbacks, `rsd_guest_call`, `callback.c` | pool of trampolines; saved machine on the host stack | hand out a trampoline; run guest code inside a native call | nests the run loop in itself, on the same `rsd_cpu` |
| block compiler, `jit.c` | instructions of the block, flags each must produce, words emitted | decode, `flag_liveness`, emit, cut short and redo | reads guest code; helpers of `cpu.c` |
| code cache, `jit.c` | slots (tag, code, count), arena and how much of it is used | `rsd_jit_lookup`, `rsd_jit_count` | asked by the run loop each turn |
| check mode (-J), `run_block` | two write logs | run compiled, undo, interpret, compare | both engines |
| variadic calls, `marshal_format` | reader over System V argument places, slots | walk the format string | run loop |
| loader, `macho.c`, `fixups.c`, `thunk.c` | image (segments, sections, libraries), slide, imports, stubs | parse load commands, place, copy, protect, resolve imports, walk fixup chains | address space; runs once before the engine, which finds imports by their stubs |
| classes, `objc.c` | class map, trampolines, what the runtime was given | make selectors canonical, register classes, fix ivar offsets | reads the linked image; the native runtime; every call that passes a receiver |
| `emit.h`, `*.S`, `main.c` | none of their own | encodings, register shuffling, options | |

What is hard here is not threads (the guest has one) but nesting and
remembered facts: a native function re-enters the loop on the same machine; a
block and a hit are remembered while mprotect and munmap change what they rest
on; two engines are meant to be one, down to each flag and byte; a check runs a
block twice and must not show; arguments and pointers change their form on the
way between two conventions; a budget is counted in three places.
`PROJECT.json` lists these hazards line by line.

What makes each part correct:

- *address space*: regions are disjoint and backed, mmap and mprotect have
  exactly their effect, a remembered hit is never stale;
- *checks*: compiled code refuses whatever the interpreter refuses;
- *loop and callbacks*: a callback is invisible to what it interrupts, faults and
  exits end the run, a budget ends it too;
- *compiler*: nobody sees a flag whose computation was skipped;
- *cache*: the code found for an address is the code compiled for it;
- *flags*: both engines give each flag the value its meaning in numbers requires;
- *check mode*: a block's writes are undone exactly, a pass means the engines did
  the same, and the guest cannot tell it is being checked;
- *variadic calls*: each argument the format takes is read from where System V put
  it, and what cannot be forwarded, nothing else, is refused;
- *loader and classes*: every pointer of the image means after loading what the
  linker meant, and messages to the image's classes reach their methods.

## Modules

| module | models | state and actions |
|---|---|---|
| `AddressSpace` | `as.c` | `reg`, `cap`, `hit`, and `host` for the pages mmap gave. One operator per function; `Map`, `Protect`, `Unmap`, `Note`, `rsd_as_free` are the actions. Addresses are numbers below `Word` and wrap as `uint64_t` does. |
| `GuestMemory` | the checks on top | `access_ok`, `InlineHit`; the properties of memory |
| `Engine` | `rsd_cpu_run`, `step`, `call_native`, `rsd_guest_call`, `callback.c` | `m` is the register file (one value for registers, one for flags, rsp, rip), `mem` the guest stack, `nat` and `cbs` the native calls and callbacks on the host stack, `targets` the pool of trampolines and `given` the history of which was handed out for which function; any address the guest may go to can be passed. One action for each early return of `step`, each kind of instruction, entering and leaving native code and callbacks, and for running a compiled block. |
| `BlockCompiler` | decoding, liveness, emitting, cutting, and the flags that emitted code writes | `phase` says which loop of `rsd_jit_lookup` is at work. A compiled block then runs beside the interpreter; a flag's value is the number of the instruction that computed it. |
| `JitCache` | `rsd_jit_lookup`, the arena and the loop that uses them | a word of the arena remembers which block it is part of, so overwriting would show |
| `GuestInsns` | the memory accesses of one instruction, `ld`, `st`, `st128`, the ALU case of `step` | operators only: which bytes are read and written, in which order, and what faults |
| `Interpreter` | the loop that interprets | the abstract machine: `mem`, `reg`, `fault`; one action per instruction |
| `CheckMode` | `run_block` under -J, `log_write`, `undo_writes` | memory, the two logs and their windows; one action per compiled instruction, undone write, replayed instruction, and one for the comparison. Compiled code is any of `Code`, so it may be wrong. Implements `Interpreter` by a refinement mapping that hides the compiled run. |
| `FlagMath` | `flags_*`, `rsd_i_shift`, `cond`; `put_flags_inline`, `put_cond_even` | the flags and the last two instructions; one action for each engine. Words are scaled down, registers hold garbage above the operand. |
| `Marshal` | `sysv_int`, `sysv_sse`, `marshal_format`, `call_native_variadic` | the two loops over the format as a program counter, the reader, the slots. A character is its role; an argument is the place it is read from. The C standard's reading of a format is defined separately, by positions: the directives are the one set of positions in which each begins after the one before it has ended, and an argument's place follows from how many come before it. |
| `Loader` | `rsd_load`, `rsd_fixups`, `walk_chain`, `rsd_resolve_imports`, `rsd_stubs_of` | one action per load command, segment, start of a segment's chains, page and fixup, and one per way to fail. A cell is a pointer, packed or plain. `WellFormed` says what a linker sees to, `Linked` what its pointers mean. |
| `ObjC` | `rsd_objc_prepare`, `register_class`, `rsd_objc_real_class` | extends `Loader` and goes on where it ends; one action per selector reference and per class, with the refusal of `objc_allocateClassPair`, the limits on method and ivar lists, and a registered class that has its own layout, from which `fix_ivar_offsets` reads. `ClassesFormed` says what a compiler sees to: cells that point to classes and their data, serve one purpose each, and names and selectors that differ. |
| `*Proofs` | theorems about the module of that name | |
| `MC*` | constants for TLC | |

`GuestMemory` extends `AddressSpace`. `Engine` takes from it only that some
addresses are not executable (`Wild`) and that stack accesses outside the stack
fault; `JitCache` that the executable addresses (`exec`) change when the
interpreter runs a system call. `Engine` sees a compiled block as two or more
instructions; what is in it is the business of `BlockCompiler`, which block it
is, of `JitCache`, what its flags are, of `FlagMath`, and that it can be checked
while it runs, of `CheckMode`. `Engine` takes the outcome of a variadic call from
`Marshal` (forwarded, or stopped by `StepCannotForward`) and the split of stubs
into `Imports` and `Missing` from `Loader`, where `rsd_stub_index` and `fns` decide
it. `ObjC` is composed with `Loader` in one specification, in the order of `main`.

Abstractions worth knowing: `mmap` and `munmap` are external, they place, replace
and refuse as POSIX says. Native functions do what they like with their result
and may call any trampoline they were ever given. Guest code is any code that
moves rsp only by call and ret; guest code that overwrites its own stack is left
out, and the stack properties are not claimed of it. `icount` is counted up to a
block past the budget and stays there. `RunBlock` of `Engine` is the loop without `-J`. In
`CheckMode` compiled code may do any instructions and may store more bytes than
it logs, as long as they stay in the window kept for the entry; a stray store
elsewhere is what no log can undo. An access of `GuestInsns` goes ahead when all its
bytes allow it; what runs out of the regions is left to `GuestMemory`. `FlagMath` has
bytes and two wider operands, and the 16-bit ones, whose shifts past their width the
interpreter treats as it does those of bytes, are not a width of their own. In
`Loader` the place that mmap chooses is any free one, also for an image that asks for
address 0, and what dlsym finds is a table. In `ObjC` names and lists are what the
file says they are, entries have names and implementations, and an entry size of 0 is
left out. The runtime may refuse any class. When it takes one it lays the ivars out
one behind the other, after the instance of the superclass; their alignment is left
out. A superclass that is no class of the runtime may seem to have any size.

A *tidy* guest (`TidySpec`) does not map MAP_FIXED over its own regions, unmaps
regions as a whole and does not wrap around the address space. `Spec` allows all
of that. The hazards of a partial munmap and of a mapping over another are thereby
assumed away in what is claimed of tidy guests, and not caught by it.

## Runs

Each bound is named as a constant.

- `memory_tidy`: a tidy guest on a few pages. Regions stay disjoint and hosted;
  the in-line check implies `rsd_as_ok`; `access_ok` decides an access that lies in
  regions, however many, as its bytes require, and one outside all of them by where
  a process may have memory; mprotect changes exactly the bytes it names. The address
  range holds several pages with a byte-sized granule for mprotect, so that all three
  parts of a split occur.
- `memory_wild`: any calls at all, wrapping included. The array is never overrun
  and no hit outlives its region.
- `memory_enforced` (violated): a tidy guest; see Findings.
- `engine_callbacks`: two native calls deep, hence callbacks inside callbacks, on a
  stack of eight slots, small enough that calls and callbacks run off its end. One
  guest function suffices since the properties compare machines and slots; two
  interchangeable register values (symmetry) tell a restored machine from another.
  There are four addresses to pass as a function and two trampolines, so that the pool
  runs out while the trampolines handed out before are still called.
- `engine_budget`: the JIT, a budget of four and blocks of up to three, no callbacks,
  fair. The outer run is over once it has counted its budget, every run ends, and the
  last block takes it less than a block past the budget. The fairness is weak fairness of
  the whole next-state relation: the host executes the loop as long as it has
  work, and native functions that do not call back return.
- `engine_exit_callback` (violated): see Findings.
- `jit`: the three questions of the block compiler, each in behaviours of its own.
  Blocks: all of up to three instructions from eleven that write, keep or read flags
  in every way the code distinguishes, with every place of a cut; three are enough for
  a writer, an intervening killer or keeper, and a reader, and the proof covers the
  rest. Flags: all operands in registers of four bits, widths of two to four, two sets
  of flags before; then, on two and three bits, every second instruction that takes
  the carry of the first. The flags' definitions are uniform in the width; what
  matters is that an operand has a sign, a low part with a carry of its own and
  garbage above it. Cache: two slots, compilable addresses that share one, a stub, and
  an arena that fills up after one to three blocks.
- `check_mode`: blocks of two instructions in five bytes, some not readable, some
  not writable, with windows cut short at the end of guest memory; seven
  translations of each instruction, of which at most one is right. Two
  instructions overlap in every order, and a log of four entries is the most they
  can need, as the 512 of the code are more than a block's. Every block is tried
  from every memory, one after another. The refinement to `Interpreter` is checked
  as a property.
- `marshal`: all formats of three or four pieces out of nine (text, integers,
  floating point, one and two stars, %%, long double, a set, a directive without an
  end), three kinds of function, two variadic integer registers or one, one xmm
  register, four slots and two readable words of stack: registers, slots and stack
  all run out. Fair, since one thread walks the format to its end.
- `loader`: fourteen small images. Text before or after data, both pointer formats,
  chains with gaps and over pages, imports that are code, data, missing, from a
  library past the limit or out of range, images at a fixed place, one of them linked
  at 0, without fixups, with two classes in five forms (ivars behind a
  superclass that has grown since they were linked; lists of methods and of ivars
  within the limit of two and past it), with a section past the limit, and files that
  must be refused; each at every place where it fits, and each class taken or refused
  by the runtime. Fair, for the same reason.
- `loader_super`, `loader_fixed` (violated): the same images; see Findings.

Deadlock is not checked anywhere: a guest that stopped, a block that was
declined, a call that was forwarded and an image that is loaded have no next step.

## Findings

Shown by runs that violate a documented promise:

- An exit inside a callback is forgotten (`cpu.c:1231`): `rsd_guest_call` sets
  `running` again unless the guest faulted.
- A class whose superclass is a class of the same image is registered under the
  image's structure (`objc.c:213`), which is a handle the runtime does not know;
  `rsd_objc_real_class` is not applied there.
- A write that begins in a read-only region and runs out of all regions is let
  through (`cpu.c:63`), because `access_ok` refuses only what lies wholly in regions;
  `as.c:112` says permissions are enforced on every access, `cpu.c:37` that every access
  is permission-checked. `AccessEnforced` is that promise.
- An image that is not position-independent and is linked at 0 is placed anywhere
  (`as.c:86`: a place of 0 means any), where `macho.h:81` says it must land on its
  linked address or the load fails. `FixedStays` is that promise; `Linked` excepts the
  case.

Shown by a bound that is weaker than the documented one:

- A compiled block is counted as a whole once it has run (`cpu.c:1788`), so with `-j` a
  run may take up to a block less one instruction more than its budget, where `cpu.h:112`
  says "up to". `BudgetStops` states what holds: less than a block too many, and none
  when only interpreting (proved; `engine_budget` has the JIT on).

Behaviour of the models that no run is spent on:

- After a partial munmap the region is still recorded, so `rsd_as_ok` accepts
  accesses to pages that are gone (`as.c:144`); MAP_FIXED over an existing region
  leaves both regions, and compiled code may accept by one what the interpreter
  refuses by the other (`as.c:95`). This is why `AccessExact` and `InlineSound` are
  claimed of tidy guests: under `Spec` both fail.
- A callback can step over the budget, which the interpreter compares for
  equality (`cpu.c:1907`, `cpu.c:1216`): `BudgetStops` fails with `CallsBack`.
- A cached block runs after its address lost execute permission, or after other code
  was written there (`jit.c:1286`).
- An exit on exactly the last budgeted instruction is reported as an exhausted
  budget. A native function may call back again after a callback faulted, and
  guest code then runs with the fault recorded, until the outer loop stops it. In
  that state a variadic call that cannot be forwarded leaves `running` set and rip
  on the stub (`cpu.c:669`), so that the callback never ends.
- `%*.*f` takes two integers and gets one slot, so that the arguments after it are
  shifted (`cpu.c:606`); a scanf set `%[...]` takes a pointer and gets none; a
  directive cut by the terminator makes the walk read on behind the string
  (`cpu.c:605`). `ForwardedRight` and `InString` are about formats without these.
- The interpreter reads the destination of a mov before writing it (`cpu.c:1329`),
  so on memory that may be written and not read -J reports a disagreement; it is
  the only false alarm (`NoFalseAlarm`).
- The class map has 256 entries and a class takes two; sections past the 64th and
  libraries past the 128th are dropped without a word, and with them a class list
  or the symbols of a library. Method lists of more than 4096 entries and ivar lists of
  more than 1024 are not read, so that such ivars keep the offsets they were linked
  with. `MessagesArrive`, `IvarsInPlace` and `Linked` are about what fits, and
  about images that are `WellFormed` and, for the classes, `ClassesFormed`.
- `imul` clears CF and OF, as `flags_logic` does, where x86 sets them on overflow;
  `read`, `write` and `close` give the guest 1 as the error number (`cpu.c:353`),
  where the comment at `cpu.c:345` says errno. Neither is modelled.

## Proofs

Constants are arbitrary within the named assumptions: sizes are naturals, the
sentinels differ from each other and from every guest address, the hash maps
addresses to slots.

- `GuestMemoryProofs`: `TypeCorrect`, `HitsAlwaysCurrent` and `ListAlwaysFits` for
  any guest; `TidyRegions`, `TidyHosted`, `InlineCheckSound`, `AccessAlwaysExact` and
  `ProtectAlwaysExact` for tidy ones. A hit is current because whatever changes
  regions forgets the hits. The in-line check is sound because a current hit lies
  inside one region and, regions being disjoint, `find` returns that one
  (`FindOnly`). The loop of `rsd_as_ok` looks at a byte
  per region only; `WalkIsBytewise` shows that in an exact list it answers for each
  byte. For mprotect, `ProtectedParts` rests on three facts: no part is lost when the
  new list is built (`PickCovers`), each byte of a region is in one of its parts
  (`PartsCover`), and a part has the permission its bytes must have (`PartsHold`).
- `EngineProofs`: `EngineTypeCorrect`, `FaultCarriedBack`, `CallbacksTransparent`,
  `ReturnAddressesKept`, `SentinelsMatch`, `PoolAlwaysSound`, and, assuming
  `~ CallsBack`, `BudgetAlwaysStops`. What makes the stack
  properties inductive is `StackInv`: every native call and callback frame lies below
  the ones before it, each callback's saved machine is that of the native call under
  it, and above the present frame memory is as it was. `PoolAlwaysSound` is about the
  history of what was handed out: the pool only grows, and only while there is room. The
  last theorem, by `BudgetInv`, needs its hypothesis: with callbacks the statement is false of the code, as Findings says. It bounds how far
  a block may take the count past the budget, and does not say that none does.
- `BlockCompilerProofs`: `FlagsAgree`, `ExitFlagsAgree`, `NeedAlwaysExact`,
  `EndAlwaysKnown`. Before instruction i the engines agree on the flags that are live
  there; `flag_liveness` makes each instruction keep this, and all flags are live at
  the end (`FlagInv`). It holds for a cut block because the cut computes liveness
  again. `ExactInv` says what the backward pass has found so far: the flags wanted at
  an instruction are those with a reader, or the end, before the next write. It
  follows the code's loop, so that no induction over the block is needed. `EndInv`
  relates `ended` to the instruction in last place; a cut drops both together.
- `JitCacheProofs`: `CacheSound`, `BlockOfRip`, `ArenaUseBounded`. What the
  cache points to lies below `used`, and only words from `used` on are ever written
  (`CacheInv`). A slot is filled once, at the cost of at most `MaxWords` (`BoundInv`).
- `CheckModeProofs`: `UndoIsExact`, `AgreementMeansEqual`, `NoFalseAlarms`, and
  `CheckingInvisible`, the refinement of `Interpreter`. `CheckInv` says of the log
  (`Restores`): the first remaining entry that keeps a byte has its old value, and a
  byte that no entry keeps has it still. This is what undoing from the last entry
  to the first preserves. Equal memory after a comparison without difference then
  follows byte by byte: a byte of no window was written by neither engine, any other
  was compared. That right code is not reported needs to know what the compiled run
  did while the replay goes on: `TraceInv` says that there is a sequence of states,
  one per instruction, which the compiled run took and which the replay follows, log
  included, unless an instruction moves to memory that may be written and not read.

- `MarshalProofs`: `SlotsAlwaysRight`, `RefusalsRight` and `StaysInString`. The invariant
  (`MarshalInv`) relates the walk to the reference at every character: up to position
  m exactly the arguments before m are read, and the registers and stack words used
  are as many as there are arguments of each kind before m (`ReadTo`). `ReadOne` is the
  step of that: `sysv_int` and `sysv_sse` find an argument where System V put it. That a
  format has a reading at all (`ReadingExists`) is shown by the least length for which
  it would not; the rest is counting (`CountNext`, `CountMonotone`).
- `LoaderProofs`: `ImageLinkedRight`. `LoadInv` has a part for each step of loading: the
  recorded segments are those of the commands read so far; the segments copied and
  protected so far are as in the file, because segments do not overlap; the
  packed cells of the pages started so far are right and all others still as in the
  file, up to `at` in the page whose chain is being followed. A chain goes from cell to
  cell and the invariant speaks of all cells below `at`, so two facts carry it: no
  packed cell lies between a cell and its next (`NoneBetween`), and none after the last
  (`NoneAfter`). Both follow from `WellFormed`, by the least cell for which they fail.
- `ObjCProofs`: `LinkedBeforeObjC`, `MessagesAlwaysArrive`, `IvarsAlwaysInPlace`, about loading
  and preparing in one specification. `ObjCInv` takes over where `LoadInv` ends. The
  pointers that make up classes stay as linking left them while selectors and ivar
  offsets are written (`Layout`); selector references are canonical up to the loop's
  counter, and all of them before the first class (`SelectedTo`, `AllSelected`), which
  is what a small method list needs; and for the classes registered so far the map has
  both handles, the pool every implementation, and the image every ivar offset
  (`RegisteredTo`), unless the runtime refused the class, which leaves everything as it
  was (`RefusedStep`). Ivars lie apart because each begins where the one before it ends
  (`ExtentsSteps`, `ExtentsApart`), whatever size the superclass has. That there is room is counting: a class takes two entries of the map
  (`MapStep`), and a pool without repetitions that is as long as the set of all
  implementations has them all (`AllInside`, `PoolTakes`). A handle is found again
  because no two pairs have the same (`EntriesDiffer`).

The last three are about every file of the shapes `LoaderAssumption` and
`ObjCAssumption` give (naturals for addresses and sizes, sequences for lists), at every
place mmap may choose. What they assume besides is that symbols, selectors and
classes of the host lie outside guest memory, and that different texts are different
selectors, as the runtime promises. The five images
with classes in `loader` meet `WellFormed` and `ClassesFormed`; one has a class whose name
the runtime has, one a superclass in the image, one lists that are too long to be read, one
a section that is dropped.

Induction over data is written as the absence of a least counterexample, from
`LeastElement`, since the library's induction theorems take an operator.

Only model-checked:

- liveness (`Terminates`, `Ended`, `LoadEnds`), which is out of TLAPS' reach;
- `FlagsRight`, `ConditionsOrder` and `CarryPassed` of `FlagMath`: the code they are about
  works on the bits of words, and `Bitwise` defines those by recursion, which the
  provers do not take.

## Not modelled

Left out:

- the arm64 encodings of `emit.h` and the assembly, where there is no state to check;
- the arithmetic of multiplication, division and SSE, and its code generation in
  `jit.c`: values of 64 and 128 bits and floating point are beyond TLC, and scaled
  down they would be another program;
- the values that system calls return, since the kernel decides them;
- `find_slice` (which bytes of the file are the image), option parsing, the crash
  handler, printing, dumping and profiling.
