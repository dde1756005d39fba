# Verification of jniDegger

jniDegger is an Android app that loads an ELF library with `dlopen`, runs its
`JNI_OnLoad` against a fake Java VM and prints what the library asks of it. It
carries a copy of the Dobby hooking library and a small thread pool. This
directory models the parts of it that keep state, checks them with TLC on small
instances and proves the main results with TLAPS for every instance.

Paths below are relative to `src/app/src/main/cpp/` unless they start with `src/`.

## 1. Inventory

| component | code | state | operations | modelled |
|---|---|---|---|---|
| Fake JNI environment | `native-lib.cpp`, `hook_jni.h` | the function table, `gClassNameMap`, `gMethodIDMap`, `HasException` | `initial`, `loadELF`, GetEnv/Attach, 40 JNI functions | `FakeJNI` |
| Thread pool | `ThreadPool.h` | queue, `stop`, mutex, condition, workers | constructor, `enqueue`, worker loop, destructor | `ThreadPool`, `TaskPool` |
| Interceptor and routing | `Dobby/source/Interceptor*`, `InterceptRouting/`, `dobby.cpp`, `code-patch-tool-posix.cc` | list of entries, page permissions, the code itself | `DobbyHook`, `DobbyInstrument`, `DobbyDestroy`, `DobbyCodePatch` | `Hooking`, `HookTable` |
| Memory allocator | `MemoryAllocator/MemoryAllocator.cc`, `platform-posix.cc` | arenas and their cursors | `allocateExecBlock`, `allocateDataBlock` | `MemoryAllocator` |
| Near memory allocator | `MemoryAllocator/NearMemoryAllocator.cc`, `ProcessRuntimeUtility.cc` | the same arenas, the memory layout of the process | `allocateNearBlock` | `MemoryAllocator` |
| ARM, Thumb and ARM64 relocation | `InstructionRelocation/arm*` | cursor, offset map, labels, code buffer | decode and rewrite of each instruction, binding, branch back | `RelocateARM`, `RelocateARM64`, `Relocation` |
| x86 and x64 relocation, decoder | `InstructionRelocation/x86*`, `x64` | the same, and the size of the block | `x86_insn_decode`, rewrite, retry | `RelocateX86`, `X86Decode` |
| Trampolines, assemblers | `TrampolineBridge/Trampoline`, `core/` | code buffer, pseudo labels | generate, bind, fix up | `Trampolines`, `X86Assembler`, `ArmAssembler`, `Codec` |
| Routing plugins | `InterceptRouting/RoutingPlugin` | list of plugins | enable, disable near branches | `Trampolines` |
| Closure trampolines and bridges | `TrampolineBridge/ClosureTrampolineBridge` | registers and stack of the interrupted code | enter, handler, leave | `ClosureBridge` |
| ELF symbol resolver, process runtime | `builtin-plugin/SymbolResolver/elf`, `ProcessRuntimeUtility.cc` | the static list of modules | parse the maps, resolve | `SymbolResolver` |
| Thread support, function wrapper | `MultiThreadSupport`, `FunctionWrapper` | call stack of each thread | push, pop | no: dead code |
| Activity, signature proxy | `src/app/src/main/java` | replaced package manager | `onCreate`, `hookPMS`, `invoke` | `onCreate` in `FakeJNI` |
| Darwin/Windows/kernel back ends, other plugins, TINYSTL, logging | | | | no: not what the app ships, vendored, or output only |

How they interact. `MainActivity.onCreate` calls `initial()` and then
`loadELF()`, which hands the library a `JavaVM` whose `GetEnv` gives it the fake
table; from then on the library's threads call the hooks of the table, and every
hook shares the two maps without a lock. `DobbyHook` takes memory for relocated
code from the memory allocator, whose arenas the near allocator shares, and
writes the trampoline with `DobbyCodePatch`. The relocator reads the prologue with
a decoder and writes its copy with an assembler; an instrumented instruction jumps
to a closure trampoline and through it to the bridge. The symbol resolver gives the
addresses to hook. The thread pool is on its own.

What is hard. The thread pool notifies outside its mutex and its destructor races
with tasks that enqueue. Dobby takes no lock at all, changes page permissions
around a write to live code, and reads memory that another hook may have patched.
The allocators work on a memory layout that other threads change and compute page
limits with an off-by-one; a failed `mmap` is not noticed. The fake JNI layer
searches and inserts in two steps and rebuilds a table that is in use. Relocation,
assemblers and bridges are sequential, and hard for another reason: what is wrong
with them shows in one instruction, at one alignment, with one register or one
distance. The bridge runs inside interrupted code, and a signal may come between
any two of its instructions; the resolver reads a list of modules that changes
while it reads. The `hazards` of `PROJECT.json` list these places line by line.

What makes each part correct: an accepted task runs once and before the destructor
returns, and no wakeup is lost; memory and entry list agree between calls, pages
keep their permissions, and code that can be entered is ready; blocks never overlap, are in
reach and have their access; a handle keeps its name, and a function
that has a hook does not fault; a moved instruction does what it did; bytes mean what the
processor's manual says; a trampoline leads to its hook; a handler sees the
registers and its changes arrive; a resolved address is one the symbol has.

## 2. Modules

| module | is |
|---|---|
| `TaskPool` | abstract specification of a pool: accept, start in order, run once, close when drained |
| `ThreadPool` | the pool of `ThreadPool.h`, with its refinement mapping to `TaskPool` |
| `ThreadPoolProofs` | its proofs |
| `HookTable` | abstract specification of a table of hooks: refuse or accept, take effect at one moment, return |
| `Hooking` | hook, instrument and destroy, step by step, by several threads, with its refinement mapping to `HookTable` |
| `HookingProofs` | its proofs, for calls in any interleaving and for calls that come one at a time |
| `MemoryAllocator` | both allocators |
| `MemoryAllocatorProofs` | its proofs |
| `FakeJNI` | the fake VM, its tables and the library that calls them |
| `FakeJNIProofs` | its proofs |
| `CodeItems` | instructions and data at offsets: what relocated code is made of |
| `CodeMachine` | what a processor does with them, the reference |
| `Relocate` | the state of `GenRelocateCode` and the steps all architectures share |
| `RelocateARM`, `RelocateARM64`, `RelocateX86` | the steps of each architecture |
| `Relocation` | their composition, types and structure |
| `RelocationProofs` | its proofs |
| `RelocationEffect` | the copy against the original, by `CodeMachine` |
| `X86Decode` | `x86_insn_decode` on bytes, with its opcode tables |
| `X86Assembler`, `ArmAssembler` | the assemblers and the readers of offsets, on bytes, words and halfwords |
| `X86Reference`, `ArmReference` | how the processors read the same bits |
| `Trampolines` | generation of the trampoline and of a near forward one, plugin list |
| `TrampolinesProofs` | its proofs |
| `Codec` | composes `Trampolines` with decoder and assemblers and states what they promise |
| `ClosureBridge` | closure trampoline, bridge and handler as small machine programs |
| `ClosureBridgeProofs` | its proofs |
| `SymbolResolver` | resolver, module list and libraries that come and go |
| `SymbolResolverProofs` | its proofs |
| `MC...` | instances for TLC; `MCHookingSerial` adds to `MCHooking` that the instance meets `SerialCalls` |
| `MCServices` | allocator, bridge and resolver, which share no state, in one instance: a behaviour is one of one of them |

Definitions named `X_Something`, with the comment "Mutant", are changed forms of
`X` that a plausible mistake would give; they are not part of any specification.
`PROJECT.json` says which property each one breaks.

### ThreadPool

A critical section under `queue_mutex` is one step; `notify_one` and `notify_all`
run after the unlock and are steps of their own. `pc` says where a worker or client
is, `fate` the state of a task's future. The constructor launches workers one by
one while the first ones already run. A running task may call `enqueue`. A spurious
wakeup is always possible. The destructor starts when no client is inside
`enqueue`: C++ requires it of the caller.

### Hooking

32-bit ARM, the only ABI the app builds (`src/app/build.gradle:49`). A call is a sequence of
steps: page permission and list search, relocation (first read of the prologue),
save (second read), `*origin_func`, `mprotect` of the first page and of the last when that
is another, `memcpy`, the two `mprotect`s again, the two halves of `push_back`. Memory holds
halfwords; `<<0, a>>` is the program's own code, `<<k, i>>` halfword `i` of the trampoline
of hook `k`. `thumb_mode` is undefined for an even address and chosen freely;
`origin_insn_size` is undefined after a failed relocation and one of `JunkSizes`. An address
where nothing is mapped (`Elsewhere`) is refused by the failing `SetPermission`. The
`memcpy` of 8 to 12 bytes is one step: no step of the model reads part of them between
two of its stores except another thread's reads of the same prologue, of which nothing is
claimed. The cache flush is left out. `ret` is the last call of a thread that returned, its
function and its value.

`HookTable` is what a caller who makes one call at a time is promised. Its `table` says
which hook answers each function; `original` which hooks can call the function they
replace. The mapping reads both off the code's state: the table off the first halfword of
each function in memory, not off the entry list. So `Install` and `Restore` are the
`memcpy` of `DobbyCodePatch`, and the search in the list, a separate structure changed by
later steps, must agree with memory for `Refuse` to be right.

### MemoryAllocator

Every address has an owner: free, foreign, `rx` or `rw`. Address arithmetic is
modulo `AddrSpace`. `allocateNearBlock` is two steps, the search in the layout and
the fixed mapping, because other threads (`ForeignMap`) map memory in between.
`code_arenas` and `data_arenas` are one sequence tagged with the kind. Allocator
calls themselves come one at a time. The alignment of a gap to four bytes is left
out: gaps start on pages.

### FakeJNI

`table` is what stands in the function table below the hooks (nothing, zeros, numbers),
`hooks` how many hooks of `HookOrder` it has, `jvm` how many functions the table of the
Java VM has, `app` the position in `onCreate`. `initial()` is one step per assignment, because
a library loaded by an earlier activity may look between any two. The library is the environment: once
loaded, its threads call any function with any handle, so return values are not
kept and functions that only return a value are no steps. `operator[]` of the maps
adds an empty name (`Lookup`). `FindClass` and `GetMethodID` are two steps, search
and insertion. A crash ends the behaviour.

### Relocation

A program is a sequence of instructions (records: what it does, length, registers,
offset, condition); a step is one iteration of the loop of `GenRelocateCode`, with
its guards in the order of the code's tests. Emitted code is a set of items at
offsets, a literal load knows its label, and `Bound` is `RelocBind`. The change
from Thumb to ARM inside the code (`changed`), the padding, the branch back and the
two failures of memory are steps. x86 programs carry bytes as well, and the step
uses what `Decode` makes of them; when that is not the length of the instruction
the behaviour ends as `derailed`. `EffectKept` runs each instruction and its copy
on the reference machine, with the condition true and false, and compares the
registers, the place control goes to and where the return address leads. It holds
with equivalence: `Deviates` is exactly the set of instructions whose copy does
something else.

### Codec and trampolines

Opcode tables are the sets of opcodes with a ModRM byte or an immediate, which is
all of an entry that the decoder uses. Encoders work on numbers: a field is a power
of two, an `or` of overlapping fields is bitwise (`OrBits`). A job is one call; the
reference modules decode the result as the manual says. `Trampolines` has the
decisions of `GenerateTrampolineBuffer`, one step per read of the plugin list, so
that enabling and disabling fall in between, and the near memory it may or may not
get. Ranges are constants so that both edges of each lie inside the instance.

### ClosureBridge

The trampoline and the bridge of each architecture are sequences of instructions
on registers and stack words; one step executes one. A signal handler may run
before any of them and overwrites the words below the stack pointer. The handler
writes any of a set of fields of `DobbyRegisterContext` and destroys the registers
the calling convention lets it destroy, vector registers included: those of ARM and the
x86s, which the bridges do not save, and of ARM64 those but q0-q7. `NotShown`, `Lost` and
`Steers` are stated
exactly, and the property fails if one of them is too large. A value is a number: an
address on the stack, or one of the negative numbers that stand for a register's first
value, a value the handler wrote, a word of the caller or an entry of code. The stack
pointers and the sets of fields written are constants. Two things are assumed: 70 words
below the stack pointer, which is more than the bridges use, and on ARM64 the alignment of
the stack pointer to 16 bytes that the processor enforces (`StacksAssumption`); a handler
writes fields of the context and `sp` (`TouchesAssumption`).

### SymbolResolver

The maps are read as a whole and parsed line by line; between lines libraries are
loaded and unloaded, after which the read of a header may fault. Calls of the resolver come one at a time. A file has program
headers and sections; the bias and the two symbol tables are computed as the code
does. Strings are model values, `strstr` is the relation `Matches`.

## 3. Runs

| run | instance | shows |
|---|---|---|
| `threadpool` | 2 workers, 1 client, 3 tasks | safety, refinement of `TaskPool`, liveness |
| `hook_serial` | 1 caller, 3 pages of code and two of data of 16 bytes, 3 hooks, two ARM targets, null and an unmapped address | memory and entries agree between calls, code pages keep their permission; refinement of `HookTable` |
| `hook_threads` | 2 callers, 1 Thumb target at the end of a page, 2 hooks, memory may run out and leave a size of 0 or of 13 halfwords | no page stays writable and executable; code is ready when it can be entered |
| `services` | allocator: 8 pages of 4 bytes, 3 blocks, 1 foreign page, `mmap` may fail; bridge: four architectures, each alignment of the stack, fields of each kind written; resolver: three libraries, two addresses, two loads, two symbols | blocks disjoint, in reach, accessible; context shown, changes arrive, the rest is kept; results and failures have a cause |
| `fakejni` | main thread and one of the library, 2 activities, 3 heap addresses, null | names and handles; a function that has a hook faults only while a second activity fills its table |
| `relocation` | all pairs of 13 ARM, 24 Thumb, 14 ARM64, 14 x64 and 11 x86 instructions, then plain ones | the copy does what the original did; structure; termination |
| `codec` | all one and two byte opcodes with prefixes and addressing forms; all assembler methods; sites around each range | decoder, assemblers, trampolines |

The bounds. Two workers are needed for a wakeup that goes to a worker that finds
nothing, three tasks for a nested enqueue beside a queued one. Two targets in
`hook_serial` have a patch that ends with its page and one that crosses it; three
hooks allow hook, destroy and hook again of one beside the other. In `hook_threads`
two hooks of one address overlap in every order. The positions of the allocator in `services` are
so chosen that the reach wraps below zero, ends inside a page and covers the whole
space; three blocks give two from one arena and one from another. Three heap
addresses in `fakejni` leave room for one handle more than the property allows.
Every bound is a constant (`MaxHooks`, `MaxBlocks`, `MaxForeign`, `MaxCreates`,
`Tasks`, `MaxLoads`, `MaxModules`, `MaxPlugins`). The three parts of `services` share
no state, so the sum of their behaviours is as good as their product. In `relocation` two instructions
are enough to put each kind at both alignments and behind each kind, and to reach
the change of state; the x64 programs outgrow the first block, so the retry
happens. A page of 16 bytes and ranges of 32, 64 and 128 in `codec` put targets
before, on and past every limit; the decoder depends on an opcode, its prefixes and
its addressing byte only, which are enumerated. Callers are symmetric in `hook_threads`, which checks invariants only.
Deadlock is not checked where the model may stop: a process that crashed, an
allocator at its bound, callers out of hooks.

Fairness is assumed in two places. `GenRelocateCode` runs to its end in the thread
that called it: weak fairness of its steps, for `RelocationEnds`. In the thread pool a thread that can run does, tasks
return, and the mutex is held for a few instructions; nobody has to call `enqueue`
or the destructor. Weak fairness of each thread's own steps is enough, since the
critical sections are single steps.

### Disagreements between the code and what it says

These have a run that TLC answers with a counterexample, quoted in `findings`.

| run | what happens |
|---|---|
| `destroy_thumb` | a Thumb function is hooked twice (the list is searched with the Thumb bit); destroyed twice, it keeps a trampoline |
| `near_page_edge` | a fixed mapping is a page longer than the gap found for it and replaces memory in use |
| `hook_permissions` | a patch that ends with the last page of code takes the write permission from the data page behind it for good, also after its destroy |
| `table_rebuilt` | a second activity rebuilds the table in use, and a call of `FindClass`, which has a hook, faults |
| `fault_index` | the fault address of a missing function is its index plus 4 or 5, never the index: slots 29 and 30 both fault at 34 |

The models contain more behaviour of this kind, without a run of its own: an ARM
function may get a Thumb trampoline (`thumb_mode` is uninitialised) and a failed
relocation is ignored (`Hooking`); a fixed mapping may replace what another thread
mapped since the search, a failed `mmap` leaves an arena at 0 that hands out
addresses, and `allocateDataBlock` aborts when its page is too small
(`MemoryAllocator`); a real object passed to `GetObjectClass` crashes, and two
functions race between search and insertion (`FakeJNI`). The invariants state the
following exactly, most of it with equivalences, so that a change of the code in
either direction shows.

- `Deviates`: ARM conditional `ldr` and `adr`, loads that are not of a word, `blx` to
  a halfword; Thumb conditional branches, `adr` in 4 bytes or at an odd halfword,
  4-byte `ldr` there or to pc, `blx` beyond 8 MB (the sign is taken one bit too
  low, `InstructionRelocationARM.cc:592`); ARM64 literal loads that are not of
  8 bytes into an x register, and `b.al`, whose condition is "inverted" to the equally
  unconditional `b.nv` (`InstructionRelocationARM64.cc:244`); the 6-byte `jcc` of x86 and x64; the pc thunk of x86.
- `Misread`: opcodes whose entry lacks the ModRM byte, SIB bases compared with a
  register number in another order, 64-bit immediates and addresses, `ENTER`, and
  operand sizes changed by a prefix.
- `X86Misencoded`, `A64Misencoded`, `ArmMisencoded`, `ThumbMisencoded`, `ArmMisread`:
  calls of assembler methods whose bits mean something else. Trampolines, bridges and
  relocators make none of those calls.
- `PastLastPage`: `adrp` reaches by pages, the test before it counts bytes.
- `NotShown`, `Lost`, `Steers`, `AlignedCall`: what a handler cannot see, what the
  interrupted code loses, which fields steer the bridge, and when the stack is not
  aligned at the call of the handler. An instrumented function loses the vector registers
  its arguments may be in, on all but ARM64. On IA32 "save flags register" and "restore
  flags register" (`closure_bridge_x86.cc:48`, `:86`) are not what happens: the flags are
  saved after `sub esp` and changed by an `add esp` behind `popfd`. Of the comments
  "@rdi: data_address" and "@rsi: DobbyRegisterContext stack address"
  (`closure_bridge_x64.cc:70-71`) each names what the other register holds.
- `ResolvedDefined`: the module list is never cleared, so a result may be the address
  of a library that was unloaded. `NothingMissed` likewise accepts the fault of a header
  read after its library was unloaded: the code does nothing to prevent either.

## 4. Proofs

All theorems hold for every value of the constants that satisfies the `ASSUME`s of
the module.

**ThreadPoolProofs** (any number of workers, any finite set of clients, any tasks).
The inductive invariant is `TypeOK /\ Holding /\ Stages /\ OnePlace /\ ReturnsDrained`.
`Holding` ties a thread's position to the task it holds: without it a step could
write the future of no task. `ReturnsDrained` is what lets `DestructorDrains` follow
when the last worker is joined. `NoLostWakeup` is proved with cardinalities: a push
adds a notifier, a notification turns it into an awake worker, and a worker that
takes a task or goes to sleep pays for itself. The refinement of `TaskPool` is
proved step by step from the same invariant.

**MemoryAllocatorProofs** (any page size, space, requests, reach). The invariant adds
to the properties that cursors stay inside their arenas, blocks lie below the
cursor of their arena, a near call in progress is within reach, and, while `mmap`
keeps its part (`Intact`), arenas are mapped with their access and disjoint. The
arithmetic of the reach needs `2 * SearchRange <= AddrSpace`: then at most one of
its two ends wraps, and a wrapped end finds nothing.

**FakeJNIProofs** (any threads, names, addresses). A handle costs a search in vain,
and no search is in vain once there is a handle: handles plus seekers of a name
never exceed the threads (`Searches`), which gives `OneHandlePerThread`. Named
addresses only grow because an insertion takes a fresh address. `FaultsExplained` rests on
the order of `initial()` and `loadELF()`: the first library runs when both tables are
complete, so only a later activity can have one find a hook missing, which is what
`table_rebuilt` shows.

**HookingProofs** (any callers, pages, targets, number of hooks). `W^X` follows from
the types and from the pages (`Unprotected`) that a thread has made writable and not yet
read-only, one `mprotect` at a time.
`HookReadyWhenActive` needs that every halfword any thread or entry holds (the
saved prologues, the buffers about to be written) belongs to a hook that is made
and whose `*origin_func` is decided, since a destroy may write an old trampoline back.

**HookingProofs, one call at a time** (any even targets, pages of at least 12 bytes, any number of hooks).
The above holds for every interleaving; what a user of the library counts on
(memory agrees with the list, a destroyed function gets its code back) needs the
hypothesis `SerialCalls`: one caller, memory for the relocated code, and targets at even
addresses, at least 12 bytes apart. The value of the uninitialised `thumb_mode` stays
free. `destroy_thumb` shows that even addresses are needed: with the Thumb bit an
address is hooked twice. `MCHookingSerial` has TLC evaluate the hypothesis on the instance
of `hook_serial`, so that it is not empty. Between calls
the invariant says that memory is a function of the list: at a listed address stands
the trampoline of its entry, elsewhere the program. During a call it does not, so
the invariant follows the call: for each of its steps it says which hooks are in
memory (`Live`: the list, with the hook being made once it is written, without the one
being destroyed once it is restored), what the call has saved, and which pages it has
unprotected. `CodePagesRestored` says which pages may differ from what the loader set: those
that hold a function or the byte behind a patch, and they are readable and executable. Nothing is found twice because an address is searched before it is added
and a call cannot be overtaken. `SerialDestroy` is the property that `destroy_thumb`
violates, proved here for even addresses.

`SerialTable` is the refinement: under `SerialCalls` the library implements `HookTable`.
Every step of the only caller is a step of the table or leaves it alone. The search of
the list becomes `Intercept`, `Destroy` or `Refuse`, and that it decides as the table does
is the agreement of list and memory between calls; writing the patch becomes `Install` or
`Restore`, and that it changes one entry only is the distance of the targets. `TableInv`
adds what the mapping needs: hooks have numbers, those not yet given out have no original,
and a hook whose caller asked for the original has it before its trampoline is written.

**RelocationProofs** (any set of programs of any length, any addresses). The properties
are about items anywhere in the buffer, and only the last sequence is known in a step;
the invariant therefore carries the whole `Layout`: every item ends before `size`, or,
for x64, lies in the 64 bytes of near memory of an earlier instruction; items are
apart; no item names a label that has not been appended. One lemma says that a
sequence that fits between the old and the new end keeps the layout (`Grow`), and each
action has the sequence it emits shown to fit, item by item; this is where an offset or
a length that is counted wrongly would fail. Thumb needs that the buffer ends on a
halfword before each instruction and on a word before the labels (`ThumbAligned`);
that the near memory is not reached needs the bound of 18 bytes for an instruction
(`NearRoom`). The lemmas about `Decode` show that it returns numbers for any bytes that
have an opcode behind at most 14 prefixes. Assumed of the programs: instruction lengths
that the architecture has, a function at an address its instruction set allows (any even
one for Thumb), and near memory apart from the block. The instance of `relocation` has
functions at 1024, and an instruction behind one of two bytes is at 2 modulo 4.

**RelocationProofs, what the code does.** `FallThrough` and `EffectKept` speak of an
execution of the emitted code, up to 12 instructions by `CodeMachine`. The induction over
the run is done once: a sequence of states in which each follows from the one before is
the run (`RunIs`, by a smallest counterexample), so that a few steps can be written down
(`ThreeSteps`). An instruction is found at an address because items are apart
(`AdvanceAt`, from `Layout`).

For `ControlReturns` the invariant adds, from the branch back on, which items stand
behind the last copy (`BackThere`, `Leads`), through the appended labels and the linking
of the loads. `Elsewhere` is needed: were the next instruction of the function inside the
block, the machine would go on executing the block.

For `EffectIsKept` the invariant adds that after each instruction every copy made so far
is there with the items of its kind, from its offset to the next (`Copies`), and stays
there while later ones are emitted and the loads are linked (`CopiesStep`). At the end the
copy of each kind of instruction is run: a copied one (`CopiedKept`), the A64 branch, the
conditional branch that is turned around, literal and address (`A64JumpKept`, `A64CondKept`,
`A64LdrKept`, `A64AdrKept`), the A32 ones (`ARMBranchKept`, `ARMBlxKept`, `ARMLdrKept`,
`ARMAdrKept`). The theorem is an equivalence, so that the instructions of `Deviates` are
shown to go wrong for every address and offset. Its hypotheses, which TLC finds true
in every state of the run `relocation` with `Word`:

- `Word`: the architecture is A32 or A64; Thumb and x86 are left to TLC.
- `Ordinary`: the forms the architecture has (an A32 branch goes to a word, an A64
  literal load has no condition), with operands in registers that a function keeps values
  in. An operand in the scratch register (`ip`, x17) or a data-processing instruction that
  reads `pc` is excluded: the code copies those as they are.
- `Foreign`: a target or a literal is not in the block, a branch goes farther than
  the next instruction, which the comparison would take for falling through, and no A32
  address equals an offset into the function, for which `RelocLabelFixup` would take it.

**SymbolResolverProofs** (any finite set of libraries, any files, lines, symbols, number of loads).
The invariant relates three times: when the maps were read, now, and ever. `LinesKnown`
and `Found` say that what has been read was true at some time; `Seen` that a library
loaded all through the call is either still among the lines or already in the list,
which gives `NothingMissed`; `Answer` and `FaultExplained` follow the result and the
fault to their causes. `ResolvedDefined` rests on the bias: the loop of `elf_ctx_init` is
a recursive function of the program headers, and `BiasIsFound` shows that it yields the
bias of the first loadable segment for any number of headers. This is an induction; it
is carried out through a smallest counterexample, which the well-foundedness of strict
inclusion of finite sets provides (`SmallestExists`). Assumed of the files: something is loadable,
`PT_PHDR` says where the headers are, and no bias is 0, which the code takes for "not
found yet".

**TrampolinesProofs** (any sites, page size, ranges and near memory). `TrampolineReaches`
speaks of a finished trampoline only. The invariant adds what the generator has
established on the way (`Prepared`): which architecture it is on, that the block it
got is within reach of the direct branch and of the size asked for, and that the hook
was in the range of `adrp` when that form was chosen. It does not mention the plugin
list, which another thread may change at any time. The lemmas say what each field
holds: a displacement inside the range is kept, one equal to the range wraps, and
two addresses closer than the range of `adrp` are at most that range apart in pages,
the equality being `PastLastPage`.

**ClosureBridgeProofs** (any stack pointers, any fields written, signals between any two
instructions). A program of 39 to 62 instructions runs on up to 97 registers and a stack
that a signal may overwrite below the stack pointer. The invariant `BridgeInv` is a table:
for each architecture and each step, as a function of the stack pointer `b` and of the
fields `t` the handler has written, what every register holds (`Reg`), which words the
bridge relies on from there (`Known`) and what they hold (`Kept`); words not listed are
anything. It also says which way the x64 bridge took at its test of the alignment (`Path`)
and where control may have gone (`Exits`). TLC checked it on the instance of `services`
before it was proved. The proof has three layers. What an instruction does is stated
once for each kind (`AddStep`, `StoreStep`, ...). An instruction keeps the invariant if its
line of the table and the next fit (`AddFits`, `StoreFits`, `LoadFits`, `PushFits`,
`CallFits`): this is where a signal between two steps is harmless, because no known word is
below the stack pointer (`AboveARM`, ...). And the lines do fit, which is arithmetic on
offsets, for every `b` (`FitsARM`, ...). `ContextShown` is read off the line before the
call, `HopsWithContext` off the line after the last instruction.

Only model-checked:

- liveness of the pool (`AcceptedTasksFinish`, `DestructorReturns`) and termination of the
  relocation (`RelocationEnds`): the prover has no fairness;
- `EffectKept` for Thumb and x86 code. The invariant and the run of a copy are those of
  `EffectIsKept`; what is missing is the copy of each kind (17 for Thumb, whose copies
  change state in the middle, and for x86 what `Decode` makes of the bytes);
- `DecodedLength` and `EncodedAsMeant`: an equality of two tables over bytes, which TLC
  settles by enumeration of what they depend on;
- the counterexamples.

## 5. Not modelled

- Calls of the allocator and of the resolver by two threads at once; the unlocked calls of
  the API above them are in `Hooking`.
- What the code promises nobody: the fault of a `memcpy` when another thread has made the
  page read-only again is in `Hooking` (`PatchWrite`), and `NoFault` is stated for calls
  that come one at a time.
- Pc-relative instructions the relocators do not recognise (ARM `add rd, pc, rm`, `vldr`,
  `ldrd` literals) are in no program of `relocation`: they are copied as they are.

- `FunctionWrapper` and `MultiThreadSupport`: `CMakeLists.txt:250-257` refuses to build
  them and they do not compile against the present headers. The same holds for
  `assembler-x86-shared.h` and `x86/deprecated`, and for assembler functions that
  nothing calls; the table of SSE groups is not read.
- `get_closure_bridge` makes the bridge on first use without a lock; two threads make
  the same code twice, and one copy leaks. On x86 and x64 a closure trampoline
  without memory is a null pointer that the routing dereferences; so does a near
  stub on x64 (`InterceptRouting.cpp:21`).
- The iterator of the linker's own list (`&& 0` in `ProcessRuntimeUtility.cc`),
  libraries inside an APK, and the descriptor that a failed mapping of a file leaks.
- In Java, `hookPMS` and its proxy, which nothing calls.
- The cache flush, logging, the containers of TINYSTL, the back ends of other
  systems, plugins the app does not build.

## 6. Plan

1. Action properties of `Hooking` and `MemoryAllocator` (an entry, once listed, changes
   only by its removal; a block is never given out again) from the invariants there are.
2. `EffectIsKept` for Thumb and x86 code, as described in section 4.
