# Verification of the SIC/XE backend

This directory holds TLA+ models of the SIC/XE backend of this LLVM 3.9 tree
(`src/lib/Target/SIC`, with the changes it needs in `lib/CodeGen`) and of the two
concurrent components of its support library that the tools are built on, the thread
pool and the lock file manager; TLC configurations that check them on small
instances; and TLAPS proofs of their main properties for every value of the
constants. File names below are relative to the repository, `SIC/` stands for
`lib/Target/SIC/`.

SIC/XE has 24-bit words, six general registers (A, X, L, B, S, T), no stack
and no flags a program can read other than the condition code. The backend makes
a C machine out of it by conventions: X is the stack pointer, L the link
register, every argument is on the stack, results are in S and T, and a word of
memory called `MEMREG` moves values between registers that no instruction
connects. Almost every property of the backend below is about such a convention:
two pieces of code, written apart, have to agree on it. The properties of the support
library are about schedules and crashes.

## 1. Inventory

| Component | Code | State | Operations |
|---|---|---|---|
| Stack frame layout | `SICFrameLowering.cpp`, `SICRegisterInfo.cpp`, `lib/CodeGen/PrologEpilogInserter.cpp`, `MachineFunction.cpp` | the `MachineFrameInfo` of a function: objects, fixed objects, dead slots, largest call frame, largest alignment, offsets, stack size | create and remove objects, collect call frames, allot the slot of L, place objects, round the frame, rewrite frame indices |
| Calling convention | `SICISelLowering.cpp`, `SICCallingConv.td` | one `CCState` in the caller, one in the callee; argument area | assign slots, open the call sequence, store or copy arguments, call |
| Prologue, epilogue, calls | `SICFrameLowering.cpp`, `SICInstrInfo.cpp`, `SICAsmPrinter.cpp` (start-up code) | X, L, S, T and the stack of the running program | allocate, spill L, call, return results, reload L, release, return |
| Instruction selection | `SICInstrInfo.td`, `SICInstrFormats.td`, `SICISelDAGToDAG.cpp` | registers and condition code while a sequence runs | the patterns of arithmetic, logic, shifts, comparisons, branches |
| Loads and stores | `SICInstrInfo.td` | bytes of memory, the accumulator | patterns of i8, i16 and i24, direct and through a pointer |
| Global initialisers | `lib/CodeGen/AsmPrinter/AsmPrinter.cpp`, `MCTargetDesc/SICMCAsmInfo.cpp` | the directives emitted so far | emit integer, array, struct, padding |
| Useless jump deletion | `SICDelUselessJMP.cpp` | the blocks of a function and two iterators | one step per block |
| Thread pool | `include/llvm/Support/ThreadPool.h`, `lib/Support/ThreadPool.cpp` | the queue of tasks, the count of active threads, the enabling flag, two mutexes and two condition variables | `async`, `wait`, `get` on a future, the destructor; the loop of a worker |
| Lock file manager | `LockFileManager.h`, `lib/Support/LockFileManager.cpp`, `Unix/Path.inc`, `Unix/Signals.inc` | the lock (a symbolic link), a unique file per process, the files a signal handler removes, the owner read, the interval waited | the constructor, `waitForUnlock`, `unsafeRemoveLockFile`, the destructor; signals and kills |
| Subtarget, target machine | `SICTargetMachine.cpp`, `SICSubtarget.cpp` | map of subtargets | look up or create a subtarget |
| ABI selection, function information | `MCTargetDesc/SICABIInfo.cpp`, `SICMachineFunction.cpp` | constants, accessors | |
| Assembly printing | `SICAsmPrinter.cpp`, `SICMCInstLower.cpp`, `InstPrinter/` | none | formatting |
| Machine code emission, sections | `MCTargetDesc/`, `SICTargetObjectFile.cpp` | none | encoding; the output of the project is assembly text |
| Assembly parser, registration | `AsmParser/`, `TargetInfo/` | none | stubs |

How they interact: instruction selection and call lowering create the frame
objects and call sequences that the layout places; the layout's displacements
and the rounding of the call frame decide where the argument stores of a call
land at run time; the prologue, epilogue and the slot of L make the call stack;
the data layout string decides the offsets from which loads and stores address
fields, and the emission of globals, written apart, has to put them there.
The thread pool and the lock file manager are used by the tools around the compiler
and do not touch the backend: workers and the pool's owner share the queue and notify
each other, and processes that build the same file meet in the file system only.

The compiler is sequential, and so is the compiled program. What is hard in them is

- **order**: the argument stores of a call are joined by a TokenFactor, so the
  scheduler may put them, and the memcpy calls some become, in any order; the
  epilogue runs between the computation of a result and its use; register T is
  scratch and result at once;
- **agreement**: caller and callee, prologue and epilogue, data layout and
  emission compute the same offsets in different code;
- **numeric edges**: 12-bit and 20-bit fields, a 4-bit shift count, 24-bit
  words, rounding to an alignment, 24-bit integers that take three bytes of four;
- **stale state**: LDCH leaves the upper bytes of A; a value read from a
  `CCState` before it is filled; a subtarget cached under an ambiguous key.

In the support library it is

- **interleaving**: `wait` reads two variables of which the workers change one without
  its lock; three system calls lie between finding a stale lock and removing it;
- **liveness**: a condition that is tested again only after a notification, two mutexes
  taken together, an owner of the lock that cannot be asked whether it lives;
- **crashes and partial failures**: a process killed between any two system calls, with its
  signal handlers or without, or a call that fails, and what either leaves on disk.

`PROJECT.json` lists each hazard at its line, with the properties that cover it.

What makes each component correct: objects never overlap and every rewritten
operand reaches its own object (layout); each argument reaches the callee in
every order of the stores, and the caller's objects survive (convention); the
machine code behaves as a call stack (prologue and epilogue); a sequence
computes what LLVM IR defines, with operands that fit their fields (selection);
a load sees the last store to its field (loads and stores); every scalar is where
compiled code looks for it (globals); control flow is unchanged (jump deletion);
tasks start in order, run once, and whoever waits for them returns, no earlier and
some time (thread pool); the lock names a whole owner that holds it, an owner loses it only
to the unchecked removal of another process, nothing stays behind, every call ends and a
stale lock is recovered (lock file manager).

## 2. Modules

| Module | Models | Depends on |
|---|---|---|
| `SICFrame` | the frame of one function, from instruction selection to `eliminateFrameIndex` | `FrameContract` |
| `FrameContract` | what the layout of a frame promises to the code that runs on it | concluded by `SICFrame`, premise of `SICExec` |
| `SICCallConv` | one call: analysis in caller and callee, stores in any order | |
| `CallStack` | abstract: what calls promise to a program | |
| `SICExec` | the emitted prologues, bodies, calls and epilogues of a program, as they run | `FrameContract`, refines `CallStack` |
| `SICMachine` | the SIC/XE instructions as functions on registers (external) | |
| `SICSelect` | the selection patterns, run on `SICMachine` | `SICMachine` |
| `SICMemory` | `SelectAddr` and the load and store patterns, on byte memory | |
| `SICGlobals` | the emission of initialised globals, step by step, against the data layout | |
| `SICData` | a global from its emission to the loads and stores of compiled code | composes `SICGlobals`, `SICMemory` |
| `SICDelJmp` | the last pass | |
| `TaskPool` | abstract: what a thread pool promises to its owner | |
| `ThreadPool` | the workers, the owner, the mutexes and condition variables | refines `TaskPool` |
| `LockFileManager` | processes that contend for a lock file, call by call | |
| `SICFrame_proofs`, `SICCallConv_proofs`, `SICExec_proofs`, `SICSelect_proofs`, `SICData_proofs`, `SICDelJmp_proofs`, `ThreadPool_proofs`, `LockFileManager_proofs` | the theorems about the module of that name | that module |
| `MC*` | constants for TLC | |

### SICFrame

The variables are the fields of `MachineFrameInfo` and the locals of
`calculateFrameObjectOffsets`; `pass` says which loop runs next. Instruction
selection may create objects, fixed objects and calls in any order and remove
objects (`ISel`), as the passes before PEI do. Then follow, one action each:
`calculateCallFrameInfo`, `assignCalleeSavedSpillSlots` (with the condition of
`determineCalleeSaves`), the placement of fixed objects, of the slot of L and of
the others, the end of the layout, and the rewriting of a reference, to an object or to an
incoming argument (`eliminateFrameIndex`). A distance is measured downwards from X at entry,
as in the code; frame index k is element k+1 of `objects`, and -k, that of an argument, is
element k of `fixed`. An argument lies above X at entry, in the caller's argument area, behind
the arguments before it (`CreateFixedObject`).

### SICCallConv

`analyzeCallOperand` and `analyzeFormalArgument` are the two analysis loops, each
with its own `CCState`; by-value arguments go through `handleByValArg`, scalars
through `CC_SICS32`. From phase `store` on, the module is the caller at run time:
one action per store, taken in any order. A by-value copy of at most `MaxStores` stores,
of the width its alignment allows (`CopyStores`), is done inline, in one step since the stores
touch only their slot; a larger one (`NeedsCall`) becomes a call to memcpy whose own operands
use the same argument area (`passByValArg`, `MemcpyOperand`, `MemcpyCall`). That call has a
call frame of its own, so the layout reserves the larger of the two (`ReservedFor`). An inline
copy that needs an i16 store is never compiled, as no pattern stores one through a
pointer: `SelectableAssumption` leaves such arguments out. A byte of the area is named
for the argument it came from, which is all the properties need.

### SICExec and CallStack

`SICExec` runs a program given by its call graph (`Callee`) and the frames of its
functions (`Frame`, which `FrameAssumption` constrains by what `SICFrame`
guarantees). Every instruction of the prologue, the epilogue, a call and a return
is an action; the body stores to its local and to its parameter, overwrites L
(which the register allocator may use) and calls. Values are tagged, so a return
address that was overwritten is noticed. `CallStack` is a stack of activations
with a local and a parameter that only the top one changes; `Activations` maps the
machine state to it, reading each suspended activation from memory.

### SICSelect and SICMachine

A behaviour is one node: `Select` picks a node and the sequence of its patterns,
then `Execute` and `ConditionalJump` run it. `Selectable` leaves out what does not
reach these patterns: `srl` by more than 16 (no pattern), `xor` with all ones (the
`not` pattern takes it), subtraction of a constant (an addition by then) and
multiplication and division by constant powers of two (shifts by then).
`SICMachine` is external: the instructions as the patterns use them. LT, EQ
and GT are the values of the status word for which the setcc formulas of
`SICInstrInfo.td:822` are right; the repository nowhere states them.

### SICMemory, SICGlobals, SICData, SICDelJmp

`SICMemory` has one action for a store and one for a load, with the instruction
pairs of the patterns. The object lies in the frame, is a global, or is known by a
pointer (`base`); `Mode` says which of the two forms of a pattern takes an access, and
`SelectAddr` decides it for objects of the frame.

`SICGlobals` runs `emitGlobalConstantImpl` on a constant that has its layout with it, as `StructLayout`
has (`LaidOut` is the data layout `i8:8:32-i16:16:32-i24:32`). `EmitInt` and `EmitZero` are the calls
that emit a directive, `EnterAggregate` the call of `emitGlobalConstantStruct` or `-Array`, whose loops
are the stack `loops`, and `PadElement` is the rest of an iteration: the padding, computed as the code
does, and the next element or the return. `at` counts the bytes of the directives and `image` is what the
assembler makes of them; the auxiliary `scalars` keeps, for each field in the terms of the data layout, the
value given for it and the byte where it was emitted. A constant that is zero or undefined is not
looked into, as in the code.

`SICData` puts the two together: a constant is emitted (`EmitGlobalConstant`), `Load` puts its bytes
into memory as an object with the fields of the data layout, and from then on `SICMemory` loads and
stores them (`Run`); a byte of padding too many or too few is seen by the load that comes after it.

`SICDelJmp` keeps the jumps at the end of each block and the two iterators (FJ is always
FI + 1).

### ThreadPool and TaskPool

`Threads` are the workers that the constructor starts; `at` is the point each has reached in its
loop, and a step is what happens between two points where another thread can be observed.
`WaitForTask` takes `QueueLock` and tests the predicate of `QueueCondition`, `Claim` is
`++ActiveThreads` and `Sync` the taking of `CompletionLock` after it, `Pop` takes the task and
gives `QueueLock` back, `Run` is the task and its future, `Retire` and `NotifyCompletion` end the
round. `main` is the thread that owns the pool: `asyncImpl` and `NotifyOne`; `get` and `EndGet`;
`wait` with its two tests (`TestActive`, `TestQueue`) under `CompletionLock`; and the destructor
(`Disable`, `NotifyAll`, `Join`). A notification moves blocked threads back to the test, and a
thread may wake up without one (`SpuriousWakeUp`). Only one thread uses a pool, as the comment of
`wait` in `ThreadPool.h` asks. `TaskPool` is what the owner relies on: a queue that starts in order, a
set of running tasks, and calls that return when the tasks they wait for are done, with the fairness
that they do.

### LockFileManager

Each process of `Procs` makes one manager for the same file name. `link` is the lock, named by the process
whose unique file it points to; `unique` is that file (absent, empty or written), `armed` whether the
signal handler would remove it. An action is one call to the file system, in the order of the code:
`readLockFile` (`GetFile`, `CheckOwner`, `Discard`) is called before there is a unique file and again in the
loop of the constructor, which goes on with `CreateUniqueFile`, `WriteOwner`, `RemoveFileOnSignal`,
`CreateLink` and, when the link exists, `CheckLink` and `CleanLink`, and ends with `RemoveUseless`, `RemoveUnique`
and `DontRemoveFileOnSignal` when it did not get the lock. An owner may produce the file and
releases the lock; the others poll (`waitForUnlock`), and on a timeout may give up or call
`unsafeRemoveLockFile`. Whether the file was produced is left out: nothing but the result of the wait, which its
caller only reports, depends on it. `access` and `open` follow the link, `remove` and `symlink` do not, so a link whose file
is gone is invisible to the former only (`LinkResolves`). Any process may be killed at any step, with its
signal handler (`Signal`) or without (`Kill`), and a call may fail: noticed (`Fail`), which makes the
constructor return with an error, or unnoticed (`FailUnnoticed`), since the code ignores what `remove` answers in
most places (`TryToRemoveLock`, `RemoveUseless`, `RemoveUnique`). A failing write does neither: the error
stays set in the stream `Out`, whose destructor ends the process after the unique file was removed
(`MakeUpAnExcuse`, point `aborted`). `Remote` processes are on another host,
where `processStillExecuting` always answers yes. Three history variables, on which no action depends, are there for
the invariants: whose own remove of the lock failed (`lockKept`), whose last remove of the unique file failed
(`fileKept`), and whose lock another process removed (`robbed`).

## 3. Runs

| Run | Question | Result | States |
|---|---|---|---|
| `frame` | is every frame laid out without overlap and as running code needs it, and every operand rewritten to its object, within its field? | holds | 769,023 |
| `call_conv` | do all arguments that a nested memcpy call cannot reach arrive, in any order of stores? | holds | 134,205 |
| `call_conv_nested` | do all arguments arrive with a nested memcpy call? | violated | |
| `select` | do the sequences compute what the node means? | holds | 23,177 |
| `exec` | do prologue, epilogue and calls implement a call stack? | holds | 96,321 |
| `exec_pair` | does a second result reach the caller? | violated | |
| `data` | is every scalar of a global at its offset, and does a load see the last store or the initial value? | holds | 485,909 |
| `globals_nested` | is it also behind an aggregate or an undefined integer of four bytes? | violated | |
| `thread_pool` | does the pool implement the abstract one, and do tasks run and calls return? | holds | 81,300 |
| `lock_file` | is the lock held by its whole owner until another removes it unchecked, cleaned up, recovered, and does every call end? | holds | 158,049 |
| `lock_file_race` | can two processes own the lock? | violated | |
| `del_jmp` | does the pass keep the control flow, and finish? | holds | 8,949 |

Bounds, and why they are enough:

- `frame`: sizes 3 and 5 with alignments 1 and 8 make padding before, between and
  after objects; three objects (and the slot of L) and two calls give every order
  of dead and live slots around each other; call frames 8 and 4080 are a small one
  and the largest that is reserved, which makes frames of up to 4096 bytes and more, on both sides of
  what a displacement reaches; incoming arguments of 3 and 5 bytes at offsets 0 and 8 put the last byte of
  an argument on both sides too, in frames that are themselves within it. The theorems drop all of these bounds.
- `call_conv`: up to four arguments out of i8, i16, i24 and structs of alignment 4
  and 16, so that each kind of padding occurs before and behind each kind, and a struct of
  28 bytes, which takes more than `MaxStores` = 8 stores: two copies may nest one after the other, between
  scalars below and above the slots 0, 4 and 8 of memcpy's operands. `ObjectBytes` = 8 is
  enough for an overrun by one word.
- `exec`: main calls a recursive function and one without a frame, the recursive
  one a leaf; 48 bytes of stack hold main and two activations of the recursive
  function, enough for one activation to damage its caller and its caller's caller.
- `select`: operands and constants on both sides of the limits of 12, 16 and 20
  bits and of the sign bit, shift amounts on both sides of the limits of the three
  `srl` patterns.
- `data`: up to four fields of i8 and i24, every such aggregate of a size other than 4
  inside a struct and an array, given or all zero, and an i16 at the end of a struct of zeros
  (given, it is a WORD of three bytes); in each of the three places an object can be. The
  stored words 128, 33023 and 8388608 have the sign bits of 8, 16 and 24 bits set.
  Objects of more than `MaxFields` = 3 fields are only laid out and not run, as the layout is
  what more fields are for. `LimitAssumption` says that these constants are within the limit of the theorems
  (`AdjustmentFits`) and those of `globals_nested` are not. The theorems drop all of these bounds.
- `del_jmp`: every function of up to three blocks; the pass looks at two blocks at a
  time. The theorem drops the bound.
- `thread_pool`: three workers and three tasks (`MaxTasks`), so that one worker can retire while
  another claims and a third is blocked, and the queue is empty, has one or more tasks; one wake-up
  without a notification (`MaxSpurious`), of a worker or of the owner. The theorems drop the
  three bounds; the liveness property has only this run.
- `lock_file`: two processes on one host and one on another, so that there is an owner, a waiter that
  can probe it, and one that cannot; one call that fails and one process that is killed
  (`MaxFailures`, `MaxDeaths`), at every point, which is also what the recovery needs, as the others
  come after it; an interval of two rounds (`MaxPolls`), the code doubles it until it is too long.

Assumed: the id of a dead process is not given to another (its lock would be waited for as one of another host is); a pool has
at least one worker (`ThreadsAssumption`), although `hardware_concurrency` may answer 0, with
which no task would ever run (`ThreadPool.cpp:24`).

`CHECK_DEADLOCK FALSE` is set where a behaviour ends because the work is done: the
layout, the call, the node, the program (it halts, or has no stack left within the
bound), the pass, the pool that is destroyed, the processes that have exited; an object of more
than `MaxFields` fields is only laid out.

Fairness, where a property needs it:

- `SICDelJmp`: weak fairness of its single action: the pass is a loop that runs to its end,
  nothing can suspend it;
- `ThreadPool`: weak fairness of each worker and of the owner's steps inside a call (`InCall`):
  a thread that can run is scheduled some time, and tasks return. Weak is enough, although mutexes are
  taken: no one can take a mutex from a thread for ever, as tasks and calls are bounded.
  Nothing obliges the owner to make a call, nor a thread to wake up by itself;
- `LockFileManager`: weak fairness of each living process's calls. It need not begin, nothing has to
  fail, and nobody has to be killed. Calls fail only finitely often (`MaxFailures`): a dangling lock whose
  removal fails for ever keeps the constructor in its loop for ever, so `CallsReturn` promises no more.

The other components have no liveness of their own to state: a compiled program may
loop for ever by its own will.

## 4. Proofs

The `_proofs` modules are checked by TLAPS for every value of the constants that the
`ASSUME`s of the modules allow.

**SICFrame.** Alignments are 1 to 16 (`Alignments`); sizes, numbers of objects and
calls are arbitrary. `TypeCorrect` is an invariant by itself. The rest follows from
one inductive invariant, `IInv`, of which `ObjectsDisjoint` is a part but not
inductive alone: one also has to know that every placed object ends at or before
`offset`, that its distance is at least its size and a multiple of its alignment
(`PlacedBound`), that the loop has not advanced before it begins
(`LoopStarts`), where the largest call frame comes from (`CallFrameBound`), and, once
the layout is over, that the frame holds everything and the reserved call frame
(`FrameClosed`: in particular the frame is as large as the reserved call frame). Each step places at most one object, and `PlacedAtBounds` says it
lies beyond the old `offset`; so it is disjoint from what was placed before. Results:

- `ObjectsAreDisjoint` and `FrameHoldsItsObjects`, with no assumption beyond the module's;
- `OutgoingAreaIsFree`, assuming that every call frame is small enough for
  `hasReservedCallFrame`. That assumption is the exact point where the code stops
  being right (section 5);
- `ObjectsAreAligned`, assuming that nothing asks for an alignment above the stack's 8
  (`LowAligned`, an invariant under that assumption); with 16 it depends on X at entry;
- `RefsReachTheirObjects`, with the assumption of `OutgoingAreaIsFree`: `RefFollows` says
  that an operand is rewritten only when every live object is placed, to the displacement of
  one of the bytes of its object or argument. Objects lie below X at entry and arguments above it
  (`WhereObjectsLie`), the arguments apart from each other (`ArgsApart`), so a byte belongs to one of them
  only (`BytesHaveOneObject`);
- `DisplacementsFitTheField`, with no assumption: the frame holds its objects, so a displacement of an object
  fits while the frame has at most 4096 bytes, one of an argument while the frame and the caller's area up
  to the end of the argument have;
- `FramesSuitTheProgram`, with the same assumption: a finished frame whose calls all pass a
  word keeps `Suitable` of `FrameContract`, with any of its placed objects as the local. That
  is what `SICExec` assumes of each function (`FrameAssumption`), so the two models compose: on
  frames the layout makes, calls, returns and results work. It takes two more inductive facts:
  L has a slot of a word wherever it changes (`SlotOfL`), and the largest call frame is at least
  that of every call the loop has passed (`CallsCounted`).

**SICCallConv.** Argument i gets the slot that `Assign` computes from the end of the
slot before it, in the caller and in the callee (`Layout`); `Assign` never goes back,
so slots are disjoint, in order and below the operand of CALLSEQ_START. A store to
one slot therefore keeps what the stores to others have done (`Stored`), and no store
reaches a byte above what the layout reserves for the call (`Kept`). Results: `TypeCorrect`;
`ArgumentsOutOfReachAlwaysArrive`, without an assumption: what a nested call to memcpy can damage are
the slots that its three operands share, and the property is about the others, which are all of
them when no copy becomes a call; `CallerObjectsAreKept`, for any `MaxStores`, since the layout reserves
the call frame of a nested memcpy as well (`ReservedForBounds`); and `CallFramesSuitTheLayout`, that the operand of CALLSEQ_START is a multiple of
8 and at least a word where the call has an argument, which is the premise of
`FramesAreSuitable` about calls. `call_conv_nested` shows what happens to the arguments within reach.

**SICExec.** The activations are numbered from main's to the running one. `IInv` says that their
frames lie below each other without a gap, down to the running one's, of which X tells how much is
allocated yet (`Chained`); that a function suspended in a call has its frame and its call frame
(`Placed`); that each activation keeps the address it returns to, in its slot or, where it has none,
in L (`Linked`); and what S holds between a result and its use (`Results`). A step of the running
activation writes at or below its own entry, apart from its own slot, so it disturbs none of that
above; `FrameAssumption` is what the layout guarantees of one frame (`FramesSuitTheProgram`). Results:
`TypeCorrect`, `StackIsReleased`, `ResultsAreReturned`, and `CallsImplementCallStack`, the
refinement of `CallStack`, for every call graph and all such frames, without a bound on the depth
other than `StackSpace`, which is any number of bytes. `PairsOfFramelessAreReturned` says when the
second value of a pair arrives: when no function that returns one has a frame, since
then no epilogue comes between the copy to T and the return (`PairKept`); with a frame it is
lost (section 5).

**SICSelect.** The instructions work on bits, the nodes on numbers, so the proofs begin with lemmas
that connect them, over all words: what ANDing with a low or high mask leaves of a number, that
OR minus AND is XOR, that the dividend less the product is the remainder although the product is
computed modulo 2^24, and what the rotation `SHIFTL` and the arithmetic `SHIFTR` make of a word before the
mask of their pattern. Every pattern is a straight sequence of instructions, perhaps with a jump
at the end, so one lemma per pattern gives the registers after it, from any registers
before it. `IInv` says that the code is the code of the node, that the right operand is still in T
until it is used, and that the registers are those that the part executed so far makes of some
registers the node was selected with (`Progress`); when the code is done, the lemma of
its pattern says what the result is. `TypeCorrect` has no hypothesis.
`EveryOperandFits`, `SelectedCodeIsCorrect` and `UnsignedCodeIsCorrect` hold for all words and
constants but only for shifts by 1 to 16, which is all a four-bit field of `SHIFTL` and
`SHIFTR` can say: beyond it an operand does not fit, and `shl` and `sra` have a pattern all the same.
The unsigned theorem is about operands whose signs agree, the limit section 5 gives.

**SICData.** Two inductive invariants, one for the emission and one for the memory, and the step between.
The emission is at the byte where the constant it comes to next begins, in the layout of every aggregate
it is in (`Position`, with `Nesting`: each aggregate of the stack is the element the one outside it is at).
That is kept because an element and its padding fill the way to the next element, which
`PaddingFillsExactlyWhatFits` shows to be so exactly when the element is not of four bytes without being an
integer, and not an i16: the limit of the adjustment for 24-bit integers, whose other side
`globals_nested` shows. So each field was made by the bytes at its offset, and those of one field are no part of
another (`Placed`). `ScalarsAreAtTheirOffsets` and `AggregatesFillTheirSize` follow for constants of any size
and depth of nesting that keep the limit (`AdjustmentFits`); the recursion of the code is the stack of the
model, so no induction over the data is needed, only over the steps.
At run time the bytes of each field make the value last stored to it (`Held`): `Placed` says so
when the object is loaded, a store to another field leaves them alone because fields are apart, one to the same
field makes them anew, and what a load makes of them is arithmetic. `LoadsAlwaysSeeLastStore` is the result
from end to end, with `AdjustmentFits` and without the one load that has a broken pattern (`LoadsWork`).

**SICDelJmp.** A jump that is dropped was the last of its block and led to the next one; either an
earlier one is followed or control falls through to where it led (`SameSuccessor`).
`ControlFlowIsKept` holds for any number of blocks. `NothingUselessIsLeft` is the safety half of
`NoUselessJumpLeft`: the selector ends a block with at most one JMP, so the blocks behind
`FI` have no useless jump (`Walked`), and the last block cannot jump beyond itself.

**ThreadPool.** `ActiveThreads` counts the workers between announcement and retirement
(`Counted`), each mutex is held by whom its points say (`Locking`), and a worker that found a task
still finds it when it pops (`TaskFound`). The heart is `Quiet`: when the owner, with
`CompletionLock`, has seen no active thread, no worker is past the taking of that mutex, so none pops
and none runs. From it follow `QueueIsNotRaced` and, with the order of the numbers in the
queue, `PoolIsSafe`, the refinement of `TaskPool` without its liveness, for any number of workers,
tasks and wake-ups.

**LockFileManager.** What a process has on disk (`UniqueFollows`) and in its signal handler
(`ArmedFollows`) follows from the point it has reached, except while it reads the lock, where it may
or may not have made its file; a step of one process changes no file of another but the link, which it
makes only where there is none (`LockIsHeld`, `LinkWhole`), and who left a lock behind is past its
destructor's remove (`KeptFollows`). `IInv` is these, the types and the bound
on the rounds of waiting. Results: `TypeCorrect`, `LockAlwaysNamesItsOwner`, `LockIsAlwaysHeld`,
`NothingIsLeftBehind`, for any processes, hosts, failures and deaths. That one process owns the lock is not
among them, as `lock_file_race` shows; `OwnersKeepTheLock` says what is missing: an owner has the link
unless another process removed it (`robbed`). As there is one link, two owners exist only after one of the
removals that do not check whose lock it is took the lock of an owner at work, and the destructor, which
does not check either, removes another owner's lock only after its own was taken (`OneOwnerStep`).

Only model-checked are the liveness properties: `NoUselessJumpLeft` (but for the part proved),
`TasksRunAndCallsReturn`, `CallsReturn` and `LockIsRecovered`, which rest on fairness and are out of the
prover's reach, and the liveness part of the refinement of `TaskPool`. Every invariant and action property that a
passing run checks is stated by a theorem.

## 5. Where the code disagrees with what is said of it

Four runs keep a counterexample, with the line they contradict in `PROJECT.json`:

- **A second result is lost** (`exec_pair`). `LowerReturn` puts it in T, and the epilogue,
  which runs later, loads the frame size into T (`SICInstrInfo.cpp:146`). Functions
  that return an i32 or i64 are affected as soon as they have a frame.
- **A large by-value argument damages the other arguments** (`call_conv_nested`). The
  memcpy it becomes stores its operands to the same argument area, at an unordered time.
- **A field behind an aggregate of four bytes is misplaced** (`globals_nested`), because
  the aggregate is taken for a 24-bit integer.
- **Two processes own the lock** (`lock_file_race`). A process that finds no lock, or one whose owner is
  dead, removes it by name afterwards (`LockFileManager.cpp:48`, `:65`); in between another process may have
  made its own. Both then produce the file, although the header promises one.

The passing models are stated so that they do not depend on the following, which reading
the code for them also showed:

- call frames of 4088 bytes or more are not allocated: they are not reserved, and
  `eliminateCallFramePseudoInstr` erases the instructions that should then adjust X. The `frame` run stays
  below; the assumption of `OutgoingAreaIsFree` is the exact point where the code stops being right;
- unsigned comparisons and divisions use the signed instructions (`SICInstrInfo.td:718`, `:846`).
  `UnsignedCorrectWhenSignsAgree` says how far that is right; with operands of different
  sign `SelectionCorrect` would fail. The source knows part of it: "We can kind of handle
  UDIV, but not completely" (`SICISelLowering.cpp:144`);
- `shl` and `sra` accept amounts up to 31 although the field of SHIFTL and SHIFTR has four
  bits (`SICInstrInfo.td:643`), and `srl` by more than 16 has no pattern. A signed division by a
  power of two needs both (`DAGCombiner.cpp:2268`). The `select` run has amounts up to 16;
- the `not` pattern (`SICInstrInfo.td:768`) takes an `xor` with all ones and puts a register where
  SUB has its immediate;
- SELECT is custom-lowered to itself and nothing selects it (`SICISelLowering.cpp:213`);
- the store of an i16 writes three bytes (`SICInstrInfo.td:790`), so a store to an element of an
  array of i16 overwrites the next one; the objects of the `data` run have padding behind an i16. It has no
  pattern through a pointer, and the sign-extending load through a pointer reads one byte (`:787`);
- an undefined i24 in an initialiser takes four bytes and then one of padding (`AsmPrinter.cpp:2273`),
  the same fault for a scalar, and one of the constants of `globals_nested`; an array of equal bytes becomes a RESB with a
  second operand (`MCAsmStreamer.cpp:885`);
- an i16 in an initialiser is a WORD of three bytes, counted as two (`SICMCAsmInfo.cpp:27`);
- the start-up code sets X to 0xFFFFC, which is 4 modulo 8, while `SICTargetMachine.cpp:66` says
  "The stack is always 8 byte aligned". `ObjectsAligned` is relative to an aligned entry;
- an object aligned to 16 gets it only if X happens to be (`SICFrameLowering.cpp:137` never realigns);
- a displacement above 4095 is written into the 12-bit field; the assertion at
  `SICRegisterInfo.cpp:139` is on a string and always true. For an object it takes a frame of more than
  4096 bytes; for an incoming argument, which lies above the frame, one of 4096 with an argument at offset 0
  is enough, or one of 4088 with an argument at offset 8 (`DisplacementsFit`);
- a by-value copy that is done inline and leaves two bytes over needs an i16 store through a pointer, for
  which there is no pattern (`SICInstrInfo.td:790`, `SICISelDAGToDAG.cpp:112`), so that such a call is not compiled;
- after a failed write the constructor of `LockFileManager` does not "make up an excuse, remove the unique lock
  file, and fail" (`LockFileManager.cpp:190`): it leaves the error set in `Out`, and `~raw_fd_ostream`
  (`raw_ostream.cpp:562`) ends the process;
- the removals of `LockFileManager.cpp:48` and `:65` are not checked, so a dangling lock that cannot be removed keeps
  the constructor in its loop: `create_link` finds it, `exists` does not; nor is that of the destructor (`:275`), after
  which the lock stays although its owner released it (`lockKept`);
- `setFormalArgInfo` runs before the arguments are analysed, so `IncomingArgSize` is always 0
  (`SICISelLowering.cpp:701`); nothing reads it;
- `LEA_SIC` uses X without declaring it (`SICInstrInfo.td:553`), and the subtarget cache joins CPU and
  feature string without a separator (`SICTargetMachine.cpp:104`).

## 6. Not modelled, and why

The variant of the thread pool for builds without threads runs its tasks in `wait` and has no schedule to
get wrong; the lock file manager on Windows uses other system calls, and on OS X the id of the host may
fail to be read, which leaves the unique file (`LockFileManager.cpp:175`). Nothing in the program compares X with the
end of its code and data, so `StackSpace` is a bound of the model and an overflow of the stack is not looked at. Formatting, encoding, sections, the
parser stub and registration keep no state and decide nothing (`PROJECT.json` has a line for each). Of the generic code generator only what the SIC
hooks change or rely on is modelled; register allocation appears as its possible outcomes (L
may be overwritten, slots may be merged, tied operands are copied). The O32 and PIC code left from the
tutorial backend cannot be reached: `computeTargetABI` always answers S32. Variable-sized objects, varargs
and floating point have no lowering for this target.

## 7. Plan

Written first, because everything else rests on them: the frame (`SICFrame`), the convention
(`SICCallConv`), the program at run time (`SICExec` against `CallStack`), then selection, memory, globals,
and the last pass. `SICFrame` and `SICExec` meet in `FrameAssumption`, `SICCallConv` and `SICFrame` in
`callFrame`, which is a member of `CallFrames`.

Then the frame, the convention, the memory and the rest at run time were proved for all constants, the
globals composed with the loads (`SICData`), and the two concurrent components of the support library
added (`TaskPool` and `ThreadPool`, `LockFileManager`).

Then selection was proved over all words, and the convention, the frame and the program at run time were
joined: `CallFrameSuits` of a call is a premise of `FramesAreSuitable`, and that, through `FrameContract`,
is the premise of `SICExec`.

Last, the emission of globals was turned from operators over a constant into steps over a stack of
loops, as the code runs, which made the two halves of `SICData` provable together; and the limits of the runs that
end in a violation were proved: what an initialiser must be for its fields to stay in place, and what happened before
two processes own the lock.

Next, extending the model:

1. `SelectAddr` and `LEA_SIC` composed with `SICFrame`, so that a load of an object's byte reaches it
   through the operand of the selected instruction, and its displacement is compared with the field;
2. the combiner's shifts for divisions by powers of two, in `SICSelect`;
3. `SICSubtargets`: the cache of `getSubtargetImpl`, two functions in either order;
4. composition of `SICCallConv` and `SICExec`: arguments of all kinds at run time, calls through a register;
5. the cache of ThinLTO with its pruning (`CachePruning.cpp`), processes that write, read and remove
   entries by age.

Next, proving more:

1. the step from the frame to the memory: with the first item above, that a load of an object's byte sees
   the last store to it, in the frame the layout made;
2. `CallStack` with the arguments of `SICCallConv`, once the two are composed;
3. theorems for the modules that the plan above adds.
