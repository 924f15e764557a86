# Jokerix in TLA+

Jokerix is a small 64-bit RISC-V operating system in C: one hart, a kernel with preemptive
threads, user programs in U-mode, a file system image packed on the host, and a shell. This
directory holds TLA+ models of it, the TLC runs that check them on small instances, and TLAPS
proofs that hold for every instance. Line numbers below refer to `src/`.

1. [Inventory](#1-inventory): the parts of the system, their state and what makes them correct
2. [Modules](#2-modules): which module models what, and how
3. [Runs](#3-runs): what is checked, with which bounds
4. [Fairness](#4-fairness)
5. [Proofs](#5-proofs)
6. [Where code and comments disagree](#6-where-code-and-comments-disagree)
7. [What is not modelled](#7-what-is-not-modelled)
8. [Plan](#8-plan)

## 1. Inventory

| Component | State | Operations | What makes it correct |
|---|---|---|---|
| Scheduler, `kernel/rrscheduler.c` | a doubly linked ring threaded through an array, a slice per thread, the current thread | push, pop, tick, exit | the ring is the queue of ready threads in order; no stale link; slices never go below zero |
| Thread pool and processor, `kernel/thread.c`, `processor.c`, `switch.S` | slots with status and `Thread` record; `CPU.current`, `.occupied`, `.idle`; contexts on stacks; kernel stacks on the heap | boot, dispatch, retrieve, preempt, sleep, wake up, execute, exit | pool and ready queue agree; every sleeper has exactly one waker; no consumed or freed context is resumed; stacks are neither leaked nor freed early |
| Standard input, `kernel/stdin.c`, `condition.c` | a queue of characters, a queue of waiting threads | pushChar, popChar, wait, notify | no wakeup is lost |
| System calls, `kernel/syscall.c` | none of its own | read, write, exec, exit | the host sleeps until its program has ended, then goes on |
| Interrupts, `kernel/interrupt.c`, `interrupt.S`, `timer.c`, `riscv.h`, `main.c` | `sstatus`, `sie`, `stvec`, trap frames, the armed timer | boot, trap entry and return, timer, external | programs in U-mode and kernel in S-mode; handlers never interrupted; programs always interruptible |
| Frame allocator, `kernel/memory.c` | a segment tree in an array | newAllocator, alloc, dealloc | a frame has one owner; panic only when none is left |
| Heaps, `kernel/heap.c`, `user/malloc.c` | a buddy tree in an array | init, kalloc/malloc, kfree/free | blocks do not overlap; a request is refused only when no block fits |
| Packer, `mkfs/mksfs.c` | the image, a free map and count, inodes on the recursion's stack | main, walk, getFreeBlock | a block has one owner; only what does not fit is refused |
| File driver, `kernel/fs.c` | none (the image is only read) | initFs, lookup, readall | every file the host had is found, and read back whole unless it is empty; nothing else is found |
| Shell, `user/sh.c` | a line buffer and its count | one round per character | what is executed is what was typed |
| Linked queue, `kernel/queue.c` | head and tail of a list, its nodes on the kernel heap | isEmpty, pushBack, popFront | first in, first out; a node is in one list as long as it is allocated |
| Page tables and ELF loader, `kernel/mapping.c`, `elf.c`, `thread.c:140-196` | page tables in frames of memory, the root a thread runs with | newMapping, findEntry, map a segment, load a file | the hardware finds what was entered and nothing else; programs apart from each other and from the tables; the kernel the same in every space; a program where its file wants it |

How they interact:

* There is one hart. Kernel code runs with `sstatus.SIE` off except in boot after `initTimer`
  and in the idle thread around `wfi`, so what is concurrent is the *order* of traps, switches
  and wakeups, not single memory accesses.
* A trap enters the kernel on the stack it finds (`interrupt.S:40`): for a user program that is its
  **user stack**. The kernel stack of a thread holds only its very first context.
* A thread leaves the hart in three ways: `yieldCPU` (sleeps, from `waitCondition` or
  `sysExec`), `tickCPU` (its slice is used up), `exitFromCPU`. Each switches to the idle
  thread, which does the bookkeeping (`retrieveToPool`) and dispatches the next thread.
* A thread is woken by a character (`pushChar` → `notifyCondition`) or by the exit of the program it
  executed (`exitFromCPU` with `wait`). Both go through `wakeupCPU`, which looks at nothing.
* Page tables, pages of programs and user stacks come from one pool of frames. Kernel stacks and the nodes of
  both queues come from the kernel heap.
* The space a program runs in is built in `sysExec` with interrupts off: `newKernelMapping`, then the segments
  of the file, then the user stack. The root goes to `satp` in `switch.S`, in the middle of kernel code that the
  old and the new space must therefore map alike.
* The packer and the file driver share no code, only the format of `simplefs.h` and `fs.h`.

The behaviours that are hard to test are the interleavings of input, ticks, execs and
exits; contextAddr being kept in three places; bits of `sstatus` that travel through frames written
elsewhere; trees and lists whose stale nodes matter many calls later; page tables whose meaning lies in what the hardware makes of them; a stack variable that is never initialised;
and two programs that agree on a format by convention. `PROJECT.json` lists them at their lines.

## 2. Modules

```
FifoScheduler  <-- implemented by --  RRScheduler      <-- RRSchedulerProofs
     ^
     | INSTANCE (its state and calls)
  Kernel         <-- KernelProofs     Trap             <-- TrapProofs
FramePool      <-- implemented by --  FrameAllocator   <-- FrameAllocatorProofs
AddressSpaces  <-- implemented by --  Mapping          <-- MappingProofs
Shell, LinkedQueue (twice)  <-- composed by --  Console      <-- ConsoleProofs
                                      BuddyHeap        <-- BuddyHeapProofs
SimpleFS       <-- extended by    --  FileDriver       <-- FileDriverProofs
```

`MC...` modules instantiate a module for TLC. In every module an action is one operation of the
code, or one uninterrupted stretch or one round of a loop of it where other steps can come in between or the
loop invariant is itself of interest. Variables carry the names of the source. Variables marked
*history* exist in no code: they record what a property has to speak about and no guard of a code
action reads them.

A definition named `..._Slip` is its neighbour with one plausible mistake in it (a missing
reset, a swapped order, an off-by-one). It is no part of any model. Substituted for its
neighbour it makes a property fail, which shows that the property notices it.

**FifoScheduler** is what `thread.h:36-44` (the `Scheduler` structure) promises: a queue without
repetitions, slices, a current thread. Its guards are the calling discipline: nobody
pushes a thread twice or ticks one without time left.

**RRScheduler** is `rrscheduler.c`, the ring: thread *t* at index *t+1*, the dummy head at 0,
`schedulerPush` and `schedulerPop` with their link updates, and `time` as an unsigned number that wraps
(`TimeMod`). `queue` is a history variable. The refinement maps `slice` to `time` shifted by one and
`current` to `current - 1`. The `valid` field is written and never read and is left out.

**Kernel** composes pool, processor, context switch, standard input, condition variable, system calls and
interrupts over the abstract scheduler.

| Kernel | Code |
|---|---|
| `occupied`, `status`, `thread` | `ThreadPool.threads` |
| `busy`, `running`, `cur`, `idleCtx` | `CPU.occupied`, `.current.tid`, `.current.thread`, `.idle.contextAddr` |
| `queue`, `slice`, `current` | the scheduler |
| `buffered`, `waitQueue` | `STDIN.buf` (its length) and `STDIN.pushed.waitQueue` |
| `heap`, `saved` | allocated kernel stacks; what the context saved on a stack resumes at |
| `Dispatch`, `Retrieve`, `RetrieveExited` | `acquireFromPool`, `retrieveToPool` in `idleMain` |
| `EnableInterrupts`, `Wfi`, `DisableInterrupts` | `enable_and_wfi`, `disable_and_store` |
| `TimerIdle`, `TimerBusy` | `supervisorTimer`, without and with a thread on the hart |
| `ExternalChar`, `ExternalNothing` | `external`, with and without a character |
| `SysRead`, `PopChar`, `WaitCondition` | `sysRead`, rounds of the loop of `popChar` |
| `SysExec`, `ExitFromPool`, `ExitFromCPU` | `sysExec` → `executeCPU`, `exitFromCPU` in two halves |

`boot` is what `initThread` adds and finds. The source adds one shell; with two there are independent readers
and chains of hosts, for which nothing in the thread machinery is different. `newThreadPool` does not initialise the slots,
so that `occupied` of any of them may hold rubbish from the boot stack (`boot.rubbish`); `allocTid` passes such a slot over for
ever. `Threads` are the slots that are really in use.

Two constants describe the machine instead of the code: `Sie`, the sources enabled in `sie` (the
source ends with the timer alone, see section 6), and `UserStackMapped`, whether the idle thread's page
table maps user stacks (in the source it does not: that the first space has no user page is part of `SwitchSafe` in Mapping). The runs about the logic of threads set both
to what their authors intended, because with the values of the source the system never receives
a character and never resumes a user thread. The runs `preempted_user` and `external_enabled` show
just that.

**Trap** follows the bits: `sstatus`, `sie` and `stvec` through `main`'s initialisation, the trap frames of every
context, `flags` returned by `disable_and_store`, and `at`, which says where a switch to a context leads. Which
thread runs next is left open; any that has a context may.

**FramePool** is a set of frames, alloc takes any that is free and gives up only when none is. **FrameAllocator** is the
segment tree, with one step for each round of the loops in `newAllocator`, `alloc` and `dealloc`. It implements
FramePool with `taken` as the history of frames handed out and `depleted` when the panic is reached.

**BuddyHeap** models both heaps with one tree (`heap` says which of the two computations of the size is used):
`longest` is the array, and the steps are the rounds of the ways down and up. `FixSize` is what the shifts of `fixSize` compute, the
least power of two that is not below its argument; a power of two is a number without odd divisors but 1, which
needs no recursion.

**SimpleFS** is `mksfs.c`: a stack of `frames` for the recursion of `walk`, the file being copied, the
image, the free map. A host directory may come in any order, as `readdir` gives it. The `indirect` field of a new
inode is nondeterministic, because it is uninitialised: anything in `words`, or what the slot on the stack still
holds from the inode before it in the same call. **FileDriver** adds the reader of `fs.c` as
operators on the finished image (`Lookup`, `ReadAll`). `readall` reads the entries of the indirect block one after the
other, whether there is something left to copy or not; for an empty file these are 2^20 entries (`mksfs.c:178`) at the
address that `getBlockAddr` makes of the field that was never set. `ReadAll` has the outcome: it panics for a directory, and where
`LoadFaults`, that is, where the file has blocks behind `direct` and the number is not in `Mapped`. `Mapped` are the numbers at whose address
the kernel can read as many entries: those of the blocks, and others, since there is memory behind the image. `FileDriverAssumption` asks for
no more than that, and that an empty file has more blocks than `direct` has room for.

**Shell** is the line editor of `sh.c`, one action for each branch of its `switch` (`Handle`), with the uninitialised
buffer as a choice in `ShellInit`: the build leaves it clean unless a timer tick dirties the stack between `_start` and
`main`. **LinkedQueue** is `queue.c`: `head`, `tail` and the two fields of the nodes, which lie on a heap that several queues
share; `contents` is the history of what the queue should hold, and `Lists` the sequences of nodes that hold it, of which there
is one exactly when the list is in order. Neither has a specification of its own. **Console**
composes them: keys arrive in the external interrupt, which pushes and then notifies; the shell or the program it has executed
takes them out, or sleeps in the second queue. Two instances of LinkedQueue with the same `item`, `next` and
`heap` are the two queues. Console has one line of programs and all characters, Kernel all threads and no characters.

**AddressSpaces** is what page tables are for: a sequence of functions from virtual pages to physical pages and rights, to which
pages are added one by one where nothing is mapped yet. **Mapping** builds them in `mem`, the frames as words.

| Mapping | Code |
|---|---|
| `mem`, `taken` | physical memory above the kernel, and the frames `allocFrame` has handed out |
| `spaces`, `root` | the mappings that are finished and the one that is built (`Mapping.rootPpn`) |
| `todo` | the rest of the loops over segments and pages; `table`, `level`: where `findEntry` is |
| `NewKernelMapping`, `MapExtInterruptArea`, `NewUserMapping`, `Finish` | the parts of `mapKernel` and `newUserThread` |
| `Descend`, `AddTable` | a round of the loop in `findEntry`, with and without a table there |
| `MapLinear`, `MapFramed`, `AlreadyMapped` | the body of the loop over the pages of a segment |
| `KernelPages`, `DevicePages`, `ProgramPages` | the segments of `newKernelMapping`, `mapExtInterruptArea`, `newUserMapping` and the user stack, with the roundings of the source |

Its assumptions are the layout of the machine: segments of the kernel and of devices are within the image of the physical memory in
the virtual one and have rights that make a page, the frames of the allocator are covered by a segment of the kernel with `R` and `W`, the user stack is within
reach of the tables. Nothing is assumed of ELF files but that they have headers, none of which is loaded and ends at address 0. `ProgramsFit` is what the loader does not test of them (that
their segments are within reach of the tables and ask for rights that a page can have); two theorems have it as a hypothesis, and `MCMapping` has TLC find it true of its files.

What the hardware makes of a root is `Translate`, written from Sv39 and used by properties alone. The refinement maps each root to
the function `Translate` gives, so every store to memory has to be, seen through all tables at once, the entry of one page or nothing.

## 3. Runs

All passing runs are complete searches, without a depth limit. Deadlock is checked in all of them: where
the code stops for good (a panic, the end of the packer) the model has an explicit stuttering step.

| Run | Instance | Distinct states | Shows |
|---|---|---|---|
| `rr_scheduler` | 4 threads, slices of 2 | 25 394 | `Linked`, `NoStaleLinks`: the ring is the queue. `FifoSpec`: it implements FifoScheduler. `CallResults`: callers are told what the queue says |
| `kernel` | 1 or 2 shells at boot, 4 slots of which none, one, two or all are lost, 4 kernel stacks, slices of 2, 3 unread characters | 307 467 | `ReadyQueueExact`, `SleepersHaveOneWaker`, `NoLostWakeup`, `ContextsLive`; `FifoDiscipline`: the kernel keeps the discipline FifoScheduler asks for. With one shell, `ForegroundOnly`: only the last program of the line is awake, and `WokenReaderFindsChar`: the promise of `stdin.c:30` |
| `kernel_live` | 2 shells, 3 slots, slices of 1, 1 unread character | 6 688 | `ReadyRuns`, `HostResumes` under fairness |
| `trap` | 2 user threads, boot, idle | 405 | `PrivilegeSeparated`, `HandlerCanRun`, `NotInterrupted`, `FramesPreemptible` |
| `frames` | pages 3..10, 16 leaves | 950 | `TreeExact`, `DescentFree`; `FramePoolSpec`: it implements FramePool |
| `heap` | both heaps, 8 units of 2 bytes, requests of up to 9 bytes | 55 114 | `BlocksApart`, `LongestExact`, `KeepsLarge` |
| `mapping` | tables of 3, 2 and 19 entries, pages of 19 words, 38 physical pages, six ELF files, memory clean or not | 6 867 | `UserIsolated`, `SwitchSafe`, `SegmentsLoaded`; `SpacesSpec`: it implements AddressSpaces |
| `console` | buffer of 4, a letter, blank, nul and the control keys, 3 nodes for both queues | 803 151 | `QueuesLinked`, `LineHolds`, `ExecutesTyped` |
| `fs` | 18 blocks of 2 bytes, 4 direct entries, numbers up to 40 mapped, 41 inputs | 58 118 | `HostReadBack`, with the panic for an empty file, `NothingElse`, `BlocksExclusive`, `FullOnlyWhenTooLarge` |
| `preempted_user`, `external_enabled`, `fs_indirect` | as small as the counterexample allows | | violations, section 6 |

Why these bounds are enough:

* *Scheduler*: with four threads a node is pushed and popped at the head, in the middle and at the end of
  rings of every length, and slices of two tell a fresh slice from a used one. The proofs cover the rest.
* *Kernel*: two boot threads allow two independent readers and two chains of hosts; four slots and four
  stacks let a chain be two deep while another runs, and both limits are reached, with the panic that follows. Three
  characters exceed the number of readers, so that readers, woken readers and unread characters
  occur in every proportion. `MaxBuf` is the only bound that the code does not have (its queue grows on
  the heap). The search is symmetric in the kernel stacks; the liveness run uses no symmetry.
  In a passing run a *program* is what it asks of the kernel: `sh` reads and executes, `echo` reads,
  `hello` exits.
* *Frames*: the range is pages 3 to 9, of which 3 to 8 are handed out (`memory.c:134`). Six frames under sixteen leaves have
  leaves before, inside and behind the range, and the tree has five levels. The proofs cover every range.
* *Heap*: three levels below the root, requests from one unit to more than the heap holds, so
  that splitting, joining, reusing and refusing all happen. In every state between two calls
  all orders of release are possible.
* *File system*: `Direct` is four instead of twelve so that a file of nine bytes or a directory of three entries
  needs its indirect block; the largest inputs do not fit into the image. `Shallow` inputs have no
  node that needs an indirect block and are checked with rubbish in the field: the number of a block, one behind the image where there is memory, and
  one where there is none. A quarter of them have an empty file, which `readall` reads through that rubbish and survives or not. `Large` inputs
  are checked with zeros, where the code works, and one with rubbish.
* *Console*: a buffer of four is filled, overrun, deleted and executed in every order, and three nodes allow lists that are empty, have
  one node or more, with the nodes in any order, a sleeping reader beside them, and the panic of a full heap. The search is symmetric in the nodes.
  The letter stands for everything the code does not tell apart.
* *Mapping*: the root table has an entry each for a program, for devices and stack, and for the kernel, as in the machine; one of
  the programs needs two leaf tables. There are frames for three spaces, so that programs follow each other until a panic or until
  none is left, in the middle of every loop. The six files are code and variables as the linker makes them, a segment of several
  pages with less data than memory, one that is not aligned, two in a page, one in the kernel, and a file that is no program. Memory
  is full of zeros or of words that look like entries at power on. The sizes of tables and pages are otherwise arbitrary, and the code's
  512 entries are no different.

## 4. Fairness

Safety runs use `Spec` without fairness. `kernel_live` uses `FairSpec`:

* `WF` on `BootStep`, `Idle` and `InCall`: the hart executes kernel code without stopping, and no step
  of it waits for anything else.
* `WF` on `IdleTick` and `SF` on `BusyTick` (`TimerIdle` and `TimerBusy`): a timer interrupt that was requested stays pending in the hardware
  until it can be taken. Strong fairness is needed because programs alternate between user code and
  system calls, which run with interrupts off: the interrupt is enabled again and again, not continuously.
  A pending interrupt is taken before the first instruction behind `sret`, so it cannot be missed.
* Nothing on programs, the keyboard or `ExternalNothing`: a program may compute for ever, and no key has to be pressed.

`ReadyRuns` therefore says that preemption works against a program that never gives up the hart, and
`HostResumes` that a host goes on although other threads compete with it. Both are stated up to `Final`, since the kernel may
panic (a command that is a directory, no slot, no stack left) and a panic stops everything.

## 5. Proofs

`RRSchedulerProofs`, for every `MaxThread`, `MaxTime` and `TimeMod > MaxTime`:

* `TypeCorrect`, `RingIsQueue`, `LinksCleared`: `TypeOK`, `Linked` and `NoStaleLinks` hold always. Their conjunction is
  inductive and none of the three is by itself: a pop needs the queue to be nonempty exactly when the
  ring is, a push needs the node to be clean, and cleanliness survives only because the neighbours of a popped node are the
  ones `Linked` says. `NodeFacts` states that positions and nodes determine each other, on which every relinking step rests.
* `RingImplementsFifo`: every step of the ring is a step of FifoScheduler or a stutter.
* `CallersAreTold`: `CallResults`. A pop reports the head of the queue because the node behind the dummy head is its node,
  and a tick asks for a switch exactly when `Fifo!Expired`, for which `time` must not have wrapped (`TypeOK`).

`FrameAllocatorProofs`, for every range of at least two pages and every `FirstSingle >= Length + 2`:

* `TypeCorrect`, `AncestorsExact`, `LeavesAreFrames`, `DescentStaysFree`. `TreeExact` exempts exactly the node a
  loop has still to renew; with `DescentFree` and the leaves it is inductive. `DescentStaysFree` matters because `alloc` tests the
  left child only.
* `TreeImplementsPool`: the tree implements FramePool. The panic is the interesting step: a root that says
  *taken* must mean that every leaf is. `RootExact` proves it without induction over the tree: the smallest
  free node would have a parent that is free and smaller (well-foundedness of `<` on the naturals).

`TrapProofs`, for every set `User` of user threads:

* `TypeCorrect`, `PrivilegesHold`, `HandlersCanRun`, `KernelNotInterrupted`, `FramesStayPreemptible`. The properties
  need each other: a frame is right because of the bits `sstatus` had when it was made, and the
  bits are right because of the frame restored before. `Inv` adds where the hart is (`Located`), what `SIE` and `SUM` are at the
  points where frames are made (`BitsKnown`), what saved flags hold (`FlagsKnown`) and that a trap goes back to its own
  context (`Trapped`).

`KernelProofs`, for every `MaxThread`, number of kernel stacks and characters, every set of boot threads that `KernelAssumption` allows, whatever
rubbish is in the slots, and both values of `Sie` and `UserStackMapped` unless said otherwise:

* `TypeCorrect`, `QueueMatchesPool`, `OneWakerEach`, `NoStaleContext`: `TypeOK`, `ReadyQueueExact`, `SleepersHaveOneWaker` and
  `ContextsLive` have one inductive invariant, `Inv`. A wakeup pushes without a look at the status of the thread, so the queue stays
  without repetitions only because whoever is woken sleeps, which is what `SleepersHaveOneWaker` says; a sleeper has one waker
  only because a thread that goes to sleep is the one on the hart. `HartPlaced` and `RunningKnown` say where the hart is, and that `CPU.current`,
  the slot of the pool and the scheduler mean the same thread until `exitFromPool` has given the slot up. `StacksKnown` is what the heap
  holds: the kernel stacks of the occupied slots and of the thread whose exit is not finished yet, each with one owner. `SlicesLeft`
  keeps ticks away from a thread without a slice; `BootKnown` says that the boot threads get the lowest slots that have no rubbish and never give
  them up, without which the host of a program might be gone; `ReadersKnown` where sleepers resume.
* `KernelCallsFifo`: every step is a call FifoScheduler allows or leaves the scheduler alone. With `RingImplementsFifo`
  the ring of `rrscheduler.c` may stand where Kernel has the abstract queue: the two proofs close the chain from the handlers
  down to the links.
* `OneLineOfPrograms`: with one boot thread, `ForegroundOnly`. It is a counting argument: all threads but one were executed by a different thread,
  which sleeps until they exit, so that *n* threads have *n* - 1 hosts among them.
* `WakeupsReachReaders`: `NoLostWakeup`. With the page tables of the source a reader that is resumed faults in `switch.S` for ever (section 6)
  and never takes its character; the property therefore ends at `faultLoop`, which is the end of everything else too (`LoopStays`). Up to there it
  holds with either value of `UserStackMapped`: no reader but the one in that fault is lost.
* `WokenFindChar`: `WokenReaderFindsChar`, since with one line of programs nobody can take the character in between.

`MappingProofs`, for tables and pages of every size, any layout of the kernel and of memory, anything in memory at power on, and any set of ELF files:

* `TypeCorrect`, `ProgramsApart`. `Inv` gives each frame a role by the entries that lead to it and by nothing else, as the hardware does: `Tops` are the
  roots, `Middles` what an entry of a top points to, `Leaves`, and `Owned` the pages that leaves lend to programs. `RolesApart` says that no frame
  has two roles and that all of them are taken; `OneWay` that one entry leads to it; `EntriesKnown` that tables hold nothing but entries and zeros. The three need
  each other: a store into a table changes nothing elsewhere only because a table has one role, and a new table is empty
  only because a fresh frame has been cleared and had no role before. Nothing is assumed of the files: however the segments
  overlap each other or the kernel, the kernel panics first.
* `KernelEverywhere`: `SwitchSafe`. Pages once entered are never changed (`StepKeeps`), every space gets all pages of the kernel before
  anything else (`KernelKnown`), and the first space gets nothing else.
* `ProgramsLoaded`: `SegmentsLoaded`, assumed `ProgramsFit`: a page asked for with no right gives an entry that looks like a table, one out of reach is entered
  at its number modulo that reach. That a list of pages put together from all segments has every page of each is
  `FlattenFacts`, which meets the recursion inside `FlattenSeq` with a least counterexample.
* `SpacesImplemented`, with the same hypothesis: Mapping implements AddressSpaces. `AddTable` is the interesting step: it changes memory, and no translation
  of any page through any root (`TableAdded`).

`ConsoleProofs`, for every size of the buffer, every set of letters, any number of nodes and whatever else reads from the queue:

* `LineIsTyped`: `LineHolds` holds always. It is inductive only together with `LineTyped`, which says that the texts
  carried and typed are together exactly as long as `lineCount`: the deletion then takes the last character of the buffer and of
  the history at once. That `LineHolds` also speaks of the bytes behind the text, which must be 0, is what carries it over an
  insertion and a deletion in any order. `ConcatAt` and `FrontAt` are the two facts about texts it rests on.
* `CommandsAreTyped`: `ExecutesTyped`. The buffer up to its first nul is the text up to its first nul because behind the text
  there are only nuls (`PaddedText`), again from `LineHolds`.
* `ListsAreQueues`: `QueuesLinked`. A queue is a record of its variables there, so that
  `PushKeeps`, `PopKeeps` and `OtherKeeps` are stated once for both, about one list on a heap that others use as well: a push or a pop
  leaves a list of nodes in order, and a list none of whose nodes is touched stays as it is. That the node a push takes is none of the other
  list's is what `QueuesLinked` says of the heap, so the two lists are in order only together. `ReadersKnown` adds that at
  most one reader sleeps, the one the hart has left.

`BuddyHeapProofs`, for every `Size` that is a power of two, every `Unit` and `MaxBytes`, and for both heaps:

* `TypeCorrect`, `BlocksDisjoint`, `LongestIsExact`, `LargeBlocksLast`: all of `TypeOK`, `BlocksApart`, `LongestExact` and
  `KeepsLarge`, from one inductive invariant, `Inv`. Its core is `Known`: a node taken for a block is 0, a node inside such a block or apart from
  all of them is whole, any other is the larger of its children, and the nodes taken are pairwise apart. `TreeKnown` exempts the nodes
  above `index` while a loop renews them (`Stale`), and counts a block on its way back among those taken until `Restore`. `LoopKnown`
  says where each loop is; that the way down never enters a taken block is the part on which `BlocksApart` rests.
* The geometry comes first. `Nested`, `OrderFacts` and `SplitFacts` (two nodes are apart or one is within the other; what is strictly within a node is
  within one of its children) need no induction over the tree: widths are powers of two by `HalfOfPower`, and two that are not equal
  differ by a factor of two at least (`PowersApart`). `SeekInv` shows that the search of a release stops at the node the block was taken as, so
  that `buddyFree` never leaves through its test for the root, nor joins part of a block.
* `LongestIsLargest` says that the tree tells the truth at every node, by the greatest node where it would not: its children are greater.
  `SmallFirst` is what `KeepsLarge` needs: it remembers of the whole way down that the smaller half with room was
  taken, and `PartingFacts` finds the node where the way to the largest block and the way to another one part.

`FileDriverProofs`, for every `BlockNum`, `BlockSize` and `Direct`, every tree of directories and files on the host, and every order in which
`readdir` may give it. The proofs speak of the *parts* of the tree that need a block (`Needs`): the inode of each node, the blocks of a file, and an indirect
block where `direct` has no room. A function `blk`, which exists in no code, says where each part that has a block has it.

* `BaseInvariant`, `OnlyTooLargeRefused`: `FullOnlyWhenTooLarge`, whatever the stack holds. `Base` says that `blk` is a bijection from the parts written so far
  to the blocks in `used` behind the first two (`BlocksKnown`), where each call of `walk` is in the tree (`FramesKnown`), and that what a
  directory has attached, has still to do and is working at adds up to its entries (`Counted`): so that an indirect block is asked for
  only by a node that needs one. When `getFreeBlock` finds nothing, the parts with a block and the one or two asked for are more than fit.
* `ImageInvariant`, assumed `StackHarmless`: `Content` says what is in those blocks. `Shape` is an inode with *n* entries attached, the same for a
  file that is half copied, a directory in the middle of its recursion and an inode that is finished; `EntryAt` is its *i*-th entry, in `direct` or
  behind it. Each action attaches at most one entry, and what is hard is that nothing else moves: a block is written only if it belongs to no finished
  node (`Unmoved`, `Rewritten`), and an indirect block only by its owner, which is where the uninitialised field comes in
  (`OpenSafe`, `LeftSafe`).
* `FieldsInvariant`, whatever the stack holds: an `indirect` field, in an inode of the image, in one that `walk` works at or in what it leaves on its
  stack, is a word of the stack or the number of a block. This is what an empty file needs: `LoadFaults` then means that a word of the stack leads to no memory.
* `HostIsReadBack`, `NothingElseFound`, `BlocksHaveOneOwner`, with the same hypothesis: `HostReadBack`, `NothingElse` and `BlocksExclusive`. Of a finished image only
  `Final` is used: the reader is proved against the format and not against the packer. `lookup` and the sum of what `readall` copies are recursive
  functions; that they are what the proof says is shown by a witness and, for the one the `CHOOSE` picks, by the least place where it would differ
  (`LookupTrail`, `TotalSums`). `HostReadBack` does not say that every file is read: it says which are not (`Unreadable`), directories and empty files with a
  field that leads out of memory, and `EmptyBlocks` shows that every empty file comes that far. `HeldFacts` shows the blocks held and the parts of the tree to be in bijection.

`StackHarmless` is a hypothesis and no assumption of the module, because the code does not justify it: a number found on the stack is 0 or leads out of
the image, and of the files in a directory one at most is large, and one of its directories. Without it `mksfs.c` writes one file over another; with a number that leads
out of the image it ends as `fs_indirect` shows and writes no image at all. Of the inputs of the runs TLC finds it true (`MCFileDriver`).

The proofs assume only the named `ASSUME`s of the modules and the hypotheses named above. They are about the models, whose steps are
read off the code by hand.

Model-checked only: liveness (`ReadyRuns`, `HostResumes`) and everything about `ENABLED`, which is beyond the prover. With these two exceptions
every property that a passing run checks is a theorem.
`LeavesExact` is proved and no run checks it by itself: with it `FramePoolSpec` would fail as well.

## 6. Where code and comments disagree

Shown by a run that finds the violation:

* `preempted_user`: `processor.c:139` says that a preempted thread goes on from there later. `switch.S:26-28` loads
  the target's saved `satp` from the target's own stack *before* it is installed. That stack is the user stack, which the
  page table of the idle thread does not map; the load faults, `__interrupt` stores to the same stack pointer and faults again, for ever.
* `external_enabled`: `interrupt.c:42` says external interrupts are enabled. `timer.c:19` overwrites `sie`, so that
  from then on they are not.
* `fs_indirect`: `mksfs.c:199` says an indirect block that is not allocated is allocated. The field that is tested was never
  initialised, so a number from the stack is taken for the block. The `fs.img` in the repository holds 22070 and
  972765882 in such fields.

Observed while modelling, modelled as the code does it, and not made a run:

* `thread.c:194` leaves `wait` of a boot thread 0, although `thread.h:25` says -1 means that nobody waits: were the boot shell to
  exit, it would wake thread 0. It never does.
* `thread.c:246` makes a `ThreadPool` whose slots are never written, and `allocTid` takes rubbish in `occupied` for a thread. In
  the kernel that is built the pool lies on the boot stack right under the frame of `main`, its last slots where `initMemory` and
  `printf` had theirs: the pool may have fewer than the 64 slots of `MAX_THREAD`.
* `memory.c:134` frees `length - 1` leaves of a range of `length` pages: the last page is never handed out (`Frame` in FrameAllocator).
* `heap.c:60` writes `size && (MIN_BLOCK_SIZE-1)` where a bitwise *and* is meant: a request always takes a unit more, and one that
  is a power of two takes twice its size. A kernel stack of 0x80000 bytes takes a megabyte.
* `sh.c:55`: a line of blanks resets neither `lineCount` nor the buffer, although `sh.c:43` calls it the number
  of characters of the current line. `carried` in Shell keeps what is left over.
* `mksfs.c:178`: an empty file is given 2^20 blocks, and `readall` reads an entry for each but twelve through the field that was never set (`fs.c:159-164`). Of the
  numbers found in `fs.img`, 22070 leads to memory behind the image and does no harm; 972765882 times 4096 wraps in the `int` of `fs.c:24` to an address that
  the kernel does not map, so that to execute such a file is a load fault and a panic. `HostReadBack` states when; the panic is among those of `SysExecPanic` in Kernel.
* `mksfs.c:158` and `172` ask `malloc` for one byte less than is written.
* `mapping.c:109` copies a segment to the beginning of its first page, wherever in the page it starts, although `elf.h:38` calls `vaddr` the
  address it is loaded at. The programs that are built have no data in such a segment. `InPlace` in Mapping exempts them.
* `processor.c:35` says that the resources of a program that ends are released; only its kernel stack is. Its frames and tables are lost,
  some two hundred for each command, so that one or two hundred commands exhaust the memory. Mapping never gives a frame back either, and `Depleted` is that panic.
* `queue.c` has no limit on unread characters: each is a block of the kernel heap, and `kalloc` panics when a program does not read for
  long enough (`HeapFull` in Console).
* Nothing but a test function ever gives a page frame back; `helloThread`, `appendArguments`, `newBootThread` and the kernel
  threads of `thread.c` other than idle are called by nothing.

## 7. What is not modelled

* `breakpoint` (skips an instruction no shipped program has), `fault` (panics: the stopped state of
  Kernel), PLIC and UART registers, `sysWrite` and all formatting: no state of the kernel depends on them.
* The data of characters and files: characters are counted in Kernel and told apart in Console as far as `sh.c` tells them
  apart; a block of file data is named by its file and its position.
* A and D bits of the entries, the TLB (`sfence.vma` follows every write of `satp`), and virtual addresses beyond the 39 bits of Sv39; that
  `boot_page_table` of `entry.S` maps the first instructions.
* Program headers that are to be loaded and end at address 0, where `endVaddr - 1` wraps and the loop of `mapping.c:98` does not end in practice (`ProgHeader` excludes
  them). Headers with rights that Sv39 reserves, written and not read, make no page of the hardware (`Usable`); `ProgramsFit`, a hypothesis, excludes them.
* Kernel and Trap take page tables for granted; what Mapping shows of them enters Kernel as `UserStackMapped`. A shell executed
  by a shell is in Kernel, not in Console.
* The screen: what `putchar` shows. Only `sh.c`'s buffer is compared with what was typed.
* Boot code, link scripts, Makefile, and built files in the repository.

## 8. Plan

Done, in this order, the most important behaviour first:

1. FifoScheduler and RRScheduler, with the refinement checked and proved.
2. Kernel: threads, input, system calls, interrupts; safety, then liveness.
3. Trap: privilege and interrupt bits, checked and proved.
4. FramePool and FrameAllocator, checked and proved; BuddyHeap.
5. SimpleFS and FileDriver, then Shell.
6. AddressSpaces and Mapping: page tables and the ELF loader, with the refinement checked.
7. LinkedQueue, and Console as the composition of the queues, the interrupt and the shell; `LineHolds` proved.
8. Kernel proved: one inductive invariant for the queue, the sleepers, the contexts and the stacks, then the calls to FifoScheduler.
9. Mapping proved: roles of frames, then what every space maps, then the refinement.
10. The linked queue restated with the lists as sequences of nodes, and what Console says of its queues and of `execute` proved.
11. BuddyHeap proved, after powers of two were restated by their divisors: the geometry of the tree, then its invariant.
12. SimpleFS and FileDriver proved: which part of a tree has which block, then what is in it, then what the reader finds.

Left, and why:

* Liveness of Kernel under fairness stays with TLC: it is beyond the prover.
* The system is not composed as a whole. Kernel takes from Mapping whether user stacks are mapped, and from FileDriver that a program that
  is executed can be read or panics; a module that runs all of them at once would have more states than TLC can visit and no property that
  the parts do not have.
