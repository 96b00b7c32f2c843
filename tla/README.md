# ApolloOS in TLA+

ApolloOS is a small RISC-V teaching kernel in Rust: one hart, SV39 paging,
processes with `fork`, `exec`, `waitpid` and `exit`, a FIFO scheduler driven by
a timer, and a shell.  This directory models the parts of it in which state is
shared or handed over (task control blocks behind `Arc`, physical frames, page
tables, address spaces, pids and kernel stacks, registers and contexts, user
buffers) and the programs it is tested with; checks them with TLC on small
instances, and proves the refinements and all invariants but one for every size
with TLAPS.

    tlc -workers 2 -config TaskSystem.cfg MCTaskSystem      # a run
    tlapm KernelProofs.tla                                  # the proofs

## 1. The system

Kernel code is never interrupted: supervisor interrupts stay masked, a trap
inside the kernel is a panic (`trap_from_kernel`), and there is one hart.  So a
trap handler runs to its end or to a `__switch`, and everything concurrent in
this system is an interleaving of such stretches.

| Component (source under `os/src`) | State | Operations | Correct if |
|---|---|---|---|
| Frame allocator `mm/frame_allocator.rs` | `current`, `end`, `recycled`; a `FrameTracker` per frame in use | `alloc`, `dealloc` on drop | a frame has one owner, none is lost, `None` only when all are owned |
| Page table `mm/page_table.rs` | nodes in frames, `root_ppn`, `frames` | `new`, `map`, `unmap`, `find_pte(_create)`, `translate`, drop | it is a partial map, its nodes are exactly the frames it owns, whatever they held before |
| Address spaces `mm/memory_set.rs` | areas with their frames, a page table | `from_elf`, `from_existed_user`, `insert_framed_area`, `remove_area_with_start_vpn`, `recycle_data_pages`, drop | processes are isolated, `fork` copies, fresh pages are zero, tables lead to owned frames |
| Task control blocks `task/task.rs`, `task/mod.rs` | status, parent (`Weak`), children (`Vec<Arc>`), exit code, `trap_cx_ppn`, `base_size` | `new`, `fork`, `exec`, `exit_current_and_run_next`, drop | one tree rooted in INITPROC, exact Arc counts |
| Scheduler `task/manager.rs`, `processor.rs` | `ready_queue`, `PROCESSOR.current`, the idle context | `add_task`, `fetch_task`, `run_tasks`, `suspend_...`, `schedule` | a runnable task is in exactly one place, FIFO is fair |
| Pids and kernel stacks `task/pid.rs` | `current`, `recycled`; an area of `KERNEL_SPACE` per pid | `alloc`, `dealloc`, `KernelStack::new`, drop | pids are unique and conserved, stacks never overlap |
| System calls `syscall/` | none of their own | `fork`, `exec`, `waitpid`, `exit`, `yield`, `read`, `write`, `getpid`, `get_time` | the promises of the abstract process tree |
| User memory access `mm/page_table.rs` | none of its own; frames of the caller | `translated_byte_buffer`, `translated_str`, `translated_refmut` | exactly the bytes the program means, at every page boundary |
| Traps and switches `trap/`, `task/switch.S`, `sync/up.rs` | registers, `satp`, `stvec`, trap and task contexts, borrowed cells | `__alltraps`, `trap_handler`, `trap_return`, `__restore`, `__switch`, `exclusive_access` | each program has a processor of its own; no context is loaded that was not saved; no cell is borrowed twice |
| Caches of the hart | TLB, instruction cache | `sfence.vma`, `fence.i` | what is used is current |
| Loader `build.rs`, `loader.rs` | a section of `.data`, `APP_NAMES` | `insert_app_data`, `get_app_data_by_name` | a name finds its own file |
| Boot `main.rs`, `entry.asm`, `linker-qemu.ld` | allocators, `KERNEL_SPACE`, `satp` | the calls of `rust_main` | nothing is used before it is set up, the kernel survives the switch to paging |
| initproc, user_shell, user library (`user/src`) | program counters | `wait`, `waitpid` loops | orphans are collected, the shell gets its own child back |
| test programs (`user/src/bin`) | program counters | their system calls | their assertions hold, they end |

Interactions: the process layer calls the address spaces (`fork`, `exec`, exit,
drop of a block), these call page tables and the frame allocator, page tables
call the frame allocator; all communicate through global `UPSafeCell`s whose
second borrow panics.  A block is reachable from its parent's `children`, from
the ready queue or `PROCESSOR.current`, and from the static `INITPROC`; the last
`Arc` that is dropped frees the pid, then the kernel stack, then the space.

What is hard to test here: adoption of orphans while their exit codes are
pending, pid and kernel-stack reuse, Arc counts that are asserted long after the
clone that broke them, frames that come back dirty, memory running out in the
middle of a walk, references taken before `exec` and used after it, borrows that
nest and contexts that live across `__switch`, buffers that end exactly at a page
end, answers stored through pointers nobody checks, page tables changed without a
fence, and the liveness of polling (`wait` yields until a child
has exited).  `PROJECT.json`
lists these hazards with the line where each bites and the property that would
catch it.

## 2. Modules

| Module | What it is |
|---|---|
| `ResourcePool` | abstract: numbers owned by at most one handle |
| `FrameAllocator` | `StackFrameAllocator` and its trackers; implements `ResourcePool` |
| `PageMap` | abstract: a partial map with the panics of `map` and `unmap` |
| `PageTable` | the three-level table in frames with arbitrary old content; implements `PageMap` |
| `PrivateMemory` | abstract: a memory per process |
| `MemorySet` | areas, frames, tables, trap contexts, kernel stacks through new, fork, exec, exit, reaping; implements `PrivateMemory` |
| `ProcessTree` | abstract: live and dead processes, the answers of `fork` and `waitpid` |
| `TaskSystem` | blocks, Arc counts, tree, queue, processor, pids, system calls, borrows; implements `ProcessTree` |
| `Kernel` | `TaskSystem` composed with `MemorySet`: a system call is one step of both |
| `UserPrograms` | `TaskSystem` composed with initproc and the shell |
| `UserTests` | `TaskSystem` composed with the test programs |
| `VirtualCpu` | abstract: a processor per process |
| `ControlFlow` | traps, `__switch`, contexts, `satp`, `stvec`; implements `VirtualCpu` |
| `TranslationCache` | TLB and instruction cache against changing page tables |
| `UserBuffer` | buffers, strings and results across user pages, byte by byte |
| `ElfLoader` | `from_elf` byte by byte |
| `FrameAllocatorProofs`, `PageTableProofs`, `MemorySetProofs`, `ControlFlowProofs`, `TranslationCacheProofs`, `UserBufferProofs`, `ElfLoaderProofs` | proofs about the module of that name |
| `KernelProofs` | proofs about `TaskSystem`, and about its compositions `UserPrograms` and `Kernel` |
| `MC*` and `*.cfg` | instances for TLC |

### How state and actions correspond to the code

**FrameAllocator.**  The variables are the struct's fields and `ppn`, the frame
of each tracker.  Dropping a tracker is `frame_dealloc` with its check.

**PageTable.**  `mem[f]` is frame `f` read as a page of entries.  Initially, and
whenever another owner had the frame, it is full of entries that look valid:
this is what a node would contain if `FrameTracker::new` did not clear it.  A
walk of `find_pte_create` is two uses of `descend`, each of which may take a
frame; `frame_alloc` may answer any free frame.  A walk that finds none left at
the second level ends in the panic with the first node linked and owned, as the
code leaves it.  An entry's bits are abstracted to what it points to (a node, a
target, nothing); `translate` answers an option (the empty sequence for `None`),
so an entry that is not valid and a walk that ends early are different answers,
and `unmap` has a panic for each.

**MemorySet.**  Each space has `areas` (page ranges), `data_frames` (what the
areas own) and `table` (the page table, a partial map by the result on
`PageTable`, node frames left out).  They are separate because the code lets
them differ: `recycle_data_pages` clears the areas of a zombie and leaves table
and `trap_cx_ppn` pointing to frames that are free.  `frames_for` is a constant:
the ways the allocator may serve a set of pages; the order of its free list is
the concern of `FrameAllocator`.  The content of a page is a kind with what
distinguishes pages (file page of a program, zero, written data, trap context
with its kernel stack pointer).  A store of the program itself (`user_write`)
passes the MMU, so it reaches only its writable pages.  A store of the kernel does
not: `sys_read` and `waitpid` write through the frame that `translate` finds, look
at no flag, and so also write read-only pages and the page of the trap context
(`kernel_store`).  A pointer to nothing, or into the trampoline, is a kernel panic
(`bad_pointer`).  A store into the trap context hits registers or what the kernel
itself reads at the next trap; no code says what follows, so the model stops there
with `overwritten`, and the properties say what still holds in that state: the
context of every other process is intact.

**TaskSystem.**  One record field per variable, indexed by the memory block of
the TCB.  `strong` moves exactly where the code clones or drops an `Arc`; a
block whose count reaches 0 becomes `Free` with everything that its drop does.
`resume` is where a switched-out task continues: `trap_return` for a new task,
in the timer arm of `trap_handler`, in `sys_yield`, in the loop of `sys_read`.
`Panic` is the end: the panic handler shuts the machine down.  User programs are
arbitrary; `unsupported` stands for every request the kernel answers with a
panic (unknown system call, descriptor, unmapped pointer, no frame left for
`fork` or `exec`).  `getpid`, `get_time` and `write` change no modelled state.
Borrows of `UPSafeCell`s need no variable, because no `RefMut` outlives a stretch:
for each stretch an operator (`fork_borrows`, `exit_borrows`, ...) gives every call
of `exclusive_access` with the cells that are borrowed at that point, the inners of
the blocks it works on among them.  Which blocks these are depends on the state of
the tree and the queue, and `NeverBorrowedTwice` says that none meets itself;
`exit_current_and_run_next` panics where one does, which is the case for INITPROC.

**Kernel.**  `INSTANCE MemorySet` under the process layer.  fork, exec, exit and
the drop of a block take a step of both modules with the same pid; if the memory
part panics, the process layer stops, and the other way round (`off`); a boot
that finds too few frames for INITPROC stops there.  The pid of a new process
comes from the pid allocator, where `MemorySet` alone would take any.  `read` ends
`sys_read` with its store, `reap` stores the exit code and then drops the block,
each at any page the program may name; `store` is the program's own.

**ControlFlow.**  An action is a stretch of kernel code between two points where
control leaves it: a trap, a `__switch`, a return to user mode.  `trap_cx` is the
trap context page of each space, `task_cx` what `__switch` saved, `stack` the
caller that waits behind `suspend_current_and_run_next` on a kernel stack.  The
registers of a program are `sepc` and `a0`; the others are saved and restored by
the same loops.  Stores of the kernel into a trap context are the matter of
`MemorySet`; here programs pass pointers into memory of their own.  Which zombie
`waitpid` may collect is left open.  The refinement mapping gives a process its registers from the hart while
it runs and from its trap context otherwise; while a call waits in the kernel it
is still before its `ecall`.

**TranslationCache.**  The hart may at any time cache the walk of any page of
the active table, the absence of a mapping included, and the instructions of any
frame.  Frames are chosen freely, so old and new translation differ or not.

**UserBuffer.**  Frames hold bytes (zero, ASCII, lead and continuation byte of a
two-byte character), page tables are constants by the result on `MemorySet`.  One
action is one round of a loop of the source.  The kernel checks nothing of a
pointer; `reference` is an assumption about the caller and says what the user
library passes: the address of a Rust reference, aligned and to memory of the
program.  `push` is `string.push(ch as char)`: each byte becomes the character of
that number, so a byte of a two-byte character becomes two bytes of the String.

**ElfLoader.**  One action is one round of a loop of `from_elf`, `map` or
`copy_data`.  A byte of the file is its offset.  Frames are consumed in order and
hold old data; the root node and the two nodes of the trampoline come first, and
`map_one` takes the frame of the page and then those of the nodes that
`find_pte_create` has to add for it.  `push` begins with the assertion of `SimpleRange::new`: a stack
whose end wraps at the address width would end before it begins.

**UserTests.**  A program is the sequence of its system calls, with what it
asserts of each answer; `wait` and `waitpid` include the loop of the wrapper, and
the exit code arrives in the variable whose address was passed (`xstate`), which
keeps its old value when no child is collected.  A failed assertion is the endless loop of the user panic handler.  initproc starts
one of the tests in the place of the shell.

**UserPrograms.**  initproc and the shell make the calls their source makes, in
that order; every other process stays arbitrary.

## 3. Runs

| Run | Question | Bounds and why they are enough |
|---|---|---|
| `frame_allocator` | is a frame ever lost, duplicated or refused? | 5 trackers on 4 frames: exhaustion and every order of return; proved for all sizes |
| `task_system` | do queue, tree, counts and pids stay consistent, can the layer's assertions or borrows fail, do `fork`, `exit`, `waitpid` do what they promise? | 4 blocks, a program exit code different from the two fault codes: a grandchild can be orphaned, adopted, reaped and its block and pid reused while a sibling lives; symmetry of the three blocks that are not INITPROC; proved for all sizes |
| `base_size` | expected violation, see section 6 | two programs of different sizes |
| `page_table` | is the table a partial map on dirty frames? | 2 entries per node, 5 frames where a full table needs 7: sharing of nodes, exhaustion in the middle of a walk; frames symmetric |
| `memory_set` | frame ownership, trap contexts, guard pages, isolation | 2 pids, 2 programs (one with a page beyond its file), 12 frames: fork, exec on either side, reuse of frames and of the kernel stack of a pid, exhaustion in exec; kernel stores at every page, mapped or not |
| `user_programs` | does every ready task run, are orphans reaped, does the shell come back? | initproc, shell, a child and a grandchild, the last two with arbitrary programs; no symmetry (temporal properties), instead the properties are stated of one block that stands for all but INITPROC (`AnyBlock`) |
| `kernel` | do blocks and memory stay in step, does anything leak? | 3 blocks, 2 programs, 16 frames: orphaning, reuse of pids and frames, exhaustion in exec and fork.  Frames are interchangeable, so states are compared by which pages each space has, by the trap contexts and by how many frames are free (`MC_View`); blocks other than INITPROC are symmetric |
| `control_flow` | contexts, registers | 3 tasks, programs of 3 instructions: two tasks can be suspended in different calls while the third runs |
| `translation_cache` | are the fences enough? | 2 pids, 2 frames, 2 programs: a pid is reaped and used again with the same and with other frames |
| `user_buffer` | are the bytes the right ones? | 2 processes, pages of 4 bytes, buffers and names over up to three pages that begin and end anywhere, with one- and two-byte characters, 2 calls in a behaviour |
| `elf_loader` | is the image loaded as the headers say? | pages of 3 bytes, up to two LOAD segments of every size with other headers around them, 3 entries per page-table node, pools from too small for the trampoline to sufficient (a frame can be missing for a page or for a node), data segments so high that the stack meets the trap context or wraps at the address width |
| `user_tests` | do the test programs pass and end? | 3 children (30 in the code), 3 rounds of a loop, depth 1 of forktree (its state space at depth 2 is beyond TLC), `usertests` with three tests of which one is killed |

Bounds: the size of `Tcb` (processes, live and dead, at a time; a fork that
finds no block is not taken), the frames, entries per node, `MaxPid`.  Pids are
not bounded separately: a recycled pid is always used first, so there are never
more than blocks.

The type invariants of `FrameAllocator` and `TaskSystem` are proved and in no
run; those of the other modules are a conjunct of the first invariant their run
checks.

Each property has a mutant of the definition it depends on (`..._NoPop`,
`..._Stale`, ...; defined just before the original), under which TLC finds it
violated.

### Fairness

`UserPrograms` assumes weak fairness of the idle loop, of the kernel code of a
resumed task and of the timer interrupt: `trap_handler` and `rust_main` arm the
timer every 10 ms and it is enabled in user mode.  Nothing is assumed of
the programs the shell starts.  For the next system call of initproc, and of the
shell while it waits, strong fairness is assumed: the few instructions between two
calls do not use up every 10 ms slice they are given.  Nothing is assumed about
characters arriving at the console.  `UserTests` assumes the same of every test
program, and that time passes, so that a `sleep` is over at some point; nothing
is assumed about when.  `UserBuffer` assumes that kernel code, once started,
goes on.

## 4. Proofs

Every theorem holds for all values of the constants that satisfy the named
assumptions of its module: any number of processes, frames and programs, any
page and stack size.

`FrameAllocatorProofs`.  The inductive invariant `Inv` is type correctness, the
position of the interval, exclusive ownership, conservation (`NoFrameLost`) and
the absence of a panic.  Conservation alone is not inductive: that a popped frame
belongs to nobody needs the stack to be injective and disjoint from what is held,
and that a fresh frame is new needs the interval to be exactly what was handed
out.  From it: `FramesConserved`, `DeallocNeverPanics`, `NoneMeansExhausted`, and
the refinement `AllocatorImplementsPool`.

`KernelProofs`, the process layer.  `Inv` is the conjunction of type correctness, the invariants
of the `task_system` run, the fact that no set of processes is cut off from
INITPROC (`TreeIsRooted`) and that INITPROC is never removed.  They need each
other: the count of a block is known only if it stands in exactly one children
vector (`ParentsMatchChildren`) and in the queue at most once
(`ScheduledExactlyOnce`); that no assertion fails needs the counts and the pids;
that an adopted child's parent is live needs INITPROC to be runnable.  There is
one lemma per action and, under it, one step per conjunct.  `TreeRefinement`
(`TreeSpec`) needs `PidsOfBlocks` besides: the mapping sends a pid to its block,
so it must be a function, INITPROC must be pid 0, and the pids must fit into
`0 .. Cardinality(Tcb)`; the last is proved by counting: a new pid is made only
if none is recycled, hence each pid below it has a block of its own, and the
block that fork takes is one more.  Each action is then a step of `ProcessTree`
or leaves the tree as it is.  `NoDoubleBorrow` (`NeverBorrowedTwice`) is read off
`Inv` one stretch at a time: a child is never its parent and never INITPROC
(`ParentsMatchChildren`), a new block is none of those alive, and the borrows of
the allocators nest in one order.

`PageTableProofs`.  `TreeOfNodes` (`NodesFormATree`) is inductive as it stands
once it is read as one statement about a tree `Tree(m, r, F)` in a memory: every
valid entry of an inner node leads to an owned frame other than the root, no two
entries lead to the same node, every owned frame is reached.  `GrowTree` shows
that hanging a cleared frame under an empty entry keeps it and changes no
lookup, `LeafWrite` that writing a leaf entry changes exactly one lookup.
`find_pte_create` is two uses of the first (`WalkStep`), so a walk that runs out of
frames half-way (`Stuck`) has already added a node, which stays, and still changed
no mapping: `MappingRefinement` (`MappingSpec`).

`MemorySetProofs`.  `Inv` is `FramesOwnedOnce`, `TablesMatchAreas`,
`TrapContextIsCurrent` and `AreasOK`.  The last ties a live process's areas to
the program whose trap context it has, so that the areas `fork` copies are again
those of a program and meet no mapped page, and says that `KERNEL_SPACE` has
exactly the kernel stacks of the pids in use.  `TrapContextIsCurrent` survives
kernel stores because the frame that is written is the caller's
(`FramesOwnedOnce`): every other context is intact, and the caller's own is spoilt
only in the state in which the model stops.  A first group of lemmas is about
layout (pages of an area, kernel stacks of different pids are disjoint and have a
gap below); then `create` and `exec` are reduced to their effect (`Created`,
`Executed`) and each operation is shown to keep each part.  From `Inv`: the four
invariants of the run, `GuardPages` among them.  `PrivateMemoryRefinement`
(`PrivateMemorySpec`) follows from what each operation does to what a process
sees (`newSees`, `execSees`, `forkSees`, `recycleSees`, `dropSees`): a frame
that is written, by the program or by the kernel, belongs to nobody else, and one
that is taken was cleared.

`ControlFlowProofs`.  `Inv` adds to the two invariants of the run the types of
the contexts, the queue (`QueueOK`: Ready tasks once, the Running one is
current), `StackOK` (a caller waits on a kernel stack only between the two halves
of `__switch`) and `HartOK` (what the hart holds at each of these points).
`VirtualCpuRefinement` (`VirtualCpuSpec`) is a case per action: on entry the
registers move from the hart to the trap context, a call is answered there, and
the mapping reads them from wherever they are.

`TranslationCacheProofs`.  Stale entries exist, so the invariant `CachesClean`
says which: behind the fence of a trap everything cached is current until the
current process maps or unmaps a kernel stack; it is then on its way to the
fence of `__restore`, and the only page it uses until then is its own stack's,
which no such call touches.

`KernelProofs`, the compositions.  `ShellAssertion`: nobody but a process itself
ends it and nobody but its parent takes a child from it (`FamilyKept`), so the
child the shell forked is there when its `waitpid` looks (`ChildIsThere`).
`Kernel`: the invariant `KInv` is that of both layers and `Together`, that each
block has a memory in the same state of life under its pid, that there is no
other, and that the trap context is that of the program the block names; or, once
a call had the kernel store into a trap context, `Overwritten`, which excepts the
caller's context and nothing else.  It
makes every step of `Kernel` one step of each layer (`KernelIsBothLayers`), so
all theorems about the two hold of the composition, and it gives
`MemoryAndTasks` and `ContextOfTheProgram`.  `ProgramsAreProcesses` does the same
for `UserPrograms`.  `FramesAreNotLeaked` (`NoFrameLeaks`) is a count, and counts
are compared by a bijection: every frame in use is the frame of one page of one
space (`FramesOwnedOnce`), the pages that have frames are those of the areas
(`TablesMatchAreas`), and the areas are the image of a block that runs or the
kernel stack of a pid that a block has (`AreasOK`, `Together`).

`ElfLoaderProofs`.  `Inv` says at every round of every loop what is finished:
the segments already pushed are loaded (`Loaded`), of the one being pushed the
pages up to `vpn` are mapped and the bytes up to `start` copied (`Filled`), the
pages of what is still to come are not in the table (`Upcoming`); frames are used
once (`OwnFrames`) and everything behind a page was cleared (`Cleared`).  The order
of the headers enters through `Extent`: `max_end_vpn` is the end of the last
segment, and by the order of the addresses the greatest end.  `LoaderBuildsTheImage`,
`LoaderGuardsTheStack` and `LoaderFailsOnlyForRoom` are read off at the end.

`UserBufferProofs`.  What a system call was given stays what its caller passed
while others run, because only a caller of `sys_read` waits without being current
(`Waiting`) and no answer of another process reaches its memory; `ArgsOk` says
this of every process inside a call.  For the current one, `InCall` says that the
slices found are consecutive ranges of the buffer, cut at page ends or where the
buffer ends, and of a name that a zero at a mapped address is still ahead and that
the String is what the bytes before it push (`Spells`): the same bytes while they
are ASCII, and from the first other byte on neither the same nor ASCII.
`SlicesAreTheWholeBuffer` is about a concatenation, where induction is replaced by
the least index at which the concatenation of the first slices would differ
(`Least`, from the well-foundedness of the naturals).  `OnlySplitCharactersPanic`:
a valid text that is cut between two bytes is not valid on one side only if the
cut is inside a character (`CutCharacter`), and cuts are at page ends.
`AnswersLandInTheCaller`: an aligned object lies in one page, and its frame is in
no other table.  `RoundsAdvance` is the measure behind `TranslationEnds`.

The lemmas on sequences (the ranges of `Append`, `Front`, `Tail`, `\o` and
`RemoveAt`, and that they keep injectivity) stand at the head of the modules that
use them.

Assumptions:

| Name | What it says of the constants, and why |
|---|---|
| `FrameRangeAssumption` | the kernel lies inside memory |
| `TaskAssumption` | finitely many blocks, INITPROC is one, linked names are names |
| `PageTableAssumption` | the empty entry is no node and no target |
| `LayoutAssumption` | segments are ordered by the linker script and begin on pages, fit below trap context and trampoline; stacks are whole pages and those of all pids fit |
| `FrameAssumption`, `FramesForAssumption` | the trampoline's frame is not in the pool; the allocator serves distinct free frames and refuses only if there are too few (proved of `FrameAllocator`) |
| `IdleAssumption` | the idle flow and "nobody" are no tasks; programs are not empty |
| `CacheAssumption` | a stack has at least one page; no frame is the absent one |
| `ShellAssumption` | the shell is linked |
| `MemoryAssumption` | those of `MemorySet`, for its instance in `Kernel` |
| `SizeAssumption` | address space and stack are whole pages, the stack is not empty and smaller than the address space |
| `LinkerAssumption` | LOAD segments as `user/src/linker.ld` makes them: on pages of their own, ascending, not empty, below the trap context |
| `WidthAssumption` | pages are a multiple of an `i32`, the address space is whole pages and has at least two |
| `TableAssumption` | no two pages share a frame, no buffer reaches trap context or trampoline (`FrameOwnership` and the layout of `MemorySet`) |
| `TextAssumption` | strings that programs print are valid UTF-8 |

Only model-checked:

* all liveness (`ReadyEventuallyRuns`, `OrphansAreReaped`, `ShellComesBack`,
  `TranslationEnds`, `TestsFinish`): fairness and ENABLED are outside of what the
  prover handles.  Of `TranslationEnds` the safety part is proved
  (`RoundsAdvance`): every round moves on and none passes the end;
* `TestsPass` of `UserTests`: that an assertion of a test program holds depends on
  how many children the program has left at each of its calls, which is a count
  per instruction of twelve programs, and `forktree` makes it a sum over a tree.
  What the tests rely on is proved (`TreeRefinement`).

## 5. Not modelled

* The boot (`rust_main`, `clear_bss`, `MemorySet::new_kernel`, `activate`,
  `remap_test`): a fixed sequence of calls on the symbols of the linker script,
  without inputs and without a second actor, which every start of the machine
  runs in full.  The models begin with its result.
* The loader (`build.rs`, `loader.rs`): tables fixed at link time that are only
  read.  `AppNames` stands for what `get_app_data_by_name` finds.
* The kernel heap: an external buddy allocator on a static buffer.
* Console output, SBI calls, formatting, and the board files.
* The computations and the output of the test programs, and the programs that
  only print.
* Frames of page-table nodes in `MemorySet` and `Kernel`: `PageTable` shows that
  nodes are exactly the frames a table owns, so counting them would add a number
  to each image.
* A negative translation cached between `add_initproc` and the first return to
  user mode, see the hazard at `task/mod.rs:83`: the code has no fence there, and
  whether a hart can have such an entry is not a question about the code.
* Some pointers a program has no business passing.  What is modelled: those to
  unmapped memory, which end in a kernel panic, and those into read-only pages and
  into the trap context, which the kernel writes (`kernel_store`; what happens
  after a trap context is overwritten is left open, the model stops).  What is
  not: an `i32` pointer that is not aligned, whose store at a page end would go on
  in the next physical frame (undefined behaviour of the reference that
  `translated_refmut` makes), and a pointer above the address width, for which the
  loop of `translated_byte_buffer` compares a masked end with an unmasked start and
  does not end.  The user library can make neither.
* The `unwrap`s of `from_elf` on the format of the file: the files are those the
  build linked.

## 6. A disagreement between comment and code

`TaskControlBlockInner::base_size` is documented as the highest byte of the
application's address space.  `exec` replaces the address space and leaves the
field; the run `base_size` shows the state.  Only `fork` reads the field, to copy it
into the child.

## 7. Plan

Modelled, in the order of importance: the process layer, the frame allocator,
page tables, address spaces, control flow and caches, user memory access, their
composition, the programs.  Proved: every invariant, action property and
refinement that a run checks, except `TestsPass`.

The proof of `ElfLoader` corrected its model twice: it had left out the assertion
of `SimpleRange::new`, which stops a stack that wraps at the address width, and
it ended `from_elf` without a trap context when the stack began on that page.

What is left: that the test programs are behaviours of the process layer, and
`TestsPass` for every number of children, rounds and depth.
