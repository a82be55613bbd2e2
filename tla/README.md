# A verification of orange-os in TLA+

orange-os is a small RISC-V kernel in C++: one hart in machine mode, user programs
in user mode under Sv39, virtio devices over MMIO, a simple inode file system. This
directory holds TLA+ models of its core, the TLC runs that check them and the TLAPS
proofs about them. `PROJECT.json` maps every definition to the lines it models.

## The system

| component | state | operations | interacts with |
|---|---|---|---|
| scheduler (`kernel/scheduler.cc`) | `process_tasks_`, `cpu_task_`, `ticks` | Dispatch, Yield, Sleep, Wakeup, Exit, AllocProc, FindFirslZombieChild, ClockInterrupt | everything that blocks |
| critical sections (`kernel/lock`) | `mstatus.MIE`, `is_intr_on_` of each guard, spin locks | CriticalGuard | all shared state |
| traps (`kernel/trap.cc`, `*.S`) | CSRs, `RegFrame` | ProcessUserTrap, ProcessKernelTrap, TrapRet | scheduler, system calls, drivers |
| process calls (`kernel/syscalls/impl.cc`, `kernel/process.cc`, `user/init.cc`) | `parent_process`, `pid`, `cur_pid`, `exit_code` | sys_fork, sys_exit, sys_wait, sys_sleep | scheduler, pages |
| console (`kernel/console.cc`, `driver/uart.cc`) | ring buffer, two indices, a lock | read, InterruptHandler | UART interrupt, sleepers on `console_channel` |
| virtio block driver (`driver/virtio*.{h,cc}`, `transport_mmio.h`) | descriptor bitmap, rings, waiting flags | Operate, trigger_notify, wait_complete, UsedBufferNotify | device, sleepers on `channel_` |
| pages and address spaces (`kernel/virtual_memory.*`, `process.cc`) | free list, bitmap, page tables, `used_address` | Alloc, AllocContinuousPage, MapMemory, FreeMemory, CopyFrom, ExpandMemory | fork, exec, wait, sbrk |
| file system (`filesystem/`) | superblock, bitmap, inodes, directories on disk; inode copies in descriptors | Open, Create, Read, Write | block driver |
| loaders (`static_loader.cc`, `dynamic_loader.cc`) | none of their own | Load | file system, address spaces |
| negotiation and registry (`negotiater_mmio.h`, `device_factory.cc`) | device status, queue addresses, `device_list_` | InitDevices, init | page allocator, interrupt controller |
| GPU, input, network drivers | queues, waiting flags, resource ids | framebuffer and cursor commands, events | user graphics, sleepers on `channel_` |
| user heap (`lib/memory.cc`) | circular free list | malloc, free | sbrk |

What is hard here is the interleaving. System calls run with interrupts on
(`trap.cc:21`), the timer preempts the kernel at any statement outside a
CriticalGuard, and with `CPU_NUM = 1` a guard is nothing but the MIE bit, which
guards that are open across a `Switch` hand from one stack to another. Tests of a
condition and the sleep on it are often two critical sections. Devices complete
requests in any order. Several structures sit at a width or a limit: 8-bit
indices on 256 bytes, 16-bit ring indices against 32-bit counters, 64 process slots.
`PROJECT.json` lists each hazard at its line.

Correctness of each part, in short:

- scheduler: who runs is recorded consistently; a sleeper has a channel; interrupts
  are on wherever the kernel waits; no runnable process starves;
- process calls: fork, exit and wait act on the process tree as if atomic; a slot is
  reset only as a zombie and reused only when free; pids are unique; waits return;
- console: a bounded FIFO with lines; no reader sleeps on a complete line;
- block driver: descriptors belong to one chain at a time; no completion is lost or
  given to the wrong request; every operation ends and reports how;
- pages: the free list and the bitmap agree and no page is handed out twice; every
  page is free or has one use, and a memory belongs to one process;
- user heap: one ordered circle of free blocks, disjoint from the blocks in use;
- file system: after every disk operation the disk is a set of files; a block belongs to
  one file, a name leads to one file, and what `sys_write` reports is there;
- devices: what is registered has been set up; no receive buffer or event is lost;
  driver and GPU agree on the resources that exist; every call returns.

## Modules

| module | models | role |
|---|---|---|
| `Scheduler` | `scheduler.cc`, `critical_guard.cc`, timer side of `trap.cc` | extended by the three components below |
| `ProcessLifecycle` | `sys_fork/exit/wait/sleep`, `init.cc`, exceptions | component |
| `ProcessTree` | what fork, exit and wait promise | abstract specification of `ProcessLifecycle` |
| `Console` | `console.cc`, `uart.cc` | component |
| `LineFifo` | what the console promises | abstract specification of `Console` |
| `VirtioBlk` | `virtio_blk.*`, `virtio.*`, `transport_mmio.h`, and the device (external) | component |
| `PageAllocator` | free list and bitmap of `virtual_memory.*` | component, on its own |
| `PagePool` | what the allocator promises | abstract specification of `PageAllocator` |
| `AddressSpace` | page tables, regions, fork, exec, dlopen, sbrk, reaping; the ELF loaders | component, over a pool of pages |
| `PrivateMemory` | what address spaces promise | abstract specification of `AddressSpace` |
| `UserHeap` | `lib/memory.cc` inside those address spaces | extends `AddressSpace` and completes its next-state relation |
| `FileSystem` | `filesystem/*`, the file system calls, the image of `mkfs` | component, with crashes |
| `FileStore` | what the file system promises | abstract specification of `FileSystem` |
| `DeviceBoot` | `device_factory.cc`, `negotiater_mmio.h` | extended by `ReceiveQueues` |
| `ReceiveQueues` | `virtio_input.cc`, `virtio_net.cc`, and the devices (external) | extended by `VirtioGpu` |
| `VirtioGpu` | `virtio_gpu.*`, the graphics calls, and the device (external) | composes the three |
| `MCProcessLifecycle`, `MCConsole`, `MCVirtioBlk`, `MCPageAllocator`, `MCUserHeap`, `MCFileSystem`, `MCVirtioGpu` | | instances for TLC |
| `ProcessLifecycleProofs` | | proofs about `ProcessLifecycle` |
| `RingFacts` | | lemmas about remainders, windows of a ring buffer and least elements |
| `ConsoleProofs`, `VirtioBlkProofs`, `PageAllocatorProofs` | | proofs about `Console`, `VirtioBlk` and `PageAllocator` |
| `DeviceProofs` | | proofs about boot, the receive queues and the GPU driver, all inside `VirtioGpu` |
| `UserHeapProofs` | | proofs about the heaps of all processes inside `UserHeap` |
| `FileSystemProofs` | | proofs about `FileSystem` with one careful writer |

**What is one step.** Code under a CriticalGuard cannot be interrupted, so it is one
step up to the guard's end or the next `Switch`. Code with interrupts on is cut at
every access to shared state: each turn of `AllocProc` and `FindFirslZombieChild`,
each of sys_fork's two stores, the reset in sys_wait, the test and the sleep of
sys_sleep and sys_wait. A guard does not stop a device, so `trigger_notify` is two steps: the
device may fetch and complete a chain as soon as `avail.idx` shows it, before `waiting_flag` is set. `pc[p]`
says where process p is. The timer may come between any two steps. The order of
sys_fork's two stores is the source's.

**Switch.** `Switch` is a pair of steps. `SwitchToDispatch` leaves the process
and does what Dispatch does on return: clear `process_task`, let its guard restore MIE,
go to the next slot, and turn MIE on at the start of a round. `DispatchRun` is the
other direction; `ResumedMie` says what MIE is once the resumed code has left its
critical section: on for a preempted kernel (`mret` with `mpie` set), what Sleep's
guard saved, or off in user mode.

**User programs.** `Calls[n]` says what the program with pid n may do; init is the
loop of `user/init.cc`. A page fault exits the process without turning interrupts on; any
other exception panics.

**Panics.** `panicked` records why the CPU spins: an exception from user code without
a case in ProcessException, or an exception in the kernel itself.

**Locks.** `Sleep(channel, lk)` unlocks lk, switches, and locks it again. With one CPU
no guard ever takes or releases lk, so the second of two sleepers that are woken finds the
lock taken and spins with interrupts off for ever. `Relock` in `Console` and
`VirtioBlk` models this, and their runs say CHECK_DEADLOCK FALSE because the hang is reachable.
`console` and `virtio_liveness` have two processes and meet it: `LineDelivered` and `OperateReturns` promise a
return or this hang (`Hung`), so they show that nothing else keeps a call from returning.

**The device** of `VirtioBlk` is modelled from how the driver uses it: it fetches
posted chains in order, completes them in any order, and sets its interrupt bit. It
keeps working while `trigger_notify` and `UsedBufferNotify` run. The status of a request that got no
descriptors is never written; `CheckStatus` then compares whatever the stack held, and either
result is possible.

**Pages.** Alloc, FreePage and AllocContinuousPage hold a CriticalGuard from end to end
and are one step each. `memory_list_` holds the list's head, tail and size and the links that
the code keeps inside the free pages; `returned` is what the last call gave its
caller. A call that finds no run returns null and changes nothing.

**Address spaces.** A page table is three levels of entries over one pool of pages; a page
holds cells, and a process reads and writes cells through its table. Fork, exec and
dlopen are cut where the code sleeps or where another process may run: fork copies page by page,
the loaders read segment by segment. A file is an image: a type, segments, a value, a slot that
waits for a library's symbol. `sys[p]` holds the call's locals: the child, the new page,
the temporary address space. `leaked` holds the pages that a failed exec
forgets. Alloc clears the page it gets before anybody tests it, so running out of memory is the
state `fault`, not an error return, and CopyFrom's error paths are never taken. MapMemory has one more:
MapPage refuses an address above `MAX_SUPPORT_VA` (`virtual_memory.cc:116`), and MapMemory then returns false and
loses the page it has just allocated (`virtual_memory.cc:174-176`). A file with such a segment gets
there through `static_loader.cc:104`, which does not look at the addresses. The programs of the model lie
below the stack (`SegmentsBelowStack` in `ImageAssumption`) and its libraries find room there, so this path is left out.
Which page Alloc pops does not matter to any property; it is the lowest free one.

**Heap.** `heap[p]` is the free list of process p (next, size, free_list), the blocks it holds and
what sbrk has given it. It is part of the program's memory, so fork copies it and exec
starts with an empty one. The kernel side of sbrk is `ExpandMemory` of `AddressSpace`.

**Files.** One step is one disk operation with the code up to the next one; `call[p]` holds
the locals of the process' call. A cell of a block is a byte, a directory entry or an entry of
an indirect block, depending on who reads it. Descriptors hold copies of inodes.
A buffer is a sequence of pieces, as `safe_copy` cuts it at the boundaries of pages; `sys_write` puts each of them
at the offset the call started from, because `FileStream::write` (`filestream.cc:53`) does not advance.
`Create` of the root's own path returns at once, with a zeroed inode.
`Crash` keeps the disk and loses everything else, between any two disk operations;
the program has no recovery, so what it leaves is what the next boot works with.
`torn` remembers the inodes whose entry was written and whose inode was not.

**Devices.** `InitDevices` goes through the devices in order; each may refuse at the tests of
`init`. Receive buffers are posted at boot and again by the interrupt handlers. A GPU call is a
sequence of commands, each allocated, posted, waited for and checked; the device serves
one command at a time, with the rules for resources that the driver relies on (external), and raises
one interrupt for both queues. Rings are queues here: their wrap-around and the
scheduler are the matter of `VirtioBlk`. Attaching a frame buffer asks for pages without a test
(`virtio_gpu.cc:180`) and fills `indirect_desc_[512]` without one (`virtio_gpu.h:201`); the pages of
the default 720x480 screen fit, and neither limit is modelled.

Operators such as `NextSlotNoWrap` or `LeaveEarly` are faulty variants of the
definition behind them. No specification uses them; they show, one per
property, that the property notices that fault (`mutants` in `PROJECT.json`).

## Runs

| run | instance | checks | result |
|---|---|---|---|
| `lifecycle` | 3 slots, 4 pids, sleeps up to 2 ticks, programs that may do anything, fairness | 9 invariants, `LifeCycle`, `ImplementsTree`, `RunnableRuns`, `SleepReturns`, `WaitFindsZombie` | holds, 55k states |
| `lifecycle_orphan` | 4 slots, a shell and its commands, fairness | `OrphanReaped` | violated, see below |
| `lifecycle_fork_window` | 3 slots, 3 pids | `NoKernelException` | violated, see below |
| `lifecycle_wait_window` | 2 slots, 3 pids, init and a shell, fairness | `ShellReaped` | violated, see below |
| `console` | 2 readers, 4 characters, fairness | `NoSleeperOnLine`, `ImplementsFifo`, `LineDelivered` | holds, 288k states |
| `console_overflow` | 1 reader, anyone may type ahead | `ImplementsFifo` | violated, see below |
| `virtio_safety` | 3 processes, 6 descriptors, 3 requests | 5 invariants | holds, 4.7M states |
| `virtio_liveness` | 2 processes, 6 descriptors, 3 requests, fairness | `OperateReturns` | holds, 202k states |
| `pages_safety` | 9 pages, 3 of them the kernel's, bytes of 3 bits, runs of 1 and 2 | `ListMatchesBitmap`, `ImplementsPool` | holds, 4k states |
| `memory` | 2 slots, 30 pages of 2 cells, 4 programs, 2 libraries, 3 heap calls | `PagesAccounted`, `RegionsMapped`, `HeapSound`, `ImplementsPrivateMemory` | holds, 126k states |
| `files` | a writer and a reader with 2 descriptors each, buffers of one and two pieces, 7 blocks of 4 cells, 4 inodes, 1 crash, `CarefulSpec` | `BlocksOwned`, `CopiesAgree`, `NamesLead`, `CallsTrue`, `ImplementsStore` | holds, 1.1M states |
| `devices` | 6 devices, queues of 2, 3 events, 4 calls of one program, fairness | `DevicesReady`, `BuffersOffered`, `GpuAgrees`, `GpuReturns` | holds, 438k states |

**Bounds.** Three slots are init, a parent and a child, so every
interleaving of a fork, an exit and a wait of two processes beside init occurs, as does a full table;
pids beyond the number of slots make slots be reused. `lifecycle_orphan` needs a fourth
slot for the grandchild. `MaxSleep` 2 lets a tick fall before, between and after
test and sleep. Four characters with indices modulo four have the proportion of 256
bytes and `uint8_t`; lines wrap around the ring. `Throttled` keeps one place free, so
that the run `console` is about a buffer that does not overflow. Six
descriptors are two chains, so the third process meets exhaustion and two requests are
under way at once in `virtio_liveness`. `used.idx` has 16 bits and `last_seen_used_idx_` 32, and from the 65536th
entry on they would differ: `MaxOps` and `MaxEvents` stay below 2^16, and the calls of `VirtioGpu`, of at
most four commands each, below 2^14 (`VirtioAssumption`, `ReceiveAssumption`, `GpuAssumption`).
The six free pages of `pages_safety` lie in two bytes of the bitmap, so runs cross from
one byte into the next, and the list meets every order of its elements. Two
constants keep its instance inside what the allocator gets right: `Runs` is {1, 2},
because `t_mask * 0xff` (`virtual_memory.cc:63`) tests only the lowest page in the
lower byte, so that a run of three pages or more may take a page in use; and `Spare`
is 1, because `Erase` refuses the only element of the list and would leave an allocated page on
it. TLC finds both violations at once when `Runs` is {1, 2, 3} or `Spare` is 0. The
virtio drivers ask for two pages at boot; `virtio_gpu.cc:180` can ask for more. The run says
CHECK_DEADLOCK FALSE because nothing happens after `Alloc` has stored to address 0.

`memory`: two slots are a parent and a child that share the pool; tables of two entries make
segments, heap and stack share page tables; thirty pages suffice for both and an exec
in progress, and the programs include one of each kind that is rejected (not an ELF file, a
segment larger in the file than in memory, too many segments). `files`: a block of four cells and one
direct block, which holds the entries of all inodes and one torn creation, make the second block of a file an indirect one; seven blocks run out; no write ends behind
`MaxSupportFileSize`, where the code, which does not look, would leave the indirect block; four
inodes in two blocks make UpdateInode rewrite a neighbour; `MaxCrashes` 1 falls between any two disk
operations. `devices`: queues of two descriptors are filled by every command, three events use
a buffer twice. These three runs say CHECK_DEADLOCK FALSE because they
end when the bounds on calls are used up, after a panic, or in a boot that has failed.

**What the instances keep out.** Where the code is right only under an assumption, the
assumption is a constant or a guard, and the hazards in `PROJECT.json` name it:

- one writer on the file system (`OneWriter`, which `MCFileSystem` asserts): nothing is locked, and with two of them TLC finds
  violations of `BlocksOwned` and `NamesLead` (`common.cc:153`);
- programs that keep to `CarefulSpec`, which is `Spec` without three kinds of calls: a write to a file that the
  process has open twice, as the other descriptor holds an old inode and would write its size back
  (`file_descriptor.h:13`); a write behind the first entry of an indirect block that the kernel made, as the others were never
  initialised (`common.cc:251`); and create on the path of the root, whose zeroed inode a write would put over
  the root's (`common.cc:317`). Under `Spec` TLC finds violations of `CopiesAgree` and `BlocksOwned`;
- at most `MaxRegions` regions (`process.cc:174`), and a heap that ends below the stack;
- sizes of at least a header and a unit: `malloc(0)` could take `base`, the list's own header;
- program files whose segments share no page and lie below the stack (`ImageAssumption`), directories within
  their direct blocks (`DirectoryAssumption`), files for mkfs that fit the image and the
  inode table (`MkfsAssumption`; `mkfs.cc:76` looks only between files) and have different
  names (`DistinctNames`, which `MCFileSystem` asserts; `mkfs.cc:95` does not look);
- one program at a time on the GPU: waiting flags, `indirect_desc_` and
  `set_indirect_flag(0)` are shared by all callers (`virtio_gpu.cc:57`), and graphics
  programs that detach what they attach: one that exits without it makes the
  next `sys_framebuffer` panic (`virtio_gpu.cc:123`);
- receive devices that use buffers in the order they got them.

**Fairness.** Weak fairness of the dispatcher's loop and of the timer, which re-arms
itself in its handler (strong in `Console` and `VirtioBlk`, where several processes turn interrupts off and on:
a timer interrupt stays pending until it is taken), and for `VirtioBlk` of the device and of the interrupt handler once
entered. Strong fairness of each process' kernel steps: a quantum is a million timer
cycles, so a process that is dispatched again and again executes statements; the model's timer,
which may fire after every statement, would otherwise starve it. Strong fairness of a
pending device interrupt, which is level triggered and taken whenever interrupts are
on. User programs other than init need not make any call, nobody has to type. `devices` has weak
fairness of the GPU serving what is posted and of an entered interrupt handler,
strong fairness of the GPU's interrupt, which other devices' handlers may delay, and
strong fairness of the process in a call, which every handler interrupts. `memory` and `files`
assume none: they check safety only.

**Findings.**

- *Orphans* (`scheduler.cc:36-45`). Exit gives the children of the exiting process to
  init, zombies too, but wakes only its own parent. If init already sleeps in wait, a
  zombie it inherits stays until another child of init exits. `init.cc:19`
  expects these exits to come out of wait.
- *Fork window* (`impl.cc:40-41`). The child is runnable before its parent is stored.
  If it exits at once, `Exit` takes `owned_channel` of a null parent, and `Wakeup` reads
  it when any task sleeps: a kernel exception.
- *Wait window* (`impl.cc:268-282`). sys_wait scans with interrupts on and then sleeps without looking again. A
  child that exits in between wakes nobody: init sleeps for ever beside a shell that is a zombie, and
  starts no other (`init.cc:6-18`). `WaitFindsZombie` is what holds.
- *Console overflow* (`console.cc:71`). With 8-bit indices on 256 bytes the test for a
  full buffer is never true. The 256th unread character makes the buffer empty.

`StatusWritten` records one more, as an exception that its formula makes (`virtio_blk.h:119-128`): a transport that got no
descriptors says so (`transport_mmio.h:25`), but Operate then compares a status nobody has written, and may return true.

## Proofs

The theorems hold for every value of the constants. None of the invariants is inductive alone;
each proof module defines an `IInv` that is, with one lemma per action and one step per
conjunct the action can disturb. TLC has checked every `IInv` on the instance of the run before, but
those of `PageAllocatorProofs` and `UserHeapProofs` (and, in that of `FileSystemProofs`, `IsSeq`, and `Covered` beyond the largest place of the instance), which name the order of a list and the types of page tables by
unbounded quantifiers (as `NInv`, the second invariant of `FileSystemProofs`, does positions in a directory); `ListMatchesBitmap`, `HeapSound` and `NamesLead` say the
same of an instance.
The theorems are one-step consequences of `Inductive`, the action properties and refinements
use it on each step.

**`ProcessLifecycleProofs`**, for every number of slots, pids and ticks and every `Calls`:
the nine invariants of the run `lifecycle`, `LifeCycle`, and `TreeRefined`: every step is a
step of `ProcessTree` or leaves live processes, zombies and parents as they are. Assumptions:
`SchedulerAssumption` and `LifecycleAssumption` (there is a slot, the channels are
distinct from slots and null, `Calls` has its type, no driver channel is in use). `IInv` adds

- `lk_intr_on = TRUE` and `ContextMatches`: what a process will be resumed as fits
  its `pc`, and Dispatch always entered with interrupts on. `InterruptDiscipline` needs both;
- `InitIsLive`, `ParentIsLive`, `KernelIsLive`: init never exits, a parent is a live
  process, and a process in the middle of a call is alive. `ReapTarget` rests on them: only
  the parent resets a zombie, and nobody reparents a child while its parent lives;
- `ForkLocals`, `WaitLocals`, `NoParentOnlyInForkWindow`: what the locals of a fork or wait in
  progress say about the table, and that a child without a parent has a fork in
  progress. `ForkTarget`, `WaiterHasChild`, `TreeWellFormed` and the refinement rest on them;
- `PidBound`: no pid exceeds `cur_pid`, for `PidUnique`.

**`ConsoleProofs`**, for every number of readers, buffer length and printable characters, and
every `IndexMod` that is a multiple of `BufLen` (`ConsoleAssumption`; 256 and 256 in the code):
`TypeOK`, `NoSleeperOnLine`, and that the console implements `LineFifo`. `IInv` adds that sleepers sleep on
`console_channel`, which a carriage return wakes, and that a read which has not returned has room
left, so it went to sleep because the ring was empty. The refinement has `Throttled` as its hypothesis:
without it the run `console_overflow` is the counterexample. The work is in the double reduction
of the indices, modulo their width and modulo the buffer.

**`VirtioBlkProofs`**, for every number of processes and descriptors and, by `VirtioAssumption`, fewer than 2^16
requests (from then on the code's two counters disagree): all five invariants of
`virtio_safety`. A descriptor travels from the bitmap through the available ring, the device and the
used ring back to the bitmap, and each party trusts that no other holds it. `IInv` follows it:
`PostingAlone` (between `avail.idx` and `waiting_flag` the process has the CPU, so no handler sees the completion of a chain whose flag is still to be
set), `ChainsOwned` (bitmap, owner and the process' locals agree), `RingsSound` (a head is at one
place at a time, and what the rings hold is distinct), `PendingOwned` (what is on the way belongs to a
process that waits for it), `StatusFollows`, `StatusRead`, `CompletionAnnounced`, and `OpsBounded`, which counts the requests that
will still be posted, so that indices stay below the width. `ResultsTrue`, that a result of true stands while its process is in user mode,
where no chain of it is in the device, is shown on top of it for `StatusWritten`.

**`DeviceProofs`**, for every queue size that is not 0, fewer than 2^16 events of a device (`ReceiveAssumption`; from then on
`virtio_input.cc:44` and `virtio_net.cc:46` compare 16 bits with 32 and would take old events again), any
programs, and fewer than 2^14 calls (`GpuAssumption`): `DevicesReady` and `BuffersOffered`. `BootInv` follows `InitDevices`: devices behind it are
finished, those ahead untouched, the current one as far as its step says. `RxInv` says
that buffer i stays at place i of both rings: this is why moving `avail.idx` alone posts
the right buffer, and why events are taken once and in order.

The GPU driver, in the same module: `GpuAgrees`, under the hypothesis `Sole(u)`: one program uses the GPU, and its queue has at least two
descriptors (32 in the code, `virtio.h:18`). `GpuInv` says at each step of a command where it is
(`CommandPlace`: descriptors, rings, waiting flag) and, for each command of each call, what it
finds on the device and what it leaves (`CommandEffect`), so that the commands of a call fit together and the device
refuses none. With two programs the flags and `indirect_desc_` are shared and it does not hold.

**`PageAllocatorProofs`**, for every size of memory, kernel and byte (`PageAssumption`): `TypeOK`,
`ListMatchesBitmap` and that the allocator implements `PagePool`. The free list is a walk along links that lie in the pages,
and nothing said of a walk is inductive. `IInv` says instead that there is an order `s` of the
pages with a clear bit such that the links of `s[i]` are `s[i + 1]` and `s[i - 1]` (`Linked`, `Holds`), and that the
kernel's pages have their bits set; Push, Pop and Erase shift `s` (`PushHolds`, `PopHolds`, `EraseHolds`). `RunFree` shows that
what the masks let through is a run of free pages, and that byte 0, below which there is none, is never a candidate. What
the recursive functions compute (the walk, the loop that erases a run, the list that Init builds) is
shown by least counterexample, from `Least` of `RingFacts`. The hypothesis `RunsFit` is the limit that the run
has too: `Spare >= 1`, and `MasksSelect`, that a bit of the masks stands for every page of a
run. `MCPageAllocator` evaluates it for three bits and for the code's eight, with the runs {1, 2}; for longer runs it is false.

**`UserHeapProofs`**: `HeapSound`, for every number of slots and pages, every page size of at least two units, all programs and libraries
whose segments are ranges of addresses, and all requests of at least two units, header included (`HeapAssumption`, `ImageAssumption`).
`base` is a static variable, so a program has a segment that does not end at address 0, and what sbrk gives lies
above `base`. The argument has three layers.

- *The circle.* `Ring(D, next)` says of each header that its successor is the next higher one of the finite set `D`, or
  `base` behind the highest. `WalkCovers` is the fact the code's loops need: from wherever `free_list` points, walking as many steps as there
  are headers meets every one. It rests on `Rank`, the number of headers below an address, which each step raises by one or takes back to 0.
  From it, `FreeBlock` always finds a place (`PositionFinds`) and a search without result means that no block fits (`FitFinds`).
- *The blocks.* `Blocks` says that free and used blocks are apart and that free ones do not touch, in a form that one operation
  disturbs in one place: a block taken whole, its tail split off, linked in, merged downwards, upwards or both. `TakenOK`, `FreeOK` and `GrownOK`
  say that the addresses of all blocks together stay the same, or gain just what sbrk gave.
- *The processes.* `HeapIn` puts a heap into the regions of its process, and `IInv` says it of every live process. fork gives the child
  heap and regions of the parent in one step, although it copied page by page before; exec starts an empty heap and needs
  `ExecSoFar`: the temporary address space has a region for each segment loaded so far. dlopen and sbrk only add regions. Page tables
  and frames are only required to come from some set, `U`, which may grow at each step (`Widen`): the heap does not depend on them.

The assumption on requests came out of the proof: with one unit (`malloc(0)`, `memory.cc:129`) the search may take `base` itself,
and with it the list's end.

**`FileSystemProofs`**: `BlocksOwned`, `CopiesAgree` and `NamesLead`, for every number of processes, size of blocks, inodes, disk and inode table, every
set of paths, buffers (in any number of pieces) and reads, every number of calls and crashes, and every list of files given to
mkfs. Assumptions: `SizeAssumption`, `DirectoryAssumption` (every entry of a directory costs an inode or a crash, and that many fit into
the direct blocks) and `MkfsAssumption` (no file is larger than `MaxSupportFileSize`, which mkfs checks, and they fit the image and the inode
table). The specification is `CarefulSpec`, as in the run, and the hypothesis `OneWriter(w)`: w alone creates and writes, not to
directories. Both are needed: without locks in the code two writers
break `BlocksOwned` and `NamesLead`. `NamesLead` also takes `DistinctNames`: mkfs gets no two files of one name. `MCFileSystem` evaluates the hypotheses for the
instance of the run.

- *The disk.* `At(T, D, i, k)` is the block at place k of inode i. `Owned`, `Covered` and `DirsLead` say that it is marked and at no other place,
  that a file has a block at each place up to its size, and that entries lead to inodes. They hold between any two
  disk operations, so `CrashOK` is immediate; what a crash loses is a block that is marked and at no place (`Extra`), never one that is used twice.
- *The write.* `WriteOK` says for each disk operation of a write what is on disk and what is in memory only: a block
  is marked before it is linked (`WhyOK`), an indirect block is written before the inode that leads to it (`IndirectOK`, `NewIndirect`), and the inode that
  grows is written last (`TargetOK`). `BlockWritten`, `EntryWritten` and `DiskGrow` follow the three writes that change a place.
- *The copies.* `CopyOK` is the agreement of a copy: it covers a part of the file and has its blocks. Inodes only grow (`InodeGrown`), so every copy in a descriptor or in a
  directory walk stays one (`CopiesGrow`). Each of the writer's descriptors is the inode itself but while it writes through it (`FdWriter`); no other of its descriptors is open on that
  file then (`OpenOnce`), which is where `CarefulSpec` is used.
- *Directories.* `DirsBounded` counts: size of a directory plus free inodes, at most one more for each crash and for the creation under way. So a
  directory ends within its direct blocks, and IteratorDir meets no hole.
- *mkfs.* The initial state is an image like any other. `CursorIs` and `CursorGrows` say where mkfs is after each file, `TakenApart` that what it takes for
  two files is disjoint, `IndexCell` and `RootCell` what it leaves in indirect blocks and in the root directory, and `MkfsOwned` puts them together.
- *Names.* `NInv` adds to `IInv` what the entries are: `NamesOnce` (a name once in a directory, an inode named once unless it is torn), `NamesTaken` (a
  named inode is not free, but for the one that awaits UpdateNew or was torn by a crash), and `NameOK` of the writer's frame. A walk of IteratorDir has seen no entry
  of the name below its offset (`HasNotBelow`), in an inode that is still the one on disk; when it ends, the directory has not got the name (`HasNot`), and it stays so until the
  inode that counts the new entry is written. The entry itself is written behind the directory's end (`UpdateSize` in `NameOK`), so until then no
  lookup meets it, and the inode number in it is free, hence in no other entry. `RootCell` and `MkfsEntry` give the entries of the image.

**Only model-checked.** Liveness (`RunnableRuns`, `SleepReturns`, `WaitFindsZombie`, `LineDelivered`,
`OperateReturns`, `GpuReturns`): fairness is out of the prover's reach. `PagesAccounted`, `RegionsMapped` and `ImplementsPrivateMemory` of `AddressSpace`;
`CallsTrue` and `ImplementsStore` of `FileSystem`: not proved. The first three are about page tables, which fork, exec and reaping build and take apart by
folds over sequences and sets; the last two are about the contents of files, piece by piece of a buffer. What a fold is for every input needs induction over data; the least
counterexamples of `PageAllocatorProofs`, `UserHeapProofs` and `FileSystemProofs` reach recursive functions over numbers only.

## Not modelled

- `ProcessLifecycle` takes page allocation to succeed; `AddressSpace` shows what a failed one does.
- Permission bits of page table entries, the kernel's own mappings, ELF parsing, symbol names.
- Calls that only read state: fstat, getcwd, getpid, uptime; `sys_dlclose`, which does nothing.
- `NetDevice::Send`, which nobody calls.
- The arguments of exec beyond one word on the stack.
- Registers, frames, `mscratch`: which instruction a process resumes at is `pc`.
- Console output and echo; formatting, strings, containers (sequential code without shared state); user programs beyond the calls they make.
- More than one CPU: the build has `CPU_NUM = 1`.
- Segments above `MAX_SUPPORT_VA`, a 17th region, screens larger than the default: see above.

## Plan

1. Done: `Scheduler`, `ProcessLifecycle` with `ProcessTree`, `Console` with `LineFifo`,
   `VirtioBlk`; the inductive invariant of `ProcessLifecycle`.
2. Done: `PageAllocator` with `PagePool`.
3. Done: `AddressSpace` with `PrivateMemory`, `UserHeap` on top of it.
4. Done: `FileSystem` with `FileStore`, crashes included.
5. Done: `DeviceBoot`, `ReceiveQueues`, `VirtioGpu`.
6. Done: the proofs about `ProcessLifecycle` (with `ProcessTree`), `Console` (with `LineFifo`),
   `VirtioBlk`, `PageAllocator` (with `PagePool`), boot, receive queues, GPU, `UserHeap`, and
   `BlocksOwned`, `CopiesAgree` and `NamesLead` of `FileSystem`.
7. Open: `CallsTrue` of `FileSystem` on top of `FileSystemProofs`;
   `PagesAccounted` and `RegionsMapped` of `AddressSpace`, one page at a time.
8. Two writers, two GPU programs and two descriptors on one file as instances of their own,
   should the code take locks there one day.
