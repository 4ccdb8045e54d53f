# xv6 in TLA+

Specifications, model-checking configurations and machine-checked proofs for the
xv6 system in this repository (RISC-V, the `util` lab tree). Every definition is
a translation of the C code it names; `PROJECT.json` maps each to its lines.

## The system and its parts

| part | source | module |
|---|---|---|
| write-ahead log and recovery | `kernel/log.c` | `Log`, `LogInv`, `AtomicDisk`; proofs |
| buffer cache, sleep-locks | `kernel/bio.c`, `sleeplock.c` | `BCache`, `LockedStore`; proofs |
| disk driver | `kernel/virtio_disk.c` | `Virtio` |
| inodes, directories, paths, file table, file system calls | `kernel/fs.c`, `file.c`, `sysfile.c` | `Inode` |
| blocks and contents of files | `kernel/fs.c`, `file.c` | `FileData` |
| the image on the disk | `mkfs/mkfs.c` | `Mkfs` |
| pipes | `kernel/pipe.c`, parts of `file.c` | `Pipe`, `Fifo`; proofs |
| processes and scheduling | `kernel/proc.c`, `trap.c` | `Proc`; proofs |
| spin locks, interrupts, traps, clock | `kernel/spinlock.c`, `trap.c`, `sysproc.c` | `Trap` |
| console and UART | `kernel/console.c`, `uart.c` | `Console`, `LineInput` |
| pages, virtual memory, exec | `kernel/kalloc.c`, `vm.c`, `exec.c` | `Vm`, `Memory` |
| shell and init | `user/sh.c`, `init.c` | `Shell`, `ShellRun` |
| malloc | `user/umalloc.c` | `Umalloc` |
| grep and wc | `user/grep.c`, `wc.c` | `Grep` |
| byte copies, names, numbers | `kernel/string.c`, `fs.c`, both `printf.c`, `user/ulib.c` | `CString` |

How they meet: a system call runs in a kernel thread (`Proc`), entered and left
through `Trap`. A call that changes the file system is bracketed by `begin_op` and
`end_op` (`Log`), reads and changes blocks through the cache (`BCache`), which reads
and writes the disk (`Virtio`); it blocks by `sleep` and `wakeup`, as do pipes and the
console. Each module uses the others through their contracts:

- `Log` relies of the cache on one copy of a held block, and that a block neither
  held nor pinned may vanish from memory. That is what `LockedStore` says, and
  theorem `Pinning` of `LogProofs` shows that the log pins what it has logged. The
  cache does not ask it of others: `writei` releases a buffer half changed when its
  copy fails, neither logged nor pinned, and the change lasts until the buffer is
  recycled. `BCache` lets every holder do that; `FileData` has the recycling (`evict`).
- `Inode` and `FileData` rely on what `AtomicDisk` promises: calls become durable
  together when the last of them ends, and a crash brings back what was durable.
  `TransactionFits` of `FileData` is in turn what `Log`'s reservation asks of a call.
- `BCache` relies on what `TransferDone` says of `Virtio`: `virtio_disk_rw` returns when
  the block has been transferred.
- `ShellRun` relies on the kernel's fork, exit, wait, descriptors and pipes, in the
  form in which `Proc`, `Inode` and `Pipe` have them.

## Modules

**`Log`**. State: the three areas of the disk (`disk`, `diskHead`, `diskLog`), the
cache as the log sees it (`buf`, `holder`, `refcnt`), `struct log` (`lh`, `outstanding`,
`committing`), a program counter per process, and the progress of recovery (`boot`).
`begin_op`, `log_write` and the two critical sections of `end_op` are one action each,
for each is one critical section of `log.lock`; `write_log` and `install_trans` take
one action per block written, `write_head` one, and `crash` may come between any two
of them, also during recovery (`read_head`, `recover_install`, `recover_clear`).
`modify` stands for the caller's `bread` and change, `recycle` for `bget` taking the
buffer away. **`AtomicDisk`** is what the log promises; `Log` implements it with
`durable` mapped to what recovery would leave on the disk (`Recovered`) and `mem` to
what the file system reads (`Image`). **`LogInv`** has the inductive invariants.

**`BCache`**. State: the LRU list, the fields of each buffer, who has its lock, the
pinned blocks, a program counter per user. `bget` is one action (both loops are one
critical section of `bcache.lock`): hit, recycle the last unused buffer of the list,
or panic. `brelse` is two actions, `releasesleep` and the critical section that
decrements `refcnt`, because others run in between. A member of `Procs` is one use of
the cache from `bget` to `brelse`; a process with two buffers counts as two.
**`LockedStore`** is what the cache promises: one holder per block, the holder alone
changes the content (`Change`), writes it (`Write`) and pins the block (`Keep`,
`Unkeep`), the next one sees it; a block nobody holds or keeps may go back to what is
on disk (`Forget`).

**`Virtio`**. State: descriptors and rings with their wrapping indices, `disk.info`,
who holds `vdisk_lock`, and a device that takes no lock. A caller allocates three
descriptors or gives back those it got, fills them in (`submit`), makes the ring entry visible (`publish`) and
notifies; the handler acknowledges and consumes the used ring one entry at a time.
The device fetches, completes in any order and raises its line at any moment.

**`Inode`**. State: inodes and directories on disk and as of the last commit, the
inode table, the inode locks, the file table, descriptors, working directories, and
per process the call it is in. A step is a section under one inode lock or under
`itable.lock`. `iput` is four steps, for the inode is truncated, marked free and
dropped with the table lock released in between. Every error path of open, create,
mkdir, mknod, link, unlink, chdir, dup, close and fstat is there. A removed directory
can still be somebody's working directory: `create` and `link` make entries in it
that are gone with it, counted by `lost`, and ".." leads from it to an inode that may
have been freed, where `ilock` panics (`panic = "no parent"`; every other failed
assertion is `panic = "assertion"`). `strays` are the inodes a crash leaves without
links, and those `iput` overlooks (below); only `FreedWithLastRef` excepts them.

**`FileData`**. A chunk of `filewrite` is a transaction and each block turn of `writei`
a step, because writers of other files allocate in between; the copy from user
memory may fail at any of them after any number of bytes, and what it copied is in
the cached block, unlogged. It survives if a later write logs the block and is gone
after `evict` or `Crash`. `text` is what the writes amount to: for each place of a
file the byte last written, and those of copies that failed there since. The
initial disk is the image of **`Mkfs`**.

**`Pipe`**: one pipe from `pipealloc` to `kfree`, with the processes that share its ends
by fork and give them up by close. A call holds `pi->lock` from its acquire to a
sleep or its return; one iteration of its loop is a step, so a `kill` can come between
any two. The counters wrap at `UintMod`. **`Fifo`** is what a pipe promises.

**`Proc`**. State: the process table, the CPU that holds each `p->lock` and `wait_lock`,
what each CPU runs and on which stack, where each kernel thread is. A step ends
where the code is about to acquire a lock or to switch stacks. `sched` leaves
`p->lock` held by the CPU, whose scheduler releases it; a timer interrupt may come at
every label where no spinlock is held. Table scans take one step per slot.

**`Trap`**. State: per CPU the interrupt flag, `noff`, `intena`, `stvec` and the trap
registers (`csr`: `sepc` and the fields of `sstatus`); per thread a stack of frames, on
which an interrupt pushes, and the trap registers its handler has saved (`regs`).
`acquire` is `push_off` and then the test-and-set, so an interrupt can fall on either
side of each. `trap_return` restores what was saved and `sret` acts on what is in the
registers. The clock shares `tickslock` with `sys_sleep` and `sys_uptime`; its `wakeup`
locks one process after the other.

**`Console`**. Readers, writers, a CPU in the kernel's `printf`, the handler and the
device; both rings with wrapping indices. Echo and `printf` do not take
`uart_tx_lock`, so their look at the status register and their write are two steps
each next to `uartstart`. **`LineInput`** is what the input
side promises: lines that can be edited until they are ended, delivered in order.

**`Vm`** has `kalloc`, `walk`, `mappages`, `uvmalloc`'s and `uvmdealloc`'s parts, `freewalk`,
`copyin`, `copyout` and `copyinstr` as operators on a state that is threaded through
them, with an allocation that may fail anywhere. **`Memory`** runs fork, sbrk, exec,
exit and pipe over them, one page at a time; `sys_exec` fetches its arguments one by
one, each into a page of its own, and gives them back on every way out. `mem` is the
flat memory each process should see.

**`Shell`** is the parser of `sh.c`, function by function, followed by a definition of
the language by splitting. **`ShellRun`** is init, the shell's main loop and `runcmd`,
with `echo` and `cat`. **`Umalloc`** is the ring of free blocks. **`CString`** makes one
call of `memmove` (both), `strncpy`, `safestrcpy`, `namecmp`, of the path walk with
`skipelem`, or of `printint`, on any contents of a small memory. **`Grep`** feeds grep and
wc with input in pieces of any length.

The `MC` modules instantiate these for TLC. Operators with a suffix after the name of
another, and a comment that starts with "Mutant", are broken variants of that one, each of which makes one
property fail; no specification uses them.

## What the runs check

`MCFileSystem` and `MCUser` put together several specifications that share no state: the
variable `part` chooses which one a behaviour runs, and the others stand still. Their
properties are those of the parts; `MCFileSystem` checks those of the tree and of the
data under a name of its own that says in which part (`TreeSound` is `TreeInv`,
`RefCountsExact` is `RefCounts`, `NoLocksInCircle` is `NoLockCycle`, `BlocksSound` is
`BlocksInv`, `FilesReadBack` is `ReadsBack`, `ChunksFit` is `TransactionFits`). In
`MCConsole` `part` chooses an environment: all keys, kills and no output but echoes, or a
process and `printf` writing while only newlines are typed.

| run | instance | shows |
|---|---|---|
| `log_atomic` | 2 processes, 3 blocks, log of 4, crashes anywhere | `ImplementsAtomicDisk`, `IInv`, `NoPanic`; `SleeperIsWoken`, `CommitFinishes` |
| `bcache_store` | 2 users, 3 blocks, 2 buffers, 1 pin | `ImplementsLockedStore`, `BufferStaysBlock`, `RefcntExact`, `NoLostWakeup`, `BCacheInv`, `PanicOnlyWhenExhausted`; `SleepersWoken` |
| `virtio_disk` | 3 callers, 8 descriptors, indices wrap | `DescriptorsAccounted`, `DeviceOwnsBusy`, `TransferDone`, `SleepersWaitForDescs`, `CompletionPending`; `RequestsFinish` |
| `file_system`, tree | 2 processes, 4 inodes, 2 files, 4 calls of 12 kinds, 2 starting trees, crashes | `RefCounts`, `LinkCounts`, `UpIsParent`, `FreedWithLastRef`, `CacheCoherent`, `NoPanic`, `NoLockCycle` |
| `file_system`, data | 2 processes, 2 files, 7 blocks of 2 bytes, 3 calls of length 1, 3 or -1, crashes | `ReadsBack`, `BlocksAccounted`, `InUseMarked` (both with `NoSharing`), `NoHoles`, `TransactionFits` |
| `file_system`, pipe | 2 processes, ring of 2, counters wrap at 4, a kill | `ImplementsFifo`, `EofOnlyAtEnd`, `NoUseAfterFree`, `NoLostWakeup`, `PipeInv` |
| `pipe_progress` | 2 processes, ring of 1, calls of 2 | `CallsReturn` |
| `proc_safety` | 3 slots, 2 CPUs | `ProcInv`, `NoLostExit` |
| `proc_progress` | 2 slots, 2 CPUs | `LocksReleased`, `ZombiesReaped` |
| `traps_clock` | 2 CPUs, 2 processes, a kill | `NoPanic`, `NestingExact`, `InterruptsRestored`, `ModeMatches`, `NoLostTick` |
| `console_uart` | a reader, a writer, `printf`, the handler, the device | `ImplementsLines`, `OutputInOrder`, `FifoFits`, `NoLostWakeup`, `SendPending` |
| `user_memory`, memory | 2 slots, 17 pages, 4 calls | `PagesAccounted`, `UserMemory`, `CopiesAgree`, `NoPanic`, `ArgumentsReachMain` |
| `user_memory`, line | every line of up to 5 of 9 characters | `ParsesLine` |
| `user_memory`, shell | 6 slots, 2 pipes, 2 lines of 5 kinds | `ProgramFds`, `PromptAfterForeground`, `OneShell`; `PromptReturns`, `OrphansReaped` |
| `user_memory`, the rest | all small inputs | `UnitsAccounted`, `RingSorted`; `CopiesExact`, `NamesCompared`, `ElementsInOrder`, `PrintsValue`; `PrintsMatchingLines`, `CountsInput` |
| `inode_leak`, `proc_kill_zero` | | fail (below) |

A type invariant is checked for `Log`, `BCache`, `Virtio`, `Inode`, `FileData`, `Pipe`, `Proc`,
`Trap`, `Console` and `Memory`. The properties of `Shell`, `ShellRun`, `Umalloc`, `CString` and
`Grep` fix the shape of their state by themselves.

### Bounds

- Log: two blocks are the least with which a transaction can be torn; three, with two
  calls overlapping, make the reservation turn a call away. A call writes one block
  less than it reserves, as theorem `ReservationSuffices` asks.
- Cache: more blocks than buffers, so that recycling happens, and a pin, so that
  `bget` must pass over a buffer and may find none.
- Disk: eight descriptors, as in the code. Two callers take three each, so a third
  takes two and has to give them back. Indices wrap after a few requests.
- Traps: `ticks` wraps at 2 and `sleep` is asked for one tick, so a sleeper may sleep
  across the wrap; a second argument or a larger wrap does not finish in time.
- Console: an input ring of three, so that ^U erases several characters and the ring
  fills with an unfinished line; an output ring of two, four bytes that can be told
  apart, so that two are in the ring together in every position; all indices wrap.
- Tree: two names, `a` and `d`, are enough for every pair of calls to meet on an
  inode, in the root or in the directory `d`; with three inodes besides the root,
  numbers run out and are used again. So do the two struct files. One of the two
  starting states has a process inside `/d/d`, so that a working directory and its
  parent can both be removed within the bound on calls.
- Data: files reach the indirect block, the disk fills up, a write is several
  transactions long, copies fail in the middle of a block, and a length of -1 wraps
  the unsigned sum of `readi`.
- Pipe: `UintMod` is a multiple of `PIPESIZE`, as 2^32 is of 512. Progress is checked for
  two processes: with a third, one peer can fork and close ends forever and never
  write, and then a reader rightly waits.
- Processes: two CPUs are needed for every race on a stack or a lock. `MaxPid` stops
  the forks; slots are reused before it does.
- Memory: pages for one process and a half, so that every allocation of fork, exec
  (its argument pages included) and sbrk is the one that fails in some behaviour;
  programs with overlapping, misaligned, wrapping and too long segments, headers cut
  short and headers to skip; lists of none and of two arguments that reach `main`, and
  lists that are too long, do not fit the stack page or cannot be fetched. A shrink
  wraps the unsigned size; a growth could only with a size beyond 2^31, and there
  are 128 MB.
- malloc: `Delta` is the int that `sbrk` receives; it differs from what `morecore` asks
  for from 2^27 units on, and the run asks for less.
- Shell: a pipeline of three takes six slots with init and shell, so fork fails for
  lines that run beside a background job. Lines of five characters hold every pair
  of operators with a word on each side.
- Text: a pattern of three characters has every operator next to every other; the
  buffer is shorter than the input.

Deadlock is not checked where the system may really stop: all processes of a pipe
exited or asleep on their own pipe, a panic, or the bound on the calls reached.
No run uses symmetry.

### Fairness

- Weak fairness of a thread's own steps in `Log`, `BCache`, `Pipe` and `ShellRun`: the
  scheduler scans the table round robin and a disk request completes.
- Strong fairness where a step is enabled again and again but not continuously: a
  spinlock that keeps being freed, `end_op` of a call that may go on writing for a
  while, `schedule` of a process other CPUs contend for. Spinlocks and sleep-locks do not
  queue, so for sleep-locks only waking is claimed (`SleepersWoken`), not winning.
- In `Virtio` the device finishes what it was told of, a raised line is served, and
  one caller, `Watched`, gets to run; nothing is asked of the others.
- init calls `wait` in a loop. Nothing obliges a process to start a file system call or
  a user to type. `CallsReturn` assumes of the callers, not of the kernel, that whoever
  has an end of the pipe uses it or closes it, and that not every copy fails.

### Where code and comments disagree

- `inode_leak`, property `NoOrphans`: `iput` gives up its reference at `fs.c:356` without looking again whether
  it is the last. The inode has been free on disk since line 348; when another process
  has allocated the number, created and unlinked a file with it, and found two
  references in its own `iput`, neither frees it.
- `proc_kill_zero`: `kill(0)` marks an unused slot, whose pid is 0, and the next
  process forked into it starts killed.

Noticed while modelling, without a run of their own:

- `param.h:10` calls LOGSIZE "max data blocks in on-disk log", but the log mkfs makes
  has LOGSIZE blocks with its header, so `log_write` panics at LOGSIZE - 1 while
  `begin_op` admits LOGSIZE. With the real constants (10 and 30) the condition of
  `ReservationSuffices` holds for calls of up to 8 blocks; no call writes more.
- A `kill` between `wait`'s test of `p->killed` and `sleep`'s acquire of `p->lock` does not
  wake the victim, which sleeps until a child exits.
- A process whose working directory and its parent have both been removed panics the
  kernel in `ilock` ("no type") when it looks up "..". The model reaches this panic
  (`"no parent"`). `NoPanic` of `Inode` says that there is no other, and `UpIsParent`
  that only a process in a removed directory can meet it.
- `writei` leaves bytes of a failed copy in the cache. A later read may return them or
  what was there before, and a later write to the block makes them durable:
  `ReadsBack` allows both.
- A file made in a removed directory keeps its link count when the directory's
  blocks are freed, so nothing frees it: `LinkCounts` counts such entries as `lost`.
- mkfs rounds the size of the root up by one block too many when its entries fill
  their blocks exactly; `NoHoles` would not hold of that image.
- `itrunc` logs one bitmap block per freed block; it stays within its reservation
  because FSSIZE gives the disk a single bitmap block.
- `init` exits when its fork fails for a full table, and the kernel then panics with
  "init exiting"; the shell's progress properties except that (`Halted`).
- A writer of a pipe that is killed returns -1 although some of its bytes are in the
  pipe, and wakes nobody: `NoLostWakeup` says so. A read whose copy to the user fails
  has lost the byte.

## What is proved

For every value of the constants that satisfies the named assumptions
(`LogAssumption`, `BCacheAssumption`, `PipeAssumption`, `ProcAssumption`): processes are
finitely many in the log and the cache, blocks in the log; sizes are natural numbers,
with MAXOPBLOCKS <= LOGSIZE and UintMod a larger multiple of PIPESIZE; there are a slot,
a CPU and a pid; `NoProc`, `NoVal` and `NoBlock` are not members of the sets they extend.

**Log** (`LogProofs`, `LogReserve`, `LogRefinement`). `Invariance`: `Spec => []IInv`. None of
the safety properties is inductive alone: that a commit is durable depends on what
`write_log` and `install_trans` have done so far, which depends on nobody changing a
logged block meanwhile, which depends on a commit excluding calls. `IInv` says exactly
this: where the committing process is, which log slots and home blocks are written
(`CommitProgress`); one process commits and then no call runs (`CommitExclusive`); a
block neither held nor pending is clean (`CacheInv`); during recovery the first
`tail - 1` blocks are installed (`BootInv`). From it follow `TypeCorrect`, `Pinning`,
`Durability` and `DurabilityKept`, and `Refinement`: `Spec => ImplementsAtomicDisk`.

`NoLostWakeup`: who sleeps in `begin_op` has a waker. `ReservationSuffices`:
`ReserveFits => (Spec => []NoPanic)`, by `ReserveInv`: logged blocks plus what the
calls in progress have reserved and not used never exceed LOGSIZE. Absorbed
blocks are why the unused part must be counted per block already in the log.

**Buffer cache** (`BCacheProofs`). `BCacheInvariance`: `Spec => []BCacheInv`. That a buffer
keeps its block while a user sleeps for its lock needs `refcnt` to be exact, which
needs one buffer per block and every user to be counted until its `brelse`
(`RefcntExact`, `OneBuffer`, `LockInv`, `ValidInv`). From it `BufferStaysBlockHolds`,
`RefcntExactHolds`, `NoLostWakeupHolds`, and `StoreRefinement`:
`Spec => ImplementsLockedStore`; the step that needs the invariant is recycling, which
may only take a block that nobody holds or has pinned back to what is on disk.
`NoBufferLeaked`: when `bget` panics, users in a call and pinned blocks are at least as
many as buffers, for the buffers in use inject into them; so no order of releases
loses a buffer. That the pool is always large enough is not claimed: NBUF is 30 and
the log can pin 29 blocks.

**Processes** (`ProcLocks`, `ProcTable`, `ProcProofs`). `ProcInvariance`: `Spec => []ProcInv`.
The invariant follows `p->lock` from the process that takes it through `sched` to the
scheduler that releases it (`CpuInv`, `StateInv`), says who may hold `wait_lock` and what
a `fork` in progress has of its child (`WaitLockInv`, `ForkInv`), and how far the scans of
`wakeup`, `reparent` and `wait` have come, for what they have passed must stay true until
they end (`ParentInv`, `ScanInv`, `WaitInv`). `ProcLocks` proves the part about locks and
CPUs, `ProcTable` the one about the table. From it follow `StacksNotShared` (no two CPUs on
one kernel stack, no slot freed under a CPU), `LocksUsedRight` (`sched` and `acquire` do
not panic), `ParentsLive` (every process has a parent that can still reap it) and
`NoExitIsLost` (`NoLostExit`). `KilledByOwnPid`: a process is marked killed only after a
`kill` of its own pid, provided that nobody calls `kill(0)`; `proc_kill_zero` shows that
the proviso is needed.

**Pipe** (`PipeProofs`). `PipeInvariance`: `Spec => []PipeInv`, the accounting of the holders
of each end, of the lock, and of what each sleeper waits for. From it
`NoUseAfterFreeHolds` and `NoLostWakeupHolds`.

Only model-checked: all liveness (fairness is beyond the prover); the parser, the
matcher and the other recursive definitions (so is induction over data); of `Pipe` the
FIFO refinement, the types of the ring and `EofOnlyAtEnd`; every module that is not one
of `Log`, `BCache`, `Pipe` and `Proc`.

## Not modelled

- Boot: registers are set up once and one flag is waited for; the states that result
  are the initial states of the modules. `ramdisk.c` is not built.
- Assembly (context switch, trampoline, trap vectors) and the interrupt controller:
  the saving of the general registers and device access without protocol state.
  `sepc`, `sstatus` and `sret` are in `Trap`.
- The system call table, `vprintf`'s dispatch on its format, `procdump`: no state.
- `ls`, `find`, `xargs` and the other small programs: straight-line calls on their
  arguments. `usertests.c` and `grind.c`, a third of the code, are test drivers; they
  were read as evidence of what is intended.
- Torn or reordered block writes: `log.c` trusts the disk to write a block whole and in
  the order asked. Memory ordering: locks are taken to order accesses as the fences in
  `spinlock.c` ask. A disk request that the device fails (the driver panics).
- That several processes holding buffers of the cache do not wait for each other in a
  circle is shown for inode locks (`NoLockCycle`), not for buffers.
- `exec` of a missing `sh` by init, which would start it again without end.
