# A verification of xv6 in TLA+

This directory specifies the operating system of this repository (xv6 for RISC-V with the
programs of MIT's 6.S081 labs), checks it with TLC on small instances, and proves the parts that
matter most with TLAPS. Every module is translated from the C code under `src/`; the map in
`PROJECT.json` gives the lines behind every definition.

    tlc -config Log.cfg MCLog        # check a run; section 3 lists them
    tlapm LogProofs.tla              # check the proofs of a module

## 1. The system

| part | state | operations | what is hard about it |
|---|---|---|---|
| spin locks (`spinlock.c`) | `locked`, `cpu`; `noff`, `intena` of a CPU; SIE | acquire, release, holding, push_off, pop_off | interrupts between any two instructions; unlocked reads in `holding()` |
| sleep locks (`sleeplock.c`) | `locked`, `pid` | acquiresleep, releasesleep, holdingsleep | several waiters, `kill()` wakes any of them |
| scheduler (`proc.c`, `trap.c`, `swtch.S`) | `state`, `chan`, the thread on each CPU | scheduler, sched, yield, sleep, wakeup, traps | a wakeup between the release of the condition lock and the sleep; a process that comes back on another CPU |
| processes (`proc.c`) | process table, parents, pids, `killed` | fork, exit, wait, kill, reparent | locks of parent and child in two orders, stale copies of `p->parent`, reuse of slots |
| user memory (`kalloc.c`, `vm.c`, `exec.c`) | free list, page tables, sizes | sbrk, fork, exec, exit, wait | memory that runs out in the middle of a loop |
| disk driver (`virtio_disk.c`) | descriptors, two rings | virtio_disk_rw, virtio_disk_intr, the device | device and handler run at the same time; 16-bit counters |
| buffer cache (`bio.c`) | buffers, reference counts, LRU list | bread, bwrite, brelse, bpin, bunpin | a buffer recycled between the lookup and its lock |
| log (`log.c`) | header in memory and on disk, `outstanding`, `committing` | begin_op, log_write, end_op, commit, recovery | crashes between disk writes; group commit; a log that is full |
| inodes (`fs.c`, `sysfile.c`) | inode cache, dinodes, one directory | ialloc, iget, ilock, iput, open, create, link, unlink | an inode freed by one process and allocated or looked up by another |
| directories (`fs.c`, `sysfile.c`) | a tree of inodes, current directories | namex, dirlookup, dirlink, mkdir, mknod, link, unlink, chdir | a directory removed while others walk through it or sit in it |
| file contents (`fs.c`, `file.c`) | bitmap, block addresses, sizes, offsets | readi, writei, bmap, balloc, itrunc, read, write | a write of several transactions by several processes; a full disk |
| open files (`file.c`, `sysfile.c`) | `ftable`, descriptors | open, pipe, dup, close, fork, exit | full tables half way; an entry that is reused while its object is closed |
| pipes (`pipe.c`) | ring, counters, open ends | piperead, pipewrite, pipeclose | wrap-around, kill between test and sleep, both ends closed at once |
| console (`console.c`, `uart.c`, `printf.c`) | line buffer, transmit buffer | consoleread, consoleintr, uartputc, uartstart, printf | an editable buffer that is full; a transmitter with four users |
| shell (`user/sh.c`) | the line, processes and their descriptors | parsecmd, runcmd | what binds to what; ends of pipes that must be closed everywhere |
| `malloc` (`user/umalloc.c`) | a circular list of blocks | malloc, free, morecore | blocks freed in any order and joined to their neighbours |
| sieve (`user/primes.c`) | pipes, a process for each prime | main, prime | descriptors that every stage inherits; everybody waiting for an end of file |

How they meet: file system calls bracket their changes with `begin_op()`/`end_op()`; the log
pins the buffers of `bio.c` until they are installed; buffers and inodes are guarded by sleep
locks, sleep locks by `sleep()` and `wakeup()`, these by spin locks; the drivers wake whoever
waits for them from interrupt handlers; the programs are processes over pipes and descriptors.

## 2. The modules

A component has a module with its state, `Init`, one action for each step, `Next` and `Spec`.
A step ends wherever another CPU, an interrupt, a device or a crash can tell the difference:
a section under one spin lock is one step unless it waits for something, every disk write is a
step, and the code between two of these belongs to the step before or after it. Actions have
the names of the functions (a suffix names the part of a function, as in `exec_load`), and `pc`
says where a process is in the code.

| module | models | state and actions |
|---|---|---|
| `Log` | `log.c` | `lh`, `outstanding`, `committing` are the fields of `log`; `dhead`, `dlog`, `disk` are the disk; `cache` are the pinned or cached copies. One action for each disk write of a commit, `crash` at any of them, recovery by `initproc`. |
| `AtomicDisk` | what `log.c` promises | the blocks a reboot would find (`durable`), those a call sees (`current`), the calls under way. |
| `Bio` | `bio.c` as `log.c` uses it | `refcnt` is a uint that wraps, `pos` the place in the LRU list, `lock` the sleep locks. |
| `Spinlock` | `spinlock.c` | the reads and writes of `acquire()`, `release()`, `push_off()`, `pop_off()`; a handler on top of a thread on each CPU. |
| `Sleeplock`, `Mutex` | `sleeplock.c`, what it promises | `wakeup()` visits one process at a time. |
| `Sched` | `scheduler()`, `sched()`, `sleep()`, `wakeup()`, `yield()`, `kerneltrap()`, `swtch()` | threads and CPUs separately: a process and `scheduler()` take turns on a CPU; timer and device interrupts come whenever SIE is set. |
| `Proc` | `fork()`, `exit()`, `wait()`, `kill()`, `reparent()`, `freeproc()`, `allocproc()` | `lock` says who holds each `p->lock`; a step ends where the code waits for a lock while it holds another one. |
| `Virtio` | `virtio_disk.c`, the device | the rings and descriptors; the device takes and finishes requests in any order. |
| `Console`, `Tty` | the input of `console.c`, what it promises | `r`, `w`, `e` wrap around; `consoleintr()` is one step, `consoleread()` a step for each character. |
| `Uart` | `uart.c`, the output of `console.c`, `printf()` | the transmit buffer, the 16550's FIFO, and its interrupt. |
| `Icache` | inodes of `fs.c` under `open`, `create`, `link`, `unlink`, `close` | entries of the cache, dinodes, and one directory. |
| `Dirs` | `namex()`, `dirlookup()`, `dirlink()` of `fs.c`, calls of `sysfile.c` that change the tree | inodes with entries, a path walk that holds one lock at a time, `cwd`; whoever drops the last reference to an inode without links frees it. |
| `Fsdata`, `ByteFile` | file contents of `fs.c` and `file.c`, what they promise | bitmap, `addrs`, indirect blocks, bytes. |
| `Ftable` | `file.c` and the descriptors of `sysfile.c`, `fork()`, `exit()` | `ftable`, `ofile`, and how often inodes and pipe ends are open. |
| `Vm` | `kalloc.c`, user page tables of `vm.c`, `exec.c`, `growproc()`, `fork()` | a page table is the tree that `walk()` walks, from its nodes to physical pages. |
| `Pipe`, `Fifo` | `pipe.c`, what it promises | counters of `Width` bits. |
| `Sh` | `user/sh.c` | the parser as operators on a sequence of tokens, with a grammar beside it; `main()` and `runcmd()` as processes with descriptors. |
| `Umalloc` | `user/umalloc.c` | Headers in memory, `freep`; a call is a step, since a program has one thread. |
| `Primes` | `user/primes.c` | a process for each stage, the ends it has open, pipes that fill up. |
| `LogInv`, `BioInv`, `ProcInv` | | inductive invariants, used by the proofs (those of the other components are in their proof modules). |
| `SleepIO`, `DiskIO`, `ConsoleIO` | | instances of `Sleeplock`, `Virtio`, `Console` and `Uart` whose variables and constants have names of their own, so that they can stand beside each other in a run and be reasoned about. |
| `MCLog`, `MCBio`, `MCProc`, `MCDevices`, `MCNames`, `MCResources`, `MCUser` | | instances for TLC: symmetry, views, sample arguments. |
| `LogProofs`, `BioProofs`, `DeviceProofs`, `SchedProofs`, `ProcProofs`, `IcacheProofs`, `PipeProofs`, `ConsoleProofs` | | theorems; `DeviceProofs` has those about spin locks and sleep locks. |

Components use each other through the promises checked here: `Log` takes buffers as `Bio`
shows them to be (one copy of a block, the latest contents, pinned until installed); `Bio`
takes b->lock from `Sleeplock`; `Sleeplock`, `Pipe` and the drivers let `sleep()` release the
lock and sleep in one step, which is what `NoLostWakeup` of `Sched` says; `Sched` takes locks
as atomic, which is what `Spinlock` says; `Dirs` takes references and `iput()` from `Icache`;
`Primes` and `Sh` take pipes and descriptors from `Pipe` and `Ftable`.

`MCDevices`, `MCNames`, `MCResources` and `MCUser` check components that share no state in one
run: a variable picks the component that moves, the others stay in their initial states. The
states checked are the union of the states of the components, not their product.

## 3. The runs

| run | asks | instance |
|---|---|---|
| `log` | Do grouped transactions, crashes at any disk write and recoveries (also of a crashed recovery) implement `AtomicDisk` (`CrashAtomic`)? Does the log stay within its blocks and do the panics stay unreached (`NoPanic`)? Is a process that sleeps in `begin_op()` woken (`SleeperIsWoken`)? | 2 processes, 3 blocks, a log of 3 blocks and a header |
| `bio` | With a clean log at boot: is a block used by one process at a time (`OneUser`) and read as it was written last (`ReadsLatest`), although every miss recycles a buffer? | 2 processes, 2 buffers, 3 blocks |
| `bio_recover` | The same `OneUser` after a boot that installs a logged block. **Violated**, see section 7. | 3 buffers, one block to recover |
| `sched` | Is a process switched to only after it was left, and do the tests in `sched()` never fail (`SwitchedOut`)? Is no wakeup lost (`NoLostWakeup`), does the interrupt state follow the thread (`IntrOfThread`), does whoever is RUNNABLE run (`RunnableRuns`)? | 2 CPUs, 2 processes, 1 channel |
| `proc` | Is a zombie freed after it left its stack (`ReapedOffCpu`), no exit unnoticed (`NoLostExit`), and does whoever is killed or has begun to exit become a zombie, unless it is caught in the circle of `proc_circular` (`KilledExits`)? | 4 slots, pids up to 5, the process with pid 3 may be killed: slots are reused, and the circle is reached |
| `proc_circular` | Do no two processes wait for each other's `p->lock` (`NoCircularWait`)? **Violated**, see section 7. | 4 slots, pids up to 5 |
| `devices` | Spin locks: one holder (`MutualExclusion`), interrupts off while a lock is held and restored after the last one (`IntrRestored`). Sleep locks: a mutex (`IsMutex`) that forgets no waiter (`NoForgottenWaiter`). Disk: descriptors have one owner (`DescOwned`), a request ends when it is served and the ring indices cannot lap each other (`DoneWhenServed`). Console: it is a line editor (`IsTty`), nobody sleeps beside a line (`NoLostLine`). UART: bytes once and in order (`InOrder`), none left behind (`SomeoneSends`). | 2 CPUs, 2 nested locks; 4 processes; 3 requests on 8 descriptors, counters of 4 bits; 2 readers, 3 characters; 2 writers, printf and interrupts on 3 + 3 bytes |
| `virtio_ack` | Does a disk request end (`RequestFinishes`)? **Violated**, see section 7. | 2 processes, 8 descriptors |
| `names` | Inodes: link counts (`LinkCount`) and reference counts (`RefCount`) count, `iput()` does not block under the lock of the cache (`IputWontBlock`). Directories: a tree whose counts, names and `..` agree (`IsTree`), no circle of waiting (`NoCircularWait`). | 3 processes, 2 inodes, 2 names, 3 entries; 2 processes, 3 inodes, 2 names, paths that go up and down |
| `names_stray` | The same directories when processes look up `..` in a directory that was removed: is what they find allocated (`NamesAllocated`)? **Violated**, see section 7. | as `names` |
| `resources` | Open files: no entry lost or free in use, every inode and pipe end closed once (`ClosedOnce`). Blocks: one owner each (`BlocksOwnedOnce`), every transaction below its reservation (`LogBudget`), a file is a byte sequence (`IsByteFile`). Memory: one holder of each page (`PagesOwnedOnce`), exactly what a size says is mapped, and no panic of `vm.c` (`MappedToSize`). | 2 processes, 2 struct files, 2 descriptors, 1 page; 2 files of at most 8 bytes on 6 blocks; 3 processes, 17 pages, tables of 2, 2 and 4 entries |
| `user` | Pipes: a bounded FIFO (`IsFifo`), no lost wakeup (`NoLostWakeup`), whoever is inside `read()` or `write()` when the last descriptor of the other end is closed comes back (`EofSeen`). Sieve: it ends with the primes (`Sieved`). Shell: a line is parsed to what the grammar says (`ParsesBack`), programs get those descriptors and no others (`Plumbed`). `malloc`: blocks tile what `sbrk()` gave (`Tiled`). | 2 processes, one with both ends, counters of 2 bits; primes to 13 with exactly the descriptors needed; all lines of 4 tokens and 4 longer ones; 9 units of memory in cores of 4 |

`TypeOK` of each module is its type invariant. The inductive invariants (`LogInvariant`,
`BufferInvariant`, `SpinInvariant`, `ProcInvariant`, `SchedInv`, `CacheInvariant`, `PipeInvariant`,
`ConsInvariant`, `UartInvariant`) imply the properties above and
several others of their modules; they are proved (section 5), and the runs check the properties.

**Why the bounds are enough.** They are chosen so that every limit in the code is met: a log
with room for one and a half reservations, as many buffers as users, a table that is full with
one file left to open, a pipe shorter than a write, a console buffer that one line fills, page tables in which
memory ends inside each of the three levels, a slot that is reused while its old number is still
held, counters that wrap during a run, and a sieve that needs its last descriptor. Bounds that
cut a behaviour are constants marked `bound:` in the modules:

| bound | of | what it cuts |
|---|---|---|
| `OPWRITES`, `MAXLOG` | `Log`, `Bio` | how often one call logs; blocks logged at once |
| `MAXCOND` | `Sched` | events nobody has consumed yet |
| `MAXPID`, `KillPids` | `Proc` | pids given out; arguments of `kill()` |
| `Paths` | `Dirs` | paths of one element, from the root, from here and up; `chdir()` makes longer ones of them |
| `Lengths`, `ReadSizes`, `WriteSizes`, `MaxN` | `Fsdata`, `Pipe`, `Console` and `Uart` | bytes of one call |
| `Tags` | `Uart` | bytes are told apart modulo it; larger than what is under way |
| `SbrkArgs`, `Segments`, `MaxArgs` | `Vm` | arguments of `sbrk()` and `exec()`: below, inside, and above memory |
| `NSTAGE` | `Primes` | one stage more than there are primes |
| `Requests`, `Gaps` | `Umalloc` | sizes: none, part of a core, a core, more; the program's own `sbrk()` |
| `Lines` | `Sh` | all short lines, and longer ones that nest what they can |

`StrayWalks` of `Dirs` says whether a process looks up `..` in a directory that was removed. The
run `names` is about everything else; `names_stray` shows what happens with it.

**Views and symmetry.** `Vm`, `Fsdata`, `Ftable` and the drivers are checked under a `VIEW`
that forgets which of several equal pages, blocks or bytes is where, and variables that are
dead in a state. The views of pages and blocks keep the truth value of the ownership invariant,
so that a state that violates it is never taken for one that does not. The view of `proc` only
drops values that nothing reads again: pids that `kill()` is never called with, `killed` of a process
that exits already, local variables outside their loops. Every step of `KernelStep`, which
fairness is about, changes what it keeps, so it is sound for `KilledExits` too. Symmetry is
used in runs without liveness properties only.

**Deadlock** is checked in `log` and `sched`, where the system can always go on. Elsewhere the
model really stops: after a panic of the kernel ("no buffers" in `bio`, "no inodes" in `names`,
others in `devices` and `resources`), when pids are used up (`proc`), and when everybody has
closed the pipe or a program has ended (`user`).

## 4. Fairness

`Log`, `Sched`, `Proc`, `Pipe`, `Primes` and `Virtio` have a specification with fairness. It is
fairness of code that has a CPU, never of what a user program might ask for: a process in a
system call goes on when it can (`SF` on its kernel steps where a step waits for a spin lock,
which is free again and again, and `acquire()` spins until it succeeds), and a process that was
killed exits at the next return to user space. For `Sched` it is that every CPU executes
instructions and that its timer interrupts, which `timerinit()` in `start.c` sets up. For
`Virtio` it is that processes inside `virtio_disk_rw()` go on, that the device serves what it was
given, and that an interrupt which is raised is delivered: all that the driver could hope for, so
that the counterexample of `virtio_ack` is the driver's. For `Primes` it is that the program is
scheduled at all; `Pipe` asks for it of the processes at its ends. A spin lock is not fair in
hardware terms; as for any use of one, strong fairness says that a contender is not unlucky
forever. Crashes, kills, new calls, device interrupts of `Sched` and typed characters need not
happen.

## 5. Proofs

TLAPS checks these for all values of the constants that meet the named assumptions.

* `LogProofs`: `LogInvariance`, `LogType`, `LogNeverPanics`, `NoLostWakeup`.
  Assumptions: `LogConstants` and `LargeEnough` (`OPBLOCKS < MAXOPBLOCKS < LOGSIZE <= NLOG`; the
  kernel has 10, 30 and 30). `begin_op()` reserves `MAXOPBLOCKS` for a call, but what is left of
  a reservation is nowhere in memory. The invariant counts it: `Unused` is the set of blocks the
  running calls may still log, and `Capacity` says that they fit together with those logged.
  `Phases`, `Pins` and `Copies` say how far the copies in the log, the header and the home blocks
  have got at each point of a commit or of a recovery.
* `LogProofs`, second part: `LogIsCrashAtomic`, `log.c` implements `AtomicDisk`. `durable` is what the
  recovery would read back, so that the write of the header is the step that makes all calls of
  the group durable at once, and a crash at any other step changes nothing.
* `BioProofs`: `BufferInvariance`, `NeverStolen`, `UsersExclusive`, `ReadsAreCurrent`, for any
  number of processes, buffers and blocks. Assumption: `CleanLog`, nothing to recover at boot
  (with something to recover the theorem is false, section 7), and a `refcnt` wide enough for
  all processes. The invariant says what a reference count counts: users and pins.
* `DeviceProofs`: `SpinInvariance`, `LocksExclude`, `LocksNeverPanic`, `InterruptsOff`, for any
  number of CPUs and locks that are nested in one order. `noff` counts the locks a CPU holds
  (and one more inside `acquire()` and `release()`), and `intena` is what was before the first.
* `DeviceProofs`, second part: `SleepInvariance`, `SleeplockIsMutex`, `HoldersKnown`, `WaitersRemembered`
  for any processes.
* `SchedProofs`: `SchedInvariance`, `OneCpuEach`, `WakeupsArrive`, `IntrFollows` for any number of
  CPUs, processes and channels. `LockInv` says that `p->lock` is held exactly by the CPU whose
  scheduler took it and whose process has not released it yet: the lock is handed from
  `scheduler()` to the process and back across `swtch()`, and this is why no second CPU picks the
  process up. `ThreadInv`, `IntrInv` and `SchedulerInv` give `noff`, `intena` and SIE at every
  label, which the checks in `sched()` test. `WakeInv` is `NoLostWakeup` for every process that is
  *on the way* into `sleep()`: from the moment it has `p->lock` the `wakeup()` of a later event
  must still come to it, and has to wait for that lock.
* `ProcProofs`: `ProcInvariance`, `ParentsLive`, `ReapedLate`, `PidsDiffer`, `ExitsNoticed` for any
  size of the table. The invariant needs where each process is in `exit()` and `wait()`: which
  locks it has, that the part of the table `reparent()` has been through holds no child of it,
  that a copy of `p->parent` is stale only when the child belongs to init now, and that the part
  of the table `wait()` has been through holds no zombie child.
* `IcacheProofs`: `IcacheInvariance`, `RefsCounted`, `LinksCounted`, `IputNeverBlocks` for any
  processes, inodes, names and entries. The two counts are cardinalities, and the rest of the
  argument only needs what they say at 0 and 1: who has an entry (`Owned`), and that an inode
  without links has no name (`Unnamed`). So the proof is in two parts. The first takes `Owned` and
  `Unnamed` for granted and shows that locks, types and cached copies stay as they are at each
  label, in particular between the two halves of an `iput()` that frees an inode, when `ialloc()`
  can hand out its number again while the stale entry is still in the cache (`Births`, `Stale`).
  The second shows that each step changes the sets that are counted by the process or name it is
  about, and that the fields follow.
* `PipeProofs`: `PipeInvariance`, `SleepersHaveReasons`, `PipeIsFifo` for any processes, PIPESIZE and
  width of the counters. `Ends` says that who reads or writes has the end open, so that `pipeclose()`
  is the last one's; `Reasons` that who sleeps, or is about to with `pi->lock` held, has a reason to,
  unless somebody inside will call `wakeup()`; `Bounded` that the counters are at most PIPESIZE
  apart. The contents are the bytes between the counters, a sequence that one byte is appended to or
  taken from when a counter moves, also where it wraps around; the arithmetic of remainders that
  this takes is proved first.
* `ConsoleProofs`: `ConsoleInvariance`, `LinesNotLost`, `ConsoleIsTty` for any readers, size of
  `cons.buf` and width of `r`, `w` and `e`, provided that the size divides the range of the indices.
  `Good` says that the three indices are in order and at most INPUT_BUF apart, that a character is
  at each place between them, and that no end of a line is between `w` and `e`: that is why `^U`
  stops at `w` and at no earlier newline, and why everything typed can be erased until it is
  committed. A reader that holds `cons.lock` on its way to `sleep()` has seen `r = w`
  (`ConsReasons`), which no interrupt handler can change before it sleeps.
* `ConsoleProofs`, first part: `BytesGetSent` for any writers, sizes of `uart_tx_buf` and of the
  FIFO. The property itself is inductive with the types: a byte is in `uart_tx_buf` only while the
  transmitter is busy or has raised its interrupt, or while somebody is on the way into
  `uartstart()` with it.

Proofs are laid out with one lemma or step for each action. Where an invariant relates pairs of
processes or CPUs it is written as an operator of both, so that a step of a third one leaves it
alone.

Only model-checked:

* liveness (`SleeperIsWoken`, `RunnableRuns`, `KilledExits`, `EofSeen`, `Sieved`), which the prover
  has no rules for;
* what needs induction over data: `InOrder` of `Uart` (a subsequence of everything sent), the parser
  and processes of `Sh` (`ParsesBack`, `Plumbed`), the free list of `Umalloc` (`Tiled`), the paths of
  a tree in `Dirs` (`IsTree`, `NoCircularWait`), block lists and contents in `Fsdata`
  (`BlocksOwnedOnce`, `LogBudget`, `IsByteFile`), page tables as trees in `Vm` (`PagesOwnedOnce`,
  `MappedToSize`);
* `DescOwned` and `DoneWhenServed` of `Virtio`: that the rings cannot overflow is a counting argument
  over descriptors in two rings, in the device and in the hands of processes at once;
* `ClosedOnce` of `Ftable`.

## 6. What the models assume

* Memory is sequentially consistent; `__sync_synchronize()` and the atomic swap are what make it
  so for code under a lock. The unlocked reads of the kernel (`holding()`, `p->killed`, `p->parent`
  in `exit()`, `log.lh.n` in `log_write()`) are steps of their own.
* The disk writes a block completely or not at all, in the order of the calls.
* `Log`: a call logs at most `OPBLOCKS` distinct blocks. For `write()` this is `LogBudget` of
  `Fsdata`: `filewrite()` logs fewer than `MAXOPBLOCKS` blocks, which is what `LargeEnough` of `Log`
  asks for.
* `Spinlock`: callers nest locks in one order and release what they hold.
* `Proc`: init is not killed and does not exit (the kernel panics if it does).
* `Icache`: the cache has an entry for everybody who needs one; one directory, which is never
  removed. `Dirs`: a reference is a variable of a process; link counts do not overflow, and a
  directory can always grow. In both the block of a dinode is written within the transaction of
  its call (module `Log`).
* `Fsdata`: a user page that is missing is noticed at the first byte of a block, by `copyin()` in a
  write and by `copyout()` in a read. `balloc()` with no free block and `bmap()` out of range are
  the panics of the kernel; a fault is not.
* `Vm`: there are more user addresses than pages, as in the kernel, and which page `kalloc()`
  returns does not matter. Sizes wrap as they do in C: at `UINT` in
  `growproc()`, at `ULONG` where `exec()` adds `ph.vaddr` and `ph.memsz`.
* `Virtio`, `Uart`: the devices behave as the driver uses them: requests end in any order, the
  disk interrupts for a request that is finished while no interrupt is pending, the transmitter
  interrupts when its FIFO becomes empty.
* `Primes`: an int is written and read in one piece (PIPESIZE is a multiple of its size and each
  pipe has one writer and one reader at a time).
* `Sh`: a token is what `gettoken()` returns; programs that are started end by themselves, and
  one line is run.
* `Umalloc`: requests are below 2^31 bytes.

## 7. Where the code and its comments disagree

Four disagreements are runs that TLC refutes:

* **Recovery unpins what nobody pinned** (`bio_recover`). `install_trans()` calls `bunpin()` for
  every block, also when `recover_from_log()` runs it at boot. The count of the buffer goes from
  0 to 2^32 - 1, the next user brings it back to 0, and another `bget()` takes the buffer away
  from that user. `bio.c:13`: "Only one process at a time can use a buffer". Every other
  property of `Bio` is proved for a boot with a clean log.
* **exit() and a stale parent** (`proc_circular`). `exit()` reads `p->parent`, and locks that
  process later. When it has exited meanwhile and its slot is used again by a grandchild of `p`,
  `p` holds the lock of its grandchild and waits for its child's, while the child in `wait()` has
  its own and waits for the grandchild's. `proc.c:365` calls the race a "harmless spurious
  wakeup". Init, `p`, the child and the reused slot are the four slots it
  needs. None of the processes in the circle ever exits, killed or not, and neither does one that
  spins for a lock they hold, in `exit()` or in `fork()` and `kill()`, which look at every slot;
  `KilledExits` is stated for all the others (`Caught`).
* **A disk interrupt is acknowledged too late** (`virtio_ack`). `virtio_disk_intr()` acknowledges
  after its loop. A request that the device finishes between the last look at the ring and the
  acknowledgement has its interrupt cleared unseen, and `virtio_disk_rw()` waits "for
  virtio_disk_intr() to say request has finished" (`virtio_disk.c:240`) until another request
  comes, if one does.
* **.. of a removed directory** (`names_stray`). `unlink()` takes away the link that `..` was
  counted as, but the entry stays. A process that still sits in the directory can look it up
  after the directory above was removed and freed as well, and `ilock()` panics: "ilock: no type"
  (`fs.c:310`).

Others are in the models as the code has them, so the properties are stated around them:

* `proc.c:359`: init can miss the wakeup of a child it is given late, and then sleeps beside a
  zombie until another one exits; `NoLostExit` is about processes other than init.
* `proc.c:624`: `kill()` looks at unused slots too: pid 0 names them, and the next process in the
  slot is born killed.
* `pipe.c:111`: a `kill()` between the test of `killed` and `sleep()` does not wake anybody.
* `pipe.c:88`: a writer that is killed leaves bytes behind without a `wakeup()`; `NoLostWakeup`
  of `Pipe` has this exception.
* `uart.c:100`: `uartputc()` cannot sleep for a full buffer under `cons.lock`: `sched()` panics
  (`uart.c:82`: "blocks if the output buffer is full").
* `fs.c:356`: an inode that is freed, allocated and unlinked again while one `iput()` is between
  its two critical sections stays allocated without a name.
* `sysfile.c:148`, `sysfile.c:259`: `link()` and `create()` do not ask whether the directory they
  are in was removed meanwhile; what they make there has a link and no way to it. `IsTree` is
  about what is below the root.
* `param.h:9`: `MAXOPBLOCKS` is the "max # of blocks any FS op writes"; the log is large enough
  only for calls that write fewer (`OPBLOCKS < MAXOPBLOCKS` in `LargeEnough`), because one of
  its blocks is the header. The calls of the kernel do.
* `primes.c:13`: `pipe()` is not checked, and each stage inherits the read ends of all before it:
  the sieve needs 5 descriptors and one for every prime, exactly the 16 of `NOFILE` for 35.
* `sh.c:375`: redirections are wrapped so that of two for one descriptor the first in the text is
  applied last and holds.

## 8. What is not modelled

| part | why not |
|---|---|
| `copyin`, `copyout`, `copyinstr` | sequential loops over the pages of one process that change no table; that they can fail is an outcome of the calls in `Proc`, `Console` and `Fsdata` |
| `sys_sleep`, `ticks` | the waiting is that of `Sched`'s processes, with a counter as the condition |
| torn writes (`fs.c:499`, `writei()` with an address that is bad inside a block) | needs bytes of cached buffers that are not logged, below the blocks that `Fsdata` has |
| requests of 2^31 bytes and more to `malloc()` | `nunits` and the argument of `sbrk()` wrap; the program would need that much memory first |
| `mknod`'s devices, `stat` | change no state that is modelled |
| boot (`entry.S`, `start.c`, `main.c`, `plic.c`), `kvminit` | straight-line code before there is concurrency |
| `trampoline.S`, `kernelvec.S` | saving and restoring of registers |
| `printf()` formatting, `string.c`, `ulib.c`, `grep.c`'s matcher | pure functions on strings |
| `cat`, `echo`, `ls`, `find`, `xargs`, `sleep`, `pingpong` and the other small programs | a loop or two over system calls; `pingpong` sends one byte each way over two pipes |
| `init.c` | `Proc` has it as the process that never exits |
| `mkfs.c` | runs on the host, once; its result is where `Init` starts |
| `usertests.c`, `grind.c`, `forktest.c`, `stressfs.c`, `gradelib.py` | tests |
| `ramdisk.c` | not linked |
