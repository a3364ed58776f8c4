# A TLA+ model of the COL331 teaching kernel

The repository is a small x86 kernel in the style of xv6, built up over twenty
lessons (`p1-booting.md` ... `p20-locks.md`), and a set of pthread programs that
demonstrate concurrency (`09/`).  This directory holds TLA+ modules translated
from its C code, the TLC configurations that check them, and TLAPS proofs.

## The system

One CPU runs `main`, which initialises the devices, the buffer cache, the log
and the file system and creates the processes; then `scheduler` runs them in
turn.  Interrupts are on in user mode, in the scheduler's idle loop **and in
system calls** (the system call gate is a trap gate), so a timer interrupt can
take the CPU from a process in the middle of a file system operation.
`pushcli`/`popcli` are the only protection the kernel has: there is no sleep
and no lock that outlives a `yield`.

| part | source | state | operations | what it meets |
|---|---|---|---|---|
| scheduling | `proc.c`, `swtch.S` | `ptable`, `cpu->proc`, `cpu->scheduler` | `allocproc`, `pinit`, `scheduler`, `sched`, `yield`, `forkret` | traps |
| interrupt control | `spinlock.c` | eflags.IF, `ncli`, `intena` | `pushcli`, `popcli` | everything that shares data |
| traps | `trap.c`, `trapasm.S`, `vm.c` | trap frames, TSS | `trap`, `tvinit`, `switchuvm` | all handlers |
| disk driver | `ide.c` | `idequeue`, `buf.flags` | `iderw`, `idestart`, `ideintr` | `bio.c`, the disk |
| buffer cache | `bio.c` | `bcache` | `bget`, `bread`, `bwrite`, `brelse` | `log.c`, `fs.c` |
| redo log | `log.c` | `log.lh`, the log blocks | `begin_op`, `log_write`, `end_op`, `commit`, `recover_from_log` | crashes |
| file system | `fs.c` | inodes, bitmap, `icache` | `balloc` ... `namex` | the log |
| files | `file.c`, `sysfile.c` | `ftable`, `proc->ofile` | open, read, write, close, unlink | system calls |
| console | `console.c`, `uart.c` | `input` ring buffer | `consoleintr`, `consoleread`, `consolewrite` | the UART interrupt |
| memory | `kalloc.c` | `kmem.freelist` | `kalloc`, `kfree`, `freerange` | `allocproc` |
| system calls | `syscall.c`, `sysproc.c` | the trap frame | `argint`, `argptr`, `argstr`, `syscall` | user memory |
| image builder | `mkfs.c` | the image | `balloc`, `ialloc`, `iappend` | `fs.c` |
| boot | `bootasm.S`, `bootmain.c`, `entry.S`, `mp.c`, `lapic.c`, `ioapic.c`, `picirq.c` | hardware | initialisation | |
| demonstrations | `09/*.c` | shared variables, locks, semaphores | threads | |

The hard behaviours: a clock tick switches processes at any instruction outside a
`pushcli` section, system calls included; `pushcli` itself can be interrupted before its
`cli`; the two ends of a critical section around `swtch` belong to different threads; the
disk answers later, through an interrupt; the power can go between any two disk writes;
the cache that holds uncommitted changes also serves the copying of the log; the console's
interrupt handler and its reader share indices without a lock; a file may be unlinked, and
the machine may crash, between the two halves of a close; offsets and addresses wrap around.

## The modules

| module | models | kind |
|---|---|---|
| `Sched` | `spinlock.c`, `proc.c`, `trap.c`, `trapasm.S`, `swtch.S`, `switchuvm` | state machine |
| `SchedTurns` | `Sched` with a history variable, for the round robin property | state machine |
| `SchedProofs` | | proofs about `Sched` and `SchedTurns` |
| `Bio` | `bio.c` | operators on a cache |
| `BufIde` (`MCBufIde`) | `ide.c` and `bio.c`, called by several processes | state machine |
| `BufIdeProofs` | | proofs about `BufIde` |
| `Log` (`MCLog`) | `log.c` above `Bio`, with crashes | state machine |
| `Transactions` | what `log.c` promises | abstract specification |
| `LogCacheProofs`, `LogStepProofs`, `LogProofs` | | proofs about `Log` |
| `LogAtomicProofs` | | proof that `Log` implements `Transactions` |
| `Console` | `consoleintr`, `consoleread` | state machine |
| `LineDiscipline` | what they promise | abstract specification |
| `ConsoleProofs` | | proofs about `Console`, its refinement included |
| `Fs` | `fs.c` | operators on the state of the file system |
| `Mkfs` | `mkfs.c` | operators on an image |
| `Files` (`MCFiles`) | `file.c`, `sysfile.c` above `Fs`, with crashes | state machine |
| `NameSpace` | what the file system promises its callers | abstract specification |
| `FilesPromise` | | the refinement: `Files` implements `NameSpace` |
| `ProcMem` | `kalloc.c`, `allocproc`, `syscall.c` | state machine |
| `ProcMemProofs` | | proofs about `ProcMem` |
| `Pthreads` | processors with store buffers, the pthread library (external) | operators on threads |
| `Demos` | the eighteen programs of `09/` | state machine |

`Sched` justifies the granularity of the others: it shows that what stands between
`pushcli` and `popcli`, and an interrupt handler, is atomic (`SectionsAtomic`), and that every
process goes on running (`NoStarvation`). `BufIde` takes `iderw` apart into the queueing, the disk,
the interrupt and the wait, and shows that a request ends with the block's contents in the
buffer; `Log` uses that result and runs a whole `bread` or `bwrite` as part of one step. `Log` in turn shows
that what stands between `begin_op` and `end_op` is atomic, also across a crash, as long as one thread
at a time is in the file system; under the same condition `Files` makes a transaction one step.

### Sched

There is one kernel stack for `main`, which becomes the scheduler, and one for each process.
`cur` is the stack the CPU is on; `at[s]` is the innermost activity on stack `s` (its place in
the code, how many sections it has open, the local variable of `pushcli` or `sched`), and
`frames[s]` are the trap frames below it. `iflag`, `ncli`, `intena`, `proc`, `schedctx` and `esp0` are
the fields of the CPU and of `struct cpu`; `state` and `context` those of `struct proc`.

`readeflags` and `OpenSection` are the two halves of `pushcli`: an interrupt may fall between
them. `allocproc`, `pinit`, `scheduler`, `sti`, `StartScan`, `Dispatch` and `EndScan` are main's code;
`Dispatch` is an iteration of the loop up to `swtch`. `TimerTrap` is `trap` for the clock, with all of
`yield` up to `swtch`, with the tests of `sched` that depend on the state; `sched` is what follows when the thread is resumed; `forkret` is the first
return of a process. `syscall`, `timer` and `device` are the entries through a trap gate and
through interrupt gates, on the stack that the TSS names when they come from user mode;
`trapret` is the `iret`. What a system call or a device handler does is left out, but for the
sections that it opens and closes, at most `MaxNest` deep. The panics of `switchuvm` are left out: `scheduler` passes it an
element of `ptable`, and that a process has its stack is `Boots` of `ProcMem`.

Fairness. `WF(Step)`: the CPU executes. `SF(timer)`: the clock ticks again and again while interrupts are
on infinitely often. The other conjuncts say that a section and a device handler come to an
end, and that interrupts leave `main` and the scheduler time between them: the sections of the
kernel are bounded loops, and the clock's period is far longer than the scheduler's scan. There is one exception, which
`bufide_shared` shows: when two processes use one block at a time, the walk along the disk queue in `iderw` can come to a cycle.

### Bio and BufIde

`Bio` has the cache as one value: the buffers, and the list from the most to the least recently used.
`Bget(bc, b, v)` says which buffer `bget` returns, `NoBuffers` when it panics. A never used buffer has
`blockno = NoBlock`.

`BufIde` has, for each process, `bget`, the test of `B_VALID`, `iderw` up to `popcli`, the wait, the store into
the data, `bwrite` and `brelse`. `idequeue` and `qnext` are the pointers of the code and not a
sequence: a buffer that is queued twice makes a cycle, and the loop of `iderw` then never ends
(`stopped = "hung"`). The disk is external: it executes the command `idestart` gave it, then raises its interrupt.
`Shared` says whether two processes may use one block at a time, `Errors` whether a read may fail.

### Log and Transactions

A thread is `main` until it calls `scheduler`, then a process. An operation is `begin_op`, any
number of reads and of "bread, change, `log_write`, `brelse`" on at most `MAXOPBLOCKS` blocks, and
`end_op`; the steps of `commit` and of recovery make one disk write each, and `Crash` can come between any
two. `Crash` loses everything but the disk.

`Transactions` has three variables: what is durable, what a read returns, and who is inside an
operation. `Log` implements it under the mapping `durable <- Recovered` (the home blocks
overlaid with the log blocks that the header names), `current <- View` (the cache above the disk).

### Console and LineDiscipline

`buf`, `r`, `w` and `e` are the fields of `input`; indices are modulo `UintSize`, which stands for 2^32.
`Key`, `Backspace` and `KillLine` are the cases of `consoleintr`. `consoleread` is split where an interrupt makes a
difference; the build has no optimisation, and its code for `input.buf[input.r++ % INPUT_BUF]` stores the new
`input.r` before it loads the character, hence `Increment` and `Load`. `LineDiscipline` has the line
being edited and the characters of ended lines as two sequences.

`Race = FALSE` keeps keys away from a reader that has made room in a full buffer and has not finished with
the character; `Race = TRUE` is the code as it is.

### Fs, Mkfs, Files and NameSpace

The state `fs` of the file system is one record: the inodes, bitmap and blocks as the cache shows
them, the inode cache, the blocks logged so far by the operation under way, and the message of a
panic. Each function of `fs.c` is an operator that takes this record and returns the new one, with its
result; `Then` and `Let` pass it on, so that an operator reads in the order of the code and every
failure and panic of a call is there. The unit of size is a cell: a directory entry, a block number or a
piece of a file. Offsets and sizes wrap around at `UintSize`. A path is a sequence of characters, and
`skipelem` cuts names off at `DIRSIZ` of them. The first state is the image that `Mkfs!Image` builds from
a list of files, booted by `main`'s `mknod` and `pinit`.

`Files` adds the file table, the descriptors and the calls. Processes make the system calls that `syscall.c` has
(`sys_open`, `sys_write`, `sys_close`); the client is kernel code that calls the functions of `file.c`, as the lessons'
`main` does (`open`, `fileread`, `filedup`, `fileclose`, `mknod`, `mkdir`, `unlink`). A call is one step up to where it may
meet another: `filewrite` is a step for each chunk, `fileclose` one for the file table (`sys_close`) and one for the inode
(`CloseInode`). A panic stops the machine; `Crash` loses memory and boots again, also after a panic. `lost` remembers
which inodes had no name when memory was lost: the code has nothing that frees them. A device has no size, and
`fileread` and `filewrite` move the offset of its open file all the same, until it wraps around.

`NameSpace` knows neither blocks nor counts: directories map names to nodes, files have cells, a node that is
held stays and keeps its content, and a write changes one chunk of one file. `Promise` says that `Files` implements it.

### ProcMem

`kinit` frees the pages between the kernel and `PHYSTOP` one by one, `pinit` takes one for each process, and then
processes make system calls with any values in their registers and on their stack. `touched` are the byte
ranges that `fetchint`, `fetchstr`, `argptr` and their callers accept. Sums wrap around at `Uint`. What memory
contains is not modelled: a fetched word has any value, a string any length.

### Pthreads and Demos

A behaviour is one run of one of the programs. Every access to a shared variable is a step; a
store waits in the buffer of its thread until `drain` moves it to memory, and library calls and
fences wait for an empty buffer, as on an x86. `SpuriousWakeup` wakes a waiter without a signal, once. `undefined` is set
by that, and by the use of a semaphore that is not initialised yet: from then on a property that relies on neither
says nothing.

## The runs

| run | shows | bounds | distinct states |
|---|---|---|---|
| `sched` | `SchedInv`, atomic sections, one running process, no panic, user code interruptible, `RoundRobin`, `NoStarvation` | 4 slots, 3 processes, nesting 2 | 4,700 |
| `bufide` | `QueueOK`, `HoldsDisk`, `NotStopped`, `RequestsEnd` | 2 processes, 2 buffers, 3 blocks, 2 values | 247,208 |
| `bufide_shared` | `RequestsEnd` violated | two processes on one block | |
| `log_atomic` | `LogInv`, `CacheCoherent`, `NoPanic`, `AtomicTransactions` | 1 process and main, 3 buffers, 3 log blocks, 2 home blocks | 119,136 |
| `log_live` | `RecoveryEnds`, `CommitEnds` | the same, 1 value | |
| `log_lost_update` | `DurableWhenIdle` violated | 2 processes | |
| `console` | `IndexOrder`, `Implements`, `LineDelivered` | 3 slots, indices modulo 6, 2 letters, reads of at most 2 | 35,385 |
| `console_race` | `EofSaved` violated | the same, `Race` | |
| `files` | `BlocksSound`, `NamesSound`, `RefsExact`, `WriteThrough`, `OpFits`, `OnlyExhaustion`, `Promise` | 1 process and the client, blocks of 2 cells, 1 direct block, 5 inodes, 4 cached, 2 open files | 49,739 |
| `files_full_root` | `WriteThrough` violated | a root that fills its block | |
| `memory` | `PagesSound`, `ArgsInside`, `Boots` | 4 pages, 2 processes, 7-bit addresses, 16 words at the edges | 489 |
| `threads` | `NoLostUpdate`, `SumZero`, `ChildFirst`, `PipeInOrder`, `WaitsEnd` | 5 philosophers, pipes of 2, 2 rounds, 2 readers, 3 accounts and transfers, 3 allocating threads | 156,674 |

Why the bounds are enough. Three processes are the least with which a scan can pass over one; an
unused slot makes it skip. Two buffers and three blocks make `bget` recycle, and two processes put a request
behind one that is at the disk. With three buffers, two changed blocks leave `commit` exactly one buffer for
the log block, and with three log blocks the largest operation (two blocks, one written twice) leaves
`log_write` one to spare. The indices of the console wrap every second round of its buffer.
In `files` a file of three cells needs the indirect block, a directory of three entries a second block; the disk, the
inodes, the file table and the descriptors can all be exhausted (the inode cache cannot, as in the kernel, where two processes with
`NOFILE` files each use at most 33 of its `NINODE` slots beside those of a path walk), a chunk of `filewrite` is smaller than the
longest write, and offsets reach the point where `off + n` wraps around. There are three workloads: one open file and names
in a subdirectory, one file opened by process and client at a time, and a name that the client also makes a device, reads and writes. `MAXOPBLOCKS = 6` keeps, as in the
code, one block for the inode, one for the indirect block and two for the bitmap beside those of a chunk. The words of
`memory` are the values on both sides of every comparison in `syscall.c`. In `threads` each pipe is smaller than the sum
of its users' letters, and two rounds let a thread meet what its first one left behind.

### What the violations show

* `log_lost_update`: `begin_op` is empty and `end_op` always commits, but `log.c`'s header still describes a log that
  waits for the last operation. With interrupts on in system calls (p20), a `log_write` of one process during
  a commit of another is dropped by `log.lh.n = 0`. For the same reason one process commits another's half-done
  operation (`log.c:134`).
* `bufide_shared`: `bget` gives one buffer to two processes; there is no sleep lock. The second
  `iderw` panics, or queues the buffer again and cuts off or closes the queue.
* `console_race`: the slot of a `^D` that `consoleread` puts back may have been reused.
* `files_full_root`: `mkfs` makes the root one block too large when its entries end at a block boundary; the first lookup
  allocates that block in the cached inode only. The block is lost unless a later `iupdate` of the root happens to write it. The image that the
  Makefile builds has a root with room in its block, as in `files`.

### What else the modelling showed

* `ideintr` sets `B_VALID` after a failed read (`ide.c:108-111`): nobody learns of the error. `Errors = TRUE` in
  `BufIde` is that disk; the runs have a disk that does not fail.
* An inode that is unlinked and open when the machine crashes stays allocated for ever: there is no scan for such inodes
  (`lost` in `Files`).
* `mypipe.c` signals after the unlock and tests with `if`: its consumer can read an empty pipe. `PipeInOrder` does
  not claim the order for it, and `WaitsEnd` shows that it goes on all the same.
* `wait.c` tests with `if` and relies on there being no spurious wake-up; `zem_wait` never takes what `zem_post` gives, so
  that only the first parent of `sems-using-lock-cv.c` waits; `dine.c` starts a philosopher before the next fork is
  initialised; the first thread of `alloc.c` asks for more than there ever is. `ChildFirst` leaves out what `wait.c` does after a
  spurious wake-up and the later parents of `sems-using-lock-cv.c`, and `WaitsEnd` the first thread of `alloc.c` and what the forks do
  before they are initialised.

### Fairness of BufIde, Log, Console and Demos

The disk finishes what it was told, its interrupt is delivered, and each process gets the CPU again
and again: this is `NoStarvation` of `Sched` and what the hardware does. A process need not call anything: `bget`,
`store`, `release`, `begin_op`, `end_op`, keys and `consoleread` have no fairness. `RecoveryEnds` is about
behaviours with finitely many crashes. In `Demos` every thread that can run does, and buffers drain; nothing is
assumed of the order in which a lock or a semaphore lets threads in. `Files` and `ProcMem` claim safety only.

## The proofs

Each theorem holds for every value of the constants that its assumptions allow. What TLC checks on one instance
is listed with the runs; the inductive invariants below were model-checked too before they were proved.

| theorem | states | beyond the assumptions of the modules |
|---|---|---|
| `LogProofs!LogCorrect`, `TypesCorrect`, `CacheCorrect` | `TypeOK`, `LogInv`, `CacheCoherent` | `SingleProc` |
| `LogProofs!NoPanicCorrect` | `NoPanic` | `SingleProc`, `Roomy` |
| `LogAtomicProofs!TransactionsCorrect` | `AtomicTransactions`, the refinement | `SingleProc` |
| `LogAtomicProofs!DurableAlone` | `DurableWhenIdle` | `SingleProc`, a process |
| `BufIdeProofs!TypesCorrect`, `QueueCorrect` | `TypeOK`, `QueueOK` | `~Shared` |
| `BufIdeProofs!HoldsCorrect` | `HoldsDisk` | `~Shared`, `~Errors` |
| `BufIdeProofs!NotStoppedCorrect` | `NotStopped` | `~Shared`, no more processes than buffers |
| `SchedProofs!SchedCorrect` and the four after it | `TypeOK`, `SchedInv`, `SectionsAtomic`, `OneRunning`, `NoPanic`, `UserInterruptible` | |
| `SchedProofs!TurnsCorrect` | `RoundRobin` | |
| `ConsoleProofs!TypesCorrect`, `IndicesCorrect`, `RefinementCorrect` | `TypeOK`, `IndexOrder`, `Implements` | `~Race` |
| `ProcMemProofs!PagesCorrect`, `ArgsCorrect` | `PagesSound`, `ArgsInside` | |
| `ProcMemProofs!BootsCorrect` | `Boots` | `Enough` |

### The log

`SingleProc` says that there is at most one process besides `main`. It is needed: `log_lost_update` shows what two do.

`LogCorrect`. `CacheCoherent` and the atomicity are not
inductive: they need to know, at each point of `commit` and recovery, which of the five
copies of a block agree. `LogInv` says that. `CacheInv`: a block is in one buffer, and a buffer that is neither
pinned nor being changed equals the disk. `PinnedInv`: outside commit, what is
pinned is what is logged and the header is empty. `LoggedInv(k)` and `InstalledInv(k)` are the loop invariants of
`write_log` and `install_trans`. `LogCacheProofs` has what `bread`, `bwrite` and `brelse` do to the cache,
`LogStepProofs` the steps of operations and of the start of recovery and the first ones of commit, `LogProofs` those of `end_op` and of the rest.

`CacheCorrect` needs beside `LogInv` that what the operation
under way has written is in the in-memory header (`WroteInv`), hence pinned, hence in the cache.

`NoPanicCorrect`. `Roomy` is what `param.h` and `mkfs.c` give: `MAXOPBLOCKS` is less than the number of buffers, than `LOGSIZE` and than
the log on the disk less its header. `SizeInv` says that the header in memory and the one on the disk name at most
`MAXOPBLOCKS` blocks, because they name only what the operation has written. Since every pinned buffer is one of these blocks and
no block is cached twice, a pigeonhole argument leaves one buffer for any `bget`. `write_log` and `install_trans` hold two buffers
at a time; one of the two is the changed block's own, which is cached already, or nothing is pinned.

`TransactionsCorrect`. The mapping is that of `AtomicTransactions`. A step of `Log` changes
`Recovered` at one place only, the header write of `commit`, where it becomes `View`; `RefInv` says that from that write
until the log is cleared the two are equal, and that only `main` reads the header. So `write_log`, `install_trans`, the clearing of the header and all of recovery change nothing that `Transactions` sees,
and `Crash` is its crash. `DurableAlone` reads the same off an idle system.

### The disk queue and the cache

`BufIde`'s queue is the pointers `idequeue` and `qnext`. The inductive invariant names the list they make: there is a
sequence of distinct buffers of which `idequeue` is the first and `qnext` leads from each to the next (`IsQueue`), and its members are
the buffers whose owners wait (`QueueInv`). `CmdInv` relates its head to the disk's command and to the
pending interrupt; `ProcInv` says in which state the buffer of a process is at each point of `bread` and `bwrite`; `BufInv` that
`refcnt` counts the owner and that a dirty buffer is being written; `OneCopy` that no block has two buffers; `AgreeInv`, for a disk without errors, that a valid
clean buffer equals its block unless its owner has stored into it since. A sequence of distinct buffers is not longer than the cache, so that the walk of `iderw` ends: `WalkUnique` shows, by a
least counterexample, that the recursive function `Walk` is the one read off the sequence. `NotStoppedCorrect` adds a
pigeonhole argument: each process refers to one buffer at most, so that one is left for the process that calls `bget`. `~Shared` is
needed: see `bufide_shared`.

### The scheduler

For every `NPROC`, `NINIT <= NPROC` and `MaxNest`. `SchedInv` relates the CPU to the
innermost activity (`CpuInv`: which values `IF`, `ncli` and `intena` have there), says what may lie in a trap
frame (`FrameInv`: only code outside sections, with interrupts on), how many frames an activity has below it
(`DepthInv`), and that a waiting process is at `forkret` or in `sched` on its own stack. The lemmas go by kind of step: within one activity,
entering and leaving a trap, entering and leaving a section, then the switches.

`TurnsCorrect` is about an action: whom `Dispatch` may choose. `TurnInv` says where the processes are in the table that have had a turn since a waiting
one, `q`, had its own: behind `q`, and before the loop variable if that has passed `q`; if the loop has
not yet come to `q`, also before the loop variable (`Behind`). The one that `Dispatch` finds is in neither place.

### The console

For every buffer size, every index width that it divides, every set of characters and
every read size. `IndexOrder` is not
inductive: between `Increment` and the end of a character the slot at `i` is the reader's, although `r` has passed
it. `ConsoleInv` says that while the reader works on a character its index is one before `r` and there is
room for it in the buffer (`Order`), and that a call under way still has characters to get. For the refinement, `Text` is a piece of the circular buffer as a sequence; the
lemmas `TextAppend`, `TextConcat`, `TextHead` and `TextFrame` say what a step of an index or a store in a slot does to
it, across the wrap-around, and each action becomes a step of `LineDiscipline` or none.

### Memory

For every word width, memory, page and stack size and process table. The strengthening says that while `freerange` runs all free pages lie below its pointer, which makes the page
that it frees next a new one and keeps the pointer from wrapping around, and that only a process with a page is in a system call.

`BootsCorrect` assumes that the table and the memory behind the kernel have room for the processes that `main` makes
(`Enough`). `BootInv` counts: while `freerange` runs, the free list has one page for each page size between the kernel's end and the
pointer; while `pinit` is called, free pages and processes together are at least as many as `main` makes, and the processes fill the table from its start.

### Only model-checked

* Liveness, which rests on fairness and is out of the prover's reach: `NoStarvation`, `RequestsEnd`, `RecoveryEnds`, `CommitEnds`,
  `LineDelivered`, `WaitsEnd`.
* `Files`, with the refinement `Promise`: `Fs` walks paths and directories with recursive functions, `Mkfs` folds over the list of
  files, and what such definitions compute takes induction over data.
* `Demos`: `NoLostUpdate` adds up what all threads have done, which is induction over data again; `SumZero`, `ChildFirst` and `PipeInOrder` are about
  eighteen programs of fixed size, most of them with a fixed number of threads, which the run covers.

## Not modelled

* Two processes inside one file system operation each. The log is not made for it (`log_lost_update`), nor is the buffer cache
  (`bufide_shared`): a model of `fs.c` at that granularity would have no property left to state. `Files` interleaves
  whole transactions.
* The segment descriptors of `vm.c` and faults: `trap` returns from a fault in user code and the instruction faults again, which changes no
  kernel state.
* The output side of `console.c`, formatting and string routines, `procdump`: they change no state that the kernel reads.
* Interrupt controllers, processor tables, the serial port and the boot loader: device registers and straight-line
  set-up before anything runs concurrently. `ideinit` and the second disk likewise.
* The host side of `mkfs.c` (opening and reading files, seeking in the image).
* The user programs, which only make system calls, and the disk simulator in `04/`, a program in
  Python with real-valued times that shares nothing with the kernel.
