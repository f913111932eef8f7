# Verification of the JOS system in `src/solutions/fed/lab5`

The repository holds the course work of an operating systems class: some thirty
students' solutions of five labs, each a growing version of the teaching kernel
JOS, and the templates they start from. The last lab of a solution contains the
earlier ones. This project models one complete system,
`src/solutions/fed/lab5`, which has every lab's exercises filled in: a
multiprocessor kernel with preemptive scheduling, virtual memory and IPC, a user
library with copy-on-write fork, descriptors and pipes, and a file server. Paths
below are relative to that directory.

Contents: [the system](#the-system), [modules](#modules),
[correspondence](#how-the-models-correspond-to-the-code), [runs](#runs),
[what the violation runs found](#where-code-and-documentation-disagree),
[fairness](#fairness), [proofs](#proofs), [what is not modelled](#not-modelled),
[plan](#plan).

## The system

| Component | State | Operations | Interacts with |
|---|---|---|---|
| Environments (`kern/env.c`) | `envs[]`: status, id, parent, IPC flag, page directory; `env_free_list`; `curenv` per CPU | `env_alloc`, `env_create`, `env_run`, `env_destroy`, `env_free`, `envid2env` | called by traps and system calls; takes and returns pages |
| Scheduler (`kern/sched.c`) | none of its own | `sched_yield`, `sched_halt` | reads all statuses, ends in `env_run`, `hlt` or the monitor |
| Traps (`kern/trap.c`) | trap frames, `cpu_status` | `trap`, `trap_dispatch`, `page_fault_handler` | takes the lock, reaps zombies, calls everything else |
| Big kernel lock and SMP start (`kern/spinlock.c`, `kern/init.c`, `kern/mpentry.S`) | `kernel_lock`, `mpentry_kstack`, the base of `mmio_map_region` | `spin_lock`, `spin_unlock`, `boot_aps`, `mp_main`; `lock_kernel` in `trap`, `i386_init`, `mp_main`; `unlock_kernel` in `env_run`, `sched_halt` | serialises all handlers |
| System calls (`kern/syscall.c`) | - | fourteen calls | environments, pages, IPC |
| Physical pages and page tables (`kern/pmap.c`) | `page_free_list`, `pp_ref`, page directories and tables; the TLB of each CPU | `page_alloc`, `page_free`, `page_decref`, `pgdir_walk`, `page_insert`, `page_remove`, `tlb_invalidate`, `user_mem_check` | called by system calls and `env_free` |
| IPC (`kern/syscall.c`, `lib/ipc.c`) | `env_ipc_*` | `sys_ipc_recv`, `sys_ipc_try_send`; `ipc_recv`, `ipc_send` (retries) | blocks and wakes environments, maps a page |
| fork (`lib/fork.c`) | page table bits `PTE_COW`, `PTE_SHARE` | `fork`, `duppage`, `pgfault` | system calls; page faults |
| Fault upcall (`kern/trap.c`, `lib/pfentry.S`, `lib/pgfault.c`) | the exception stack, `env_pgfault_upcall` | `page_fault_handler`, `_pgfault_upcall`, `set_pgfault_handler` | the kernel pushes a frame, user code unwinds it |
| spawn (`lib/spawn.c`) | a page at UTEMP | `spawn`, `init_stack`, `map_segment`, `copy_shared_pages` | system calls, the file server |
| Shell (`user/sh.c`, `lib/wait.c`) | its descriptors, the ids it waits for | `umain`, `runcmd`, `wait` | fork, spawn, pipes |
| Descriptors (`lib/fd.c`) | one Fd page and one data page per descriptor | `fd_alloc`, `close`, `dup`, `read`, `write`, `seek` | device table: file, pipe, console |
| Pipes (`lib/pipe.c`) | `struct Pipe`: positions and a ring of 32 bytes, in a page all ends map | `pipe`, `devpipe_read`, `devpipe_write`, `pipeisclosed`, `devpipe_close` | reference counts of pages (`lib/pageref.c`) |
| File client (`lib/file.c`) | `fsipcbuf` | `open`, `devfile_read`, `devfile_stat`, `devfile_flush` | IPC with the server |
| File server (`fs/serv.c`) | `opentab[]`, the Fd page of each entry, the request page `fsreq` | `serve_open`, `serve_read`, `serve_stat`, `serve_flush` | reference counts tell which files are open |
| File system, block cache (`fs/fs.c`, `fs/bc.c`) | the disk, read only; the blocks in memory | `file_open`, `file_read`, `bc_pgfault` | called by the server |
| Image tool (`fs/fsformat.c`) | the image | `writefile`, `finishdir`, `alloc` | runs on the build machine; writes what the file system reads |

Behaviours that are hard to test here: CPUs interleaving their handlers with each
other's user code; an environment destroyed by one CPU while another runs it;
halting and waking CPUs; ids and statuses that are stale when used; page
reference counts under sharing, failure and exit; TLBs that know nothing of other
CPUs; two reference counts read at different times (`_pipeisclosed`); sharing
through fork half-way; IPC retries and clients that die; an open file table
whose allocation is decided by reference counts; copy-on-write marked page by page
while the pages are written; faults inside the fault handler; CPUs that start
without the lock; pipe ends left open by some process of a command line.
`PROJECT.json` lists them under
"hazards", each at its line with the properties that watch it.

What makes each component correct:

- environments and scheduler: an environment runs on one CPU at a time, nothing
  is freed while it runs, no slot is lost, every zombie is reaped, every runnable
  environment runs, the last CPU does not fall asleep;
- pages: the count of a page is the number of pointers to it, a page is free iff
  its count is zero, page tables are mapped nowhere, translations are not stale;
- pipes: bytes in order, "closed" and "end of file" said only when true, and in
  the end said;
- fork and spawn: each process has its own memory but for the pages marked shared,
  and can take the faults that this needs; a fault is invisible to what it interrupts;
- SMP start: no two CPUs get one stack or one APIC mapping, all of them come up;
- file system: what is read is what `fsformat` was given;
- shell: the prompt comes back when, and only when, the line is done;
- file server: it works on the request of the process it answers, an id means
  the same file as long as a descriptor holds it, and nothing afterwards.

## Modules

| Module | Models |
|---|---|
| `EnvSched` | environment table, scheduler, traps, big lock, the system calls that change a status |
| `EnvLife` | abstract: the life of an environment slot, without a kernel |
| `Pmap` | physical pages, address spaces, page system calls, TLBs |
| `Pipe` | one pipe with its readers and writers, close, dup, fork, exit |
| `ByteQueue` | abstract: a bounded queue of bytes |
| `FileServer` | clients, IPC, and the server with its open file table |
| `FileTable` | abstract: descriptors that share open files |
| `CowFork` | fork with copy-on-write, its fault handler, and spawn, system call by system call |
| `PrivateMemory` | abstract: processes with memories of their own and shared pages |
| `UserMem` | `user_mem_check` |
| `UserFault` | exception frames and the upcall, instruction by instruction |
| `SmpBoot` | the start of the CPUs and the spin lock |
| `FsImage` | the disk image and how it is read |
| `Shell` | command lines of programs in pipes |
| `EnvSchedProofs`, `SmpBootProofs`, `PmapProofs`, `PipeProofs`, `FileServerProofs`, `CowForkProofs`, `UserFaultProofs`, `ShellProofs` | theorems about the module they are named for, with their proofs; `FileServerProofs` also has those about `FsImage`, `UserFaultProofs` those about `UserMem` |
| `MC...` | what TLC needs: refinement mappings, symmetry, views, values of constants; `MCUserMem` also has the one call that exercises `UserMem` |

The abstract modules share no definition with the detailed ones. The refinement
mappings are in the MC modules: `EnvSched` implements `EnvLife`
(`LivesAsPromised`, through `Host`), `Pipe` implements `ByteQueue` (`BytesInOrder`,
through `Bytes`), `FileServer` implements `FileTable` (`FilesAsPromised`, through
`OpenFile`); the proofs extend these modules and use the same mappings. That `CowFork` implements
`PrivateMemory` (`MemoryAsPromised`) is stated in `CowFork` itself.

The detailed modules rely on each other's results. `Pmap` takes from `EnvSched`
that an environment runs on one CPU at most and is freed by that CPU or while it
runs nowhere (`NoDoubleRun`, `StatusMatchesCpus`). `Pipe` and `FileServer` take
from `Pmap` that `pp_ref` is the number of mappings (`RefsExact`), and write it
as a count over the mappings they keep; so does `CowFork`, whose free frames are
those that nobody maps. `UserFault` uses `UserMem` for the kernel's check of the
exception stack. `EnvSched` starts where `SmpBoot` has brought the CPUs, and
`SmpBoot` leaves to `EnvSched` what the kernel does between lock and unlock. In
`Shell` a fork is one step, as `CowFork` and `Pipe` allow, and a pipe holds a number
of bytes, as `ByteQueue` says.

Operators marked "mutant" in the modules are wrong variants of the definition
that follows them, one per checked property; they show that the property can
fail and are used nowhere else.

## How the models correspond to the code

**EnvSched.** A CPU is at one of seven places (`Pc`). Kernel code runs only with
the big lock held, so one handler, from the acquisition of the lock to the unlock
in `env_run` or `sched_halt`, is one action, with every call it makes:
`TrapReturn` is the tail of `trap`, `SchedYield` the search and its three ends,
`EnvDestroy` the rest of a handler that destroys. Steps outside the lock are
actions of their own: trap entry with the exchange of `cpu_status`, the spin, the
`iret` after the unlock. `env_id` is generation times `NENV` plus slot, as the
bits of the C value are; `MaxGen` stands for 2^19 - 1, after which the id turns
negative and the code starts again at 1. Arguments of system calls are ids:
zero, the latest id of any slot, dead or alive, and one that was never given.
`Spec` restricts two kinds of call to the way the library and the programs use
them: a parent starts only a child it has just made, and destroys a child once
(`StartsNewChild`, `DestroysOnce`). `SpecAny` drops the restriction.
`Init` is the state when `i386_init` holds the lock and the other CPUs wait.

**Pmap.** `mem` holds what `kern/pmap.c` keeps; its functions are operators on
it, and a system call is one action that applies them in the order of the code.
The page that `page_alloc` returns is any free one. Failing calls are `Fail`,
since all of them return before the first change, but for `sys_page_alloc`, which
has taken a page by then. `Access` is user code touching an address, by which the
CPU's TLB caches the mapping; each way back from the kernel reloads `cr3`, which
empties it (`Resume`, `Leave`). `Spec` lets a process change its own address
space or that of a child it has not started; `SpecAny` that of any environment,
and lets it send pages to a receiver that asked for none. The model does not
keep parents, so an environment may change any other's child: more than the code.

**Pipe.** One step is one access to shared memory or one system call; a process
takes steps only while it is on a CPU. `_pipeisclosed` loads `env_runs`, two
counts and `env_runs` again; the model keeps whether the process has been
resumed since the first load. Between the loads of `env_runs` and the count next
to it an interrupt has no other effect than a retry, so these pairs are one step.
The n-th byte written is the number n. `Init` is what `pipe()` returns. At most
one process is inside `read` and one inside `write`, as in all programs of
`user/`. `Spec` lets a process fork only while no other process has open an end
that it has open itself, as those programs do (`OwnsItsEnds`). `ClosedMeansClosed`
is about the ends of live processes: a process destroyed inside `fork` leaves a child
that has some of its pages and never runs, and whose end nobody will ever use.

**FileServer.** A client call is three steps (`Send`, `Recv`, `Return`) after the
request has been put into `fsipcbuf`; the server's loop is six. A send takes place
when the receiver is receiving: `ipc_send` tries until then. The model keeps which
descriptor of which client maps the Fd page of which entry, from which `PageRef`
follows. File contents are an offset up to `FileSize`; `file_open` finds the file
or not. `StaleRead` is the request `user/testfile.c` makes with the id of a
closed file. `IdsLeft` bounds the opens so that no id comes round. `SpecAny` adds
what the kernel lets any process do: a request without a page, and a client
destroyed in the middle of a call.

**CowFork.** An address is a page, a frame holds one value. One step is one system
call of the library or one write. The calls that fork and spawn make push words
on the caller's own stack, which is a page they are copying: `PushStack`. A write to
a copy-on-write page is the fault (`Store`) and then the four steps of `pgfault`,
after which the instruction is executed again (`WriteAgain`); a process without
handler or exception stack is destroyed, as `page_fault_handler` does. A failing
`sys_page_alloc` is a user panic in fork and `pgfault`, which traps into the
kernel monitor and ends the model, and an early return in spawn, with what the code
then leaves behind: an environment that never starts (`SpawnStack`), or the page at
UTEMP (`SpawnFill`). The heap of frames is small enough for that to happen.
Page tables are not counted as frames.

**UserFault.** An address is a word, a page a few words; the registers are those
the upcall uses. The kernel's step builds the frame; the upcall takes one step for
each instruction that may fault and for what goes with it. The C handler is any
code that pushes, pops and faults in turn before it makes the page writable; it finds
the address in the frame through its argument, as `pgfault` does. `saved` is a
history variable: the contexts interrupted. A program's `Fork` makes its pages
copy-on-write again.

**UserMem.** The addresses the loop takes are a set (`Tested`). Addresses do not
wrap: `va + len` stays within the address space.

**SmpBoot.** `spin_lock` and `spin_unlock` are one step for each access to the lock:
`holding` reads two fields, the exchange is atomic, the owner is recorded after it
and cleared before the release. `mp_main`'s part without the lock is four steps,
with the load and the store of `mmio_map_region`'s static apart.

**FsImage.** `fsformat` builds the image: a file or a directory with its blocks is
one step. Blocks hold directory entries, block numbers or bytes, and a block of one
kind read as another gives what the code would see (`FileAt`, `ByteAt`). The server
walks a path one directory block at a time and copies a file one block at a time;
a step that touches a block waits for `BcPgfault` to load it. One open file per
behaviour, any number of reads of it. Names on the host fit in `f_name`, whose length
`diradd` does not test; longer ones (`LongName`) come from clients only.

**Shell.** Slots of `envs[]` are reused with a new generation, and `WaitOver` is the
test of `wait`. The descriptors of a process are console, pipe ends or nothing;
fork and spawn hand them on. `EmptyLeft` allows a line that starts with a bar.

## Runs

States and times are those of TLC with two workers.

| Run | Configuration | Result |
|---|---|---|
| `env_core` | 3 slots, 2 at boot, 2 CPUs, 2 generations | eight properties hold; 2.1 million states, 2-3 minutes |
| `env_live` | the same with 1 generation, fair | reaping, scheduling and `EnvLife` hold; 84 thousand states, 2 minutes |
| `pmap` | 6 pages, 3 addresses in 2 page tables, 2 environments, 2 CPUs | six properties hold; 22 thousand states up to symmetry, 1 minute |
| `pipe` | 2 processes, 3 descriptors, ring of 2, 3 bytes, 1 CPU, fair | five properties hold; 339 thousand states, 2 minutes |
| `pipe_drain` | the same | `EofMeansDrained` is violated |
| `fs` | 2 clients with 2 descriptors, 2 entries, 1 file, fair | six properties hold; 746 thousand states, 2-3 minutes |
| `cow` | 3 processes, 7 frames, 3 pages: shared, data, stack | three properties hold; 489 thousand states up to view and symmetry, one to two minutes |
| `ufault` | pages of 24 words, 2 words on the program's stack | two properties hold; 94 thousand states up to the view, 7 seconds |
| `user_mem` | 3 pages of 4 bytes, ranges up to 6 bytes | `EveryPageTested` is violated |
| `smp` | 4 CPUs, fair | three properties hold; 5 thousand states, seconds |
| `fsimage` | 14 blocks of 4 bytes or 2 entries, 2 direct and 2 indirect numbers, up to 3 files | two properties hold; 179 thousand states, seconds |
| `shell` | 7 slots, lines with 3 commands in all, pipes of 1 byte, fair | two properties hold; 113 thousand states, 40 seconds |

Why the bounds are enough. Three slots give a destroyer, its victim and a third
environment to be scheduled in between; two CPUs are what the races need, and the
proofs remove both bounds, as they do most of those below. Two generations make a slot be reused and its id wrap.
With five allocatable pages two environments with a page table each leave one
page, so that every allocation can fail; two of the addresses share a page table,
one has its own. A ring of two bytes and writes of three fill it, wrap it and
block; one timer interrupt inside library calls is what a time slice allows,
being far longer than the handful of loads between any two points of the pipe
code (interrupts between calls, and yields, are not bounded). Two entries of
`opentab` are exhausted by either client; ids live through two reuses of an entry.

Three processes give a parent, a child and either a grandchild or a second child
that shares the parent's pages; seven frames hold three processes but not all
their copies and exception stacks, so that every allocation fails in some
behaviour. 24 words leave room for two faults within a fault and not for a third.
Four CPUs are a boot CPU, and two others on their way while a third waits for the
lock. The sizes of files are 0, less than a block, the direct blocks exactly, and
beyond them; three entries need a second block of the directory. With three commands
a shell has a line of one, two or three programs, or two or three lines, and the
seven slots are what the longest line needs; two bytes through a pipe of one make
writers wait.

`CHECK_DEADLOCK FALSE` is said where all processes may have exited (`Pipe`,
`FileServer`, `Pmap`, `CowFork`), the program may have been destroyed (`UserFault`),
the one call is done (`UserMem`), the image is bad (`FsImage`) or all lines are typed
(`Shell`); `EnvSched` and `SmpBoot` are checked for deadlock, and the monitor is a
loop in the former. `Pmap` is checked up to permutations of the allocatable pages and of
the CPUs, which no definition singles out; its runs check no liveness property, for
which symmetry would be unsound. `cow` is checked up to permutations of the
processes but the first, and with a view (`MCView`) that tells states by who shares
which frame with what contents: the numbers of frames and the contents of free
ones influence nothing but which frame is taken next. The view of `ufault` leaves
out the words below the stack pointers, which nobody reads before they are
written. Neither run has a liveness property.

## Where code and documentation disagree

Two runs show a disagreement:

- `devpipe_read` may report the end of the file with bytes in the pipe
  (`pipe_drain`): empty, then preempted; the writer writes and closes; closed.
- `user_mem_check` goes from an address inside a page to the page after next
  (`user_mem`). The kernel's own uses with `UTrapframe` and `sys_cputs` may start
  anywhere; from an aligned address it is exact.

One configuration beside the runs is there for the proofs: `MCPipeThree.cfg` checks
`ClosedMeansClosed` with three processes, one of which may be destroyed inside `fork`
while the other two go on (ring of 1, 1 byte; 255 thousand states, it holds). With two
processes there is nobody left to be told something wrong.

Six configurations beside the runs show more disagreements, for instance with
`tlc -config MCEnvAny.cfg MCEnvSched`. They use `SpecAny`, which drops the
restrictions of `Spec`, or a bound that the runs exclude; TLC finds each violated.

- `MCEnvStarve.cfg`, `Scheduled`: `sched_yield` starts at slot 1 whenever `curenv` is
  null. The comment (`kern/sched.c:18`) promises a search from the environment last
  run; while low slots keep exiting and being reused, later ones starve.
  `ScheduledUnlessExits` shows that this is the only way to starve.
- `MCEnvAny.cfg`, `NoDoubleRun`: `sys_env_set_status` makes a running child RUNNABLE,
  and a second CPU runs it. The library never does this.
- `MCPmapUtop.cfg`, `KernelMappingKept`: `sys_ipc_try_send` takes every receiver with a
  non-null `dstva` for one that wants a page; `lib/ipc.c` says "no page" with `UTOP`,
  and the page replaces the kernel's mapping of `envs[]` there.
- `MCPmapTlb.cfg`, `TlbCoherent`: `tlb_invalidate` reaches one CPU. The library changes
  only address spaces that are loaded on the same CPU or nowhere.
- `MCPipeSmp.cfg`, `ClosedMeansClosed`: `_pipeisclosed` is safe on one CPU, as `pipe`
  shows, but not on two. The makefile's default is one CPU.
- `MCFileServerAny.cfg`, `RequestHasPage`: `env_ipc_perm` is never cleared, so that the
  server's test for a page passes after its first request.

Known from reading and modelling, without a configuration of their own:

- A fork while another process holds the same end breaks `ClosedMeansClosed` on one
  CPU, because the Fd pages are copied before the data pages; `PipeRefsCoverEnds`
  states the relation with the exception for an unfinished child.
- A client destroyed while it waits for an answer makes the server panic in `ipc_send`.
- With "| b" the shell does not wait for b: `runcmd` returns from an empty command
  before it looks at `pipe_child`. `EmptyLeft` TRUE in `MCShell.cfg` breaks `PromptMeansDone`,
  and the comment at `user/sh.c:19`.
- `spawn` leaves a NOT_RUNNABLE child and an open descriptor when `init_stack` fails, and
  a page at UTEMP when a file cannot be read. A parent that ends half-way through fork
  leaves a child as well. `CowFork` contains these states; none of them breaks its
  properties, as such a child never runs.
- `fsformat` refuses an image that would fill the disk exactly, and gives an empty root
  directory the size of a block that it has not allocated; the block is the first free
  one and holds zeros.
- `seek` to a negative offset makes `file_read` return a count without copying, since
  its comparisons mix signed and unsigned numbers. `FsImage` keeps offsets at 0 or above.

## Fairness

- `EnvSched`: each CPU goes on executing (weak fairness of its steps). The spin
  lock gives no order; that each spinning CPU gets it again and again (strong
  fairness of `AcquireLock`) is an assumption about the hardware's `xchg`. Strong
  fairness of `Yield` is the periodic timer interrupt of the local APIC. Nothing is
  assumed about system calls. The properties hold up to `Frozen`: a breakpoint or
  an empty machine enters the monitor with the lock held, and nothing leaves it.
- `Pipe`: a process on a CPU goes on with its call; the timer ends turns, and each
  process gets a CPU, again and again. The last is what `EnvSched` shows under the
  provisos above.
- `SmpBoot`: a CPU goes on executing, and the timer interrupts it in user code and
  when it halts (weak fairness of its steps); of the CPUs that spin each gets the
  lock some day (strong fairness of `Xchg`), the same assumption as in `EnvSched`.
- `Shell`: the scheduler gives each process its turn (weak fairness of its steps).
  A user types no line if he does not like, and a program need not stop early
  (`Quit` is not fair), but one that reads does so to the end of the file, and one
  that writes stops when it has written all or nobody reads.
- `FileServer`: the server and the clients go on between their system calls, and
  some client that tries to send succeeds when the server receives. Which one is
  not said: one of several may starve, so `Answered` is about requests taken.

## Proofs

Eight modules hold the proofs; each invariant below was checked by TLC on the instance
of the component's run before it was proved, except for pure typing facts. All
safety properties and refinements of the passing runs are proved. Numbers
of processes, CPUs, pages, descriptors, slots and sizes are arbitrary unless an
assumption is named.

**EnvSched** (`TypeCorrect`, `NeverTwoCpus`, `StatusAndCpuAgree`, `FreeListCorrect`,
`ReceiverStaysBlocked`, `KernelIsExclusive`, `NeverAllHalted`,
`ZombieDiesInItsCpu`, `ImplementsEnvLife`). Assumptions: there is at least one slot,
generations are positive, the boot environments fit, the BSP is a CPU, and the null
pointers are no slot and no CPU.

None of the properties is inductive alone. `Inv` is `SchedInv /\ TableInv`.
`SchedInv` joins the types, `NoDoubleRun`, `StatusMatchesCpus`, `LockDiscipline`
and `SomeCpuAwake`: that a CPU does not take an environment another one has needs
that whatever is a `curenv` is RUNNING or DYING (hence not RUNNABLE); that this
stays so when a CPU is halted or enters a handler needs the lock; that some CPU
stays awake needs that a RUNNING or DYING environment has a CPU. `TableInv`
joins the types, `FreeListExact` and `ReceiverBlocked`, and uses that scheduling leaves the FREE and the blocked slots as they are.

Each handler changes the table by a few assignments and then hands a status
function and a `curenv` to the scheduler. So there are lemmas about `EnvRun`,
`SchedHalt`, `SchedYield` and `TrapReturn` for any such pair that fits the
invariant, one lemma for each handler that shows that its pair fits, and one for
each step outside the lock; `NextInv` combines them. Two lemmas about `Probe` show
that the search stays within the table and leaves no slot out. For the action property and
the refinement there is one more family of lemmas, which says of each handler what
becomes of each slot: nothing, or one of a few turns of its status and id (`Turn`), of which
DYING to FREE is taken only by the CPU that runs the slot. All slots that change in a
handler change as `EnvLife` allows in one step.

**SmpBoot** (`LockIsExact`, `StacksAndApicsApart`). Assumption: there is a CPU.
`LockInv` relates `locked` and the owner field, which change in different steps, to the
places of the CPUs; that the debugging checks never panic is a part of it. `BootInv`
says that the CPUs start in order: whatever has not been announced is being started
by the boot CPU or is off. From this follows what `mpentry_kstack` and the base of
`mmio_map_region` are when a CPU reads them without the lock.

**Pmap** (`TypesKept`, `NoStaleTlb`; and, as long as no page has more references than
`pp_ref` can count, `BooksBalance`, `CountsAreExact`, `FreeListIsExact`,
`TablesStayPrivate`, `ReadOnlyKept`). Assumptions: finitely many environments and
addresses, the kernel's page is a page. The proviso is `[]InRange`, a
hypothesis of the theorems: `page_insert` does not test `pp_ref`, and after 65536
mappings of one page the properties are false. Every behaviour of the run meets it.
`Inv` joins the types, `TlbCoherent` and what a free slot looks like. `Books` is the
invariant of the pages: each count is the number of places that name the page, the free
list is the pages with count 0, and a page table or directory has one reference. It is
stated of a memory and of pages that `page_alloc` has returned and nobody has linked yet, so that
lemmas about `PageInsert`, `PageRemove`, `PgdirWalk` and `EnvFree` compose in the order in
which the system calls apply them. The counting rests on one lemma, `OneSite`: a change in
one place changes the count of a page by at most one.

**Pipe** (`TypesKept`, `CountsCoverEnds`, `ImplementsByteQueue`, `ClosedIsClosed`).
Assumptions: finitely many processes and descriptors, at least one CPU. `RingInv` says where
each call is, that one reads and one writes, and that the bytes between the two positions are
those written. `PairInv` says that an Fd page comes with a struct Pipe except in a child
that `fork` is making, and what `close` and `dup` hold half-way. `RingInv` and
`PairInv`, and with them `CountsCoverEnds`, hold for `SpecAny`. `ClosedIsClosed`
assumes one CPU (`NCPU = 1`; with two it is false, `MCPipeSmp.cfg`) and
`OwnsItsEnds`; it needs that a process which forks shares its ends with its child
only (`AloneInv`), and that the first count is still right at the second if the process
has not lost its CPU (`RefInv`). Attempting it showed that the property was
false when a parent dies inside `fork`; it is now stated of live processes.

**FileServer** (`TypesKept`, `ServesOneAtATime`, `OpenStaysOpen`, `ClosedStaysClosed`,
`ImplementsFileTable`). Assumptions: finitely many clients and descriptors, ids that come round
at a multiple of MAXOPEN. The invariant has five parts: what a client in a call has in
`fsipcbuf` and its mailbox, whom the server serves at each place of its loop, that the Fd
pages and the entries agree, that there are ids left for the opens under way, and that
a stale id is outdated until the server looks at it. `ServesWhoAsked` needs the second, the
two properties of ids need all.

**FsImage** (`FsInvariance`, `LookupIsExact`, `ReadIsExact`, `NoBlockShared`; in
`FileServerProofs`).
Assumptions: positive sizes, blocks that whole entries fill, a directory of
MAX_DIR_ENTS entries that fits in one file (128 entries in `fs/fsformat.c`; 1034
blocks of 16 would fit), and names of files that are not empty and not long ones. No
size or number is fixed, so the theorems cover files that end within a block, files
with indirect blocks and the empty directory alike. `DiskInv` says of each host file
that the blocks its record names lie below `diskpos` and hold its bytes
(`FileStored`): what is laid out later starts at `diskpos`, so it leaves them alone
(`StoredKept`), and two
files share no block, since each byte on the disk says whose it is. Of the root it says that its blocks hold the entries in order and then
empty ones (`RootStored`). `CacheInv` is that a block in memory is as on the disk.
`WalkInv` and `ReadInv` say what the loops of `dir_lookup` and `file_read` have done
so far: no entry before `pos` has the name; the buffer holds the file's bytes from
`offset` to `pos`. The lemma `LoopBlock` joins them: once nothing has to be loaded,
`file_get_block` returns the block that the image has there, through the indirect
block too. The proof needed two facts that the model had not stated: the bound on
MAX_DIR_ENTS, without which `finishfile` would run past the indirect block, and that
no host file has a long name.

**CowFork** (`TypesKept`, `WritersAlone`, `FaultsCanBeTaken`, `ImplementsPrivateMemory`).
Assumptions: enough frames for one process, the layout of the address space. `SoleWriter`
becomes inductive as `Exclusive`, which names the excuse of each page that is writable and
mapped twice; this needs which pages a child has at each place of fork and spawn (`Given`),
that a process makes one child at a time, and that the fault handler's page has the contents
of the page it replaces (`FaultInv`). In the refinement a page of a child is inherited at
the one system call by which it becomes the child's own (`Visible`), a write happens when it
no longer faults, and the other steps change nothing that a process can see.

**UserFault** (`TypesKept`, `ReturnsAsInterrupted`, `FramesStayInPage`). Assumption: a page holds
a frame with its word for the eip (6 words of the model), and the program's words. The
invariant goes over the faults in progress: each frame still has what its upcall has
to restore at the instruction it is at (`LevelOK`), what was interrupted is where it was
(`ContextsOK`), frames lie one below the other (`NestingOK`), and no upcall that has dropped
its frame is interrupted (`InnerOK`). `FrameRoom` shows why testing the first byte is enough
here: a frame that leaves the exception stack begins in the invalid page. The proof
needed the size of a page: with five words, a frame would reach the program's stack.
`AlignedIsExact` is about `user_mem_check` itself: for a range that begins
with a page it is exact, whatever the length.

**Shell** (`LineIsFinished`). Hypothesis: no command before a bar is empty (`~EmptyLeft`; otherwise
it is false). Every process of a line is awaited by the shell or by a process with more
of the line to do; so if anybody is left, take one awaited by as long a rest as
possible: the shell awaits it.

Left to TLC:

- liveness under fairness (`ZombieReaped`, `ScheduledUnlessExits`, `CallsReturn`, `Answered`,
  `EveryCpuRuns`, `PromptReturns`): the prover has no ENABLED, and so no fairness;
- the two properties of the violation runs, which are false.

## Not modelled

- Other students' solutions, the templates, and the earlier labs of this one: they
  are variants of the same exercises, and the last lab contains the earlier ones.
- Boot loader, device drivers (console, disk, APIC, clock), kernel monitor commands.
- ELF headers and segments (`load_icode`, and in `lib/spawn.c` all but the handling of
  pages); the layout of a program's arguments.
- Printing, strings, argument parsing, the shell's tokens and redirections, and the
  programs; what these do with the library determines the restrictions of `Spec`.
- `seek` and `ftruncate` on a descriptor that several processes share, and the
  console's ring buffer.
- Counters that come round after more steps than TLC can take: `pp_ref` (16 bits), the
  positions of a pipe (31 bits).

## Plan

Modelled, in this order: `EnvSched` with its proofs, `EnvLife`, `Pmap`, `Pipe` with
`ByteQueue`, `FileServer` with `FileTable`, `CowFork` with `PrivateMemory`, `UserMem`,
`UserFault`, `SmpBoot`, `FsImage`, `Shell`.

Proved, in this order: `EnvSched`, `SmpBoot`, `FileServer`, `CowFork`, `Pmap`, `Pipe`, `Shell`,
`UserFault`, `FsImage`, with the four refinements. Of the passing runs only liveness is left
to TLC.

To model, if anything: `seek` on shared offsets in `FileServer`, redirections in `Shell`.
