-------------------------------- MODULE Pipe --------------------------------
(***************************************************************************)
(* Pipes of the JOS user library in src/solutions/fed/lab5: the ring       *)
(* buffer shared by reader and writer and the test for a closed other end  *)
(* (lib/pipe.c, lib/pageref.c), and the descriptor operations that move    *)
(* the page reference counts this test reads (close and dup in lib/fd.c,   *)
(* fork in lib/fork.c, the unmapping of all pages when a process ends).    *)
(*                                                                         *)
(* There is no lock: user code is interrupted between any two steps, and   *)
(* runs on NCPU processors at a time.  One step is one access to memory    *)
(* that another process can see, or one system call.                       *)
(*                                                                         *)
(* Modelled is one pipe, after pipe() has returned to the process First,   *)
(* with at most one process reading from it and one writing to it, as in   *)
(* all programs under user/.                                               *)
(***************************************************************************)
EXTENDS Integers, FiniteSets

CONSTANTS
    Proc,         \* processes
    First,        \* the one that called pipe()
    FdNum,        \* file descriptor numbers
    DupTo,        \* bound: the descriptors that dup may make
    PIPEBUFSIZ,
    NCPU,         \* processors
    CallLen,      \* bound: bytes asked for by a read or write
    MaxBytes,     \* bound: bytes written in all
    MaxTicks,     \* bound: timer interrupts that hit a library call
    Nothing       \* no Fd page, no byte, no process

ASSUME FirstAssumption == First \in Proc
ASSUME FdNumAssumption == {0, 1} \subseteq FdNum /\ FdNum \subseteq Nat /\ DupTo \subseteq FdNum
ASSUME BufferAssumption == PIPEBUFSIZ \in Nat \ {0}
ASSUME CallAssumption == NCPU \in Nat \ {0} /\ CallLen \in Nat
ASSUME FiniteAssumption == IsFiniteSet(Proc) /\ IsFiniteSet(FdNum)
ASSUME NothingAssumption == Nothing \notin Nat \cup Proc \cup {"R", "W"}

VARIABLES
    fd,       \* fd[p][n]: the end of the pipe whose Fd page p maps at fd n
    data,     \* data[p][n]: whether p maps the struct Pipe at fd2data of fd n
    p_rpos, p_wpos, p_buf,    \* struct Pipe
    got,      \* the byte that devpipe_read delivered last
    env,      \* NONE, NEW (made by exofork, not started), LIVE or DEAD
    running,  \* the processes on the CPUs
    ticks,    \* timer interrupts left
    loc       \* the locals and the program counter of each process

shared == <<fd, data, p_rpos, p_wpos, p_buf, got>>
sched == <<env, running, ticks>>
vars == <<shared, sched, loc>>

End == {"R", "W"}
Other(end) == IF end = "R" THEN "W" ELSE "R"

Idle == {"user", "closed"}
Pc == Idle \cup
      {"read_test", "read_take", "read_inc", "write_test", "write_store", "write_inc",
       "ref_fd", "ref_pipe", "yield",
       "unmap_data", "dup_data", "dup_fd", "fork"}

\* pc:       "closed" is idle, after a call that found the other end closed
\* call, n:  the library call and its descriptor
\* i, len:   bytes moved so far and asked for
\* byte:     the byte on its way out of the buffer
\* resumed:  whether env_runs has changed since _pipeisclosed read it
\* ref:      pageref(fd) in _pipeisclosed
\* to:       the new descriptor of dup, while it is not complete
\* child, todo: the child of fork and the pages it still lacks
Start == [pc |-> "user", call |-> "none", n |-> 0, i |-> 0, len |-> 0,
          byte |-> Nothing, resumed |-> FALSE, ref |-> 0,
          to |-> Nothing, child |-> Nothing, todo |-> {}]

\* pp_ref of the Fd page of an end, and of the struct Pipe: all these pages
\* are mapped by processes only.
RefFd(end) == Cardinality({q \in Proc \X FdNum : fd[q[1]][q[2]] = end})
RefPipe == Cardinality({q \in Proc \X FdNum : data[q[1]][q[2]]})

\* Where a change of env_runs matters.
Window == {"ref_pipe"}

At(p, pc) == p \in running /\ loc[p].pc = pc
Ready(p) == p \in running /\ loc[p].pc \in Idle

-----------------------------------------------------------------------------
(* Scheduling.                                                             *)

Resume(p) ==
    /\ env[p] = "LIVE" /\ p \notin running
    /\ Cardinality(running) < NCPU
    /\ running' = running \cup {p}
    /\ loc' = [loc EXCEPT ![p].resumed = loc[p].pc \in Window]
    /\ UNCHANGED <<shared, env, ticks>>

\* The timer interrupt, in a library call or between two of them.
Tick(p) ==
    /\ p \in running /\ loc[p].pc \notin Idle
    /\ ticks > 0
    /\ ticks' = ticks - 1
    /\ running' = running \ {p}
    /\ UNCHANGED <<shared, env, loc>>

IdleTick(p) ==
    /\ Ready(p)
    /\ running' = running \ {p}
    /\ UNCHANGED <<shared, env, ticks, loc>>

SysYield(p) ==
    /\ At(p, "yield")
    /\ running' = running \ {p}
    /\ loc' = [loc EXCEPT ![p].pc = IF loc[p].call = "read" THEN "read_test" ELSE "write_test"]
    /\ UNCHANGED <<shared, env, ticks>>

-----------------------------------------------------------------------------
(* _pipeisclosed, for a call of pipeisclosed, devpipe_read, devpipe_write. *)

IsClosed(p, n) ==
    /\ Ready(p)
    /\ fd[p][n] \in End
    /\ loc' = [loc EXCEPT ![p] = [Start EXCEPT !.pc = "ref_fd", !.call = "isclosed", !.n = n]]
    /\ UNCHANGED <<shared, sched>>

\* n = env_runs; pageref(fd).  An interrupt between these two loads, or the
\* two of ReadRefPipe, only makes _pipeisclosed start over.
ReadRefFd(p) ==
    /\ At(p, "ref_fd")
    /\ loc' = [loc EXCEPT ![p].pc = "ref_pipe", ![p].ref = RefFd(fd[p][loc[p].n])]
    /\ UNCHANGED <<shared, sched>>

\* The locals of p after _pipeisclosed has returned ret to its caller.
Verdict(p, ret) ==
    IF ret THEN [Start EXCEPT !.pc = "closed", !.call = loc[p].call, !.n = loc[p].n]
    ELSE IF loc[p].call = "isclosed" THEN Start
    ELSE [loc[p] EXCEPT !.pc = "yield", !.ref = 0, !.resumed = FALSE]

ReadRefPipeOnce(p) ==                      \* mutant: env_runs is not compared
    /\ At(p, "ref_pipe")
    /\ loc' = [loc EXCEPT ![p] = Verdict(p, loc[p].ref = RefPipe)]
    /\ UNCHANGED <<shared, sched>>

\* pageref(p); nn = env_runs.
ReadRefPipe(p) ==
    /\ At(p, "ref_pipe")
    /\ loc' = [loc EXCEPT ![p] = IF loc[p].resumed
                                 THEN [@ EXCEPT !.pc = "ref_fd", !.ref = 0, !.resumed = FALSE]
                                 ELSE Verdict(p, loc[p].ref = RefPipe)]
    /\ UNCHANGED <<shared, sched>>

-----------------------------------------------------------------------------
(* devpipe_read and devpipe_write.                                         *)

Calling(call) == {p \in Proc : env[p] = "LIVE" /\ loc[p].call = call /\ loc[p].pc \notin Idle}

Read(p, n, len) ==
    /\ Ready(p)
    /\ fd[p][n] = "R" /\ Calling("read") = {}
    /\ loc' = [loc EXCEPT ![p] = [Start EXCEPT !.pc = "read_test", !.call = "read",
                                               !.n = n, !.len = len]]
    /\ UNCHANGED <<shared, sched>>

ReadTest(p) ==
    /\ At(p, "read_test")
    /\ loc' = [loc EXCEPT ![p] =
                   IF loc[p].i = loc[p].len \/ (p_rpos = p_wpos /\ loc[p].i > 0) THEN Start
                   ELSE [@ EXCEPT !.pc = IF p_rpos = p_wpos THEN "ref_fd" ELSE "read_take"]]
    /\ UNCHANGED <<shared, sched>>

ReadTake(p) ==
    /\ At(p, "read_take")
    /\ loc' = [loc EXCEPT ![p].pc = "read_inc", ![p].byte = p_buf[p_rpos % PIPEBUFSIZ]]
    /\ UNCHANGED <<shared, sched>>

ReadInc(p) ==
    /\ At(p, "read_inc")
    /\ p_rpos' = p_rpos + 1
    /\ got' = loc[p].byte
    /\ loc' = [loc EXCEPT ![p].pc = "read_test", ![p].byte = Nothing,
                          ![p].i = @ + 1]
    /\ UNCHANGED <<fd, data, p_wpos, p_buf, sched>>

Write(p, n, len) ==
    /\ Ready(p)
    /\ fd[p][n] = "W" /\ Calling("write") = {}
    /\ p_wpos + len <= MaxBytes
    /\ loc' = [loc EXCEPT ![p] = [Start EXCEPT !.pc = "write_test", !.call = "write",
                                               !.n = n, !.len = len]]
    /\ UNCHANGED <<shared, sched>>

WriteTestLoose(p) ==                       \* mutant: > for >=
    /\ At(p, "write_test")
    /\ loc' = [loc EXCEPT ![p] =
                   IF loc[p].i = loc[p].len THEN Start
                   ELSE [@ EXCEPT !.pc = IF p_wpos > p_rpos + PIPEBUFSIZ
                                         THEN "ref_fd" ELSE "write_store"]]
    /\ UNCHANGED <<shared, sched>>

WriteTest(p) ==
    /\ At(p, "write_test")
    /\ loc' = [loc EXCEPT ![p] =
                   IF loc[p].i = loc[p].len THEN Start
                   ELSE [@ EXCEPT !.pc = IF p_wpos >= p_rpos + PIPEBUFSIZ
                                         THEN "ref_fd" ELSE "write_store"]]
    /\ UNCHANGED <<shared, sched>>

\* The n-th byte written to the pipe is n.
Store == p_buf' = [p_buf EXCEPT ![p_wpos % PIPEBUFSIZ] = p_wpos]

WriteByteEarly(p) ==                       \* mutant: p_wpos moves before the store
    \/ /\ At(p, "write_store")
       /\ p_wpos' = p_wpos + 1
       /\ loc' = [loc EXCEPT ![p].pc = "write_inc"]
       /\ UNCHANGED <<fd, data, p_rpos, p_buf, got, sched>>
    \/ /\ At(p, "write_inc")
       /\ p_buf' = [p_buf EXCEPT ![(p_wpos - 1) % PIPEBUFSIZ] = p_wpos - 1]
       /\ loc' = [loc EXCEPT ![p].pc = "write_test", ![p].i = @ + 1]
       /\ UNCHANGED <<fd, data, p_rpos, p_wpos, got, sched>>

WriteByte(p) ==
    \/ /\ At(p, "write_store")
       /\ Store
       /\ loc' = [loc EXCEPT ![p].pc = "write_inc"]
       /\ UNCHANGED <<fd, data, p_rpos, p_wpos, got, sched>>
    \/ /\ At(p, "write_inc")
       /\ p_wpos' = p_wpos + 1
       /\ loc' = [loc EXCEPT ![p].pc = "write_test", ![p].i = @ + 1]
       /\ UNCHANGED <<fd, data, p_rpos, p_buf, got, sched>>

-----------------------------------------------------------------------------
(* close and dup.                                                          *)

\* devpipe_close of fd n: the Fd page is unmapped, UnmapData follows.
Close(p, n) ==
    /\ Ready(p)
    /\ fd[p][n] \in End
    /\ fd' = [fd EXCEPT ![p][n] = Nothing]
    /\ loc' = [loc EXCEPT ![p] = [Start EXCEPT !.pc = "unmap_data", !.n = n]]
    /\ UNCHANGED <<data, p_rpos, p_wpos, p_buf, got, sched>>

\* dup(n, to), whose first step is close(to).
Dup(p, n, to) ==
    /\ Ready(p)
    /\ fd[p][n] \in End /\ to # n
    /\ fd' = [fd EXCEPT ![p][to] = Nothing]
    /\ loc' = [loc EXCEPT ![p] = [Start EXCEPT
                   !.pc = IF fd[p][to] \in End THEN "unmap_data" ELSE "dup_data",
                   !.n = n, !.to = to]]
    /\ UNCHANGED <<data, p_rpos, p_wpos, p_buf, got, sched>>

\* The descriptor being closed: that of close, or the target of dup.
Closing(p) == IF loc[p].to = Nothing THEN loc[p].n ELSE loc[p].to

UnmapNothing(p) ==                         \* mutant: only the Fd page is unmapped
    /\ At(p, "unmap_data")
    /\ loc' = [loc EXCEPT ![p] = IF loc[p].to = Nothing THEN Start
                                 ELSE [@ EXCEPT !.pc = "dup_data"]]
    /\ UNCHANGED <<shared, sched>>

UnmapData(p) ==
    /\ At(p, "unmap_data")
    /\ data' = [data EXCEPT ![p][Closing(p)] = FALSE]
    /\ loc' = [loc EXCEPT ![p] = IF loc[p].to = Nothing THEN Start
                                 ELSE [@ EXCEPT !.pc = "dup_data"]]
    /\ UNCHANGED <<fd, p_rpos, p_wpos, p_buf, got, sched>>

DupFdFirst(p) ==                           \* mutant: the Fd page is mapped first
    /\ At(p, "dup_data")
    /\ fd' = [fd EXCEPT ![p][loc[p].to] = fd[p][loc[p].n]]
    /\ loc' = [loc EXCEPT ![p].pc = "dup_fd"]
    /\ UNCHANGED <<data, p_rpos, p_wpos, p_buf, got, sched>>

\* sys_page_map fails when there is no memory for a page table: then dup
\* unmaps what it has mapped.
DupData(p) ==
    /\ At(p, "dup_data")
    /\ \/ /\ data' = [data EXCEPT ![p][loc[p].to] = TRUE]
          /\ loc' = [loc EXCEPT ![p].pc = "dup_fd"]
       \/ /\ loc' = [loc EXCEPT ![p] = Start]
          /\ UNCHANGED data
    /\ UNCHANGED <<fd, p_rpos, p_wpos, p_buf, got, sched>>

DupFd(p) ==
    /\ At(p, "dup_fd")
    /\ \/ /\ fd' = [fd EXCEPT ![p][loc[p].to] = fd[p][loc[p].n]]
          /\ loc' = [loc EXCEPT ![p] = Start]
       \/ /\ loc' = [loc EXCEPT ![p] = [Start EXCEPT !.pc = "unmap_data", !.n = loc[p].to]]
          /\ UNCHANGED fd
    /\ UNCHANGED <<data, p_rpos, p_wpos, p_buf, got, sched>>

-----------------------------------------------------------------------------
(* fork copies the mappings page by page in the order of their addresses:  *)
(* the Fd pages (at FDTABLE) before the data pages (at FILEDATA).          *)

Below(x, y) == (x[1] = "fd" /\ y[1] = "data") \/ (x[1] = y[1] /\ x[2] <= y[2])

Fork(p, c) ==
    /\ Ready(p)
    /\ env[c] = "NONE"
    /\ env' = [env EXCEPT ![c] = "NEW"]
    /\ loc' = [loc EXCEPT ![p] = [Start EXCEPT
                   !.pc = "fork", !.child = c,
                   !.todo = {<<"fd", n>> : n \in {n \in FdNum : fd[p][n] \in End}}
                            \cup {<<"data", n>> : n \in {n \in FdNum : data[p][n]}}]]
    /\ UNCHANGED <<shared, running, ticks>>

DupPage(p) ==
    LET c == loc[p].child
    IN  /\ At(p, "fork")
        /\ \E page \in loc[p].todo :
               /\ \A other \in loc[p].todo : Below(page, other)
               /\ loc' = [loc EXCEPT ![p].todo = @ \ {page}]
               /\ IF page[1] = "fd"
                  THEN fd' = [fd EXCEPT ![c][page[2]] = fd[p][page[2]]] /\ UNCHANGED data
                  ELSE data' = [data EXCEPT ![c][page[2]] = TRUE] /\ UNCHANGED fd
        /\ UNCHANGED <<p_rpos, p_wpos, p_buf, got, sched>>

StartChild(p) ==
    /\ At(p, "fork")
    /\ loc[p].todo = {}
    /\ env' = [env EXCEPT ![loc[p].child] = "LIVE"]
    /\ loc' = [loc EXCEPT ![p] = Start]
    /\ UNCHANGED <<shared, running, ticks>>

\* env_free: p exits, faults or traps as a zombie, or another process that
\* is between two calls destroys it while it is off the CPUs.
EnvFree(p) ==
    /\ env[p] = "LIVE"
    /\ p \in running \/ \E q \in Proc : Ready(q)
    /\ env' = [env EXCEPT ![p] = "DEAD"]
    /\ running' = running \ {p}
    /\ fd' = [fd EXCEPT ![p] = [n \in FdNum |-> Nothing]]
    /\ data' = [data EXCEPT ![p] = [n \in FdNum |-> FALSE]]
    /\ loc' = [loc EXCEPT ![p] = Start]
    /\ UNCHANGED <<p_rpos, p_wpos, p_buf, got, ticks>>

-----------------------------------------------------------------------------
(* The specification.  Init is what pipe() leaves: fd 0 reads, 1 writes.   *)

Init ==
    /\ fd = [p \in Proc |-> [n \in FdNum |->
                IF p = First /\ n = 0 THEN "R"
                ELSE IF p = First /\ n = 1 THEN "W" ELSE Nothing]]
    /\ data = [p \in Proc |-> [n \in FdNum |-> p = First /\ n \in {0, 1}]]
    /\ p_rpos = 0 /\ p_wpos = 0
    /\ p_buf = [k \in 0 .. PIPEBUFSIZ - 1 |-> Nothing]
    /\ got = Nothing
    /\ env = [p \in Proc |-> IF p = First THEN "LIVE" ELSE "NONE"]
    /\ running = {First}
    /\ ticks = MaxTicks
    /\ loc = [p \in Proc |-> Start]

\* The rest of a call once it has begun.
Continue(p) ==
    \/ SysYield(p)
    \/ ReadRefFd(p) \/ ReadRefPipe(p)
    \/ ReadTest(p) \/ ReadTake(p) \/ ReadInc(p)
    \/ WriteTest(p) \/ WriteByte(p)
    \/ UnmapData(p) \/ DupData(p) \/ DupFd(p)
    \/ DupPage(p) \/ StartChild(p)

Call(p) == \E n \in FdNum :
    \/ IsClosed(p, n)
    \/ Read(p, n, CallLen) \/ Write(p, n, CallLen)
    \/ Close(p, n)
    \/ \E to \in DupTo : Dup(p, n, to)

\* The programs under user/ fork while no other process has an end of the
\* pipe open that they have open themselves.
OwnsItsEnds(p) ==
    \A q \in Proc \ {p} : \A n, m \in FdNum : fd[p][n] \in End => fd[q][m] # fd[p][n]

ForkSafely(p) == OwnsItsEnds(p) /\ \E c \in Proc : Fork(p, c)

Common(p) == Resume(p) \/ Tick(p) \/ IdleTick(p) \/ EnvFree(p) \/ Continue(p) \/ Call(p)

Next == \E p \in Proc : Common(p) \/ ForkSafely(p)

NextAny == \E p \in Proc : Common(p) \/ \E c \in Proc : Fork(p, c)

Spec == Init /\ [][Next]_vars

\* fork at any time.
SpecAny == Init /\ [][NextAny]_vars

\* A process on a CPU goes on, the timer ends its turn again and again, and
\* each process gets a CPU again and again.
Fairness ==
    \A p \in Proc : WF_vars(Continue(p)) /\ SF_vars(IdleTick(p)) /\ SF_vars(Resume(p))

FairSpec == Spec /\ Fairness

-----------------------------------------------------------------------------
(* Properties.                                                             *)

\* Types, and the ring buffer never holds more than it has room for.
TypeOK ==
    /\ fd \in [Proc -> [FdNum -> End \cup {Nothing}]]
    /\ data \in [Proc -> [FdNum -> BOOLEAN]]
    /\ p_rpos \in Nat /\ p_wpos \in Nat
    /\ p_wpos - p_rpos \in 0 .. PIPEBUFSIZ
    /\ p_buf \in [0 .. PIPEBUFSIZ - 1 -> Nat \cup {Nothing}]
    /\ got \in Nat \cup {Nothing}
    /\ env \in [Proc -> {"NONE", "NEW", "LIVE", "DEAD"}]
    /\ running \in SUBSET {p \in Proc : env[p] = "LIVE"}
    /\ Cardinality(running) <= NCPU
    /\ \A p \in Proc : loc[p].pc \in Pc

\* The struct Pipe has at least as many references as both ends together,
\* whatever close or dup is under way: this is what _pipeisclosed relies on
\* when it takes equality with one end for the absence of the other.  Only
\* fork breaks it, until the child is complete.
PipeRefsCoverEnds ==
    (\A p \in Proc : env[p] # "NEW") => RefPipe >= RefFd("R") + RefFd("W")

\* testpiperace2.c calls "RACE: pipe appears closed" what must not happen: a
\* call finds the other end closed only if no live process has it open.  (A
\* child whose parent died inside fork has pages of the pipe for ever, but
\* never runs.)
ClosedMeansClosed ==
    \A p \in Proc : loc[p].pc = "closed" /\ fd[p][loc[p].n] \in End =>
        \A q \in Proc, n \in FdNum : env[q] = "LIVE" => fd[q][n] # Other(fd[p][loc[p].n])

\* pipe.c: "pipe is empty", "if all the writers are gone, note eof": a read
\* reports the end of the file only if every byte has been taken out.
EofMeansDrained ==
    \A p \in Proc : loc[p].pc = "closed" /\ loc[p].call = "read" => p_rpos = p_wpos

\* A call that waits for an end that no process has open any more returns.
Waiting(p) == loc[p].pc \notin Idle /\ loc[p].call \in {"read", "write", "isclosed"}

WaitingForNobody(p) == Waiting(p) /\ RefFd(Other(fd[p][loc[p].n])) = 0

CallsReturn == \A p \in Proc : WaitingForNobody(p) ~> ~Waiting(p)

=============================================================================
