-------------------------------- MODULE Pmap --------------------------------
(***************************************************************************)
(* Physical pages and user address spaces of the JOS kernel in             *)
(* src/solutions/fed/lab5: the page allocator, reference counts and page   *)
(* tables (kern/pmap.c), the address space an environment is given and     *)
(* loses (env_setup_vm and env_free in kern/env.c), the system calls that  *)
(* map pages (kern/syscall.c), and the TLB of each CPU.                    *)
(*                                                                         *)
(* Every system call runs under the big kernel lock, so it is one step.    *)
(* Which environment runs where is reduced to what EnvSched shows: an      *)
(* environment runs on at most one CPU, and is freed by that CPU or while  *)
(* it runs on none.  A mapping is a page and its PTE_W bit; PTE_U and      *)
(* PTE_P are always set, and PTE_AVAIL bits are left out.                  *)
(***************************************************************************)
EXTENDS Integers, FiniteSets

CONSTANTS
    Page,       \* physical pages the allocator manages, and KernPage
    KernPage,   \* the page of the kernel's envs[] that is mapped at UTOP
    VA,         \* page-aligned addresses below UTOP, not 0
    PDX,        \* the page directory index of each address
    Env,        \* environment slots
    Boot,       \* the environment created at boot
    CPUs,
    MaxRef,     \* largest pp_ref, a uint16_t
    NoPage, NoPte, NoEnv, NotRecv,
    Zero,       \* the address 0
    UTOP        \* the address that says "no page" to sys_ipc_recv

ASSUME KernPageAssumption == KernPage \in Page
ASSUME PDXAssumption == PDX \in [VA -> Nat]
ASSUME BootAssumption == Boot \in Env
ASSUME MaxRefAssumption == MaxRef \in Nat \ {0}
ASSUME FiniteAssumption == IsFiniteSet(Env) /\ IsFiniteSet(VA)

VARIABLES
    mem,     \* allocator and page tables, see Memory
    est,     \* FREE, NEW (made by exofork, not started) or LIVE
    recv,    \* env_ipc_dstva while env_ipc_recving, else NotRecv
    cur,     \* the environment whose page directory is in the CPU's cr3
    tlb      \* per CPU, the mapping it has cached for each address

vars == <<mem, est, recv, cur, tlb>>

Index == {PDX[va] : va \in VA}
Pte == [page : Page, w : BOOLEAN]

ASSUME NoneAssumption == NoPage \notin Page /\ NoPte \notin Pte /\ NoEnv \notin Env

Memory ==
    [page_free_list : SUBSET Page,
     pp_ref : [Page -> 0 .. MaxRef],
     env_pgdir : [Env -> Page \cup {NoPage}],
     pde : [Env -> [Index -> Page \cup {NoPage}]],
     pte : [Env -> [VA -> Pte \cup {NoPte}]],
     kern_pte : Page]

NoTlb == [va \in VA |-> NoPte]

-----------------------------------------------------------------------------
(* kern/pmap.c, as functions of the memory m.  A page that page_alloc      *)
(* returns is a parameter, any element of page_free_list.                  *)

Count(m, p, n) == [m EXCEPT !.pp_ref[p] = n % (MaxRef + 1)]

PageFree(m, p) == [m EXCEPT !.page_free_list = @ \cup {p}]

PageDecref(m, p) ==
    LET counted == Count(m, p, m.pp_ref[p] - 1)
    IN  IF counted.pp_ref[p] = 0 THEN PageFree(counted, p) ELSE counted

\* The pages pgdir_walk with create may use for a new page table: none if
\* the table exists, and an empty set where it fails.
NewTables(m, e, va) ==
    IF m.pde[e][PDX[va]] # NoPage THEN {NoPage} ELSE m.page_free_list

PgdirWalkUncounted(m, e, va, table) ==     \* mutant: pp_ref of the table is 0
    IF table = NoPage THEN m
    ELSE [m EXCEPT !.page_free_list = @ \ {table}, !.pde[e][PDX[va]] = table]

PgdirWalk(m, e, va, table) ==
    IF table = NoPage THEN m
    ELSE [m EXCEPT !.page_free_list = @ \ {table},
                   !.pp_ref[table] = 1,
                   !.pde[e][PDX[va]] = table]

PageRemove(m, e, va) ==
    IF m.pte[e][va] = NoPte THEN m
    ELSE [PageDecref(m, m.pte[e][va].page) EXCEPT !.pte[e][va] = NoPte]

PageInsertLate(m, e, p, va, w, table) ==   \* mutant: counts after removing
    LET removed == PageRemove(PgdirWalk(m, e, va, table), e, va)
    IN  [Count(removed, p, removed.pp_ref[p] + 1)
            EXCEPT !.pte[e][va] = [page |-> p, w |-> w]]

PageInsert(m, e, p, va, w, table) ==
    LET walked == PgdirWalk(m, e, va, table)
        counted == Count(walked, p, walked.pp_ref[p] + 1)
    IN  [PageRemove(counted, e, va) EXCEPT !.pte[e][va] = [page |-> p, w |-> w]]

\* page_insert at UTOP: the page table there belongs to kern_pgdir and is
\* shared by every environment.
PageInsertUtop(m, p) ==
    LET counted == Count(m, p, m.pp_ref[p] + 1)
    IN  [PageDecref(counted, m.kern_pte) EXCEPT !.kern_pte = p]

EnvSetupVm(m, e, p) ==
    [Count(m, p, m.pp_ref[p] + 1)
        EXCEPT !.page_free_list = @ \ {p}, !.env_pgdir[e] = p]

\* The pointers to page p in the address space of e: its mappings, its page
\* tables, its page directory.
Pointers(m, e, p) ==
    {<<e, "pte", va>> : va \in {va \in VA : m.pte[e][va] # NoPte /\ m.pte[e][va].page = p}}
    \cup {<<e, "pde", x>> : x \in {x \in Index : m.pde[e][x] = p}}
    \cup (IF m.env_pgdir[e] = p THEN {<<e, "cr3", p>>} ELSE {})

DropPointers(m, e, lost) ==
    LET left == [p \in Page |-> (m.pp_ref[p] - Cardinality(lost[p])) % (MaxRef + 1)]
    IN  [m EXCEPT !.pp_ref = left,
                  !.page_free_list = @ \cup {p \in Page : lost[p] # {} /\ left[p] = 0},
                  !.pte[e] = [va \in VA |-> NoPte],
                  !.pde[e] = [x \in Index |-> NoPage],
                  !.env_pgdir[e] = NoPage]

EnvFreeKeepsTables(m, e) ==                \* mutant: page tables are not freed
    DropPointers(m, e, [p \in Page |->
                          Pointers(m, e, p) \ {<<e, "pde", x>> : x \in Index}])

\* env_free: page_remove for every mapping, page_decref for every table
\* and for the directory.
EnvFree(m, e) == DropPointers(m, e, [p \in Page |-> Pointers(m, e, p)])

-----------------------------------------------------------------------------
(* CPUs.  env_run loads cr3 each time the kernel is left, which empties    *)
(* the TLB of that CPU; the invlpg of tlb_invalidate happens on the same   *)
(* CPU within the same handler and adds nothing to it.                     *)

\* Back to the same environment.
Resume(c) == tlb' = [tlb EXCEPT ![c] = NoTlb] /\ UNCHANGED cur

\* Away from it.
Leave(c) == cur' = [cur EXCEPT ![c] = NoEnv] /\ tlb' = [tlb EXCEPT ![c] = NoTlb]

Running(e) == \E c \in CPUs : cur[c] = e

DispatchTwice(c, e) ==                     \* mutant: e may run elsewhere
    /\ cur[c] = NoEnv
    /\ est[e] = "LIVE" /\ recv[e] = NotRecv
    /\ cur' = [cur EXCEPT ![c] = e]
    /\ tlb' = [tlb EXCEPT ![c] = NoTlb]
    /\ UNCHANGED <<mem, est, recv>>

Dispatch(c, e) ==
    /\ cur[c] = NoEnv
    /\ est[e] = "LIVE" /\ recv[e] = NotRecv /\ ~Running(e)
    /\ cur' = [cur EXCEPT ![c] = e]
    /\ tlb' = [tlb EXCEPT ![c] = NoTlb]
    /\ UNCHANGED <<mem, est, recv>>

Preempt(c) == cur[c] # NoEnv /\ Leave(c) /\ UNCHANGED <<mem, est, recv>>

\* User code touches va: the MMU caches the mapping it finds.
Access(c, va) ==
    /\ cur[c] # NoEnv
    /\ tlb[c][va] = NoPte
    /\ mem.pte[cur[c]][va] # NoPte
    /\ tlb' = [tlb EXCEPT ![c][va] = mem.pte[cur[c]][va]]
    /\ UNCHANGED <<mem, est, recv, cur>>

-----------------------------------------------------------------------------
(* System calls of the environment cur[c].  But for sys_page_alloc, a call *)
(* that fails has touched nothing yet: Fail stands for all of them.        *)

Fail(c) == cur[c] # NoEnv /\ Resume(c) /\ UNCHANGED <<mem, est, recv>>

SysExofork(c) ==
    /\ cur[c] # NoEnv
    /\ \E e \in Env, p \in mem.page_free_list :
           /\ est[e] = "FREE"
           /\ mem' = EnvSetupVm(mem, e, p)
           /\ est' = [est EXCEPT ![e] = "NEW"]
    /\ Resume(c) /\ UNCHANGED recv

\* sys_env_set_status of a new child.
Start(c, e) ==
    /\ cur[c] # NoEnv
    /\ est[e] = "NEW"
    /\ est' = [est EXCEPT ![e] = "LIVE"]
    /\ Resume(c) /\ UNCHANGED <<mem, recv>>

SysPageAlloc(c, e, va, w) ==
    /\ cur[c] # NoEnv
    /\ \E p \in mem.page_free_list :
           LET taken == [mem EXCEPT !.page_free_list = @ \ {p}]
           IN  \/ \E table \in NewTables(taken, e, va) :
                      mem' = PageInsert(taken, e, p, va, w, table)
               \/ NewTables(taken, e, va) = {} /\ mem' = PageFree(taken, p)
    /\ Resume(c) /\ UNCHANGED <<est, recv>>

SysPageMapAnyPerm(c, src, srcva, dst, dstva, w) ==   \* mutant: PTE_W unchecked
    /\ cur[c] # NoEnv
    /\ mem.pte[src][srcva] # NoPte
    /\ \E table \in NewTables(mem, dst, dstva) :
           mem' = PageInsert(mem, dst, mem.pte[src][srcva].page, dstva, w, table)
    /\ Resume(c) /\ UNCHANGED <<est, recv>>

SysPageMap(c, src, srcva, dst, dstva, w) ==
    /\ cur[c] # NoEnv
    /\ mem.pte[src][srcva] # NoPte
    /\ w => mem.pte[src][srcva].w
    /\ \E table \in NewTables(mem, dst, dstva) :
           mem' = PageInsert(mem, dst, mem.pte[src][srcva].page, dstva, w, table)
    /\ Resume(c) /\ UNCHANGED <<est, recv>>

SysPageUnmap(c, e, va) ==
    /\ cur[c] # NoEnv
    /\ mem' = PageRemove(mem, e, va)
    /\ Resume(c) /\ UNCHANGED <<est, recv>>

SysIpcRecv(c, dstva) ==
    /\ cur[c] # NoEnv
    /\ recv' = [recv EXCEPT ![cur[c]] = dstva]
    /\ Leave(c) /\ UNCHANGED <<mem, est>>

\* The value alone, or to a receiver that passed the address 0.
SysIpcTrySendValue(c, e) ==
    /\ cur[c] # NoEnv
    /\ recv[e] # NotRecv
    /\ recv' = [recv EXCEPT ![e] = NotRecv]
    /\ Resume(c) /\ UNCHANGED <<mem, est>>

\* With the page at srcva: the test is "if (env->env_ipc_dstva)".
SysIpcTrySendPage(c, e, srcva, w) ==
    LET from == mem.pte[cur[c]][srcva]
        dstva == recv[e]
    IN  /\ cur[c] # NoEnv
        /\ dstva # NotRecv
        /\ from # NoPte
        /\ w => from.w
        /\ \/ dstva = Zero /\ UNCHANGED mem
           \/ dstva = UTOP /\ mem' = PageInsertUtop(mem, from.page)
           \/ /\ dstva \in VA
              /\ \E table \in NewTables(mem, e, dstva) :
                     mem' = PageInsert(mem, e, from.page, dstva, w, table)
        /\ recv' = [recv EXCEPT ![e] = NotRecv]
        /\ Resume(c) /\ UNCHANGED est

\* sys_env_destroy of oneself, a fault, or a zombie that traps.
Exit(c) ==
    /\ cur[c] # NoEnv
    /\ mem' = EnvFree(mem, cur[c])
    /\ est' = [est EXCEPT ![cur[c]] = "FREE"]
    /\ Leave(c) /\ UNCHANGED recv

DestroyRunning(c, e) ==                    \* mutant: no zombies
    /\ cur[c] # NoEnv
    /\ est[e] # "FREE" /\ cur[c] # e
    /\ mem' = EnvFree(mem, e)
    /\ est' = [est EXCEPT ![e] = "FREE"]
    /\ recv' = [recv EXCEPT ![e] = NotRecv]
    /\ Resume(c)

\* sys_env_destroy of an environment that runs nowhere.
Destroy(c, e) ==
    /\ cur[c] # NoEnv
    /\ est[e] # "FREE" /\ ~Running(e)
    /\ mem' = EnvFree(mem, e)
    /\ est' = [est EXCEPT ![e] = "FREE"]
    /\ recv' = [recv EXCEPT ![e] = NotRecv]
    /\ Resume(c)

-----------------------------------------------------------------------------
(* The specification.                                                      *)

Init ==
    /\ \E p \in Page \ {KernPage} :
           mem = EnvSetupVm([page_free_list |-> Page \ {KernPage},
                             pp_ref |-> [q \in Page |-> IF q = KernPage THEN 1 ELSE 0],
                             env_pgdir |-> [e \in Env |-> NoPage],
                             pde |-> [e \in Env |-> [x \in Index |-> NoPage]],
                             pte |-> [e \in Env |-> [va \in VA |-> NoPte]],
                             kern_pte |-> KernPage], Boot, p)
    /\ est = [e \in Env |-> IF e = Boot THEN "LIVE" ELSE "FREE"]
    /\ recv = [e \in Env |-> NotRecv]
    /\ cur = [c \in CPUs |-> NoEnv]
    /\ tlb = [c \in CPUs |-> NoTlb]

CpuStep(c) ==
    \/ \E e \in Env : Dispatch(c, e)
    \/ Preempt(c)
    \/ \E va \in VA : Access(c, va)

LifeCall(c) ==
    \/ Fail(c)
    \/ SysExofork(c)
    \/ Exit(c)
    \/ \E e \in Env : Start(c, e) \/ Destroy(c, e)

IpcCall(c) ==
    \/ \E dstva \in VA \cup {Zero, UTOP} : SysIpcRecv(c, dstva)
    \/ \E e \in Env : SysIpcTrySendValue(c, e)
    \/ \E e \in Env, srcva \in VA, w \in BOOLEAN :
           recv[e] # UTOP /\ SysIpcTrySendPage(c, e, srcva, w)

PageCall(c, target) ==
    \E e \in target, va \in VA, w \in BOOLEAN :
        \/ SysPageAlloc(c, e, va, w)
        \/ SysPageUnmap(c, e, va)
        \/ \E src \in target, srcva \in VA : SysPageMap(c, src, srcva, e, va, w)

\* lib/fork.c, lib/spawn.c and the programs change their own address space
\* or that of a child they have not started, and send a page only to a
\* receiver that asks for one.
OwnOrNew(c) == {e \in Env : e = cur[c] \/ est[e] = "NEW"}

Next == \E c \in CPUs : CpuStep(c) \/ LifeCall(c) \/ IpcCall(c) \/ PageCall(c, OwnOrNew(c))

\* The kernel also lets a parent change a running child, and a sender send
\* a page to a receiver that wants none.
Existing(c) == {e \in Env : est[e] # "FREE"}

SendUnwanted(c) ==
    \E e \in Env, srcva \in VA, w \in BOOLEAN :
        recv[e] = UTOP /\ SysIpcTrySendPage(c, e, srcva, w)

NextAny == \E c \in CPUs :
    CpuStep(c) \/ LifeCall(c) \/ IpcCall(c) \/ SendUnwanted(c) \/ PageCall(c, Existing(c))

Spec == Init /\ [][Next]_vars

SpecAny == Init /\ [][NextAny]_vars

-----------------------------------------------------------------------------
(* Properties.                                                             *)

\* Types, and only live environments run, at most on one CPU.
TypeOK ==
    /\ mem \in Memory
    /\ est \in [Env -> {"FREE", "NEW", "LIVE"}]
    /\ recv \in [Env -> VA \cup {Zero, UTOP, NotRecv}]
    /\ cur \in [CPUs -> Env \cup {NoEnv}]
    /\ tlb \in [CPUs -> [VA -> Pte \cup {NoPte}]]
    /\ \A c, d \in CPUs : cur[c] # NoEnv =>
           est[cur[c]] = "LIVE" /\ recv[cur[c]] = NotRecv /\ (cur[d] = cur[c] => c = d)

\* memlayout.h: "pp_ref is the count of pointers (usually in page table
\* entries) to this page": mappings, page tables and page directories.
RefsExact ==
    \A p \in Page :
        mem.pp_ref[p] = Cardinality(UNION {Pointers(mem, e, p) : e \in Env})
                       + (IF p = mem.kern_pte THEN 1 ELSE 0)

\* A page is on the free list iff nothing counts it: none is leaked by a
\* failing call or an exit, and none is handed out while it is mapped.
FreeExact == \A p \in Page : p \in mem.page_free_list <=> mem.pp_ref[p] = 0

\* No page that serves as a page table or directory is mapped in user
\* space, serves twice, or is free.
TablesPrivate ==
    \A e \in Env, p \in Page :
        p = mem.env_pgdir[e] \/ (\E x \in Index : mem.pde[e][x] = p) =>
            /\ mem.pp_ref[p] = 1
            /\ p \notin mem.page_free_list
            /\ \A f \in Env, va \in VA : mem.pte[f][va] # NoPte => mem.pte[f][va].page # p

\* pmap.c: "The TLB must be invalidated if a page was formerly present at
\* 'va'": what a CPU has cached for its environment is what the environment
\* has mapped.
TlbCoherent ==
    \A c \in CPUs, va \in VA :
        tlb[c][va] # NoPte => cur[c] # NoEnv /\ tlb[c][va] = mem.pte[cur[c]][va]

\* A page that is mapped, but nowhere writable, never becomes writable:
\* sys_page_map and sys_ipc_try_send only pass on the rights of the source.
Mapped(p, w) == \E e \in Env, va \in VA :
    mem.pte[e][va] # NoPte /\ mem.pte[e][va].page = p /\ (w => mem.pte[e][va].w)

ReadOnlyStaysReadOnly ==
    [][\A p \in Page : Mapped(p, FALSE) /\ ~Mapped(p, TRUE) => ~Mapped(p, TRUE)']_vars

\* syscall.c: "If the sender wants to send a page but the receiver isn't
\* asking for one, then no page mapping is transferred": above UTOP the
\* kernel's own mapping stays.
KernelMappingKept == mem.kern_pte = KernPage

=============================================================================
