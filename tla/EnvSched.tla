------------------------------ MODULE EnvSched ------------------------------
(***************************************************************************)
(* Environments (processes) and CPUs of the JOS kernel in                  *)
(* src/solutions/fed/lab5: the environment table and its free list         *)
(* (kern/env.c), the round-robin scheduler (kern/sched.c), trap entry and  *)
(* return under the big kernel lock (kern/trap.c, kern/spinlock.c), and    *)
(* every system call that changes the status of an environment             *)
(* (kern/syscall.c).                                                       *)
(*                                                                         *)
(* A CPU runs kernel code only while it holds kernel_lock, so one handler  *)
(* (from the point where the lock is held to the unlock in env_run or      *)
(* sched_halt) is one step.  Trap entry, the spin for the lock, the        *)
(* interval between unlock and iret, and the halt are steps of their own,  *)
(* because the other CPUs run handlers in between.                         *)
(*                                                                         *)
(* Abstracted: trap frames, address spaces, the IPC payload                *)
(* (env_ipc_from/value/perm/dstva), env_runs, env_type.                    *)
(***************************************************************************)
EXTENDS Integers, Sequences, FiniteSets

CONSTANTS
    NENV,      \* number of environment slots (inc/env.h: 1 << LOG2NENV)
    MaxGen,    \* largest generation of an env_id (2^19 - 1 with 32-bit ids)
    NBOOT,     \* environments the kernel creates at boot (fs and icode)
    CPUs,      \* the processors
    Bsp,       \* the processor that runs i386_init
    NoEnv,     \* the null struct Env *
    NoCpu      \* the owner of a free kernel_lock

Slot == 0 .. NENV - 1

ASSUME NENVAssumption == NENV \in Nat \ {0}
ASSUME MaxGenAssumption == MaxGen \in Nat \ {0}
ASSUME NBOOTAssumption == NBOOT \in 1 .. NENV
ASSUME BspAssumption == Bsp \in CPUs
ASSUME NoEnvAssumption == NoEnv \notin Slot
ASSUME NoCpuAssumption == NoCpu \notin CPUs

VARIABLES
    env_status,       \* envs[e].env_status
    env_id,           \* envs[e].env_id, kept while the slot is free
    env_parent_id,    \* envs[e].env_parent_id
    env_ipc_recving,  \* envs[e].env_ipc_recving
    env_free_list,    \* the list env_free_list -> env_link -> ...
    cpu_env,          \* cpus[c].cpu_env, the CPU's curenv
    cpu_status,       \* cpus[c].cpu_status
    kernel_lock,      \* the CPU holding the big kernel lock, or NoCpu
    pc                \* where the CPU is, see Pc

envTable == <<env_status, env_id, env_parent_id, env_ipc_recving, env_free_list>>
cpuState == <<cpu_env, cpu_status, kernel_lock, pc>>
vars == <<envTable, cpuState>>

Status == {"FREE", "DYING", "RUNNABLE", "RUNNING", "NOT_RUNNABLE"}

\* boot:    in i386_init, holding the lock
\* spin:    in spin_lock; came from user mode iff cpu_env # NoEnv
\* kern:    in trap or sched_yield, holding the lock
\* iret:    env_run released the lock, env_pop_tf restores the registers
\* user:    running its environment
\* halt:    in the hlt of sched_halt
\* monitor: in the kernel monitor, which has no command that leaves it
Pc == {"boot", "spin", "kern", "iret", "user", "halt", "monitor"}
Locked == {"boot", "kern", "monitor"}
Alive == {"RUNNABLE", "RUNNING", "DYING"}
OnCpu == {"RUNNING", "DYING"}

ENVX(id) == id % NENV

-----------------------------------------------------------------------------
(* The environment table.                                                  *)

\* The environment that envid names for the caller running on c, or NoEnv
\* for -E_BAD_ENV.
Envid2Env(c, envid, checkperm) ==
    IF envid = 0 THEN cpu_env[c]
    ELSE LET e == ENVX(envid)
         IN  IF /\ env_status[e] # "FREE"
                /\ env_id[e] = envid
                /\ checkperm => \/ e = cpu_env[c]
                                \/ env_parent_id[e] = env_id[cpu_env[c]]
             THEN e ELSE NoEnv

NewEnvIdNegative(e) ==                     \* mutant: the id may turn negative
    LET next == env_id[e] \div NENV + 1
    IN  (IF next > MaxGen THEN 0 - MaxGen ELSE next) * NENV + e

\* The id env_alloc gives the next environment of slot e: the generation
\* after the slot's last one, back to 1 where a 32-bit id turns negative.
NewEnvId(e) ==
    LET next == env_id[e] \div NENV + 1
        generation == IF next > MaxGen THEN 1 ELSE next
    IN  generation * NENV + e

\* env_alloc, but for env_status: the callers pass AllocStatus on.
EnvAlloc(parent) ==
    /\ env_free_list # <<>>
    /\ LET e == Head(env_free_list)
       IN  /\ env_id' = [env_id EXCEPT ![e] = NewEnvId(e)]
           /\ env_parent_id' = [env_parent_id EXCEPT ![e] = parent]
           /\ env_ipc_recving' = [env_ipc_recving EXCEPT ![e] = FALSE]
    /\ env_free_list' = Tail(env_free_list)

AllocStatus(status) == [env_status EXCEPT ![Head(env_free_list)] = status]

\* env_free, but for env_status.
EnvFreeLeaks(e) ==                         \* mutant: the slot is lost
    UNCHANGED <<env_id, env_parent_id, env_ipc_recving, env_free_list>>

EnvFree(e) == /\ env_free_list' = <<e>> \o env_free_list
              /\ UNCHANGED <<env_id, env_parent_id, env_ipc_recving>>

-----------------------------------------------------------------------------
(* The scheduler.  st is env_status and cur is curenv as the handler has   *)
(* left them when it calls the operator; each sets the scheduler's share   *)
(* of the next state: env_status, cpu_env, cpu_status, kernel_lock and pc. *)

Owns(st, cur) == cur # NoEnv /\ st[cur] = "RUNNING"

EnvRun(c, st, cur, e) ==
    /\ env_status' = [s \in Slot |-> IF s = e THEN "RUNNING"
                                     ELSE IF s = cur /\ Owns(st, cur) THEN "RUNNABLE"
                                     ELSE st[s]]
    /\ cpu_env' = [cpu_env EXCEPT ![c] = e]
    /\ kernel_lock' = NoCpu
    /\ pc' = [pc EXCEPT ![c] = "iret"]
    /\ UNCHANGED cpu_status

SchedHaltAlways(c, st, cur) ==             \* mutant: no monitor
    /\ env_status' = st
    /\ cpu_env' = [cpu_env EXCEPT ![c] = NoEnv]
    /\ cpu_status' = [cpu_status EXCEPT ![c] = "HALTED"]
    /\ kernel_lock' = NoCpu
    /\ pc' = [pc EXCEPT ![c] = "halt"]

SchedHalt(c, st, cur) ==
    /\ env_status' = st
    /\ IF \A e \in Slot : st[e] \notin Alive
       THEN /\ cpu_env' = [cpu_env EXCEPT ![c] = cur]
            /\ pc' = [pc EXCEPT ![c] = "monitor"]
            /\ UNCHANGED <<cpu_status, kernel_lock>>
       ELSE /\ cpu_env' = [cpu_env EXCEPT ![c] = NoEnv]
            /\ cpu_status' = [cpu_status EXCEPT ![c] = "HALTED"]
            /\ kernel_lock' = NoCpu
            /\ pc' = [pc EXCEPT ![c] = "halt"]

\* The slot sched_yield looks at in its i-th probe.
Probe(cur, i) == ((IF cur = NoEnv THEN 0 ELSE ENVX(env_id[cur])) + i) % NENV

ReadyOrRunning(st, e) == st[e] \in {"RUNNABLE", "RUNNING"}   \* mutant

Ready(st, e) == st[e] = "RUNNABLE"

SchedYieldSticky(c, st, cur) ==            \* mutant: looks at curenv first
    LET hits == {i \in 1 .. NENV : Ready(st, Probe(cur, i))}
    IN  \/ Owns(st, cur) /\ EnvRun(c, st, cur, cur)
        \/ ~Owns(st, cur) /\ \E i \in hits : /\ \A j \in hits : i <= j
                                              /\ EnvRun(c, st, cur, Probe(cur, i))
        \/ ~Owns(st, cur) /\ hits = {} /\ SchedHalt(c, st, cur)

SchedYield(c, st, cur) ==
    LET hits == {i \in 1 .. NENV : Ready(st, Probe(cur, i))}
    IN  \/ \E i \in hits : /\ \A j \in hits : i <= j
                           /\ EnvRun(c, st, cur, Probe(cur, i))
        \/ hits = {} /\ Owns(st, cur) /\ EnvRun(c, st, cur, cur)
        \/ hits = {} /\ ~Owns(st, cur) /\ SchedHalt(c, st, cur)

\* The tail of trap, after trap_dispatch has left the statuses st.
TrapReturn(c, st) ==
    IF Owns(st, cpu_env[c])
    THEN EnvRun(c, st, cpu_env[c], cpu_env[c])
    ELSE SchedYield(c, st, cpu_env[c])

EnvDestroyNow(c, e) ==                     \* mutant: no zombies
    /\ EnvFree(e)
    /\ IF cpu_env[c] = e
       THEN SchedYield(c, [env_status EXCEPT ![e] = "FREE"], NoEnv)
       ELSE TrapReturn(c, [env_status EXCEPT ![e] = "FREE"])

\* env_destroy(e) called from a handler on c, to the end of that handler.
EnvDestroy(c, e) ==
    \/ /\ env_status[e] = "RUNNING"
       /\ cpu_env[c] # e
       /\ UNCHANGED <<env_id, env_parent_id, env_ipc_recving, env_free_list>>
       /\ TrapReturn(c, [env_status EXCEPT ![e] = "DYING"])
    \/ /\ env_status[e] # "RUNNING"
       /\ cpu_env[c] # e
       /\ EnvFree(e)
       /\ TrapReturn(c, [env_status EXCEPT ![e] = "FREE"])
    \/ /\ cpu_env[c] = e
       /\ EnvFree(e)
       /\ SchedYield(c, [env_status EXCEPT ![e] = "FREE"], NoEnv)

-----------------------------------------------------------------------------
(* Steps of a CPU that need no lock.                                       *)

TrapEnterHalted(c) ==                      \* mutant: cpu_status is not reset
    /\ pc[c] \in {"user", "halt"}
    /\ pc' = [pc EXCEPT ![c] = "spin"]
    /\ UNCHANGED <<envTable, cpu_env, cpu_status, kernel_lock>>

\* trap, up to the spin for the lock: an interrupt, exception or system
\* call in user mode, or an interrupt that ends the hlt of sched_halt.
TrapEnter(c) ==
    /\ pc[c] \in {"user", "halt"}
    /\ cpu_status' = [cpu_status EXCEPT ![c] = "STARTED"]
    /\ pc' = [pc EXCEPT ![c] = "spin"]
    /\ UNCHANGED <<envTable, cpu_env, kernel_lock>>

AcquireLock(c) ==
    /\ pc[c] = "spin"
    /\ kernel_lock = NoCpu
    /\ kernel_lock' = c
    /\ pc' = [pc EXCEPT ![c] = "kern"]
    /\ UNCHANGED <<envTable, cpu_env, cpu_status>>

PopTf(c) ==
    /\ pc[c] = "iret"
    /\ pc' = [pc EXCEPT ![c] = "user"]
    /\ UNCHANGED <<envTable, cpu_env, cpu_status, kernel_lock>>

\* The monitor reads commands for ever, interrupts disabled, lock held.
MonitorLoop(c) == pc[c] = "monitor" /\ UNCHANGED vars

-----------------------------------------------------------------------------
(* Boot: i386_init creates NBOOT environments, then schedules.             *)

BootCreate(c) ==
    /\ pc[c] = "boot"
    /\ env_id[NBOOT - 1] = 0
    /\ EnvAlloc(0)
    /\ env_status' = AllocStatus("RUNNABLE")
    /\ UNCHANGED cpuState

BootYield(c) ==
    /\ pc[c] = "boot"
    /\ env_id[NBOOT - 1] # 0
    /\ SchedYield(c, env_status, NoEnv)
    /\ UNCHANGED <<env_id, env_parent_id, env_ipc_recving, env_free_list>>

-----------------------------------------------------------------------------
(* Handlers: what trap does once it holds the lock.                        *)

\* A CPU without an environment: an AP in mp_main, or one woken from hlt.
Wake(c) ==
    /\ pc[c] = "kern"
    /\ cpu_env[c] = NoEnv
    /\ SchedYield(c, env_status, NoEnv)
    /\ UNCHANGED <<env_id, env_parent_id, env_ipc_recving, env_free_list>>

ReapZombie(c) ==
    /\ pc[c] = "kern"
    /\ cpu_env[c] # NoEnv
    /\ env_status[cpu_env[c]] = "DYING"
    /\ EnvFree(cpu_env[c])
    /\ SchedYield(c, [env_status EXCEPT ![cpu_env[c]] = "FREE"], NoEnv)

ServesZombie(c) == pc[c] = "kern" /\ cpu_env[c] # NoEnv   \* mutant: no zombie check

\* trap goes on to trap_dispatch for the environment of c.
Serves(c) == pc[c] = "kern" /\ cpu_env[c] # NoEnv /\ env_status[cpu_env[c]] # "DYING"

\* A handler that leaves the environment table as it is: an error return,
\* a page fault with an upcall, a device interrupt, a page system call, ...
NoChange(c) ==
    /\ UNCHANGED <<env_id, env_parent_id, env_ipc_recving, env_free_list>>
    /\ TrapReturn(c, env_status)

ReturnToUser(c) == Serves(c) /\ NoChange(c)

\* The timer interrupt and sys_yield.
Yield(c) ==
    /\ Serves(c)
    /\ SchedYield(c, env_status, cpu_env[c])
    /\ UNCHANGED <<env_id, env_parent_id, env_ipc_recving, env_free_list>>

Breakpoint(c) ==
    /\ Serves(c)
    /\ pc' = [pc EXCEPT ![c] = "monitor"]
    /\ UNCHANGED <<envTable, cpu_env, cpu_status, kernel_lock>>

\* An unexpected trap, a page fault without an upcall or with a bad
\* exception stack, a bad pointer given to sys_cputs.
Fault(c) == Serves(c) /\ EnvDestroy(c, cpu_env[c])

SysEnvDestroy(c, envid) ==
    LET e == Envid2Env(c, envid, TRUE)
    IN  Serves(c) /\ IF e = NoEnv THEN NoChange(c) ELSE EnvDestroy(c, e)

\* user_mem_assert destroys the target, not the caller, on a bad pointer.
SysEnvSetTrapframe(c, envid) ==
    LET e == Envid2Env(c, envid, TRUE)
    IN  Serves(c) /\ (NoChange(c) \/ (e # NoEnv /\ EnvDestroy(c, e)))

\* env_alloc fails without a free slot, or without memory at any time.
SysExofork(c) ==
    /\ Serves(c)
    /\ \/ NoChange(c)
       \/ /\ EnvAlloc(env_id[cpu_env[c]])
          /\ TrapReturn(c, AllocStatus("NOT_RUNNABLE"))

SysEnvSetStatus(c, envid, status) ==
    LET e == Envid2Env(c, envid, TRUE)
    IN  /\ Serves(c)
        /\ IF e = NoEnv \/ status \notin {"RUNNABLE", "NOT_RUNNABLE"}
           THEN NoChange(c)
           ELSE /\ UNCHANGED <<env_id, env_parent_id, env_ipc_recving, env_free_list>>
                /\ TrapReturn(c, [env_status EXCEPT ![e] = status])

SysIpcTrySendAgain(c, envid) ==            \* mutant: env_ipc_recving is kept
    LET e == Envid2Env(c, envid, FALSE)
    IN  /\ Serves(c)
        /\ e # NoEnv
        /\ env_ipc_recving[e]
        /\ UNCHANGED <<env_id, env_parent_id, env_ipc_recving, env_free_list>>
        /\ TrapReturn(c, [env_status EXCEPT ![e] = "RUNNABLE"])

\* The page part of the send can fail: then nothing changes.
SysIpcTrySend(c, envid) ==
    LET e == Envid2Env(c, envid, FALSE)
    IN  /\ Serves(c)
        /\ \/ NoChange(c)
           \/ /\ e # NoEnv
              /\ env_ipc_recving[e]
              /\ env_ipc_recving' = [env_ipc_recving EXCEPT ![e] = FALSE]
              /\ UNCHANGED <<env_id, env_parent_id, env_free_list>>
              /\ TrapReturn(c, [env_status EXCEPT ![e] = "RUNNABLE"])

\* -E_INVAL on a misaligned address, else the caller blocks.
SysIpcRecv(c) ==
    /\ Serves(c)
    /\ \/ NoChange(c)
       \/ /\ env_ipc_recving' = [env_ipc_recving EXCEPT ![cpu_env[c]] = TRUE]
          /\ UNCHANGED <<env_id, env_parent_id, env_free_list>>
          /\ TrapReturn(c, [env_status EXCEPT ![cpu_env[c]] = "NOT_RUNNABLE"])

-----------------------------------------------------------------------------
(* The specification.  At power-up the BSP holds the lock in i386_init and *)
(* the APs wait for it in mp_main.                                         *)

Init ==
    /\ env_status = [e \in Slot |-> "FREE"]
    /\ env_id = [e \in Slot |-> 0]
    /\ env_parent_id = [e \in Slot |-> 0]
    /\ env_ipc_recving = [e \in Slot |-> FALSE]
    /\ env_free_list = [i \in 1 .. NENV |-> i - 1]
    /\ cpu_env = [c \in CPUs |-> NoEnv]
    /\ cpu_status = [c \in CPUs |-> "STARTED"]
    /\ kernel_lock = Bsp
    /\ pc = [c \in CPUs |-> IF c = Bsp THEN "boot" ELSE "spin"]

\* The ids a system call may be given: one's own as 0, any slot's latest id
\* (dead or alive), and one that was never handed out.  All other ids fail
\* in envid2env as that one does.
EnvIds == {0, (MaxGen + 1) * NENV} \cup {env_id[e] : e \in Slot}

\* What the kernel does on its own behalf.
KernelStep(c) ==
    \/ BootCreate(c) \/ BootYield(c)
    \/ Wake(c) \/ ReapZombie(c)
    \/ ReturnToUser(c) \/ Yield(c)
    \/ Breakpoint(c) \/ Fault(c)

\* System calls any environment may make at any time.
FreeCall(c) ==
    \/ SysExofork(c)
    \/ SysIpcRecv(c)
    \/ \E envid \in EnvIds : SysIpcTrySend(c, envid)

\* The other two kinds are used by lib/fork.c, lib/spawn.c, lib/exit.c and
\* the programs under user/ only in this way: an environment starts a child
\* that exofork has just created, and destroys a child at most once.
StartsNewChild(c, envid) ==
    LET e == Envid2Env(c, envid, TRUE)
    IN  IF e \in {NoEnv, cpu_env[c]} THEN TRUE
        ELSE env_status[e] = "NOT_RUNNABLE" /\ ~env_ipc_recving[e]

DestroysOnce(c, envid) ==
    LET e == Envid2Env(c, envid, TRUE)
    IN  IF e = NoEnv THEN TRUE ELSE env_status[e] # "DYING"

LibraryCall(c) ==
    /\ Serves(c)
    /\ \E envid \in EnvIds :
           \/ /\ StartsNewChild(c, envid)
              /\ \E status \in {"RUNNABLE", "NOT_RUNNABLE", "DYING"} :
                     SysEnvSetStatus(c, envid, status)
           \/ /\ DestroysOnce(c, envid)
              /\ SysEnvDestroy(c, envid) \/ SysEnvSetTrapframe(c, envid)

\* The same calls made with any argument at any time.
AnyCall(c) ==
    \E envid \in EnvIds :
        \/ \E status \in {"RUNNABLE", "NOT_RUNNABLE", "DYING"} :
               SysEnvSetStatus(c, envid, status)
        \/ SysEnvDestroy(c, envid)
        \/ SysEnvSetTrapframe(c, envid)

CpuStep(c) == TrapEnter(c) \/ AcquireLock(c) \/ PopTf(c) \/ MonitorLoop(c)

Next == \E c \in CPUs : CpuStep(c) \/ KernelStep(c) \/ FreeCall(c) \/ LibraryCall(c)

NextAny == \E c \in CPUs : CpuStep(c) \/ KernelStep(c) \/ FreeCall(c) \/ AnyCall(c)

Spec == Init /\ [][Next]_vars

SpecAny == Init /\ [][NextAny]_vars

\* CPUs run; the lock is passed on to each CPU that spins for it again and
\* again; the periodic timer interrupts user code again and again.
Fairness ==
    \A c \in CPUs :
        /\ WF_vars(TrapEnter(c)) /\ WF_vars(PopTf(c))
        /\ WF_vars(KernelStep(c))
        /\ SF_vars(AcquireLock(c))
        /\ SF_vars(Yield(c))

FairSpec == Spec /\ Fairness

-----------------------------------------------------------------------------
(* Properties.                                                             *)

\* Every variable stays in the range of its C type.
TypeOK ==
    /\ env_status \in [Slot -> Status]
    /\ env_id \in [Slot -> Nat]
    /\ env_parent_id \in [Slot -> Nat]
    /\ env_ipc_recving \in [Slot -> BOOLEAN]
    /\ env_free_list \in Seq(Slot)
    /\ cpu_env \in [CPUs -> Slot \cup {NoEnv}]
    /\ cpu_status \in [CPUs -> {"STARTED", "HALTED"}]
    /\ kernel_lock \in CPUs \cup {NoCpu}
    /\ pc \in [CPUs -> Pc]

\* sched.c: "Never choose an environment that's currently running on
\* another CPU": no environment is curenv of two CPUs.
NoDoubleRun ==
    \A c, d \in CPUs : cpu_env[c] # NoEnv /\ cpu_env[c] = cpu_env[d] => c = d

\* The statuses and the curenv pointers agree.  The environment a CPU runs
\* or traps for is RUNNING, or DYING when another CPU has destroyed it, so
\* its slot and page tables are never freed under the CPU; and every such
\* environment has a CPU, so that a zombie has somebody to reap it.
CurenvIsOnCpu ==
    \A c \in CPUs : cpu_env[c] # NoEnv /\ pc[c] # "monitor"
                        => env_status[cpu_env[c]] \in OnCpu

OnCpuIsCurenv ==
    \A e \in Slot : env_status[e] \in OnCpu => \E c \in CPUs : cpu_env[c] = e

StatusMatchesCpus == CurenvIsOnCpu /\ OnCpuIsCurenv

\* env_free_list holds each FREE slot exactly once and no other: no slot
\* is leaked, and none is handed out twice.
FreeListExact ==
    /\ \A e \in Slot : env_status[e] = "FREE"
                           <=> \E i \in 1 .. Len(env_free_list) : env_free_list[i] = e
    /\ \A i, j \in 1 .. Len(env_free_list) :
           env_free_list[i] = env_free_list[j] => i = j

\* An environment that waits in sys_ipc_recv stays off the CPUs until a
\* sender has cleared env_ipc_recving.
ReceiverBlocked ==
    \A e \in Slot : env_ipc_recving[e] => env_status[e] \in {"NOT_RUNNABLE", "FREE"}

\* The big kernel lock: its owner is the one CPU in kernel code, and
\* cpu_status tells trap correctly whether it must take the lock on behalf
\* of a halted CPU.
LockDiscipline ==
    /\ \A c \in CPUs : pc[c] \in Locked <=> kernel_lock = c
    /\ \A c \in CPUs : cpu_status[c] = "HALTED" <=> pc[c] = "halt"
    /\ \A c \in CPUs : pc[c] \in {"user", "iret"} => cpu_env[c] # NoEnv
    /\ \A c \in CPUs : pc[c] \in {"boot", "halt"} => cpu_env[c] = NoEnv

\* sched_halt never puts the last awake CPU to sleep: with no environment
\* left to run it enters the monitor instead.
SomeCpuAwake == \E c \in CPUs : pc[c] # "halt"

\* The machine is frozen once a CPU is in the monitor.
Frozen == \E c \in CPUs : pc[c] = "monitor"

\* env.c: "A zombie environment will be freed the next time it traps to the
\* kernel": it traps, and is freed.
ZombieReaped ==
    \A e \in Slot : env_status[e] = "DYING" ~> (env_status[e] = "FREE" \/ Frozen)

\* The same comment as a step property: only the CPU that runs the zombie
\* frees it, and nothing brings a zombie back to life.
ZombieFreedByItsCpu ==
    [][\A e \in Slot : env_status[e] = "DYING" /\ env_status'[e] # "DYING" =>
           /\ env_status'[e] = "FREE"
           /\ \E c \in CPUs : cpu_env[c] = e /\ pc[c] = "kern" /\ cpu_env'[c] # e]_vars

\* Round robin: a runnable environment gets a CPU ...
Scheduled == \A e \in Slot : env_status[e] = "RUNNABLE" ~> (env_status[e] # "RUNNABLE" \/ Frozen)

\* ... as long as environments do not keep exiting.
Exit == \E e \in Slot : env_status[e] # "FREE" /\ env_status'[e] = "FREE"
ScheduledUnlessExits == (<>[][~Exit]_vars) => Scheduled

=============================================================================
