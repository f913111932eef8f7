------------------------------- MODULE SmpBoot -------------------------------
(***************************************************************************)
(* How the CPUs start, in src/solutions/fed/lab5: i386_init and boot_aps   *)
(* on the boot CPU, mpentry.S and mp_main on the others (kern/init.c), and *)
(* the big kernel lock instruction by instruction (kern/spinlock.c, built  *)
(* with DEBUG_SPINLOCK), from the first sched_yield on through traps,      *)
(* env_run and sched_halt.                                                 *)
(*                                                                         *)
(* mp_main works without the lock until cpu_status is CPU_STARTED: on the  *)
(* stack that mpentry_kstack hands it, it maps its local APIC, and         *)
(* mmio_map_region keeps its next address in a static variable.  What the  *)
(* kernel does between lock and unlock is left to EnvSched; here it picks  *)
(* an environment or halts, and without environments enters the monitor.   *)
(***************************************************************************)
EXTENDS Integers

CONSTANT N                  \* ncpu; CPU 0 is the boot CPU
ASSUME NcpuAssumption == N \in Nat \ {0}

CPU == 0 .. N - 1
AP == CPU \ {0}
None == N                   \* no CPU, no stack, no region

VARIABLES
    pc,         \* where each CPU is
    back,       \* where it goes after spin_lock or spin_unlock
    locked, holder,         \* kernel_lock.locked and kernel_lock.cpu
    status,                 \* cpu_status
    mpentry_kstack, stack,  \* whose stack to use next, and the one in use
    base, seen, region,     \* mmio_map_region: the static, a copy of it, its result
    booting,    \* the loop variable of boot_aps
    created,    \* the first environments exist
    panic       \* a debugging check of the lock has failed

lockvars == <<locked, holder>>
bootvars == <<mpentry_kstack, stack, base, seen, region, booting, created>>
vars == <<pc, back, lockvars, status, bootvars, panic>>

Jump(c, label) == pc' = [pc EXCEPT ![c] = label]
At(c, label) == ~panic /\ pc[c] = label

Call(c, label, return) ==
    /\ Jump(c, label)
    /\ back' = [back EXCEPT ![c] = return]

Panic(c) ==
    /\ panic' = TRUE
    /\ Jump(c, "panic")

-----------------------------------------------------------------------------
(* spin_lock and spin_unlock.                                              *)

\* holding() reads the two fields one after the other.
LockHeld(c) ==
    /\ At(c, "lock")
    /\ Jump(c, IF locked THEN "lock_cpu" ELSE "xchg")
    /\ UNCHANGED <<back, lockvars, status, bootvars, panic>>

LockByMe(c) ==
    /\ At(c, "lock_cpu")
    /\ IF holder = c THEN Panic(c) ELSE Jump(c, "xchg") /\ UNCHANGED panic
    /\ UNCHANGED <<back, lockvars, status, bootvars>>

Xchg(c) ==
    /\ At(c, "xchg") /\ ~locked
    /\ locked' = TRUE
    /\ Jump(c, "record")
    /\ UNCHANGED <<back, holder, status, bootvars, panic>>

Record(c) ==
    /\ At(c, "record")
    /\ holder' = c
    /\ Jump(c, back[c])
    /\ UNCHANGED <<back, locked, status, bootvars, panic>>

UnlockCheckKeepsCpu(c) ==                       \* mutant: kernel_lock.cpu is not cleared
    /\ At(c, "unlock")
    /\ IF locked /\ holder = c THEN Jump(c, "release") /\ UNCHANGED panic ELSE Panic(c)
    /\ UNCHANGED <<back, lockvars, status, bootvars>>

UnlockCheck(c) ==
    /\ At(c, "unlock")
    /\ IF locked /\ holder = c THEN Jump(c, "clear") /\ UNCHANGED panic ELSE Panic(c)
    /\ UNCHANGED <<back, lockvars, status, bootvars>>

UnlockClear(c) ==
    /\ At(c, "clear")
    /\ holder' = None
    /\ Jump(c, "release")
    /\ UNCHANGED <<back, locked, status, bootvars, panic>>

UnlockRelease(c) ==
    /\ At(c, "release")
    /\ locked' = FALSE
    /\ Jump(c, back[c])
    /\ UNCHANGED <<back, holder, status, bootvars, panic>>

-----------------------------------------------------------------------------
(* The boot CPU.                                                           *)

InitLock ==
    /\ At(0, "init")
    /\ Call(0, "lock", "boot")
    /\ UNCHANGED <<lockvars, status, bootvars, panic>>

BootNextShort ==                                \* mutant: the last one is left out
    /\ At(0, "boot")
    /\ IF booting \in AP \ {N - 1}
         THEN mpentry_kstack' = booting /\ Jump(0, "startap")
         ELSE UNCHANGED mpentry_kstack /\ Jump(0, "create")
    /\ UNCHANGED <<back, lockvars, status, stack, base, seen, region, booting, created, panic>>

BootNext ==
    /\ At(0, "boot")
    /\ IF booting \in AP
         THEN mpentry_kstack' = booting /\ Jump(0, "startap")
         ELSE UNCHANGED mpentry_kstack /\ Jump(0, "create")
    /\ UNCHANGED <<back, lockvars, status, stack, base, seen, region, booting, created, panic>>

LapicStartap ==
    /\ At(0, "startap")
    /\ pc' = [pc EXCEPT ![0] = "wait", ![booting] = "entry"]
    /\ UNCHANGED <<back, lockvars, status, bootvars, panic>>

BootWaitNot ==                                  \* mutant: the next one is started at once
    /\ At(0, "wait")
    /\ booting' = booting + 1
    /\ Jump(0, "boot")
    /\ UNCHANGED <<back, lockvars, status, mpentry_kstack, stack, base, seen, region, created, panic>>

BootWait ==
    /\ At(0, "wait") /\ status[booting] = "STARTED"
    /\ booting' = booting + 1
    /\ Jump(0, "boot")
    /\ UNCHANGED <<back, lockvars, status, mpentry_kstack, stack, base, seen, region, created, panic>>

EnvCreate ==
    /\ At(0, "create")
    /\ created' = TRUE
    /\ Jump(0, "yield")
    /\ UNCHANGED <<back, lockvars, status, mpentry_kstack, stack, base, seen, region, booting, panic>>

-----------------------------------------------------------------------------
(* The others.                                                             *)

LoadStack(c) ==
    /\ At(c, "entry")
    /\ stack' = [stack EXCEPT ![c] = mpentry_kstack]
    /\ Jump(c, "mmio")
    /\ UNCHANGED <<back, lockvars, status, mpentry_kstack, base, seen, region, booting, created, panic>>

MmioRead(c) ==
    /\ At(c, "mmio")
    /\ seen' = [seen EXCEPT ![c] = base]
    /\ Jump(c, "mmio_add")
    /\ UNCHANGED <<back, lockvars, status, mpentry_kstack, stack, base, region, booting, created, panic>>

MmioAdd(c) ==
    /\ At(c, "mmio_add")
    /\ base' = seen[c] + 1
    /\ region' = [region EXCEPT ![c] = seen[c]]
    /\ Jump(c, "announce")
    /\ UNCHANGED <<back, lockvars, status, mpentry_kstack, stack, seen, booting, created, panic>>

Announce(c) ==
    /\ At(c, "announce")
    /\ status' = [status EXCEPT ![c] = "STARTED"]
    /\ Call(c, "lock", "yield")
    /\ UNCHANGED <<lockvars, bootvars, panic>>

-----------------------------------------------------------------------------
(* sched_yield, env_run, sched_halt and trap.                              *)

EnvRun(c) ==
    /\ At(c, "yield") /\ created
    /\ Call(c, "unlock", "user")
    /\ UNCHANGED <<lockvars, status, bootvars, panic>>

SchedHalt(c) ==
    /\ At(c, "yield")
    /\ IF created
         THEN /\ status' = [status EXCEPT ![c] = "HALTED"]
              /\ Call(c, "unlock", "hlt")
         ELSE /\ Jump(c, "monitor")
              /\ UNCHANGED <<status, back>>
    /\ UNCHANGED <<lockvars, bootvars, panic>>

\* Taken from the halted CPU by the first test of trap, from a running one
\* by the second.
Trap(c) ==
    /\ At(c, "user") \/ At(c, "hlt")
    /\ status' = [status EXCEPT ![c] = "STARTED"]
    /\ Call(c, "lock", "yield")
    /\ UNCHANGED <<lockvars, bootvars, panic>>

-----------------------------------------------------------------------------
Init ==
    /\ pc = [c \in CPU |-> IF c = 0 THEN "init" ELSE "off"]
    /\ back = pc
    /\ locked = FALSE /\ holder = None
    /\ status = [c \in CPU |-> IF c = 0 THEN "STARTED" ELSE "UNUSED"]
    /\ mpentry_kstack = None
    /\ stack = [c \in CPU |-> IF c = 0 THEN 0 ELSE None]
    /\ base = 1 /\ seen = [c \in CPU |-> 0]
    /\ region = [c \in CPU |-> IF c = 0 THEN 0 ELSE None]
    /\ booting = 1
    /\ created = FALSE /\ panic = FALSE

Lock(c) ==
    LockHeld(c) \/ LockByMe(c) \/ Record(c) \/ UnlockCheck(c) \/ UnlockClear(c) \/ UnlockRelease(c)
BootCpu == InitLock \/ BootNext \/ LapicStartap \/ BootWait \/ EnvCreate
MpMain(c) == LoadStack(c) \/ MmioRead(c) \/ MmioAdd(c) \/ Announce(c)
Kernel(c) == EnvRun(c) \/ SchedHalt(c)

Step(c) == Lock(c) \/ MpMain(c) \/ Kernel(c) \/ Trap(c)
Next == BootCpu \/ \E c \in CPU : Step(c) \/ Xchg(c)

\* A CPU goes on executing, and the timer interrupts it when it runs an
\* environment or halts; of those that spin, some day each gets the lock.
Spec == Init /\ [][Next]_vars
FairSpec ==
    /\ Spec
    /\ WF_vars(BootCpu)
    /\ \A c \in CPU : WF_vars(Step(c)) /\ SF_vars(Xchg(c))

-----------------------------------------------------------------------------
(* Properties.                                                             *)

\* What a CPU does under the lock.
Inside == {"record", "boot", "startap", "wait", "create", "yield", "unlock", "clear", "release"}

\* The lock excludes: one CPU at most is in kernel code that needs it, and
\* the debugging checks, which look at the lock while others take and
\* release it, never raise a false alarm.
LockExact ==
    /\ ~panic
    /\ \A c, d \in CPU : pc[c] \in Inside /\ pc[d] \in Inside => c = d
    /\ locked <=> \E c \in CPU : pc[c] \in Inside \cup {"monitor"}

\* No two CPUs share a stack or a region for their local APICs, although
\* both are handed out without the lock.
OwnStackAndApic ==
    \A c, d \in CPU : c # d =>
        /\ stack[c] = stack[d] => stack[c] = None
        /\ region[c] = region[d] => region[c] = None

\* Every CPU comes up, gets into the scheduler when there is something to
\* schedule, and leaves it, again and again.
EveryCpuRuns == \A c \in CPU : []<>(pc[c] \in {"user", "hlt"})

=============================================================================
