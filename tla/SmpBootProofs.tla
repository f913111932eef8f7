---------------------------- MODULE SmpBootProofs ----------------------------
(***************************************************************************)
(* Proofs about SmpBoot for every number of CPUs.                          *)
(***************************************************************************)
EXTENDS SmpBoot, TLAPS

\* Where a CPU is with the lock taken, where with kernel_lock.cpu set, and
\* where with neither.
Owner == Inside \cup {"monitor"}
Recorded == Owner \ {"record", "release"}
Outside == {"init", "off", "entry", "mmio", "mmio_add", "announce",
            "lock", "lock_cpu", "xchg", "user", "hlt"}
Starting == {"entry", "mmio", "mmio_add", "announce"}
BootOnly == {"init", "boot", "startap", "wait", "create"}
Taking == {"lock", "lock_cpu", "xchg", "record"}
Leaving == {"unlock", "clear", "release"}

TypeOK ==
    /\ pc \in [CPU -> Owner \cup Outside]
    /\ back \in [CPU -> Owner \cup Outside]
    /\ locked \in BOOLEAN /\ holder \in CPU \cup {None}
    /\ status \in [CPU -> {"UNUSED", "STARTED", "HALTED"}]
    /\ mpentry_kstack \in CPU \cup {None}
    /\ stack \in [CPU -> CPU \cup {None}]
    /\ region \in [CPU -> CPU \cup {None}]
    /\ base \in 1 .. N /\ seen \in [CPU -> 0 .. N]
    /\ booting \in 1 .. N
    /\ created \in BOOLEAN /\ panic \in BOOLEAN

\* The lock and its debugging fields say who is where, and whoever takes or
\* leaves the lock goes on to where it was called from.
LockInv ==
    /\ ~panic
    /\ \A c, d \in CPU : pc[c] \in Owner /\ pc[d] \in Owner => c = d
    /\ locked <=> \E c \in CPU : pc[c] \in Owner
    /\ \A c \in CPU : holder = c <=> pc[c] \in Recorded
    /\ \A c \in CPU : pc[c] \in Taking => back[c] \in {"boot", "yield"}
    /\ \A c \in CPU : pc[c] \in Taking /\ back[c] = "boot" => c = 0
    /\ \A c \in CPU : pc[c] \in Leaving => back[c] \in {"user", "hlt"}

\* The CPUs start one at a time and in order: what is handed out without
\* the lock is handed to the CPU that boot_aps waits for.
BootInv ==
    /\ \A c \in AP : pc[c] \notin BootOnly
    /\ pc[0] \notin {"off"} \cup Starting
    /\ pc[0] \in {"startap", "wait"} => booting \in AP /\ mpentry_kstack = booting
    /\ \A c \in AP : c > booting \/ (c = booting /\ pc[0] # "wait") => pc[c] = "off"
    /\ \A c \in AP : pc[c] \in Starting => c = booting /\ status[c] = "UNUSED"
    /\ \A c \in AP : pc[c] = "off" => status[c] = "UNUSED"
    /\ \A c \in CPU : stack[c] \in {c, None} /\ region[c] \in {c, None}
    /\ \A c \in AP : pc[c] = "mmio_add" => seen[c] = c
    /\ base = IF pc[0] = "wait" /\ pc[booting] \notin {"off", "entry", "mmio", "mmio_add"}
                THEN booting + 1 ELSE booting

Inv == TypeOK /\ LockInv /\ BootInv

-----------------------------------------------------------------------------
\* CPU numbers are integers, and None is not one of them.
LEMMA Cpus ==
  /\ 0 \in CPU /\ None \notin CPU /\ None \in Int
  /\ \A c \in CPU : c \in Int /\ (c \in AP <=> c # 0) /\ (c \in AP <=> c \in 1 .. N - 1)
  /\ AP \subseteq CPU
  BY NcpuAssumption DEF CPU, AP, None

LEMMA InitInv == Init => Inv
  <1> SUFFICES ASSUME Init PROVE Inv
    OBVIOUS
  <1> USE Cpus DEF Init, Owner, Inside, Recorded, Outside, Starting, BootOnly, Taking, Leaving
  <1>1. TypeOK
    <2>1. base \in 1 .. N /\ booting \in 1 .. N /\ seen \in [CPU -> 0 .. N]
      BY NcpuAssumption
    <2> QED
      BY <2>1 DEF TypeOK
  <1>2. LockInv
    BY DEF LockInv
  <1>3. BootInv
    BY DEF BootInv
  <1> QED
    BY <1>1, <1>2, <1>3 DEF Inv

\* Each action of a CPU, and of the boot CPU, keeps the invariant.
LEMMA NextInv == Inv /\ [Next]_vars => Inv'
  <1> SUFFICES ASSUME Inv, [Next]_vars PROVE Inv'
    OBVIOUS
  <1> USE Cpus DEF Inv, At, Jump, Call, Owner, Inside, Recorded, Outside, Starting, BootOnly, Taking, Leaving, lockvars, bootvars
  <1>1. ASSUME NEW c \in CPU, LockHeld(c) PROVE Inv'
    <2>1. TypeOK'
      BY <1>1 DEF LockHeld, TypeOK, LockInv, BootInv
    <2>2. LockInv'
      BY <1>1 DEF LockHeld, TypeOK, LockInv, BootInv
    <2>3. BootInv'
      BY <1>1 DEF LockHeld, TypeOK, LockInv, BootInv
    <2> QED
      BY <2>1, <2>2, <2>3
  <1>2. ASSUME NEW c \in CPU, LockByMe(c) PROVE Inv'
    <2>1. TypeOK'
      BY <1>2 DEF LockByMe, Panic, TypeOK, LockInv, BootInv
    <2>2. LockInv'
      BY <1>2 DEF LockByMe, Panic, TypeOK, LockInv, BootInv
    <2>3. BootInv'
      BY <1>2 DEF LockByMe, Panic, TypeOK, LockInv, BootInv
    <2> QED
      BY <2>1, <2>2, <2>3
  <1>3. ASSUME NEW c \in CPU, Xchg(c) PROVE Inv'
    <2>1. TypeOK'
      BY <1>3 DEF Xchg, TypeOK, LockInv, BootInv
    <2>2. LockInv'
      BY <1>3 DEF Xchg, TypeOK, LockInv, BootInv
    <2>3. BootInv'
      BY <1>3 DEF Xchg, TypeOK, LockInv, BootInv
    <2> QED
      BY <2>1, <2>2, <2>3
  <1>4. ASSUME NEW c \in CPU, Record(c) PROVE Inv'
    <2>1. TypeOK'
      BY <1>4 DEF Record, TypeOK, LockInv, BootInv
    <2>2. LockInv'
      BY <1>4 DEF Record, TypeOK, LockInv, BootInv
    <2>3. BootInv'
      BY <1>4 DEF Record, TypeOK, LockInv, BootInv
    <2> QED
      BY <2>1, <2>2, <2>3
  <1>5. ASSUME NEW c \in CPU, UnlockCheck(c) PROVE Inv'
    <2>1. TypeOK'
      BY <1>5 DEF UnlockCheck, Panic, TypeOK, LockInv, BootInv
    <2>2. LockInv'
      BY <1>5 DEF UnlockCheck, Panic, TypeOK, LockInv, BootInv
    <2>3. BootInv'
      BY <1>5 DEF UnlockCheck, Panic, TypeOK, LockInv, BootInv
    <2> QED
      BY <2>1, <2>2, <2>3
  <1>6. ASSUME NEW c \in CPU, UnlockClear(c) PROVE Inv'
    <2>1. TypeOK'
      BY <1>6 DEF UnlockClear, TypeOK, LockInv, BootInv
    <2>2. LockInv'
      BY <1>6 DEF UnlockClear, TypeOK, LockInv, BootInv
    <2>3. BootInv'
      BY <1>6 DEF UnlockClear, TypeOK, LockInv, BootInv
    <2> QED
      BY <2>1, <2>2, <2>3
  <1>7. ASSUME NEW c \in CPU, UnlockRelease(c) PROVE Inv'
    <2>1. TypeOK'
      BY <1>7 DEF UnlockRelease, TypeOK, LockInv, BootInv
    <2>2. LockInv'
      BY <1>7 DEF UnlockRelease, TypeOK, LockInv, BootInv
    <2>3. BootInv'
      BY <1>7 DEF UnlockRelease, TypeOK, LockInv, BootInv
    <2> QED
      BY <2>1, <2>2, <2>3
  <1>8. CASE InitLock
    <2>1. TypeOK'
      BY <1>8 DEF InitLock, TypeOK, LockInv, BootInv
    <2>2. LockInv'
      BY <1>8 DEF InitLock, TypeOK, LockInv, BootInv
    <2>3. BootInv'
      BY <1>8 DEF InitLock, TypeOK, LockInv, BootInv
    <2> QED
      BY <2>1, <2>2, <2>3
  <1>9. CASE BootNext
    <2>1. TypeOK'
      BY <1>9 DEF BootNext, TypeOK, LockInv, BootInv
    <2>2. LockInv'
      BY <1>9 DEF BootNext, TypeOK, LockInv, BootInv
    <2>3. BootInv'
      BY <1>9 DEF BootNext, TypeOK, LockInv, BootInv
    <2> QED
      BY <2>1, <2>2, <2>3
  <1>10. CASE LapicStartap
    <2>1. TypeOK'
      BY <1>10 DEF LapicStartap, TypeOK, LockInv, BootInv
    <2>2. LockInv'
      BY <1>10 DEF LapicStartap, TypeOK, LockInv, BootInv
    <2>3. BootInv'
      BY <1>10 DEF LapicStartap, TypeOK, LockInv, BootInv
    <2> QED
      BY <2>1, <2>2, <2>3
  <1>11. CASE BootWait
    <2>1. TypeOK'
      BY <1>11 DEF BootWait, TypeOK, LockInv, BootInv
    <2>2. LockInv'
      BY <1>11 DEF BootWait, TypeOK, LockInv, BootInv
    <2>3. BootInv'
      BY <1>11 DEF BootWait, TypeOK, LockInv, BootInv
    <2> QED
      BY <2>1, <2>2, <2>3
  <1>12. CASE EnvCreate
    <2>1. TypeOK'
      BY <1>12 DEF EnvCreate, TypeOK, LockInv, BootInv
    <2>2. LockInv'
      BY <1>12 DEF EnvCreate, TypeOK, LockInv, BootInv
    <2>3. BootInv'
      BY <1>12 DEF EnvCreate, TypeOK, LockInv, BootInv
    <2> QED
      BY <2>1, <2>2, <2>3
  <1>13. ASSUME NEW c \in CPU, LoadStack(c) PROVE Inv'
    <2>1. TypeOK'
      BY <1>13 DEF LoadStack, TypeOK, LockInv, BootInv
    <2>2. LockInv'
      BY <1>13 DEF LoadStack, TypeOK, LockInv, BootInv
    <2>3. BootInv'
      BY <1>13 DEF LoadStack, TypeOK, LockInv, BootInv
    <2> QED
      BY <2>1, <2>2, <2>3
  <1>14. ASSUME NEW c \in CPU, MmioRead(c) PROVE Inv'
    <2>1. TypeOK'
      BY <1>14 DEF MmioRead, TypeOK, LockInv, BootInv
    <2>2. LockInv'
      BY <1>14 DEF MmioRead, TypeOK, LockInv, BootInv
    <2>3. BootInv'
      BY <1>14 DEF MmioRead, TypeOK, LockInv, BootInv
    <2> QED
      BY <2>1, <2>2, <2>3
  <1>15. ASSUME NEW c \in CPU, MmioAdd(c) PROVE Inv'
    <2>1. TypeOK'
      <3>1. c \in AP /\ seen[c] = c /\ seen[c] + 1 \in 1 .. N
        BY <1>15, NcpuAssumption DEF MmioAdd, TypeOK, BootInv
      <3> QED
        BY <1>15, <3>1 DEF MmioAdd, TypeOK
    <2>2. LockInv'
      BY <1>15 DEF MmioAdd, TypeOK, LockInv, BootInv
    <2>3. BootInv'
      BY <1>15 DEF MmioAdd, TypeOK, LockInv, BootInv
    <2> QED
      BY <2>1, <2>2, <2>3
  <1>16. ASSUME NEW c \in CPU, Announce(c) PROVE Inv'
    <2>1. TypeOK'
      BY <1>16 DEF Announce, TypeOK, LockInv, BootInv
    <2>2. LockInv'
      BY <1>16 DEF Announce, TypeOK, LockInv, BootInv
    <2>3. BootInv'
      BY <1>16 DEF Announce, TypeOK, LockInv, BootInv
    <2> QED
      BY <2>1, <2>2, <2>3
  <1>17. ASSUME NEW c \in CPU, EnvRun(c) PROVE Inv'
    <2>1. TypeOK'
      BY <1>17 DEF EnvRun, TypeOK, LockInv, BootInv
    <2>2. LockInv'
      BY <1>17 DEF EnvRun, TypeOK, LockInv, BootInv
    <2>3. BootInv'
      BY <1>17 DEF EnvRun, TypeOK, LockInv, BootInv
    <2> QED
      BY <2>1, <2>2, <2>3
  <1>18. ASSUME NEW c \in CPU, SchedHalt(c) PROVE Inv'
    <2>1. TypeOK'
      BY <1>18 DEF SchedHalt, TypeOK, LockInv, BootInv
    <2>2. LockInv'
      BY <1>18 DEF SchedHalt, TypeOK, LockInv, BootInv
    <2>3. BootInv'
      BY <1>18 DEF SchedHalt, TypeOK, LockInv, BootInv
    <2> QED
      BY <2>1, <2>2, <2>3
  <1>19. ASSUME NEW c \in CPU, Trap(c) PROVE Inv'
    <2>1. TypeOK'
      BY <1>19 DEF Trap, TypeOK, LockInv, BootInv
    <2>2. LockInv'
      BY <1>19 DEF Trap, TypeOK, LockInv, BootInv
    <2>3. BootInv'
      BY <1>19 DEF Trap, TypeOK, LockInv, BootInv
    <2> QED
      BY <2>1, <2>2, <2>3
  <1>20. CASE UNCHANGED vars
    BY <1>20 DEF vars, TypeOK, LockInv, BootInv
  <1> QED
    BY <1>1, <1>2, <1>3, <1>4, <1>5, <1>6, <1>7, <1>8, <1>9, <1>10, <1>11, <1>12, <1>13, <1>14, <1>15, <1>16, <1>17, <1>18, <1>19, <1>20 DEF Next, Step, Lock, BootCpu, MpMain, Kernel

-----------------------------------------------------------------------------
\* The strengthening: the lock with its debugging fields, and the order in
\* which boot_aps starts the CPUs.
THEOREM Invariance == Spec => []Inv
  BY InitInv, NextInv, PTL DEF Spec

\* spinlock.c: whatever the other CPUs do between its instructions, the lock
\* admits one CPU, and holding() never takes another's lock for its own, nor
\* its own for another's.
THEOREM LockIsExact == Spec => []LockExact
  <1>1. Inv => LockExact
    BY DEF Inv, LockInv, LockExact, Owner
  <1> QED
    BY <1>1, Invariance, PTL

\* init.c: the handshake of boot_aps and mp_main alone keeps the stacks and
\* the mapped APICs of the CPUs apart.
THEOREM StacksAndApicsApart == Spec => []OwnStackAndApic
  <1>1. Inv => OwnStackAndApic
    BY DEF Inv, BootInv, OwnStackAndApic
  <1> QED
    BY <1>1, Invariance, PTL

=============================================================================
