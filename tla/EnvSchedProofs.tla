--------------------------- MODULE EnvSchedProofs ---------------------------
(***************************************************************************)
(* Proofs about EnvSched for every number of slots, CPUs and generations.  *)
(***************************************************************************)
EXTENDS MCEnvSched, TLAPS

\* A slot number is what is left of any number modulo NENV.
LEMMA ModInSlot == \A n \in Nat : ENVX(n) \in Slot
  BY NENVAssumption, SMT DEF ENVX, Slot

LEMMA DivNat == \A n \in Nat : n \div NENV \in Nat
  BY NENVAssumption, SMT

LEMMA ModSlot == \A e \in Slot : e % NENV = e /\ (e + NENV) % NENV = e
  BY NENVAssumption, SMT DEF Slot

LEMMA ProbeInSlot ==
  ASSUME env_id \in [Slot -> Nat], NEW cur \in Slot \cup {NoEnv}, NEW i \in 1 .. NENV
  PROVE  Probe(cur, i) \in Slot
  <1> DEFINE start == IF cur = NoEnv THEN 0 ELSE ENVX(env_id[cur])
  <1>1. start \in Slot
    <2>1. CASE cur = NoEnv
      BY <2>1, NENVAssumption DEF Slot
    <2>2. CASE cur # NoEnv
      <3>1. env_id[cur] \in Nat
        BY <2>2
      <3> QED
        BY <2>2, <3>1, ModInSlot
    <2> QED
      BY <2>1, <2>2
  <1>2. start + i \in Nat
    BY <1>1, NENVAssumption DEF Slot
  <1>3. ENVX(start + i) \in Slot
    BY <1>2, ModInSlot
  <1> QED
    BY <1>3 DEF Probe, ENVX

\* The search of sched_yield leaves no slot out.
LEMMA ProbeCovers ==
  ASSUME env_id \in [Slot -> Nat], NEW cur \in Slot \cup {NoEnv}, NEW e \in Slot
  PROVE  \E i \in 1 .. NENV : Probe(cur, i) = e
  <1> DEFINE start == IF cur = NoEnv THEN 0 ELSE ENVX(env_id[cur])
             i == IF e > start THEN e - start ELSE e - start + NENV
  <1>1. start \in Slot
    <2>1. CASE cur = NoEnv
      BY <2>1, NENVAssumption DEF Slot
    <2>2. CASE cur # NoEnv
      <3>1. env_id[cur] \in Nat
        BY <2>2
      <3> QED
        BY <2>2, <3>1, ModInSlot
    <2> QED
      BY <2>1, <2>2
  <1>2. i \in 1 .. NENV
    BY <1>1, NENVAssumption, SMTT(30) DEF Slot
  <1>3. start + i = e \/ start + i = e + NENV
    BY <1>1, NENVAssumption DEF Slot
  <1>4. (start + i) % NENV = e
    BY <1>3, ModSlot
  <1> QED
    BY <1>2, <1>4 DEF Probe

-----------------------------------------------------------------------------
(* The inductive invariant.  SchedInv speaks of statuses, CPUs and the     *)
(* lock; TableInv of the rest of the table and its free list.              *)

SchedTypeOK ==
    /\ env_status \in [Slot -> Status]
    /\ cpu_env \in [CPUs -> Slot \cup {NoEnv}]
    /\ cpu_status \in [CPUs -> {"STARTED", "HALTED"}]
    /\ kernel_lock \in CPUs \cup {NoCpu}
    /\ pc \in [CPUs -> Pc]

SchedInv ==
    /\ SchedTypeOK
    /\ NoDoubleRun
    /\ StatusMatchesCpus
    /\ LockDiscipline
    /\ SomeCpuAwake

TableTypeOK ==
    /\ env_id \in [Slot -> Nat]
    /\ env_parent_id \in [Slot -> Nat]
    /\ env_ipc_recving \in [Slot -> BOOLEAN]
    /\ env_free_list \in Seq(Slot)

TableInv == TableTypeOK /\ FreeListExact /\ ReceiverBlocked

Inv == SchedInv /\ TableInv

\* What a handler on c has established when it calls the scheduler with the
\* statuses st and the current environment cur.
Handled(c, st, cur) ==
    /\ kernel_lock = c
    /\ pc[c] \in {"boot", "kern"}
    /\ cur # NoEnv => st[cur] # "DYING"
    /\ \A d \in CPUs \ {c} : cpu_env[d] # NoEnv
           => st[cpu_env[d]] \in OnCpu /\ cpu_env[d] # cur
    /\ \A e \in Slot : st[e] \in OnCpu
           => e = cur \/ \E d \in CPUs \ {c} : cpu_env[d] = e

\* What the scheduler does not touch of the statuses it is given.
Keeps(st) ==
    \A e \in Slot : /\ env_status'[e] = "FREE" <=> st[e] = "FREE"
                    /\ st[e] = "NOT_RUNNABLE" => env_status'[e] = "NOT_RUNNABLE"

\* env_run re-establishes the invariant.
LEMMA EnvRunInv ==
  ASSUME SchedInv, NEW c \in CPUs, NEW st \in [Slot -> Status],
         NEW cur \in Slot \cup {NoEnv}, Handled(c, st, cur), NEW e \in Slot,
         st[e] = "RUNNABLE" \/ (e = cur /\ Owns(st, cur)),
         EnvRun(c, st, cur, e)
  PROVE  SchedInv' /\ Keeps(st)
  <1> USE DEF SchedInv, Handled, EnvRun, OnCpu
  <1>1. SchedTypeOK'
    BY DEF SchedTypeOK, Status, Pc
  <1>2. \A d \in CPUs \ {c} : cpu_env'[d] = cpu_env[d] /\ cpu_env[d] # e
    BY NoEnvAssumption DEF SchedTypeOK, Owns
  <1>3. cpu_env'[c] = e /\ env_status'[e] = "RUNNING"
    BY DEF SchedTypeOK
  <1>4. \A s \in Slot : s # e => \/ env_status'[s] = st[s]
                                 \/ s = cur /\ env_status'[s] = "RUNNABLE" /\ st[s] = "RUNNING"
    BY DEF Owns
  <1>5. NoDoubleRun'
    BY <1>2, <1>3 DEF NoDoubleRun
  <1>6. CurenvIsOnCpu'
    <2> SUFFICES ASSUME NEW d \in CPUs, cpu_env'[d] # NoEnv
                 PROVE  env_status'[cpu_env'[d]] \in OnCpu
      BY DEF CurenvIsOnCpu
    <2>1. CASE d = c
      BY <2>1, <1>3
    <2>2. CASE d # c
      <3>1. cpu_env[d] \in Slot /\ cpu_env[d] # e /\ cpu_env[d] # cur
        BY <2>2, <1>2 DEF SchedTypeOK
      <3> QED
        BY <2>2, <3>1, <1>2, <1>4
    <2> QED
      BY <2>1, <2>2
  <1>7. OnCpuIsCurenv'
    <2> SUFFICES ASSUME NEW s \in Slot, env_status'[s] \in OnCpu
                 PROVE  \E d \in CPUs : cpu_env'[d] = s
      BY DEF OnCpuIsCurenv
    <2>1. CASE s = e
      BY <2>1, <1>3
    <2>2. CASE s # e
      <3>1. st[s] \in OnCpu /\ s # cur
        BY <2>2, NoEnvAssumption DEF Owns
      <3>2. PICK d \in CPUs \ {c} : cpu_env[d] = s
        BY <3>1
      <3> QED
        BY <3>2, <1>2
    <2> QED
      BY <2>1, <2>2
  <1>8. LockDiscipline'
    BY NoCpuAssumption, NoEnvAssumption DEF LockDiscipline, SchedTypeOK, Locked, Pc
  <1>9. SomeCpuAwake'
    BY DEF SomeCpuAwake, SchedTypeOK
  <1>10. Keeps(st)
    BY DEF Keeps, Owns
  <1> QED
    BY <1>1, <1>5, <1>6, <1>7, <1>8, <1>9, <1>10 DEF StatusMatchesCpus

\* sched_halt re-establishes the invariant when it is called as sched_yield
\* calls it: nothing is runnable and the CPU's own environment cannot go on.
LEMMA SchedHaltInv ==
  ASSUME SchedInv, NEW c \in CPUs, NEW st \in [Slot -> Status],
         NEW cur \in Slot \cup {NoEnv}, Handled(c, st, cur),
         \A e \in Slot : st[e] # "RUNNABLE", ~Owns(st, cur),
         SchedHalt(c, st, cur)
  PROVE  SchedInv' /\ Keeps(st)
  <1> USE DEF SchedInv, Handled, SchedHalt, OnCpu
  <1>1. Keeps(st)
    BY DEF Keeps
  <1>2. CASE \A e \in Slot : st[e] \notin Alive
    <2>1. SchedTypeOK'
      BY <1>2 DEF SchedTypeOK, Pc
    <2>2. \A d \in CPUs \ {c} : cpu_env'[d] = cpu_env[d] /\ cpu_env[d] = NoEnv
      BY <1>2 DEF SchedTypeOK, Alive
    <2>3. NoDoubleRun' /\ CurenvIsOnCpu' /\ OnCpuIsCurenv'
      BY <1>2, <2>2 DEF NoDoubleRun, CurenvIsOnCpu, OnCpuIsCurenv, SchedTypeOK, Alive
    <2>4. LockDiscipline'
      BY <1>2, NoCpuAssumption, NoEnvAssumption DEF LockDiscipline, SchedTypeOK, Locked, Pc
    <2>5. SomeCpuAwake'
      BY <1>2 DEF SomeCpuAwake, SchedTypeOK
    <2> QED
      BY <1>1, <2>1, <2>3, <2>4, <2>5 DEF StatusMatchesCpus
  <1>3. CASE \E e \in Slot : st[e] \in Alive
    <2>1. SchedTypeOK'
      BY <1>3 DEF SchedTypeOK, Pc
    <2>2. \A d \in CPUs \ {c} : cpu_env'[d] = cpu_env[d] /\ pc'[d] = pc[d]
      BY <1>3 DEF SchedTypeOK
    <2>3. cpu_env'[c] = NoEnv
      BY <1>3 DEF SchedTypeOK
    <2>4. \A s \in Slot : st[s] \in OnCpu => \E d \in CPUs \ {c} : cpu_env[d] = s
      BY NoEnvAssumption DEF Owns
    <2>5. NoDoubleRun' /\ CurenvIsOnCpu' /\ OnCpuIsCurenv'
      BY <1>3, <2>2, <2>3, <2>4 DEF NoDoubleRun, CurenvIsOnCpu, OnCpuIsCurenv, SchedTypeOK
    <2>6. LockDiscipline'
      BY <1>3, NoCpuAssumption, NoEnvAssumption DEF LockDiscipline, SchedTypeOK, Locked, Pc
    <2>7. SomeCpuAwake'
      <3>1. PICK e \in Slot : st[e] \in OnCpu
        BY <1>3 DEF Alive
      <3>2. PICK d \in CPUs \ {c} : cpu_env[d] = e
        BY <3>1, <2>4
      <3>3. pc[d] # "halt"
        BY <3>2, NoEnvAssumption DEF LockDiscipline
      <3> QED
        BY <3>3, <2>2 DEF SomeCpuAwake
    <2> QED
      BY <1>1, <2>1, <2>5, <2>6, <2>7 DEF StatusMatchesCpus
  <1> QED
    BY <1>2, <1>3

\* sched_yield re-establishes the invariant.
LEMMA SchedYieldInv ==
  ASSUME SchedInv, env_id \in [Slot -> Nat], NEW c \in CPUs,
         NEW st \in [Slot -> Status], NEW cur \in Slot \cup {NoEnv},
         Handled(c, st, cur), SchedYield(c, st, cur)
  PROVE  SchedInv' /\ Keeps(st)
  <1> DEFINE hits == {i \in 1 .. NENV : Ready(st, Probe(cur, i))}
  <1>1. CASE \E i \in hits : EnvRun(c, st, cur, Probe(cur, i))
    <2>1. PICK i \in hits : EnvRun(c, st, cur, Probe(cur, i))
      BY <1>1
    <2>2. Probe(cur, i) \in Slot
      BY ProbeInSlot
    <2>3. st[Probe(cur, i)] = "RUNNABLE"
      BY DEF Ready
    <2> QED
      BY <2>1, <2>2, <2>3, EnvRunInv
  <1>2. CASE Owns(st, cur) /\ EnvRun(c, st, cur, cur)
    <2>1. cur \in Slot
      BY <1>2 DEF Owns
    <2> QED
      BY <1>2, <2>1, EnvRunInv
  <1>3. CASE hits = {} /\ ~Owns(st, cur) /\ SchedHalt(c, st, cur)
    <2>1. \A e \in Slot : st[e] # "RUNNABLE"
      <3> SUFFICES ASSUME NEW e \in Slot
                   PROVE  st[e] # "RUNNABLE"
        OBVIOUS
      <3>1. PICK i \in 1 .. NENV : Probe(cur, i) = e
        BY ProbeCovers
      <3> QED
        BY <1>3, <3>1 DEF Ready
    <2> QED
      BY <1>3, <2>1, SchedHaltInv
  <1> QED
    BY <1>1, <1>2, <1>3 DEF SchedYield

\* The tail of trap re-establishes the invariant.
LEMMA TrapReturnInv ==
  ASSUME SchedInv, env_id \in [Slot -> Nat], NEW c \in CPUs,
         NEW st \in [Slot -> Status], Handled(c, st, cpu_env[c]), TrapReturn(c, st)
  PROVE  SchedInv' /\ Keeps(st)
  <1>1. cpu_env[c] \in Slot \cup {NoEnv}
    BY DEF SchedInv, SchedTypeOK
  <1>2. CASE Owns(st, cpu_env[c])
    <2>1. cpu_env[c] \in Slot /\ EnvRun(c, st, cpu_env[c], cpu_env[c])
      BY <1>1, <1>2 DEF Owns, TrapReturn
    <2> QED
      BY <1>2, <2>1, EnvRunInv
  <1>3. CASE ~Owns(st, cpu_env[c])
    <2>1. SchedYield(c, st, cpu_env[c])
      BY <1>3 DEF TrapReturn
    <2> QED
      BY <1>1, <2>1, SchedYieldInv
  <1> QED
    BY <1>2, <1>3

-----------------------------------------------------------------------------
(* The environment table and its free list.                                *)

\* A handler that touches neither the list nor the FREE statuses.
LEMMA TableKept ==
  ASSUME TableInv, NEW st \in [Slot -> Status], Keeps(st),
         UNCHANGED <<env_id, env_parent_id, env_free_list>>,
         env_ipc_recving' \in [Slot -> BOOLEAN],
         \A e \in Slot : st[e] = "FREE" <=> env_status[e] = "FREE",
         \A e \in Slot : env_ipc_recving'[e] => st[e] \in {"NOT_RUNNABLE", "FREE"}
  PROVE  TableInv'
  <1>1. TableTypeOK'
    BY DEF TableInv, TableTypeOK
  <1>2. FreeListExact'
    BY DEF TableInv, FreeListExact, Keeps
  <1>3. ReceiverBlocked'
    BY DEF ReceiverBlocked, Keeps
  <1> QED
    BY <1>1, <1>2, <1>3 DEF TableInv

\* env_free puts a slot on the list that was not there.
LEMMA TableFreed ==
  ASSUME TableInv, env_status \in [Slot -> Status], NEW e \in Slot,
         env_status[e] # "FREE", EnvFree(e),
         Keeps([env_status EXCEPT ![e] = "FREE"])
  PROVE  TableInv'
  <1> DEFINE old == env_free_list
             new == <<e>> \o old
  <1>0. old \in Seq(Slot) /\ Len(old) \in Nat /\ env_free_list' = new
    BY DEF TableInv, TableTypeOK, EnvFree
  <1>1. /\ new \in Seq(Slot) /\ Len(new) = Len(old) + 1 /\ new[1] = e
        /\ \A i \in 2 .. Len(new) : new[i] = old[i - 1] /\ i - 1 \in 1 .. Len(old)
    BY <1>0
  <1>2. \A i \in 1 .. Len(old) : new[i + 1] = old[i] /\ i + 1 \in 2 .. Len(new)
    BY <1>0, <1>1
  <1>3. \A s \in Slot : env_status'[s] = "FREE" <=> s = e \/ env_status[s] = "FREE"
    BY DEF Keeps
  <1>4. \A i \in 1 .. Len(old) : old[i] \in Slot /\ old[i] # e
    BY <1>0 DEF TableInv, FreeListExact
  <1>5. TableTypeOK'
    BY <1>0, <1>1 DEF TableInv, TableTypeOK, EnvFree
  <1>6. \A s \in Slot : env_status'[s] = "FREE"
                            <=> \E i \in 1 .. Len(new) : new[i] = s
    <2> SUFFICES ASSUME NEW s \in Slot
                 PROVE  env_status'[s] = "FREE" <=> \E i \in 1 .. Len(new) : new[i] = s
      OBVIOUS
    <2> HIDE DEF new
    <2>1. ASSUME NEW i \in 1 .. Len(new), new[i] = s
          PROVE  env_status'[s] = "FREE"
      <3>1. CASE i = 1
        BY <2>1, <3>1, <1>1, <1>3
      <3>2. CASE i # 1
        <4>1. i \in 2 .. Len(new)
          BY <3>2, <1>0, <1>1
        <4>2. i - 1 \in 1 .. Len(old) /\ old[i - 1] = s
          BY <2>1, <4>1, <1>1
        <4> QED
          BY <4>2, <1>3 DEF TableInv, FreeListExact
      <3> QED
        BY <3>1, <3>2
    <2>2. ASSUME env_status'[s] = "FREE"
          PROVE  \E i \in 1 .. Len(new) : new[i] = s
      <3>1. CASE s = e
        <4>1. 1 \in 1 .. Len(new)
          BY <1>0, <1>1
        <4> QED
          BY <3>1, <4>1, <1>1
      <3>2. CASE s # e
        <4>1. PICK k \in 1 .. Len(old) : old[k] = s
          BY <2>2, <3>2, <1>3 DEF TableInv, FreeListExact
        <4>2. k + 1 \in 1 .. Len(new) /\ new[k + 1] = s
          BY <4>1, <1>0, <1>1, <1>2
        <4> QED
          BY <4>2
      <3> QED
        BY <3>1, <3>2
    <2> QED
      BY <2>1, <2>2
  <1>7. \A i, j \in 1 .. Len(new) : new[i] = new[j] => i = j
    <2> SUFFICES ASSUME NEW i \in 1 .. Len(new), NEW j \in 1 .. Len(new), new[i] = new[j]
                 PROVE  i = j
      OBVIOUS
    <2>1. CASE i = 1 \/ j = 1
      BY <2>1, <1>0, <1>1, <1>4
    <2>2. CASE i # 1 /\ j # 1
      <3>1. i - 1 \in 1 .. Len(old) /\ j - 1 \in 1 .. Len(old) /\ old[i - 1] = old[j - 1]
        BY <2>2, <1>0, <1>1
      <3>2. i - 1 = j - 1
        BY <3>1 DEF TableInv, FreeListExact
      <3> QED
        BY <3>2, <1>0, <1>1
    <2> QED
      BY <2>1, <2>2
  <1>8. ReceiverBlocked'
    BY <1>3 DEF TableInv, ReceiverBlocked, EnvFree, Keeps
  <1> QED
    BY <1>0, <1>5, <1>6, <1>7, <1>8 DEF TableInv, FreeListExact

\* env_alloc takes the head of the list, which was there once.
LEMMA TableAllocated ==
  ASSUME TableInv, env_status \in [Slot -> Status], NEW parent \in Nat,
         EnvAlloc(parent), NEW status \in Status \ {"FREE"}, Keeps(AllocStatus(status))
  PROVE  TableInv' /\ Head(env_free_list) \in Slot /\ env_status[Head(env_free_list)] = "FREE"
  <1> DEFINE old == env_free_list
             new == Tail(old)
             e == Head(old)
  <1>0. old \in Seq(Slot) /\ old # <<>> /\ env_free_list' = new /\ Len(old) \in Nat
    BY DEF TableInv, TableTypeOK, EnvAlloc
  <1>1. /\ new \in Seq(Slot) /\ Len(old) >= 1 /\ Len(new) = Len(old) - 1 /\ e = old[1]
        /\ \A i \in 1 .. Len(new) : new[i] = old[i + 1] /\ i + 1 \in 2 .. Len(old)
    BY <1>0
  <1>2. e \in Slot /\ env_status[e] = "FREE"
    BY <1>0, <1>1 DEF TableInv, FreeListExact
  <1>3. \A s \in Slot : env_status'[s] = "FREE" <=> s # e /\ env_status[s] = "FREE"
    BY <1>2 DEF Keeps, AllocStatus
  <1>4. TableTypeOK'
    <2>1. env_id[e] \div NENV \in Nat
      <3>1. env_id[e] \in Nat
        BY <1>2 DEF TableInv, TableTypeOK
      <3> QED
        BY <3>1, DivNat
    <2>2. NewEnvId(e) \in Nat
      <3> DEFINE next == env_id[e] \div NENV + 1
                 generation == IF next > MaxGen THEN 1 ELSE next
      <3>1. generation \in Nat /\ NENV \in Nat
        BY <2>1, NENVAssumption
      <3> HIDE DEF generation
      <3>2. generation * NENV \in Nat
        BY <3>1
      <3>3. e \in Nat
        BY <1>2 DEF Slot
      <3> QED
        BY <3>2, <3>3 DEF NewEnvId, generation
    <2> QED
      BY <1>0, <1>1, <1>2, <2>2 DEF TableInv, TableTypeOK, EnvAlloc
  <1>5. \A s \in Slot : env_status'[s] = "FREE"
                            <=> \E i \in 1 .. Len(new) : new[i] = s
    <2> SUFFICES ASSUME NEW s \in Slot
                 PROVE  env_status'[s] = "FREE" <=> \E i \in 1 .. Len(new) : new[i] = s
      OBVIOUS
    <2>1. ASSUME NEW i \in 1 .. Len(new), new[i] = s
          PROVE  env_status'[s] = "FREE"
      <3>1. i + 1 \in 1 .. Len(old) /\ old[i + 1] = s /\ 1 \in 1 .. Len(old)
        BY <2>1, <1>0, <1>1
      <3>2. s # e
        BY <3>1, <1>0, <1>1 DEF TableInv, FreeListExact
      <3> QED
        BY <3>1, <3>2, <1>3 DEF TableInv, FreeListExact
    <2>2. ASSUME env_status'[s] = "FREE"
          PROVE  \E i \in 1 .. Len(new) : new[i] = s
      <3>1. s # e /\ env_status[s] = "FREE"
        BY <2>2, <1>3
      <3>2. PICK k \in 1 .. Len(old) : old[k] = s
        BY <3>1 DEF TableInv, FreeListExact
      <3>3. k - 1 \in 1 .. Len(new) /\ new[k - 1] = s
        BY <3>1, <3>2, <1>0, <1>1
      <3> QED
        BY <3>3
    <2> QED
      BY <2>1, <2>2
  <1>6. \A i, j \in 1 .. Len(new) : new[i] = new[j] => i = j
    <2> SUFFICES ASSUME NEW i \in 1 .. Len(new), NEW j \in 1 .. Len(new), new[i] = new[j]
                 PROVE  i = j
      OBVIOUS
    <2>1. i + 1 \in 1 .. Len(old) /\ j + 1 \in 1 .. Len(old) /\ old[i + 1] = old[j + 1]
      BY <1>0, <1>1
    <2>2. i + 1 = j + 1
      BY <2>1 DEF TableInv, FreeListExact
    <2> QED
      BY <2>2, <1>0, <1>1
  <1>7. ReceiverBlocked'
    <2> SUFFICES ASSUME NEW s \in Slot, env_ipc_recving'[s]
                 PROVE  env_status'[s] \in {"NOT_RUNNABLE", "FREE"}
      BY DEF ReceiverBlocked
    <2>1. s # e /\ env_ipc_recving[s]
      BY <1>2 DEF EnvAlloc, TableInv, TableTypeOK
    <2>2. AllocStatus(status)[s] = env_status[s]
      BY <2>1, <1>2 DEF AllocStatus
    <2> QED
      BY <2>1, <2>2 DEF TableInv, ReceiverBlocked, Keeps
  <1> QED
    BY <1>0, <1>2, <1>4, <1>5, <1>6, <1>7 DEF TableInv, FreeListExact

-----------------------------------------------------------------------------
(* One handler at a time.                                                  *)

\* While c is in kernel code the other CPUs are not, so each of them still
\* owns the environment it runs, and it is not the environment of c.
LEMMA Alone ==
  ASSUME SchedInv, NEW c \in CPUs, pc[c] \in {"boot", "kern"}
  PROVE  /\ kernel_lock = c
         /\ cpu_env[c] \in Slot \cup {NoEnv}
         /\ cpu_env[c] # NoEnv => env_status[cpu_env[c]] \in OnCpu
         /\ \A d \in CPUs \ {c} : cpu_env[d] # NoEnv
                => /\ cpu_env[d] \in Slot
                   /\ env_status[cpu_env[d]] \in OnCpu
                   /\ cpu_env[d] # cpu_env[c]
         /\ \A e \in Slot : env_status[e] \in OnCpu
                => e = cpu_env[c] \/ \E d \in CPUs \ {c} : cpu_env[d] = e
  <1>1. kernel_lock = c /\ \A d \in CPUs \ {c} : pc[d] # "monitor"
    BY DEF SchedInv, LockDiscipline, Locked
  <1>2. cpu_env[c] \in Slot \cup {NoEnv}
    BY DEF SchedInv, SchedTypeOK
  <1>3. \A d \in CPUs \ {c} : cpu_env[d] # NoEnv
            => /\ cpu_env[d] \in Slot
               /\ env_status[cpu_env[d]] \in OnCpu
               /\ cpu_env[d] # cpu_env[c]
    BY <1>1 DEF SchedInv, SchedTypeOK, StatusMatchesCpus, CurenvIsOnCpu, NoDoubleRun
  <1>4. \A e \in Slot : env_status[e] \in OnCpu
            => e = cpu_env[c] \/ \E d \in CPUs \ {c} : cpu_env[d] = e
    <2> SUFFICES ASSUME NEW e \in Slot, env_status[e] \in OnCpu
                 PROVE  e = cpu_env[c] \/ \E d \in CPUs \ {c} : cpu_env[d] = e
      OBVIOUS
    <2>1. PICK d \in CPUs : cpu_env[d] = e
      BY DEF SchedInv, StatusMatchesCpus, OnCpuIsCurenv
    <2> QED
      BY <2>1
  <1>5. cpu_env[c] # NoEnv => env_status[cpu_env[c]] \in OnCpu
    BY DEF SchedInv, StatusMatchesCpus, CurenvIsOnCpu
  <1> QED
    BY <1>1, <1>2, <1>3, <1>4, <1>5

\* A handler whose environment is no zombie serves a running environment,
\* which is not waiting for a message.
LEMMA ServesRunning ==
  ASSUME Inv, NEW c \in CPUs, Serves(c)
  PROVE  /\ cpu_env[c] \in Slot
         /\ env_status[cpu_env[c]] = "RUNNING"
         /\ ~env_ipc_recving[cpu_env[c]]
  <1>1. cpu_env[c] \in Slot /\ env_status[cpu_env[c]] = "RUNNING"
    BY Alone DEF Inv, Serves, OnCpu
  <1>2. ~env_ipc_recving[cpu_env[c]]
    BY <1>1 DEF Inv, TableInv, ReceiverBlocked
  <1> QED
    BY <1>1, <1>2

\* envid2env returns an environment that exists, or none.
LEMMA Envid2EnvExists ==
  ASSUME Inv, NEW c \in CPUs, Serves(c), NEW envid \in Nat, NEW check \in BOOLEAN,
         Envid2Env(c, envid, check) # NoEnv
  PROVE  /\ Envid2Env(c, envid, check) \in Slot
         /\ env_status[Envid2Env(c, envid, check)] # "FREE"
  <1>1. ENVX(envid) \in Slot
    BY ModInSlot
  <1>2. cpu_env[c] \in Slot /\ env_status[cpu_env[c]] = "RUNNING"
    BY ServesRunning
  <1> QED
    BY <1>1, <1>2 DEF Envid2Env

\* The statuses of the other CPUs' environments survive a handler's change
\* st as long as it keeps them in OnCpu.
LEMMA HandledBy ==
  ASSUME SchedInv, NEW c \in CPUs, pc[c] \in {"boot", "kern"},
         NEW st \in [Slot -> Status],
         \A e \in Slot \ {cpu_env[c]} : st[e] \in OnCpu <=> env_status[e] \in OnCpu
  PROVE  /\ cpu_env[c] # NoEnv /\ st[cpu_env[c]] # "DYING" => Handled(c, st, cpu_env[c])
         /\ cpu_env[c] = NoEnv \/ st[cpu_env[c]] \notin OnCpu => Handled(c, st, NoEnv)
  <1>1. \A d \in CPUs \ {c} : cpu_env[d] # NoEnv
            => st[cpu_env[d]] \in OnCpu /\ cpu_env[d] # cpu_env[c]
    BY Alone
  <1>2. \A e \in Slot : st[e] \in OnCpu
            => e = cpu_env[c] \/ \E d \in CPUs \ {c} : cpu_env[d] = e
    BY Alone
  <1>3. kernel_lock = c
    BY Alone
  <1>4. ASSUME cpu_env[c] # NoEnv, st[cpu_env[c]] # "DYING"
        PROVE  Handled(c, st, cpu_env[c])
    BY <1>1, <1>2, <1>3, <1>4 DEF Handled
  <1>5. ASSUME cpu_env[c] = NoEnv \/ st[cpu_env[c]] \notin OnCpu
        PROVE  Handled(c, st, NoEnv)
    BY <1>1, <1>2, <1>3, <1>5, NoEnvAssumption DEF Handled
  <1> QED
    BY <1>4, <1>5

\* A system call that ends in trap's tail with the statuses st, having
\* changed no list and no id.
LEMMA TailInv ==
  ASSUME Inv, NEW c \in CPUs, Serves(c), NEW st \in [Slot -> Status],
         \A e \in Slot \ {cpu_env[c]} : st[e] \in OnCpu <=> env_status[e] \in OnCpu,
         st[cpu_env[c]] # "DYING",
         TrapReturn(c, st)
  PROVE  SchedInv' /\ Keeps(st)
  <1>1. Handled(c, st, cpu_env[c])
    BY HandledBy DEF Inv, Serves
  <1> QED
    BY <1>1, TrapReturnInv DEF Inv, TableInv, TableTypeOK

\* The environment of c is freed and c looks for another one.
LEMMA GiveUpInv ==
  ASSUME Inv, NEW c \in CPUs, pc[c] = "kern", cpu_env[c] # NoEnv, EnvFree(cpu_env[c]),
         SchedYield(c, [env_status EXCEPT ![cpu_env[c]] = "FREE"], NoEnv)
  PROVE  Inv'
  <1> DEFINE e == cpu_env[c]
             st == [env_status EXCEPT ![e] = "FREE"]
  <1>1. e \in Slot /\ env_status[e] \in OnCpu
    BY Alone DEF Inv
  <1>2. st \in [Slot -> Status] /\ st[e] = "FREE"
    BY <1>1 DEF Inv, SchedInv, SchedTypeOK, Status
  <1>3. \A s \in Slot \ {e} : st[s] = env_status[s]
    BY DEF Inv, SchedInv, SchedTypeOK
  <1>4. Handled(c, st, NoEnv)
    BY <1>2, <1>3, HandledBy DEF Inv, OnCpu
  <1>5. SchedInv' /\ Keeps(st)
    <2> HIDE DEF st
    <2> QED
      BY <1>2, <1>4, SchedYieldInv DEF Inv, TableInv, TableTypeOK, st
  <1>6. TableInv'
    BY <1>1, <1>5, TableFreed DEF Inv, SchedInv, SchedTypeOK, OnCpu
  <1> QED
    BY <1>5, <1>6 DEF Inv

-----------------------------------------------------------------------------
(* The invariant holds initially and is preserved by every action.         *)

LEMMA InitInv == Init => Inv
  <1> SUFFICES ASSUME Init PROVE Inv
    OBVIOUS
  <1> USE NENVAssumption, BspAssumption, NoCpuAssumption, NoEnvAssumption DEF Init
  <1>1. SchedTypeOK
    BY DEF SchedTypeOK, Status, Pc
  <1>2. NoDoubleRun /\ StatusMatchesCpus /\ LockDiscipline /\ SomeCpuAwake
    BY DEF NoDoubleRun, StatusMatchesCpus, CurenvIsOnCpu, OnCpuIsCurenv, OnCpu,
           LockDiscipline, SomeCpuAwake, Locked
  <1>3. env_free_list \in Seq(Slot) /\ Len(env_free_list) = NENV
    BY DEF Slot
  <1>4. FreeListExact
    <2>1. \A i \in 1 .. NENV : env_free_list[i] = i - 1
      OBVIOUS
    <2>2. \A e \in Slot : e + 1 \in 1 .. NENV /\ env_free_list[e + 1] = e
      BY <2>1 DEF Slot
    <2>3. \A e \in Slot : env_status[e] = "FREE" /\ \E i \in 1 .. NENV : env_free_list[i] = e
      BY <2>2
    <2>4. \A i, j \in 1 .. NENV : env_free_list[i] = env_free_list[j] => i = j
      <3> SUFFICES ASSUME NEW i \in 1 .. NENV, NEW j \in 1 .. NENV,
                          env_free_list[i] = env_free_list[j]
                   PROVE  i = j
        OBVIOUS
      <3>1. i - 1 = j - 1
        BY <2>1
      <3> QED
        BY <3>1
    <2> QED
      BY <1>3, <2>3, <2>4 DEF FreeListExact
  <1>5. ReceiverBlocked
    BY DEF ReceiverBlocked
  <1> QED
    BY <1>1, <1>2, <1>3, <1>4, <1>5 DEF Inv, SchedInv, TableInv, TableTypeOK

\* Trap entry, the lock, iret and the monitor.
LEMMA CpuStepInv == ASSUME Inv, NEW c \in CPUs, CpuStep(c) PROVE Inv'
  <1> USE NoCpuAssumption, NoEnvAssumption
      DEF SchedInv, SchedTypeOK, NoDoubleRun, StatusMatchesCpus, CurenvIsOnCpu,
          OnCpuIsCurenv, LockDiscipline, SomeCpuAwake, Locked, Pc, cpuState
  <1>1. CASE MonitorLoop(c)
    BY <1>1 DEF MonitorLoop, vars, envTable, Inv, TableInv, TableTypeOK, FreeListExact,
                ReceiverBlocked
  <1>2. ASSUME UNCHANGED envTable, SchedInv'
        PROVE  Inv'
    BY <1>2 DEF Inv, envTable, TableInv, TableTypeOK, FreeListExact, ReceiverBlocked
  <1>3. CASE TrapEnter(c)
    BY <1>2, <1>3 DEF TrapEnter, Inv, envTable
  <1>4. CASE AcquireLock(c)
    BY <1>2, <1>4 DEF AcquireLock, Inv, envTable
  <1>5. CASE PopTf(c)
    BY <1>2, <1>5 DEF PopTf, Inv, envTable
  <1> QED
    BY <1>1, <1>3, <1>4, <1>5 DEF CpuStep

\* The scheduler called with the statuses as they are and no environment.
LEMMA IdleInv ==
  ASSUME Inv, NEW c \in CPUs, pc[c] \in {"boot", "kern"}, cpu_env[c] = NoEnv,
         SchedYield(c, env_status, NoEnv),
         UNCHANGED <<env_id, env_parent_id, env_ipc_recving, env_free_list>>
  PROVE  Inv'
  <1>1. env_status \in [Slot -> Status]
    BY DEF Inv, SchedInv, SchedTypeOK
  <1>2. Handled(c, env_status, NoEnv)
    BY <1>1, HandledBy DEF Inv
  <1>3. SchedInv' /\ Keeps(env_status)
    BY <1>1, <1>2, SchedYieldInv DEF Inv, TableInv, TableTypeOK
  <1>4. TableInv'
    BY <1>1, <1>3, TableKept DEF Inv, TableInv, TableTypeOK, ReceiverBlocked
  <1> QED
    BY <1>3, <1>4 DEF Inv

\* A system call that leaves the ids, the list and the FREE statuses alone.
LEMMA CallInv ==
  ASSUME Inv, NEW c \in CPUs, Serves(c), NEW st \in [Slot -> Status],
         \A e \in Slot \ {cpu_env[c]} : st[e] \in OnCpu <=> env_status[e] \in OnCpu,
         st[cpu_env[c]] # "DYING",
         \A e \in Slot : st[e] = "FREE" <=> env_status[e] = "FREE",
         env_ipc_recving' \in [Slot -> BOOLEAN],
         \A e \in Slot : env_ipc_recving'[e] => st[e] \in {"NOT_RUNNABLE", "FREE"},
         UNCHANGED <<env_id, env_parent_id, env_free_list>>,
         TrapReturn(c, st)
  PROVE  Inv'
  <1>1. SchedInv' /\ Keeps(st)
    BY TailInv
  <1>2. TableInv'
    BY <1>1, TableKept DEF Inv
  <1> QED
    BY <1>1, <1>2 DEF Inv

LEMMA NoChangeInv == ASSUME Inv, NEW c \in CPUs, Serves(c), NoChange(c) PROVE Inv'
  <1>1. env_status \in [Slot -> Status] /\ env_status[cpu_env[c]] # "DYING"
    BY DEF Inv, SchedInv, SchedTypeOK, Serves
  <1>2. /\ env_ipc_recving' \in [Slot -> BOOLEAN]
        /\ \A e \in Slot : env_ipc_recving'[e] => env_status[e] \in {"NOT_RUNNABLE", "FREE"}
    BY DEF NoChange, Inv, TableInv, TableTypeOK, ReceiverBlocked
  <1> QED
    BY <1>1, <1>2, CallInv DEF NoChange

\* env_destroy of anything but a zombie.
LEMMA EnvDestroyInv ==
  ASSUME Inv, NEW c \in CPUs, Serves(c), NEW e \in Slot,
         env_status[e] \notin {"FREE", "DYING"}, EnvDestroy(c, e)
  PROVE  Inv'
  <1> USE DEF Inv, SchedInv, SchedTypeOK, Status, OnCpu
  <1>0. env_status[cpu_env[c]] = "RUNNING" /\ cpu_env[c] \in Slot
    BY ServesRunning
  <1>1. CASE cpu_env[c] = e
    BY <1>0, <1>1, GiveUpInv DEF EnvDestroy, Serves
  <1>2. CASE cpu_env[c] # e /\ env_status[e] = "RUNNING"
    <2> DEFINE st == [env_status EXCEPT ![e] = "DYING"]
    <2>1. /\ st \in [Slot -> Status]
          /\ \A s \in Slot : st[s] \in OnCpu <=> env_status[s] \in OnCpu
          /\ \A s \in Slot : st[s] = "FREE" <=> env_status[s] = "FREE"
          /\ st[cpu_env[c]] # "DYING"
      BY <1>0, <1>2
    <2>2. /\ TrapReturn(c, st)
          /\ UNCHANGED <<env_id, env_parent_id, env_ipc_recving, env_free_list>>
      BY <1>2 DEF EnvDestroy
    <2>3. /\ env_ipc_recving' \in [Slot -> BOOLEAN]
          /\ \A s \in Slot : env_ipc_recving'[s] => st[s] \in {"NOT_RUNNABLE", "FREE"}
      BY <1>2, <2>2 DEF TableInv, TableTypeOK, ReceiverBlocked
    <2> HIDE DEF st
    <2> QED
      BY <2>1, <2>2, <2>3, CallInv
  <1>3. CASE cpu_env[c] # e /\ env_status[e] # "RUNNING"
    <2> DEFINE st == [env_status EXCEPT ![e] = "FREE"]
    <2>1. /\ st \in [Slot -> Status]
          /\ \A s \in Slot : st[s] \in OnCpu <=> env_status[s] \in OnCpu
          /\ st[cpu_env[c]] # "DYING"
      BY <1>0, <1>3
    <2>2. TrapReturn(c, st) /\ EnvFree(e)
      BY <1>3 DEF EnvDestroy
    <2>3. SchedInv' /\ Keeps(st)
      <3> HIDE DEF st
      <3> QED
        BY <2>1, <2>2, TailInv
    <2>4. TableInv'
      BY <2>2, <2>3, TableFreed
    <2> QED
      BY <2>3, <2>4
  <1> QED
    BY <1>1, <1>2, <1>3

LEMMA BootCreateInv == ASSUME Inv, NEW c \in CPUs, BootCreate(c) PROVE Inv'
  <1> DEFINE e == Head(env_free_list)
             st == AllocStatus("RUNNABLE")
  <1>0. EnvAlloc(0) /\ env_status' = st /\ UNCHANGED cpuState /\ pc[c] = "boot"
    BY DEF BootCreate
  <1>1. Keeps(st)
    BY <1>0 DEF Keeps
  <1>2. TableInv' /\ e \in Slot /\ env_status[e] = "FREE"
    BY <1>0, <1>1, TableAllocated DEF Inv, SchedInv, SchedTypeOK, Status
  <1>3. env_status' \in [Slot -> Status] /\ \A s \in Slot : s # e => env_status'[s] = env_status[s]
    BY <1>0, <1>2 DEF AllocStatus, Inv, SchedInv, SchedTypeOK, Status
  <1>4. env_status'[e] = "RUNNABLE"
    BY <1>0, <1>2 DEF AllocStatus, Inv, SchedInv, SchedTypeOK
  <1>5. SchedTypeOK' /\ NoDoubleRun' /\ LockDiscipline' /\ SomeCpuAwake'
    BY <1>0, <1>3 DEF Inv, SchedInv, SchedTypeOK, NoDoubleRun, LockDiscipline, SomeCpuAwake, cpuState
  <1>6. StatusMatchesCpus'
    BY <1>0, <1>2, <1>3, <1>4
       DEF Inv, SchedInv, SchedTypeOK, StatusMatchesCpus, CurenvIsOnCpu, OnCpuIsCurenv, OnCpu, cpuState
  <1> QED
    BY <1>2, <1>5, <1>6 DEF Inv, SchedInv

LEMMA KernelStepInv == ASSUME Inv, NEW c \in CPUs, KernelStep(c) PROVE Inv'
  <1>1. CASE BootCreate(c)
    BY <1>1, BootCreateInv
  <1>2. CASE BootYield(c)
    BY <1>2, IdleInv DEF BootYield, Inv, SchedInv, LockDiscipline
  <1>3. CASE Wake(c)
    BY <1>3, IdleInv DEF Wake
  <1>4. CASE ReapZombie(c)
    BY <1>4, GiveUpInv DEF ReapZombie
  <1>5. CASE ReturnToUser(c)
    BY <1>5, NoChangeInv DEF ReturnToUser
  <1>6. CASE Yield(c)
    <2>1. Serves(c) /\ SchedYield(c, env_status, cpu_env[c])
      BY <1>6 DEF Yield
    <2>2. env_status \in [Slot -> Status] /\ cpu_env[c] \in Slot
      BY <2>1, ServesRunning DEF Inv, SchedInv, SchedTypeOK
    <2>3. Handled(c, env_status, cpu_env[c])
      BY <2>1, <2>2, HandledBy DEF Inv, Serves
    <2>4. SchedInv' /\ Keeps(env_status)
      BY <2>1, <2>2, <2>3, SchedYieldInv DEF Inv, TableInv, TableTypeOK
    <2>5. TableInv'
      BY <1>6, <2>2, <2>4, TableKept DEF Yield, Inv, TableInv, TableTypeOK, ReceiverBlocked
    <2> QED
      BY <2>4, <2>5 DEF Inv
  <1>7. CASE Breakpoint(c)
    <2>1. SchedInv'
      BY <1>7, NoCpuAssumption, NoEnvAssumption
         DEF Breakpoint, Serves, Inv, SchedInv, SchedTypeOK, NoDoubleRun, StatusMatchesCpus,
             CurenvIsOnCpu, OnCpuIsCurenv, LockDiscipline, SomeCpuAwake, Locked, Pc, envTable
    <2>2. TableInv'
      BY <1>7 DEF Breakpoint, envTable, Inv, TableInv, TableTypeOK, FreeListExact, ReceiverBlocked
    <2> QED
      BY <2>1, <2>2 DEF Inv
  <1>8. CASE Fault(c)
    <2>1. Serves(c) /\ EnvDestroy(c, cpu_env[c])
      BY <1>8 DEF Fault
    <2> QED
      BY <2>1, ServesRunning, EnvDestroyInv
  <1> QED
    BY <1>1, <1>2, <1>3, <1>4, <1>5, <1>6, <1>7, <1>8 DEF KernelStep

LEMMA ExoforkInv == ASSUME Inv, NEW c \in CPUs, SysExofork(c) PROVE Inv'
  <1>1. Serves(c)
    BY DEF SysExofork
  <1>2. CASE NoChange(c)
    BY <1>1, <1>2, NoChangeInv
  <1>3. CASE EnvAlloc(env_id[cpu_env[c]]) /\ TrapReturn(c, AllocStatus("NOT_RUNNABLE"))
    <2> DEFINE e == Head(env_free_list)
               st == AllocStatus("NOT_RUNNABLE")
               parent == env_id[cpu_env[c]]
    <2>1. e \in Slot /\ env_status[e] = "FREE"
      BY <1>3 DEF EnvAlloc, Inv, TableInv, TableTypeOK, FreeListExact
    <2>2. cpu_env[c] \in Slot /\ env_status[cpu_env[c]] = "RUNNING"
      BY <1>1, ServesRunning
    <2>3. /\ st \in [Slot -> Status]
          /\ \A s \in Slot : st[s] \in OnCpu <=> env_status[s] \in OnCpu
          /\ st[cpu_env[c]] # "DYING"
      BY <2>1, <2>2 DEF AllocStatus, Inv, SchedInv, SchedTypeOK, Status, OnCpu
    <2>4. SchedInv' /\ Keeps(st)
      <3> HIDE DEF st
      <3> QED
        BY <1>1, <1>3, <2>3, TailInv DEF st
    <2>5. parent \in Nat
      BY <2>2 DEF Inv, TableInv, TableTypeOK
    <2>6. TableInv'
      BY <1>3, <2>4, <2>5, TableAllocated DEF Inv, SchedInv, SchedTypeOK, Status
    <2> QED
      BY <2>4, <2>6 DEF Inv
  <1> QED
    BY <1>2, <1>3 DEF SysExofork

LEMMA IpcRecvInv == ASSUME Inv, NEW c \in CPUs, SysIpcRecv(c) PROVE Inv'
  <1>1. Serves(c) /\ cpu_env[c] \in Slot /\ env_status[cpu_env[c]] = "RUNNING"
    BY ServesRunning DEF SysIpcRecv
  <1>2. CASE NoChange(c)
    BY <1>1, <1>2, NoChangeInv
  <1>3. CASE ~NoChange(c)
    <2> DEFINE st == [env_status EXCEPT ![cpu_env[c]] = "NOT_RUNNABLE"]
    <2>1. /\ TrapReturn(c, st)
          /\ UNCHANGED <<env_id, env_parent_id, env_free_list>>
          /\ env_ipc_recving' = [env_ipc_recving EXCEPT ![cpu_env[c]] = TRUE]
      BY <1>3 DEF SysIpcRecv
    <2>2. /\ st \in [Slot -> Status] /\ st[cpu_env[c]] = "NOT_RUNNABLE"
          /\ \A e \in Slot \ {cpu_env[c]} : st[e] = env_status[e]
      BY <1>1 DEF Inv, SchedInv, SchedTypeOK, Status
    <2>3. /\ env_ipc_recving' \in [Slot -> BOOLEAN]
          /\ \A e \in Slot : env_ipc_recving'[e] => st[e] \in {"NOT_RUNNABLE", "FREE"}
      BY <1>1, <2>1, <2>2 DEF Inv, TableInv, TableTypeOK, ReceiverBlocked
    <2>4. \A e \in Slot : st[e] = "FREE" <=> env_status[e] = "FREE"
      BY <1>1, <2>2
    <2> HIDE DEF st
    <2> QED
      BY <1>1, <2>1, <2>2, <2>3, <2>4, CallInv
  <1> QED
    BY <1>2, <1>3

LEMMA IpcTrySendInv ==
  ASSUME Inv, NEW c \in CPUs, NEW envid \in Nat, SysIpcTrySend(c, envid)
  PROVE  Inv'
  <1> DEFINE e == Envid2Env(c, envid, FALSE)
  <1>1. Serves(c)
    BY DEF SysIpcTrySend
  <1>2. CASE NoChange(c)
    BY <1>1, <1>2, NoChangeInv
  <1>3. CASE ~NoChange(c)
    <2> DEFINE st == [env_status EXCEPT ![e] = "RUNNABLE"]
    <2>1. /\ e # NoEnv /\ env_ipc_recving[e]
          /\ env_ipc_recving' = [env_ipc_recving EXCEPT ![e] = FALSE]
          /\ UNCHANGED <<env_id, env_parent_id, env_free_list>>
          /\ TrapReturn(c, st)
      BY <1>3 DEF SysIpcTrySend
    <2>2. e \in Slot /\ env_status[e] # "FREE"
      BY <1>1, <2>1, Envid2EnvExists
    <2> HIDE DEF e
    <2>3. env_status[e] = "NOT_RUNNABLE" /\ e # cpu_env[c]
      BY <1>1, <2>1, <2>2, ServesRunning DEF Inv, TableInv, ReceiverBlocked
    <2>4. /\ st \in [Slot -> Status] /\ st[e] = "RUNNABLE"
          /\ \A s \in Slot \ {e} : st[s] = env_status[s]
      BY <2>2 DEF Inv, SchedInv, SchedTypeOK, Status
    <2>5. /\ env_ipc_recving' \in [Slot -> BOOLEAN]
          /\ \A s \in Slot : env_ipc_recving'[s] => st[s] \in {"NOT_RUNNABLE", "FREE"}
      BY <2>1, <2>2, <2>4 DEF Inv, TableInv, TableTypeOK, ReceiverBlocked
    <2>6. /\ \A s \in Slot : st[s] = "FREE" <=> env_status[s] = "FREE"
          /\ \A s \in Slot : st[s] \in OnCpu <=> env_status[s] \in OnCpu
          /\ st[cpu_env[c]] # "DYING"
      BY <1>1, <2>3, <2>4, ServesRunning DEF OnCpu
    <2> HIDE DEF st
    <2> QED
      BY <1>1, <2>1, <2>4, <2>5, <2>6, CallInv
  <1> QED
    BY <1>2, <1>3

LEMMA SetStatusInv ==
  ASSUME Inv, NEW c \in CPUs, NEW envid \in Nat, NEW status,
         StartsNewChild(c, envid), SysEnvSetStatus(c, envid, status)
  PROVE  Inv'
  <1> DEFINE e == Envid2Env(c, envid, TRUE)
  <1>1. Serves(c)
    BY DEF SysEnvSetStatus
  <1>2. CASE e = NoEnv \/ status \notin {"RUNNABLE", "NOT_RUNNABLE"}
    BY <1>1, <1>2, NoChangeInv DEF SysEnvSetStatus
  <1>3. CASE e # NoEnv /\ status \in {"RUNNABLE", "NOT_RUNNABLE"}
    <2> DEFINE st == [env_status EXCEPT ![e] = status]
    <2>1. /\ UNCHANGED <<env_id, env_parent_id, env_ipc_recving, env_free_list>>
          /\ TrapReturn(c, st)
      BY <1>3 DEF SysEnvSetStatus
    <2>2. e \in Slot /\ env_status[e] # "FREE"
      BY <1>1, <1>3, Envid2EnvExists
    <2>3. e = cpu_env[c] \/ (env_status[e] = "NOT_RUNNABLE" /\ ~env_ipc_recving[e])
      BY <1>3 DEF StartsNewChild
    <2> HIDE DEF e
    <2>4. ~env_ipc_recving[e]
      BY <1>1, <2>3, ServesRunning
    <2>5. /\ st \in [Slot -> Status] /\ st[e] = status
          /\ \A s \in Slot \ {e} : st[s] = env_status[s]
      BY <1>3, <2>2 DEF Inv, SchedInv, SchedTypeOK, Status
    <2>6. /\ env_ipc_recving' \in [Slot -> BOOLEAN]
          /\ \A s \in Slot : env_ipc_recving'[s] => st[s] \in {"NOT_RUNNABLE", "FREE"}
      BY <2>1, <2>4, <2>5 DEF Inv, TableInv, TableTypeOK, ReceiverBlocked
    <2>7. /\ \A s \in Slot : st[s] = "FREE" <=> env_status[s] = "FREE"
          /\ \A s \in Slot \ {cpu_env[c]} : st[s] \in OnCpu <=> env_status[s] \in OnCpu
          /\ st[cpu_env[c]] # "DYING"
      BY <1>1, <1>3, <2>2, <2>3, <2>5, ServesRunning DEF OnCpu
    <2> HIDE DEF st
    <2> QED
      BY <1>1, <2>1, <2>5, <2>6, <2>7, CallInv
  <1> QED
    BY <1>2, <1>3

LEMMA DestroyCallInv ==
  ASSUME Inv, NEW c \in CPUs, NEW envid \in Nat, DestroysOnce(c, envid),
         SysEnvDestroy(c, envid) \/ SysEnvSetTrapframe(c, envid)
  PROVE  Inv'
  <1> DEFINE e == Envid2Env(c, envid, TRUE)
  <1>1. Serves(c)
    BY DEF SysEnvDestroy, SysEnvSetTrapframe
  <1>2. CASE NoChange(c)
    BY <1>1, <1>2, NoChangeInv
  <1>3. CASE e # NoEnv /\ EnvDestroy(c, e)
    <2>1. e \in Slot /\ env_status[e] \notin {"FREE", "DYING"}
      BY <1>1, <1>3, Envid2EnvExists DEF DestroysOnce
    <2> QED
      BY <1>1, <1>3, <2>1, EnvDestroyInv
  <1> QED
    BY <1>2, <1>3 DEF SysEnvDestroy, SysEnvSetTrapframe

LEMMA NextInv == Inv /\ [Next]_vars => Inv'
  <1> SUFFICES ASSUME Inv, [Next]_vars PROVE Inv'
    OBVIOUS
  <1>0. EnvIds \subseteq Nat
    <2>1. (MaxGen + 1) * NENV \in Nat
      BY MaxGenAssumption, NENVAssumption
    <2> QED
      BY <2>1 DEF EnvIds, Inv, TableInv, TableTypeOK
  <1>1. CASE UNCHANGED vars
    BY <1>1 DEF vars, envTable, cpuState, Inv, SchedInv, SchedTypeOK, NoDoubleRun,
        StatusMatchesCpus, CurenvIsOnCpu, OnCpuIsCurenv, LockDiscipline, SomeCpuAwake,
        TableInv, TableTypeOK, FreeListExact, ReceiverBlocked
  <1>2. ASSUME NEW c \in CPUs, CpuStep(c) PROVE Inv'
    BY <1>2, CpuStepInv
  <1>3. ASSUME NEW c \in CPUs, KernelStep(c) PROVE Inv'
    BY <1>3, KernelStepInv
  <1>4. ASSUME NEW c \in CPUs, FreeCall(c) PROVE Inv'
    BY <1>0, <1>4, ExoforkInv, IpcRecvInv, IpcTrySendInv DEF FreeCall
  <1>5. ASSUME NEW c \in CPUs, LibraryCall(c) PROVE Inv'
    BY <1>0, <1>5, SetStatusInv, DestroyCallInv DEF LibraryCall
  <1> QED
    BY <1>1, <1>2, <1>3, <1>4, <1>5 DEF Next

-----------------------------------------------------------------------------
(* What becomes of each environment in one step: the life that EnvLife     *)
(* promises, and the end of zombies.                                       *)

\* What a step of c may do with the environment in slot e.
Turn(c, e) ==
    \/ /\ env_status[e] = "FREE" /\ env_status'[e] \in {"RUNNABLE", "NOT_RUNNABLE"}
       /\ env_id'[e] # 0
    \/ /\ env_id'[e] = env_id[e]
       /\ \/ env_status'[e] = env_status[e]
          \/ env_status[e] = "NOT_RUNNABLE" /\ env_status'[e] = "RUNNABLE"
          \/ env_status[e] = "RUNNABLE" /\ env_status'[e] = "RUNNING"
          \/ /\ env_status[e] = "RUNNING"
             /\ env_status'[e] \in {"RUNNABLE", "NOT_RUNNABLE", "DYING"}
          \/ env_status[e] \notin {"FREE", "DYING"} /\ env_status'[e] = "FREE"
          \/ /\ env_status[e] = "DYING" /\ env_status'[e] = "FREE"
             /\ cpu_env[c] = e /\ pc[c] = "kern" /\ cpu_env'[c] # e

OthersKeepTheirs(c) == \A d \in CPUs \ {c} : cpu_env'[d] = cpu_env[d]

Turns(c) == OthersKeepTheirs(c) /\ \A e \in Slot : Turn(c, e)

\* What the scheduler makes of the statuses and the environment it is given.
Scheduling(c, st, cur) ==
    /\ OthersKeepTheirs(c)
    /\ \A e \in Slot : \/ env_status'[e] = st[e]
                       \/ st[e] = "RUNNABLE" /\ env_status'[e] = "RUNNING"
                       \/ e = cur /\ st[e] = "RUNNING" /\ env_status'[e] = "RUNNABLE"
    /\ \/ cpu_env'[c] \in {NoEnv, cur}
       \/ env_status'[cpu_env'[c]] = "RUNNING"

LEMMA EnvRunSchedules ==
  ASSUME SchedTypeOK, NEW c \in CPUs, NEW st \in [Slot -> Status], NEW cur \in Slot \cup {NoEnv},
         NEW e \in Slot, st[e] = "RUNNABLE" \/ (e = cur /\ Owns(st, cur)),
         EnvRun(c, st, cur, e)
  PROVE  Scheduling(c, st, cur)
  <1>1. OthersKeepTheirs(c) /\ cpu_env'[c] = e /\ env_status'[e] = "RUNNING"
    BY DEF OthersKeepTheirs, EnvRun, SchedTypeOK
  <1>2. \A s \in Slot : \/ env_status'[s] = st[s]
                        \/ st[s] = "RUNNABLE" /\ env_status'[s] = "RUNNING"
                        \/ s = cur /\ st[s] = "RUNNING" /\ env_status'[s] = "RUNNABLE"
    BY DEF EnvRun, Owns
  <1> QED
    BY <1>1, <1>2 DEF Scheduling

LEMMA SchedYieldSchedules ==
  ASSUME SchedTypeOK, env_id \in [Slot -> Nat], NEW c \in CPUs,
         NEW st \in [Slot -> Status], NEW cur \in Slot \cup {NoEnv}, SchedYield(c, st, cur)
  PROVE  Scheduling(c, st, cur)
  <1>1. CASE \E i \in 1 .. NENV : /\ Ready(st, Probe(cur, i))
                                  /\ EnvRun(c, st, cur, Probe(cur, i))
    <2>1. PICK i \in 1 .. NENV : Ready(st, Probe(cur, i)) /\ EnvRun(c, st, cur, Probe(cur, i))
      BY <1>1
    <2> QED
      BY <2>1, ProbeInSlot, EnvRunSchedules DEF Ready
  <1>2. CASE Owns(st, cur) /\ EnvRun(c, st, cur, cur)
    <2>1. cur \in Slot
      BY <1>2 DEF Owns
    <2> QED
      BY <1>2, <2>1, EnvRunSchedules
  <1>3. CASE SchedHalt(c, st, cur)
    BY <1>3 DEF SchedHalt, Scheduling, OthersKeepTheirs, SchedTypeOK
  <1> QED
    BY <1>1, <1>2, <1>3 DEF SchedYield

LEMMA TrapReturnSchedules ==
  ASSUME SchedTypeOK, env_id \in [Slot -> Nat], NEW c \in CPUs,
         NEW st \in [Slot -> Status], TrapReturn(c, st)
  PROVE  Scheduling(c, st, cpu_env[c])
  <1>1. cpu_env[c] \in Slot \cup {NoEnv}
    BY DEF SchedTypeOK
  <1>2. CASE Owns(st, cpu_env[c])
    <2>1. cpu_env[c] \in Slot /\ EnvRun(c, st, cpu_env[c], cpu_env[c])
      BY <1>1, <1>2 DEF Owns, TrapReturn
    <2> QED
      BY <1>2, <2>1, EnvRunSchedules
  <1>3. CASE ~Owns(st, cpu_env[c])
    BY <1>1, <1>3, SchedYieldSchedules DEF TrapReturn
  <1> QED
    BY <1>2, <1>3

\* A handler whose environment may go on returns to it and to no other.
LEMMA TailOwned ==
  ASSUME SchedTypeOK, NEW c \in CPUs, NEW st \in [Slot -> Status], cpu_env[c] \in Slot,
         st[cpu_env[c]] = "RUNNING", TrapReturn(c, st)
  PROVE  OthersKeepTheirs(c) /\ \A e \in Slot : env_status'[e] = st[e]
  <1>1. EnvRun(c, st, cpu_env[c], cpu_env[c])
    BY NoEnvAssumption DEF TrapReturn, Owns
  <1> QED
    BY <1>1 DEF EnvRun, OthersKeepTheirs, SchedTypeOK

\* env_alloc never hands out the id 0, which is short for the caller.
LEMMA NewIdNotZero == ASSUME NEW e \in Slot, env_id[e] \in Nat PROVE NewEnvId(e) # 0
  <1> DEFINE next == env_id[e] \div NENV + 1
             generation == IF next > MaxGen THEN 1 ELSE next
  <1>1. generation \in Nat \ {0} /\ NENV \in Nat \ {0}
    BY DivNat, NENVAssumption
  <1> HIDE DEF generation
  <1>2. generation * NENV \in Nat \ {0}
    BY <1>1
  <1>3. e \in Nat
    BY DEF Slot
  <1> QED
    BY <1>2, <1>3 DEF NewEnvId, generation

\* env_alloc and the statuses it leaves: one slot is born.
LEMMA AllocTurns ==
  ASSUME Inv, NEW c \in CPUs, NEW parent, EnvAlloc(parent), OthersKeepTheirs(c),
         NEW status \in {"RUNNABLE", "NOT_RUNNABLE"},
         \A e \in Slot : env_status'[e] = AllocStatus(status)[e]
  PROVE  Turns(c)
  <1> DEFINE b == Head(env_free_list)
  <1>1. b \in Slot /\ env_status[b] = "FREE"
    BY DEF EnvAlloc, Inv, TableInv, TableTypeOK, FreeListExact
  <1>2. env_id' = [env_id EXCEPT ![b] = NewEnvId(b)]
    BY DEF EnvAlloc
  <1>3. env_id'[b] # 0 /\ \A e \in Slot \ {b} : env_id'[e] = env_id[e]
    BY <1>1, <1>2, NewIdNotZero DEF Inv, TableInv, TableTypeOK
  <1>4. env_status'[b] = status /\ \A e \in Slot \ {b} : env_status'[e] = env_status[e]
    BY <1>1 DEF AllocStatus, Inv, SchedInv, SchedTypeOK
  <1> QED
    BY <1>1, <1>3, <1>4 DEF Turns, Turn

\* A handler that lets the scheduler loose on the statuses st, having
\* changed none but that of its own environment.
LEMMA ScheduledTurns ==
  ASSUME Inv, NEW c \in CPUs, NEW st \in [Slot -> Status],
         Scheduling(c, st, cpu_env[c]), UNCHANGED env_id,
         \A e \in Slot \ {cpu_env[c]} : st[e] = env_status[e],
         cpu_env[c] \in Slot
             => /\ env_status[cpu_env[c]] = "RUNNING"
                /\ st[cpu_env[c]] \in {"RUNNING", "RUNNABLE", "NOT_RUNNABLE"}
  PROVE  Turns(c)
  <1> SUFFICES ASSUME NEW e \in Slot PROVE Turn(c, e)
    BY DEF Turns, Scheduling
  <1>1. CASE e = cpu_env[c]
    BY <1>1 DEF Scheduling, Turn
  <1>2. CASE e # cpu_env[c]
    BY <1>2 DEF Scheduling, Turn
  <1> QED
    BY <1>1, <1>2

\* The environment of c is freed, be it a zombie or not.
LEMMA GiveUpTurns ==
  ASSUME Inv, NEW c \in CPUs, pc[c] = "kern", cpu_env[c] # NoEnv, EnvFree(cpu_env[c]),
         SchedYield(c, [env_status EXCEPT ![cpu_env[c]] = "FREE"], NoEnv)
  PROVE  Turns(c)
  <1> DEFINE e == cpu_env[c]
             st == [env_status EXCEPT ![e] = "FREE"]
  <1>1. e \in Slot /\ env_status[e] \in OnCpu
    BY Alone DEF Inv
  <1>2. st \in [Slot -> Status] /\ st[e] = "FREE" /\ \A s \in Slot \ {e} : st[s] = env_status[s]
    BY <1>1 DEF Inv, SchedInv, SchedTypeOK, Status
  <1>3. Scheduling(c, st, NoEnv) /\ UNCHANGED env_id
    <2> HIDE DEF st
    <2> QED
      BY <1>2, SchedYieldSchedules DEF Inv, SchedInv, TableInv, TableTypeOK, EnvFree, st
  <1> HIDE DEF st
  <1>4. env_status'[e] = "FREE" /\ cpu_env'[c] # e
    BY <1>1, <1>2, <1>3, NoEnvAssumption DEF Scheduling
  <1>5. \A s \in Slot \ {e} : Turn(c, s)
    BY <1>2, <1>3, NoEnvAssumption DEF Scheduling, Turn
  <1>6. Turn(c, e)
    BY <1>1, <1>3, <1>4 DEF Turn, OnCpu
  <1> QED
    BY <1>3, <1>5, <1>6 DEF Turns, Scheduling

LEMMA IdleTurns ==
  ASSUME Inv, NEW c \in CPUs, cpu_env[c] = NoEnv, SchedYield(c, env_status, NoEnv),
         UNCHANGED env_id
  PROVE  Turns(c)
  <1>1. env_status \in [Slot -> Status]
    BY DEF Inv, SchedInv, SchedTypeOK
  <1>2. Scheduling(c, env_status, cpu_env[c])
    BY <1>1, SchedYieldSchedules DEF Inv, SchedInv, TableInv, TableTypeOK
  <1> QED
    BY <1>1, <1>2, ScheduledTurns, NoEnvAssumption

LEMMA NoChangeTurns == ASSUME Inv, NEW c \in CPUs, Serves(c), NoChange(c) PROVE Turns(c)
  <1>1. env_status \in [Slot -> Status] /\ env_status[cpu_env[c]] = "RUNNING"
    BY ServesRunning DEF Inv, SchedInv, SchedTypeOK
  <1>2. Scheduling(c, env_status, cpu_env[c]) /\ UNCHANGED env_id
    BY <1>1, TrapReturnSchedules DEF NoChange, Inv, SchedInv, TableInv, TableTypeOK
  <1> QED
    BY <1>1, <1>2, ScheduledTurns

LEMMA EnvDestroyTurns ==
  ASSUME Inv, NEW c \in CPUs, Serves(c), NEW e \in Slot,
         env_status[e] \notin {"FREE", "DYING"}, EnvDestroy(c, e)
  PROVE  Turns(c)
  <1>0. env_status[cpu_env[c]] = "RUNNING" /\ cpu_env[c] \in Slot
    BY ServesRunning
  <1>1. CASE cpu_env[c] = e
    BY <1>0, <1>1, GiveUpTurns DEF EnvDestroy, Serves
  <1>2. CASE cpu_env[c] # e
    <2>1. PICK status \in {"DYING", "FREE"} :
              /\ status = "DYING" => env_status[e] = "RUNNING"
              /\ TrapReturn(c, [env_status EXCEPT ![e] = status])
              /\ UNCHANGED env_id
      BY <1>2 DEF EnvDestroy, EnvFree
    <2> DEFINE st == [env_status EXCEPT ![e] = status]
    <2>2. /\ st \in [Slot -> Status] /\ st[e] = status
          /\ \A s \in Slot \ {e} : st[s] = env_status[s]
      BY DEF Inv, SchedInv, SchedTypeOK, Status
    <2>3. TrapReturn(c, st)
      BY <2>1
    <2> HIDE DEF st
    <2>4. OthersKeepTheirs(c) /\ \A s \in Slot : env_status'[s] = st[s]
      BY <1>0, <1>2, <2>2, <2>3, TailOwned DEF Inv, SchedInv
    <2> QED
      BY <2>1, <2>2, <2>4 DEF Turns, Turn
  <1> QED
    BY <1>1, <1>2

LEMMA CpuStepTurns == ASSUME Inv, NEW c \in CPUs, CpuStep(c) PROVE Turns(c)
  BY DEF CpuStep, TrapEnter, AcquireLock, PopTf, MonitorLoop, vars, envTable, cpuState,
         Turns, Turn, OthersKeepTheirs

LEMMA KernelStepTurns == ASSUME Inv, NEW c \in CPUs, KernelStep(c) PROVE Turns(c)
  <1>1. CASE BootCreate(c)
    <2>1. OthersKeepTheirs(c) /\ EnvAlloc(0) /\ env_status' = AllocStatus("RUNNABLE")
      BY <1>1 DEF BootCreate, cpuState, OthersKeepTheirs
    <2> QED
      BY <2>1, AllocTurns
  <1>2. CASE BootYield(c)
    BY <1>2, IdleTurns DEF BootYield, Inv, SchedInv, LockDiscipline
  <1>3. CASE Wake(c)
    BY <1>3, IdleTurns DEF Wake
  <1>4. CASE ReapZombie(c)
    BY <1>4, GiveUpTurns DEF ReapZombie
  <1>5. CASE ReturnToUser(c)
    BY <1>5, NoChangeTurns DEF ReturnToUser
  <1>6. CASE Yield(c)
    <2>1. Serves(c) /\ SchedYield(c, env_status, cpu_env[c]) /\ UNCHANGED env_id
      BY <1>6 DEF Yield
    <2>2. /\ env_status \in [Slot -> Status]
          /\ cpu_env[c] \in Slot /\ env_status[cpu_env[c]] = "RUNNING"
      BY <2>1, ServesRunning DEF Inv, SchedInv, SchedTypeOK
    <2>3. Scheduling(c, env_status, cpu_env[c])
      BY <2>1, <2>2, SchedYieldSchedules DEF Inv, SchedInv, TableInv, TableTypeOK
    <2> QED
      BY <2>1, <2>2, <2>3, ScheduledTurns
  <1>7. CASE Breakpoint(c)
    BY <1>7 DEF Breakpoint, envTable, Turns, Turn, OthersKeepTheirs
  <1>8. CASE Fault(c)
    <2>1. Serves(c) /\ EnvDestroy(c, cpu_env[c])
      BY <1>8 DEF Fault
    <2> QED
      BY <2>1, ServesRunning, EnvDestroyTurns
  <1> QED
    BY <1>1, <1>2, <1>3, <1>4, <1>5, <1>6, <1>7, <1>8 DEF KernelStep

LEMMA ExoforkTurns == ASSUME Inv, NEW c \in CPUs, SysExofork(c) PROVE Turns(c)
  <1>1. Serves(c) /\ cpu_env[c] \in Slot /\ env_status[cpu_env[c]] = "RUNNING"
    BY ServesRunning DEF SysExofork
  <1>2. CASE NoChange(c)
    BY <1>1, <1>2, NoChangeTurns
  <1>3. CASE EnvAlloc(env_id[cpu_env[c]]) /\ TrapReturn(c, AllocStatus("NOT_RUNNABLE"))
    <2> DEFINE st == AllocStatus("NOT_RUNNABLE")
    <2>1. Head(env_free_list) \in Slot /\ env_status[Head(env_free_list)] = "FREE"
      BY <1>3 DEF EnvAlloc, Inv, TableInv, TableTypeOK, FreeListExact
    <2>2. st \in [Slot -> Status] /\ st[cpu_env[c]] = "RUNNING"
      BY <1>1, <2>1 DEF AllocStatus, Inv, SchedInv, SchedTypeOK, Status
    <2>3. OthersKeepTheirs(c) /\ \A e \in Slot : env_status'[e] = st[e]
      <3> HIDE DEF st
      <3> QED
        BY <1>1, <1>3, <2>2, TailOwned DEF Inv, SchedInv, st
    <2> QED
      BY <1>3, <2>3, AllocTurns
  <1> QED
    BY <1>2, <1>3 DEF SysExofork

LEMMA IpcRecvTurns == ASSUME Inv, NEW c \in CPUs, SysIpcRecv(c) PROVE Turns(c)
  <1>1. Serves(c) /\ cpu_env[c] \in Slot /\ env_status[cpu_env[c]] = "RUNNING"
    BY ServesRunning DEF SysIpcRecv
  <1>2. CASE NoChange(c)
    BY <1>1, <1>2, NoChangeTurns
  <1>3. CASE ~NoChange(c)
    <2> DEFINE st == [env_status EXCEPT ![cpu_env[c]] = "NOT_RUNNABLE"]
    <2>1. TrapReturn(c, st) /\ UNCHANGED env_id
      BY <1>3 DEF SysIpcRecv
    <2>2. /\ st \in [Slot -> Status] /\ st[cpu_env[c]] = "NOT_RUNNABLE"
          /\ \A e \in Slot \ {cpu_env[c]} : st[e] = env_status[e]
      BY <1>1 DEF Inv, SchedInv, SchedTypeOK, Status
    <2> HIDE DEF st
    <2>3. Scheduling(c, st, cpu_env[c])
      BY <2>1, <2>2, TrapReturnSchedules DEF Inv, SchedInv, TableInv, TableTypeOK
    <2> QED
      BY <1>1, <2>1, <2>2, <2>3, ScheduledTurns
  <1> QED
    BY <1>2, <1>3

\* A call that makes one blocked environment runnable, and returns.
LEMMA ReadyTurns ==
  ASSUME Inv, NEW c \in CPUs, Serves(c), NEW e \in Slot, env_status[e] = "NOT_RUNNABLE",
         NEW status \in {"RUNNABLE", "NOT_RUNNABLE"},
         TrapReturn(c, [env_status EXCEPT ![e] = status]), UNCHANGED env_id
  PROVE  Turns(c)
  <1> DEFINE st == [env_status EXCEPT ![e] = status]
  <1>1. /\ st \in [Slot -> Status] /\ st[e] = status
        /\ \A s \in Slot \ {e} : st[s] = env_status[s]
    BY DEF Inv, SchedInv, SchedTypeOK, Status
  <1>2. cpu_env[c] \in Slot /\ env_status[cpu_env[c]] = "RUNNING"
    BY ServesRunning
  <1>3. OthersKeepTheirs(c) /\ \A s \in Slot : env_status'[s] = st[s]
    <2> HIDE DEF st
    <2> QED
      BY <1>1, <1>2, TailOwned DEF Inv, SchedInv, st
  <1> HIDE DEF st
  <1> QED
    BY <1>1, <1>3 DEF Turns, Turn

LEMMA IpcTrySendTurns ==
  ASSUME Inv, NEW c \in CPUs, NEW envid \in Nat, SysIpcTrySend(c, envid)
  PROVE  Turns(c)
  <1> DEFINE e == Envid2Env(c, envid, FALSE)
  <1>1. Serves(c)
    BY DEF SysIpcTrySend
  <1>2. CASE NoChange(c)
    BY <1>1, <1>2, NoChangeTurns
  <1>3. CASE ~NoChange(c)
    <2>1. /\ e # NoEnv /\ env_ipc_recving[e] /\ UNCHANGED env_id
          /\ TrapReturn(c, [env_status EXCEPT ![e] = "RUNNABLE"])
      BY <1>3 DEF SysIpcTrySend
    <2>2. e \in Slot /\ env_status[e] # "FREE"
      BY <1>1, <2>1, Envid2EnvExists
    <2> HIDE DEF e
    <2>3. env_status[e] = "NOT_RUNNABLE"
      BY <2>1, <2>2 DEF Inv, TableInv, ReceiverBlocked
    <2> QED
      BY <1>1, <2>1, <2>2, <2>3, ReadyTurns
  <1> QED
    BY <1>2, <1>3

LEMMA SetStatusTurns ==
  ASSUME Inv, NEW c \in CPUs, NEW envid \in Nat, NEW status,
         StartsNewChild(c, envid), SysEnvSetStatus(c, envid, status)
  PROVE  Turns(c)
  <1> DEFINE e == Envid2Env(c, envid, TRUE)
  <1>1. Serves(c) /\ cpu_env[c] \in Slot /\ env_status[cpu_env[c]] = "RUNNING"
    BY ServesRunning DEF SysEnvSetStatus
  <1>2. CASE e = NoEnv \/ status \notin {"RUNNABLE", "NOT_RUNNABLE"}
    BY <1>1, <1>2, NoChangeTurns DEF SysEnvSetStatus
  <1>3. CASE e # NoEnv /\ status \in {"RUNNABLE", "NOT_RUNNABLE"}
    <2>1. TrapReturn(c, [env_status EXCEPT ![e] = status]) /\ UNCHANGED env_id
      BY <1>3 DEF SysEnvSetStatus
    <2>2. e \in Slot
      BY <1>1, <1>3, Envid2EnvExists
    <2>3. e = cpu_env[c] \/ env_status[e] = "NOT_RUNNABLE"
      BY <1>3 DEF StartsNewChild
    <2> HIDE DEF e
    <2>4. CASE env_status[e] = "NOT_RUNNABLE"
      BY <1>1, <1>3, <2>1, <2>2, <2>4, ReadyTurns
    <2>5. CASE e = cpu_env[c]
      <3> DEFINE st == [env_status EXCEPT ![e] = status]
      <3>1. /\ st \in [Slot -> Status] /\ st[e] = status
            /\ \A s \in Slot \ {e} : st[s] = env_status[s]
        BY <1>3, <2>2 DEF Inv, SchedInv, SchedTypeOK, Status
      <3>2. Scheduling(c, st, cpu_env[c])
        <4> HIDE DEF st
        <4> QED
          BY <2>1, <3>1, TrapReturnSchedules DEF Inv, SchedInv, TableInv, TableTypeOK, st
      <3> HIDE DEF st
      <3> QED
        BY <1>1, <1>3, <2>1, <2>5, <3>1, <3>2, ScheduledTurns
    <2> QED
      BY <2>3, <2>4, <2>5
  <1> QED
    BY <1>2, <1>3

LEMMA DestroyCallTurns ==
  ASSUME Inv, NEW c \in CPUs, NEW envid \in Nat, DestroysOnce(c, envid),
         SysEnvDestroy(c, envid) \/ SysEnvSetTrapframe(c, envid)
  PROVE  Turns(c)
  <1> DEFINE e == Envid2Env(c, envid, TRUE)
  <1>1. Serves(c)
    BY DEF SysEnvDestroy, SysEnvSetTrapframe
  <1>2. CASE NoChange(c)
    BY <1>1, <1>2, NoChangeTurns
  <1>3. CASE e # NoEnv /\ EnvDestroy(c, e)
    <2>1. e \in Slot /\ env_status[e] \notin {"FREE", "DYING"}
      BY <1>1, <1>3, Envid2EnvExists DEF DestroysOnce
    <2> QED
      BY <1>1, <1>3, <2>1, EnvDestroyTurns
  <1> QED
    BY <1>2, <1>3 DEF SysEnvDestroy, SysEnvSetTrapframe

LEMMA NextTurns ==
  ASSUME Inv, [Next]_vars
  PROVE  \E c \in CPUs : Turns(c)
  <1>0. EnvIds \subseteq Nat
    <2>1. (MaxGen + 1) * NENV \in Nat
      BY MaxGenAssumption, NENVAssumption
    <2> QED
      BY <2>1 DEF EnvIds, Inv, TableInv, TableTypeOK
  <1>1. CASE UNCHANGED vars
    BY <1>1, BspAssumption DEF vars, envTable, cpuState, Turns, Turn, OthersKeepTheirs
  <1>2. ASSUME NEW c \in CPUs, CpuStep(c) PROVE Turns(c)
    BY <1>2, CpuStepTurns
  <1>3. ASSUME NEW c \in CPUs, KernelStep(c) PROVE Turns(c)
    BY <1>3, KernelStepTurns
  <1>4. ASSUME NEW c \in CPUs, FreeCall(c) PROVE Turns(c)
    BY <1>0, <1>4, ExoforkTurns, IpcRecvTurns, IpcTrySendTurns DEF FreeCall
  <1>5. ASSUME NEW c \in CPUs, LibraryCall(c) PROVE Turns(c)
    BY <1>0, <1>5, SetStatusTurns, DestroyCallTurns DEF LibraryCall
  <1> QED
    BY <1>1, <1>2, <1>3, <1>4, <1>5 DEF Next

-----------------------------------------------------------------------------
(* The refinement of EnvLife.                                              *)

\* Host is well defined: an environment that is RUNNING or DYING is the
\* curenv of exactly one CPU.
LEMMA HostWhere ==
  Inv => \A e \in Slot :
             /\ env_status[e] \in OnCpu => Host(e) \in CPUs /\ cpu_env[Host(e)] = e
             /\ env_status[e] \notin OnCpu => Host(e) = NoCpu
  BY DEF Inv, SchedInv, StatusMatchesCpus, OnCpuIsCurenv, Host

LEMMA HostWhereNext ==
  ASSUME Inv'
  PROVE  (\A e \in Slot :
             /\ env_status[e] \in OnCpu => Host(e) \in CPUs /\ cpu_env[Host(e)] = e
             /\ env_status[e] \notin OnCpu => Host(e) = NoCpu)'
  BY HostWhere, PTL

LEMMA LifeInit == Init => Life!Init
  BY DEF Init, Life!Init, Host, OnCpu

\* An environment that keeps a CPU keeps the same one.
LEMMA HostKept ==
  ASSUME Inv, Inv', NEW c \in CPUs, OthersKeepTheirs(c), NEW e \in Slot,
         env_status[e] \in OnCpu, env_status'[e] \in OnCpu
  PROVE  Host(e)' = Host(e)
  <1>1. Host(e) \in CPUs /\ cpu_env[Host(e)] = e
    BY HostWhere
  <1>2. Host(e)' \in CPUs /\ cpu_env'[Host(e)'] = e
    BY HostWhereNext
  <1> DEFINE h == Host(e)
             k == Host(e)'
  <1> HIDE DEF h, k
  <1>3. h \in CPUs /\ cpu_env[h] = e /\ k \in CPUs /\ cpu_env'[k] = e
    BY <1>1, <1>2 DEF h, k
  <1>4. \A d, f \in CPUs : /\ cpu_env[d] = e /\ cpu_env[f] = e => d = f
                           /\ cpu_env'[d] = e /\ cpu_env'[f] = e => d = f
    BY NoEnvAssumption DEF Inv, SchedInv, NoDoubleRun
  <1>5. k = h
    BY <1>3, <1>4 DEF OthersKeepTheirs
  <1> QED
    BY <1>5 DEF h, k

LEMMA TurnsAreLife ==
  ASSUME Inv, Inv', NEW c \in CPUs, Turns(c)
  PROVE  Life!Next
  <1> DEFINE host == [e \in Slot |-> Host(e)]
  <1>1. \A e \in Slot : host[e] = Host(e) /\ host'[e] = Host(e)'
    OBVIOUS
  <1>2. \A e \in Slot : env_status[e] \in Status /\ env_status'[e] \in Status
    BY DEF Inv, SchedInv, SchedTypeOK
  <1>3. ASSUME NEW e \in Slot PROVE Life!Step(e)
    <2>1. /\ env_status[e] \in OnCpu => Host(e) \in CPUs
          /\ env_status[e] \notin OnCpu => Host(e) = NoCpu
          /\ env_status'[e] \in OnCpu => Host(e)' \in CPUs
          /\ env_status'[e] \notin OnCpu => Host(e)' = NoCpu
          /\ env_status[e] \in OnCpu /\ env_status'[e] \in OnCpu => Host(e)' = Host(e)
      BY <1>3, HostWhere, HostWhereNext, HostKept DEF Turns
    <2>2. Turn(c, e)
      BY <1>3 DEF Turns
    <2> QED
      BY <1>1, <1>2, <2>1, <2>2
         DEF Turn, OnCpu, Status, Life!Step, Life!Birth, Life!Ready, Life!Dispatch,
             Life!LeaveCpu, Life!Condemn, Life!Death, Life!Rest
  <1>4. ASSUME NEW e \in Slot, NEW f \in Slot, Host(e)' # NoCpu, Host(e)' = Host(f)'
        PROVE  e = f
    BY <1>4, HostWhereNext
  <1> QED
    BY <1>1, <1>3, <1>4 DEF Life!Next

-----------------------------------------------------------------------------
(* The theorems.                                                           *)

\* The statuses, the curenv pointers, the lock and the free list agree in
\* every reachable state (kern/env.c, kern/sched.c, kern/trap.c).
THEOREM Invariance == Spec => []Inv
  BY InitInv, NextInv, PTL DEF Spec

\* Every variable keeps its type.
THEOREM TypeCorrect == Spec => []TypeOK
  <1>1. Inv => TypeOK
    BY DEF Inv, SchedInv, SchedTypeOK, TableInv, TableTypeOK, TypeOK
  <1> QED
    BY <1>1, Invariance, PTL

\* sched.c: no environment ever runs on two CPUs.
THEOREM NeverTwoCpus == Spec => []NoDoubleRun
  <1>1. Inv => NoDoubleRun
    BY DEF Inv, SchedInv
  <1> QED
    BY <1>1, Invariance, PTL

\* env_destroy, env_run, trap: an environment that a CPU runs is RUNNING or
\* DYING, never freed, and whatever is RUNNING or DYING has its CPU.
THEOREM StatusAndCpuAgree == Spec => []StatusMatchesCpus
  <1>1. Inv => StatusMatchesCpus
    BY DEF Inv, SchedInv
  <1> QED
    BY <1>1, Invariance, PTL

\* env_alloc, env_free: the free list is exactly the set of FREE slots.
THEOREM FreeListCorrect == Spec => []FreeListExact
  <1>1. Inv => FreeListExact
    BY DEF Inv, TableInv
  <1> QED
    BY <1>1, Invariance, PTL

\* sys_ipc_recv, sys_ipc_try_send: a waiting receiver is not runnable.
THEOREM ReceiverStaysBlocked == Spec => []ReceiverBlocked
  <1>1. Inv => ReceiverBlocked
    BY DEF Inv, TableInv
  <1> QED
    BY <1>1, Invariance, PTL

\* lock_kernel, unlock_kernel: the lock's owner is the CPU in the kernel.
THEOREM KernelIsExclusive == Spec => []LockDiscipline
  <1>1. Inv => LockDiscipline
    BY DEF Inv, SchedInv
  <1> QED
    BY <1>1, Invariance, PTL

\* sched_halt: the CPUs are never all halted.
THEOREM NeverAllHalted == Spec => []SomeCpuAwake
  <1>1. Inv => SomeCpuAwake
    BY DEF Inv, SchedInv
  <1> QED
    BY <1>1, Invariance, PTL

\* env_destroy, trap: a zombie is freed by the CPU that runs it, in the
\* kernel and on its way to another environment, and by nothing else.
THEOREM ZombieDiesInItsCpu == Spec => ZombieFreedByItsCpu
  <1> DEFINE A == \A e \in Slot : env_status[e] = "DYING" /\ env_status'[e] # "DYING" =>
                      /\ env_status'[e] = "FREE"
                      /\ \E c \in CPUs : cpu_env[c] = e /\ pc[c] = "kern" /\ cpu_env'[c] # e
  <1>1. ASSUME Inv, [Next]_vars PROVE A
    <2>1. PICK c \in CPUs : Turns(c)
      BY <1>1, NextTurns
    <2> QED
      BY <2>1 DEF Turns, Turn
  <1>2. Inv /\ [Next]_vars => [A]_vars
    BY <1>1
  <1> QED
    BY <1>2, Invariance, PTL DEF Spec, ZombieFreedByItsCpu

\* Whatever the scheduler, the traps and the system calls do, each
\* environment lives as EnvLife says, under the mapping Host of MCEnvSched.
THEOREM ImplementsEnvLife == Spec => LivesAsPromised
  <1>1. ASSUME Inv, Inv', [Next]_vars PROVE [Life!Next]_(Life!vars)
    <2>1. PICK c \in CPUs : Turns(c)
      BY <1>1, NextTurns
    <2> QED
      BY <1>1, <2>1, TurnsAreLife
  <1> QED
    BY <1>1, LifeInit, Invariance, PTL DEF Spec, LivesAsPromised, Life!Spec

=============================================================================
