----------------------------- MODULE PipeProofs -----------------------------
(***************************************************************************)
(* Proofs about Pipe for any number of processes, descriptors and          *)
(* processors and any buffer size: the bytes arrive in order, and what the *)
(* test for a closed other end relies on.                                  *)
(***************************************************************************)
EXTENDS MCPipe, Sequences, FiniteSetTheorems, SequenceTheorems, TLAPS

-----------------------------------------------------------------------------
(* Positions in the ring buffer.                                           *)

\* Positions less than the buffer size apart use different slots.
LEMMA Slots ==
  ASSUME NEW j \in Nat, NEW k \in Nat, j < k, k < j + PIPEBUFSIZ
  PROVE  j % PIPEBUFSIZ # k % PIPEBUFSIZ
  <1> DEFINE S == PIPEBUFSIZ
  <1>1. S \in Nat /\ S > 0
    BY BufferAssumption
  <1> HIDE DEF S
  <1>2. /\ j \div S \in Int /\ k \div S \in Int /\ j % S \in Int /\ k % S \in Int
        /\ j = S * (j \div S) + (j % S) /\ k = S * (k \div S) + (k % S)
    BY <1>1
  <1>3. PICK a \in Int, b \in Int, c \in Int, d \in Int : a = j \div S /\ b = k \div S /\ c = j % S /\ d = k % S
    BY <1>2
  <1>4. S * b - S * a = (k - j) + (c - d)
    BY <1>1, <1>2, <1>3
  <1>5. ASSUME c = d PROVE FALSE
    <2>1. S * b - S * a \in 1 .. S - 1
      BY <1>1, <1>4, <1>5 DEF S
    <2>2. CASE b <= a
      BY <1>1, <2>1, <2>2
    <2>3. CASE b >= a + 1
      <3>1. S * b >= S * (a + 1)
        BY <1>1, <2>3
      <3>2. S * (a + 1) = S * a + S
        BY <1>1
      <3> QED
        BY <1>1, <2>1, <3>1, <3>2
    <2> QED
      BY <2>2, <2>3
  <1> QED
    BY <1>3, <1>5 DEF S

LEMMA SlotRange ==
  ASSUME NEW k \in Nat
  PROVE  k % PIPEBUFSIZ \in 0 .. PIPEBUFSIZ - 1
  BY BufferAssumption

-----------------------------------------------------------------------------
(* The invariant of the calls: who reads, who writes, and where.           *)

Page == ({"fd"} \X FdNum) \cup ({"data"} \X FdNum)

Locals ==
    [pc : Pc, call : {"none", "isclosed", "read", "write"}, n : FdNum, i : Nat, len : Nat,
     byte : Nat \cup {Nothing}, resumed : BOOLEAN, ref : Nat,
     to : FdNum \cup {Nothing}, child : Proc \cup {Nothing}, todo : SUBSET Page]

ReadPc == {"read_test", "read_take", "read_inc"}
WritePc == {"write_test", "write_store", "write_inc"}
TestPc == {"ref_fd", "ref_pipe"}

\* The call that a program counter belongs to.
Consistent(l) ==
    /\ l.pc \in ReadPc => l.call = "read"
    /\ l.pc \in WritePc => l.call = "write"
    /\ l.pc \in TestPc => l.call # "none"
    /\ l.pc = "yield" => l.call \in {"read", "write"}

Busy(l, call) == l.call = call /\ l.pc \notin Idle

\* One process reads and one writes.
Alone == \A p, q \in Proc, call \in {"read", "write"} :
            Busy(loc[p], call) /\ Busy(loc[q], call) => p = q

\* A reader takes a byte that is there, a writer stores where there is room.
Placed(l) ==
    /\ l.pc \in {"read_take", "read_inc"} => p_rpos < p_wpos
    /\ l.pc = "read_inc" => l.byte = p_rpos
    /\ l.pc \in {"write_store", "write_inc"} => p_wpos < p_rpos + PIPEBUFSIZ
    /\ l.pc = "write_inc" => p_buf[p_wpos % PIPEBUFSIZ] = p_wpos

\* The bytes between the positions are those that were written.
BufferOK == \A k \in p_rpos .. p_wpos - 1 : p_buf[k % PIPEBUFSIZ] = k

CallsOK ==
    /\ loc \in [Proc -> Locals] /\ Alone
    /\ \A p \in Proc : /\ Consistent(loc[p]) /\ Placed(loc[p])
                       /\ env[p] # "LIVE" => loc[p] = Start

RingInv == TypeOK /\ CallsOK /\ BufferOK

-----------------------------------------------------------------------------
(* Frames.                                                                 *)

LEMMA StartIs ==
  /\ Start \in Locals /\ Start.pc = "user" /\ Start.call = "none" /\ Start.n = 0 /\ Start.to = Nothing
  /\ Consistent(Start) /\ Placed(Start) /\ Placed(Start)'
  /\ \A call \in {"read", "write"} : ~Busy(Start, call)
  <1>1. Start \in Locals
    BY FdNumAssumption DEF Start, Locals, Pc, Idle
  <1>2. Start.pc = "user" /\ Start.call = "none" /\ Start.n = 0 /\ Start.to = Nothing
    BY DEF Start
  <1> QED
    BY <1>1, <1>2 DEF Consistent, Placed, Busy, Idle, ReadPc, WritePc, TestPc

LEMMA Moved ==
  ASSUME NEW p \in Proc, loc \in [Proc -> Locals], NEW l \in Locals, loc' = [loc EXCEPT ![p] = l]
  PROVE  loc' \in [Proc -> Locals] /\ loc'[p] = l /\ \A q \in Proc \ {p} : loc'[q] = loc[q]
  OBVIOUS

\* The locals of p change, the positions do not.
LEMMA CallFrame ==
  ASSUME RingInv, NEW p \in Proc, NEW l \in Locals, loc' = [loc EXCEPT ![p] = l],
         p_rpos' = p_rpos, p_wpos' = p_wpos, p_buf' = p_buf,
         Consistent(l), Placed(l), env'[p] # "LIVE" => l = Start,
         \A q \in Proc \ {p} : env'[q] # "LIVE" => env[q] # "LIVE",
         \A call \in {"read", "write"} :
             Busy(l, call) => Busy(loc[p], call) \/ \A q \in Proc \ {p} : ~Busy(loc[q], call)
  PROVE  CallsOK' /\ BufferOK'
  <1>1. loc' \in [Proc -> Locals] /\ loc'[p] = l /\ \A q \in Proc \ {p} : loc'[q] = loc[q]
    BY Moved DEF RingInv, CallsOK
  <1>2. Alone'
    BY <1>1 DEF RingInv, CallsOK, Alone
  <1>3. BufferOK'
    BY DEF RingInv, BufferOK
  <1>4. ASSUME NEW q \in Proc
        PROVE  Consistent(loc'[q]) /\ Placed(loc[q])' /\ (env'[q] # "LIVE" => loc'[q] = Start)
    <2>1. CASE q = p
      BY <1>1, <2>1 DEF Placed
    <2>2. CASE q # p
      BY <1>1, <2>2 DEF RingInv, CallsOK, Placed
    <2> QED
      BY <2>1, <2>2
  <1> QED
    BY <1>1, <1>2, <1>3, <1>4 DEF CallsOK

\* A step of a process on a CPU that changes its locals alone.
LEMMA LocalStep ==
  ASSUME RingInv, NEW p \in running, NEW l \in Locals, loc' = [loc EXCEPT ![p] = l],
         UNCHANGED <<shared, sched>>, Consistent(l), Placed(l),
         \A call \in {"read", "write"} :
             Busy(l, call) => Busy(loc[p], call) \/ \A q \in Proc \ {p} : ~Busy(loc[q], call)
  PROVE  RingInv'
  <1>1. p \in Proc /\ env[p] = "LIVE"
    BY DEF RingInv, TypeOK
  <1>2. /\ fd' = fd /\ data' = data /\ p_rpos' = p_rpos /\ p_wpos' = p_wpos /\ p_buf' = p_buf /\ got' = got
        /\ env' = env /\ running' = running
    BY DEF shared, sched
  <1>3. CallsOK' /\ BufferOK'
    BY <1>1, <1>2, CallFrame
  <1>4. \A q \in Proc : loc'[q].pc \in Pc
    BY <1>3 DEF CallsOK, Locals
  <1>5. TypeOK'
    BY <1>2, <1>4 DEF RingInv, TypeOK
  <1> QED
    BY <1>3, <1>5 DEF RingInv

\* A step that moves no position; p is then in no call that reads or writes,
\* or goes on where it was.
LEMMA QuietStep ==
  ASSUME RingInv, NEW p \in Proc, NEW l \in Locals, loc' = [loc EXCEPT ![p] = l],
         p_rpos' = p_rpos, p_wpos' = p_wpos, p_buf' = p_buf, got' = got,
         fd' \in [Proc -> [FdNum -> End \cup {Nothing}]],
         data' \in [Proc -> [FdNum -> BOOLEAN]],
         env' \in [Proc -> {"NONE", "NEW", "LIVE", "DEAD"}],
         running' \subseteq Proc, \A q \in running' : env'[q] = "LIVE", Cardinality(running') <= NCPU,
         Consistent(l), Placed(l), env'[p] # "LIVE" => l = Start,
         \A q \in Proc \ {p} : env'[q] # "LIVE" => env[q] # "LIVE",
         \A call \in {"read", "write"} : Busy(l, call) => Busy(loc[p], call)
  PROVE  RingInv'
  <1>1. CallsOK' /\ BufferOK'
    BY CallFrame
  <1>2. \A q \in Proc : loc'[q].pc \in Pc
    BY <1>1 DEF CallsOK, Locals
  <1>3. TypeOK'
    BY <1>2 DEF RingInv, TypeOK
  <1> QED
    BY <1>1, <1>3 DEF RingInv

LEMMA CountType ==
  /\ \A end : RefFd(end) \in Nat /\ IsFiniteSet({q \in Proc \X FdNum : fd[q[1]][q[2]] = end})
  /\ RefPipe \in Nat /\ IsFiniteSet({q \in Proc \X FdNum : data[q[1]][q[2]]})
  <1>1. IsFiniteSet(Proc \X FdNum)
    BY FiniteAssumption, FS_Product
  <1>2. \A S \in SUBSET (Proc \X FdNum) : IsFiniteSet(S) /\ Cardinality(S) \in Nat
    BY <1>1, FS_Subset, FS_CardinalityType
  <1> QED
    BY <1>2 DEF RefFd, RefPipe

\* What is known of a process on a CPU, and of its locals.
LEMMA OnCpu ==
  ASSUME RingInv, NEW p \in running
  PROVE  p \in Proc /\ env[p] = "LIVE" /\ loc[p] \in Locals /\ Consistent(loc[p]) /\ Placed(loc[p])
  BY DEF RingInv, TypeOK, CallsOK

-----------------------------------------------------------------------------
(* The scheduler.                                                          *)

LEMMA RingResume ==
  ASSUME RingInv, NEW p \in Proc, Resume(p)
  PROVE  RingInv'
  <1>7. PICK b \in BOOLEAN : b = (loc[p].pc \in Window)
    <2>1. (loc[p].pc \in Window) \in BOOLEAN
      OBVIOUS
    <2> QED
      BY <2>1
  <1>8. loc[p] \in Locals
    BY DEF RingInv, CallsOK
  <1>1. PICK l \in Locals : l = [loc[p] EXCEPT !.resumed = b]
    BY <1>7, <1>8 DEF Locals
  <1>2. /\ l.pc = loc[p].pc /\ l.call = loc[p].call /\ l.byte = loc[p].byte
        /\ loc' = [loc EXCEPT ![p] = l] /\ loc[p] \in Locals
    <2>1. l.pc = loc[p].pc /\ l.call = loc[p].call /\ l.byte = loc[p].byte
      BY <1>1, <1>8 DEF Locals
    <2>2. loc' = [loc EXCEPT ![p] = l]
      BY <1>1, <1>7, <1>8 DEF Resume, RingInv, CallsOK
    <2> QED
      BY <1>8, <2>1, <2>2
  <1>3. env[p] = "LIVE" /\ env' = env /\ UNCHANGED shared /\ running' = running \cup {p} /\ Cardinality(running) < NCPU
    BY DEF Resume
  <1>4. Cardinality(running') <= NCPU
    <2>1. running \subseteq Proc
      BY DEF RingInv, TypeOK
    <2>2. IsFiniteSet(running) /\ Cardinality(running) \in Nat
      BY <2>1, FiniteAssumption, FS_Subset, FS_CardinalityType
    <2>3. Cardinality(running \cup {p}) = IF p \in running THEN Cardinality(running) ELSE Cardinality(running) + 1
      BY <2>2, FS_AddElement
    <2> QED
      BY <1>3, <2>2, <2>3, CallAssumption
  <1>5. /\ p_rpos' = p_rpos /\ p_wpos' = p_wpos /\ p_buf' = p_buf /\ got' = got
        /\ fd' \in [Proc -> [FdNum -> End \cup {Nothing}]] /\ data' \in [Proc -> [FdNum -> BOOLEAN]]
        /\ env' \in [Proc -> {"NONE", "NEW", "LIVE", "DEAD"}]
        /\ running' \subseteq Proc /\ \A q \in running' : env'[q] = "LIVE"
    BY <1>3 DEF RingInv, TypeOK, shared
  <1>6. Consistent(l) /\ Placed(l) /\ \A call \in {"read", "write"} : Busy(l, call) => Busy(loc[p], call)
    BY <1>2 DEF RingInv, CallsOK, Consistent, Placed, Busy
  <1> QED
    BY <1>2, <1>3, <1>4, <1>5, <1>6, QuietStep

\* The CPU is taken from p.
LEMMA RingOff ==
  ASSUME RingInv, NEW p \in running, NEW l \in Locals, loc' = [loc EXCEPT ![p] = l],
         running' = running \ {p}, env' = env, UNCHANGED shared,
         Consistent(l), Placed(l),
         \A call \in {"read", "write"} : Busy(l, call) => Busy(loc[p], call)
  PROVE  RingInv'
  <1>1. Cardinality(running') <= NCPU
    <2>1. running \subseteq Proc /\ Cardinality(running) <= NCPU
      BY DEF RingInv, TypeOK
    <2>2. IsFiniteSet(running)
      BY <2>1, FiniteAssumption, FS_Subset
    <2>3. Cardinality(running') <= Cardinality(running) /\ Cardinality(running') \in Nat /\ Cardinality(running) \in Nat
      BY <2>2, FS_Subset, FS_CardinalityType
    <2> QED
      BY <2>1, <2>3, CallAssumption
  <1>2. /\ p_rpos' = p_rpos /\ p_wpos' = p_wpos /\ p_buf' = p_buf /\ got' = got
        /\ fd' \in [Proc -> [FdNum -> End \cup {Nothing}]] /\ data' \in [Proc -> [FdNum -> BOOLEAN]]
        /\ env' \in [Proc -> {"NONE", "NEW", "LIVE", "DEAD"}]
        /\ running' \subseteq Proc /\ \A q \in running' : env'[q] = "LIVE"
    BY DEF RingInv, TypeOK, shared
  <1> QED
    BY <1>1, <1>2, OnCpu, QuietStep

LEMMA RingOffCpu ==
  ASSUME RingInv, NEW p \in Proc, Tick(p) \/ IdleTick(p) \/ SysYield(p)
  PROVE  RingInv'
  <1>1. p \in running /\ running' = running \ {p} /\ env' = env /\ UNCHANGED shared
    BY DEF Tick, IdleTick, Ready, SysYield, At
  <1>2. CASE Tick(p) \/ IdleTick(p)
    <2>1. PICK l \in Locals : l = loc[p]
      BY DEF RingInv, CallsOK
    <2>2. loc' = [loc EXCEPT ![p] = l]
      BY <1>2, <2>1 DEF Tick, IdleTick, RingInv, CallsOK
    <2> QED
      BY <1>1, <2>1, <2>2, OnCpu, RingOff
  <1>3. CASE SysYield(p)
    <2>1. loc[p].pc = "yield" /\ loc[p] \in Locals /\ loc[p].call \in {"read", "write"}
      BY <1>1, <1>3, OnCpu DEF SysYield, At, Consistent
    <2>2. PICK l \in Locals : l = [loc[p] EXCEPT !.pc = IF loc[p].call = "read" THEN "read_test" ELSE "write_test"]
      BY <2>1 DEF Locals, Pc
    <2>3. /\ loc' = [loc EXCEPT ![p] = l] /\ l.call = loc[p].call
          /\ l.pc = IF loc[p].call = "read" THEN "read_test" ELSE "write_test"
      BY <1>3, <2>1, <2>2 DEF SysYield, Locals
    <2>4. Consistent(l) /\ Placed(l) /\ \A call \in {"read", "write"} : Busy(l, call) => Busy(loc[p], call)
      BY <2>1, <2>3 DEF Consistent, Placed, Busy, ReadPc, WritePc, TestPc, Idle
    <2> QED
      BY <1>1, <2>3, <2>4, RingOff
  <1> QED
    BY <1>2, <1>3

-----------------------------------------------------------------------------
(* Calls and their tests.                                                  *)

LEMMA RingIsClosed ==
  ASSUME RingInv, NEW p \in Proc, NEW n \in FdNum, IsClosed(p, n)
  PROVE  RingInv'
  <1>1. PICK l \in Locals : l = [Start EXCEPT !.pc = "ref_fd", !.call = "isclosed", !.n = n]
    BY StartIs DEF Locals, Pc
  <1>2. l.pc = "ref_fd" /\ l.call = "isclosed"
    BY <1>1, StartIs DEF Locals
  <1>3. p \in running /\ loc' = [loc EXCEPT ![p] = l] /\ UNCHANGED <<shared, sched>>
    BY <1>1 DEF IsClosed, Ready
  <1>4. Consistent(l) /\ Placed(l) /\ \A call \in {"read", "write"} : ~Busy(l, call)
    BY <1>2 DEF Consistent, Placed, Busy, ReadPc, WritePc, TestPc, Idle
  <1> QED
    BY <1>3, <1>4, LocalStep

LEMMA RingReadRefFd ==
  ASSUME RingInv, NEW p \in Proc, ReadRefFd(p)
  PROVE  RingInv'
  <1>1. p \in running /\ loc[p].pc = "ref_fd" /\ loc[p] \in Locals /\ Consistent(loc[p])
    BY OnCpu DEF ReadRefFd, At
  <1>2. PICK k \in Nat : k = RefFd(fd[p][loc[p].n])
    BY CountType
  <1>3. PICK l \in Locals : l = [loc[p] EXCEPT !.pc = "ref_pipe", !.ref = k]
    BY <1>1 DEF Locals, Pc
  <1>4. l.pc = "ref_pipe" /\ l.call = loc[p].call
    BY <1>1, <1>3 DEF Locals
  <1>5. loc' = [loc EXCEPT ![p] = l] /\ UNCHANGED <<shared, sched>>
    BY <1>2, <1>3 DEF ReadRefFd, RingInv, CallsOK
  <1>6. Consistent(l) /\ Placed(l) /\ \A call \in {"read", "write"} : Busy(l, call) => Busy(loc[p], call)
    BY <1>1, <1>4 DEF Consistent, Placed, Busy, ReadPc, WritePc, TestPc, Idle
  <1> QED
    BY <1>1, <1>5, <1>6, LocalStep

LEMMA YieldIs ==
  ASSUME NEW k \in Locals, NEW l, l = [k EXCEPT !.pc = "yield", !.ref = 0, !.resumed = FALSE]
  PROVE  l \in Locals /\ l.pc = "yield" /\ l.call = k.call /\ l.n = k.n
  BY DEF Locals, Pc

\* The locals after a verdict.
LEMMA VerdictIs ==
  ASSUME NEW p \in Proc, loc[p] \in Locals, NEW ret, NEW l, l = Verdict(p, ret)
  PROVE  /\ l \in Locals
         /\ \/ ret /\ l.pc = "closed" /\ l.n = loc[p].n /\ l.call = loc[p].call
            \/ ~ret /\ loc[p].call = "isclosed" /\ l = Start
            \/ ~ret /\ loc[p].call # "isclosed" /\ l.pc = "yield" /\ l.call = loc[p].call /\ l.n = loc[p].n
  <1>1. CASE ret
    <2>1. l = [Start EXCEPT !.pc = "closed", !.call = loc[p].call, !.n = loc[p].n]
      BY <1>1 DEF Verdict
    <2> QED
      BY <1>1, <2>1, StartIs, ZenonT(60) DEF Locals, Pc, Idle
  <1>2. CASE ~ret /\ loc[p].call = "isclosed"
    BY <1>2, StartIs DEF Verdict
  <1>3. CASE ~ret /\ loc[p].call # "isclosed"
    <2>1. l = [loc[p] EXCEPT !.pc = "yield", !.ref = 0, !.resumed = FALSE]
      BY <1>3 DEF Verdict
    <2>2. l \in Locals /\ l.pc = "yield" /\ l.call = loc[p].call /\ l.n = loc[p].n
      BY <2>1, YieldIs
    <2> QED
      BY <1>3, <2>2
  <1> QED
    BY <1>1, <1>2, <1>3

LEMMA RingReadRefPipe ==
  ASSUME RingInv, NEW p \in Proc, ReadRefPipe(p)
  PROVE  RingInv'
  <1>1. p \in running /\ loc[p].pc = "ref_pipe" /\ loc[p] \in Locals /\ Consistent(loc[p])
    BY OnCpu DEF ReadRefPipe, At
  <1>2. UNCHANGED <<shared, sched>>
    BY DEF ReadRefPipe
  <1>3. CASE loc[p].resumed
    <2>1. PICK l \in Locals : l = [loc[p] EXCEPT !.pc = "ref_fd", !.ref = 0, !.resumed = FALSE]
      BY <1>1 DEF Locals, Pc
    <2>2. l.pc = "ref_fd" /\ l.call = loc[p].call
      BY <1>1, <2>1 DEF Locals
    <2>3. loc' = [loc EXCEPT ![p] = l]
      BY <1>3, <2>1 DEF ReadRefPipe, RingInv, CallsOK
    <2>4. Consistent(l) /\ Placed(l) /\ \A call \in {"read", "write"} : Busy(l, call) => Busy(loc[p], call)
      BY <1>1, <2>2 DEF Consistent, Placed, Busy, ReadPc, WritePc, TestPc, Idle
    <2> QED
      BY <1>1, <1>2, <2>3, <2>4, LocalStep
  <1>4. CASE ~loc[p].resumed
    <2>1. PICK l : l = Verdict(p, loc[p].ref = RefPipe)
      OBVIOUS
    <2>2. loc' = [loc EXCEPT ![p] = l]
      BY <1>4, <2>1 DEF ReadRefPipe, RingInv, CallsOK
    <2>3. /\ l \in Locals
          /\ \/ l.pc = "closed" /\ l.n = loc[p].n
             \/ l = Start
             \/ loc[p].call # "isclosed" /\ l.pc = "yield" /\ l.call = loc[p].call
      BY <1>1, <2>1, VerdictIs
    <2>4. loc[p].call \in {"isclosed", "read", "write"}
      BY <1>1 DEF Consistent, TestPc, Locals
    <2>5. Consistent(l) /\ Placed(l) /\ \A call \in {"read", "write"} : Busy(l, call) => Busy(loc[p], call)
      BY <1>1, <2>3, <2>4, StartIs DEF Consistent, Placed, Busy, ReadPc, WritePc, TestPc, Idle
    <2> QED
      BY <1>1, <1>2, <2>2, <2>3, <2>5, LocalStep
  <1> QED
    BY <1>3, <1>4

LEMMA RingCall ==
  ASSUME RingInv, NEW p \in Proc, NEW n \in FdNum, Read(p, n, CallLen) \/ Write(p, n, CallLen)
  PROVE  RingInv'
  <1>1. ASSUME NEW call \in {"read", "write"}, Calling(call) = {} PROVE \A q \in Proc : ~Busy(loc[q], call)
    <2>1. ASSUME NEW q \in Proc, Busy(loc[q], call) PROVE FALSE
      <3>1. env[q] = "LIVE"
        BY <2>1, StartIs DEF RingInv, CallsOK
      <3> QED
        BY <1>1, <2>1, <3>1 DEF Calling, Busy
    <2> QED
      BY <2>1
  <1>2. CASE Read(p, n, CallLen)
    <2>1. PICK l \in Locals : l = [Start EXCEPT !.pc = "read_test", !.call = "read", !.n = n, !.len = CallLen]
      BY StartIs, CallAssumption, ZenonT(60) DEF Locals, Pc
    <2>2. l.pc = "read_test" /\ l.call = "read"
      BY <2>1, StartIs DEF Locals
    <2>3. p \in running /\ loc' = [loc EXCEPT ![p] = l] /\ UNCHANGED <<shared, sched>>
      BY <1>2, <2>1 DEF Read, Ready
    <2>4. Consistent(l) /\ Placed(l) /\ ~Busy(l, "write")
      BY <2>2 DEF Consistent, Placed, Busy, ReadPc, WritePc, TestPc, Idle
    <2>5. \A q \in Proc : ~Busy(loc[q], "read")
      BY <1>1, <1>2 DEF Read
    <2> QED
      BY <2>3, <2>4, <2>5, LocalStep
  <1>3. CASE Write(p, n, CallLen)
    <2>1. PICK l \in Locals : l = [Start EXCEPT !.pc = "write_test", !.call = "write", !.n = n, !.len = CallLen]
      BY StartIs, CallAssumption, ZenonT(60) DEF Locals, Pc
    <2>2. l.pc = "write_test" /\ l.call = "write"
      BY <2>1, StartIs DEF Locals
    <2>3. p \in running /\ loc' = [loc EXCEPT ![p] = l] /\ UNCHANGED <<shared, sched>>
      BY <1>3, <2>1 DEF Write, Ready
    <2>4. Consistent(l) /\ Placed(l) /\ ~Busy(l, "read")
      BY <2>2 DEF Consistent, Placed, Busy, ReadPc, WritePc, TestPc, Idle
    <2>5. \A q \in Proc : ~Busy(loc[q], "write")
      BY <1>1, <1>3 DEF Write
    <2> QED
      BY <2>3, <2>4, <2>5, LocalStep
  <1> QED
    BY <1>2, <1>3

LEMMA RingTest ==
  ASSUME RingInv, NEW p \in Proc, ReadTest(p) \/ WriteTest(p)
  PROVE  RingInv'
  <1>1. p \in running /\ UNCHANGED <<shared, sched>> /\ loc[p].pc \in {"read_test", "write_test"}
    BY DEF ReadTest, WriteTest, At
  <1>2. loc[p] \in Locals /\ Consistent(loc[p]) /\ loc \in [Proc -> Locals]
    BY <1>1, OnCpu DEF RingInv, CallsOK
  <1>3. p_rpos \in Nat /\ p_wpos \in Nat /\ p_wpos - p_rpos \in 0 .. PIPEBUFSIZ
    BY DEF RingInv, TypeOK
  <1>4. CASE loc' = [loc EXCEPT ![p] = Start]
    BY <1>1, <1>4, StartIs, LocalStep
  <1>5. ASSUME NEW pc \in {"ref_fd", "read_take", "write_store"}, loc' = [loc EXCEPT ![p] = [loc[p] EXCEPT !.pc = pc]],
               pc = "read_take" => loc[p].pc = "read_test" /\ p_rpos < p_wpos,
               pc = "write_store" => loc[p].pc = "write_test" /\ p_wpos < p_rpos + PIPEBUFSIZ
        PROVE  RingInv'
    <2>1. PICK l \in Locals : l = [loc[p] EXCEPT !.pc = pc]
      BY <1>2 DEF Locals, Pc
    <2>2. l.pc = pc /\ l.call = loc[p].call
      BY <1>2, <2>1 DEF Locals
    <2>3. Consistent(l) /\ Placed(l) /\ \A call \in {"read", "write"} : Busy(l, call) => Busy(loc[p], call)
      BY <1>1, <1>2, <1>5, <2>2 DEF Consistent, Placed, Busy, ReadPc, WritePc, TestPc, Idle
    <2> QED
      BY <1>1, <1>5, <2>1, <2>3, LocalStep
  <1>6. CASE ReadTest(p)
    <2>1. \/ loc' = [loc EXCEPT ![p] = Start]
          \/ p_rpos = p_wpos /\ loc' = [loc EXCEPT ![p] = [loc[p] EXCEPT !.pc = "ref_fd"]]
          \/ p_rpos # p_wpos /\ loc' = [loc EXCEPT ![p] = [loc[p] EXCEPT !.pc = "read_take"]]
      BY <1>2, <1>6 DEF ReadTest
    <2>2. loc[p].pc = "read_test" /\ (p_rpos # p_wpos => p_rpos < p_wpos)
      BY <1>3, <1>6, BufferAssumption DEF ReadTest, At
    <2> QED
      BY <1>4, <1>5, <2>1, <2>2
  <1>7. CASE WriteTest(p)
    <2>1. \/ loc' = [loc EXCEPT ![p] = Start]
          \/ loc' = [loc EXCEPT ![p] = [loc[p] EXCEPT !.pc = "ref_fd"]]
          \/ ~(p_wpos >= p_rpos + PIPEBUFSIZ) /\ loc' = [loc EXCEPT ![p] = [loc[p] EXCEPT !.pc = "write_store"]]
      BY <1>2, <1>7 DEF WriteTest
    <2>2. loc[p].pc = "write_test" /\ (~(p_wpos >= p_rpos + PIPEBUFSIZ) => p_wpos < p_rpos + PIPEBUFSIZ)
      BY <1>3, <1>7, BufferAssumption DEF WriteTest, At
    <2> QED
      BY <1>4, <1>5, <2>1, <2>2
  <1> QED
    BY <1>6, <1>7

LEMMA RingReadTake ==
  ASSUME RingInv, NEW p \in Proc, ReadTake(p)
  PROVE  RingInv'
  <1>1. p \in running /\ UNCHANGED <<shared, sched>> /\ loc[p].pc = "read_take"
    BY DEF ReadTake, At
  <1>2. loc[p] \in Locals /\ Consistent(loc[p]) /\ Placed(loc[p]) /\ loc \in [Proc -> Locals]
    BY <1>1, OnCpu DEF RingInv, CallsOK
  <1>3. p_rpos \in Nat /\ p_wpos \in Nat /\ p_rpos < p_wpos
    BY <1>1, <1>2 DEF RingInv, TypeOK, Placed
  <1>4. p_buf[p_rpos % PIPEBUFSIZ] = p_rpos
    BY <1>3 DEF RingInv, BufferOK
  <1>5. PICK l \in Locals : l = [loc[p] EXCEPT !.pc = "read_inc", !.byte = p_rpos]
    BY <1>2, <1>3 DEF Locals, Pc
  <1>6. l.pc = "read_inc" /\ l.call = loc[p].call /\ l.byte = p_rpos
    BY <1>2, <1>5 DEF Locals
  <1>7. loc' = [loc EXCEPT ![p] = l]
    BY <1>2, <1>4, <1>5 DEF ReadTake
  <1>8. Consistent(l) /\ Placed(l) /\ \A call \in {"read", "write"} : Busy(l, call) => Busy(loc[p], call)
    BY <1>1, <1>2, <1>3, <1>6 DEF Consistent, Placed, Busy, ReadPc, WritePc, TestPc, Idle
  <1> QED
    BY <1>1, <1>7, <1>8, LocalStep

LEMMA RingReadInc ==
  ASSUME RingInv, NEW p \in Proc, ReadInc(p)
  PROVE  RingInv' /\ p_rpos < p_wpos /\ got' = p_rpos /\ p_rpos' = p_rpos + 1 /\ p_wpos' = p_wpos /\ p_buf' = p_buf
  <1>1. /\ p \in running /\ loc[p].pc = "read_inc" /\ p_rpos' = p_rpos + 1 /\ got' = loc[p].byte
        /\ fd' = fd /\ data' = data /\ p_wpos' = p_wpos /\ p_buf' = p_buf
        /\ env' = env /\ running' = running
    BY DEF ReadInc, At, sched
  <1>2. loc[p] \in Locals /\ Consistent(loc[p]) /\ Placed(loc[p]) /\ loc \in [Proc -> Locals] /\ env[p] = "LIVE"
    BY <1>1, OnCpu DEF RingInv, CallsOK
  <1>3. /\ p_rpos \in Nat /\ p_wpos \in Nat /\ p_rpos < p_wpos /\ p_wpos - p_rpos \in 0 .. PIPEBUFSIZ /\ loc[p].byte = p_rpos
        /\ PIPEBUFSIZ \in Nat
    BY <1>1, <1>2, BufferAssumption DEF RingInv, TypeOK, Placed
  <1>4. loc[p].call = "read" /\ Busy(loc[p], "read")
    BY <1>1, <1>2 DEF Consistent, Busy, ReadPc, Idle
  <1>14. PICK i \in Nat : i = loc[p].i + 1
    BY <1>2 DEF Locals
  <1>15. PICK none \in Nat \cup {Nothing} : none = Nothing
    OBVIOUS
  <1>5. PICK l \in Locals : l = [loc[p] EXCEPT !.pc = "read_test", !.byte = none, !.i = i]
    BY <1>2 DEF Locals, Pc
  <1>6. l.pc = "read_test" /\ l.call = "read"
    BY <1>2, <1>4, <1>5 DEF Locals
  <1>7. loc' = [loc EXCEPT ![p] = l]
    BY <1>2, <1>5, <1>14, <1>15 DEF ReadInc
  <1>8. loc' \in [Proc -> Locals] /\ loc'[p] = l /\ \A q \in Proc \ {p} : loc'[q] = loc[q]
    BY <1>1, <1>2, <1>7, OnCpu, Moved
  <1>9. Alone'
    <2>1. Busy(l, "read") /\ ~Busy(l, "write")
      BY <1>6 DEF Busy, Idle
    <2> QED
      BY <1>4, <1>8, <2>1 DEF RingInv, CallsOK, Alone
  <1>10. ASSUME NEW q \in Proc PROVE Consistent(loc'[q]) /\ Placed(loc[q])' /\ (env'[q] # "LIVE" => loc'[q] = Start)
    <2>1. CASE q = p
      BY <1>1, <1>2, <1>6, <1>8, <2>1 DEF Consistent, Placed, ReadPc, WritePc, TestPc
    <2>2. CASE q # p
      <3>1. loc'[q] = loc[q] /\ Consistent(loc[q]) /\ Placed(loc[q]) /\ (env[q] # "LIVE" => loc[q] = Start)
        BY <1>8, <2>2 DEF RingInv, CallsOK
      <3>2. loc[q].pc \notin {"read_take", "read_inc"}
        <4>1. ~Busy(loc[q], "read")
          BY <1>1, <1>4, <2>2 DEF RingInv, CallsOK, Alone
        <4> QED
          BY <3>1, <4>1 DEF Consistent, Busy, ReadPc, Idle
      <3>3. Placed(loc[q])'
        BY <1>1, <1>3, <3>1, <3>2 DEF Placed
      <3> QED
        BY <1>1, <3>1, <3>3
    <2> QED
      BY <2>1, <2>2
  <1>11. BufferOK'
    BY <1>1, <1>3 DEF RingInv, BufferOK
  <1>12. CallsOK'
    BY <1>8, <1>9, <1>10 DEF CallsOK
  <1>13. TypeOK'
    <2>1. \A q \in Proc : loc'[q].pc \in Pc
      BY <1>8 DEF Locals
    <2>2. p_rpos' \in Nat /\ p_wpos' \in Nat /\ p_wpos' - p_rpos' \in 0 .. PIPEBUFSIZ /\ got' \in Nat
      BY <1>1, <1>3
    <2> QED
      BY <1>1, <2>1, <2>2 DEF RingInv, TypeOK
  <1> QED
    BY <1>1, <1>3, <1>11, <1>12, <1>13 DEF RingInv

LEMMA RingStore ==
  ASSUME RingInv, NEW p \in Proc, At(p, "write_store"), Store,
         loc' = [loc EXCEPT ![p].pc = "write_inc"], UNCHANGED <<fd, data, p_rpos, p_wpos, got, sched>>
  PROVE  /\ RingInv'
         /\ \A k \in p_rpos .. p_wpos - 1 : p_buf'[k % PIPEBUFSIZ] = p_buf[k % PIPEBUFSIZ]
  <1>1. /\ p \in running /\ loc[p].pc = "write_store" /\ p_rpos' = p_rpos /\ got' = got
        /\ fd' = fd /\ data' = data /\ p_wpos' = p_wpos
        /\ env' = env /\ running' = running
    BY DEF At, sched
  <1>2. loc[p] \in Locals /\ Consistent(loc[p]) /\ Placed(loc[p]) /\ loc \in [Proc -> Locals] /\ env[p] = "LIVE"
    BY <1>1, OnCpu DEF RingInv, CallsOK
  <1>3. /\ p_rpos \in Nat /\ p_wpos \in Nat /\ p_wpos < p_rpos + PIPEBUFSIZ /\ p_wpos - p_rpos \in 0 .. PIPEBUFSIZ
        /\ PIPEBUFSIZ \in Nat
    BY <1>1, <1>2, BufferAssumption DEF RingInv, TypeOK, Placed
  <1>4. loc[p].call = "write" /\ Busy(loc[p], "write")
    BY <1>1, <1>2 DEF Consistent, Busy, WritePc, Idle
  <1>5. PICK l \in Locals : l = [loc[p] EXCEPT !.pc = "write_inc"]
    BY <1>2 DEF Locals, Pc
  <1>6. l.pc = "write_inc" /\ l.call = "write"
    BY <1>2, <1>4, <1>5 DEF Locals
  <1>7. loc' = [loc EXCEPT ![p] = l]
    BY <1>2, <1>5
  <1>8. loc' \in [Proc -> Locals] /\ loc'[p] = l /\ \A q \in Proc \ {p} : loc'[q] = loc[q]
    BY <1>1, <1>2, <1>7, OnCpu, Moved
  <1>9. /\ p_buf' \in [0 .. PIPEBUFSIZ - 1 -> Nat \cup {Nothing}]
        /\ p_buf'[p_wpos % PIPEBUFSIZ] = p_wpos
        /\ \A j \in 0 .. PIPEBUFSIZ - 1 : j # p_wpos % PIPEBUFSIZ => p_buf'[j] = p_buf[j]
    <2>1. p_wpos % PIPEBUFSIZ \in 0 .. PIPEBUFSIZ - 1
      BY <1>3, SlotRange
    <2> QED
      BY <1>3, <2>1 DEF Store, RingInv, TypeOK
  <1>10. \A k \in p_rpos .. p_wpos - 1 : p_buf'[k % PIPEBUFSIZ] = p_buf[k % PIPEBUFSIZ]
    <2>1. ASSUME NEW k \in p_rpos .. p_wpos - 1 PROVE p_buf'[k % PIPEBUFSIZ] = p_buf[k % PIPEBUFSIZ]
      <3>1. k \in Nat /\ k < p_wpos /\ p_wpos < k + PIPEBUFSIZ
        BY <1>3, <2>1
      <3>2. k % PIPEBUFSIZ # p_wpos % PIPEBUFSIZ /\ k % PIPEBUFSIZ \in 0 .. PIPEBUFSIZ - 1
        BY <1>3, <3>1, Slots, SlotRange
      <3> QED
        BY <1>9, <3>2
    <2> QED
      BY <2>1
  <1>11. Alone'
    <2>1. Busy(l, "write") /\ ~Busy(l, "read")
      BY <1>6 DEF Busy, Idle
    <2> QED
      BY <1>4, <1>8, <2>1 DEF RingInv, CallsOK, Alone
  <1>12. ASSUME NEW q \in Proc PROVE Consistent(loc'[q]) /\ Placed(loc[q])' /\ (env'[q] # "LIVE" => loc'[q] = Start)
    <2>1. CASE q = p
      BY <1>1, <1>2, <1>3, <1>6, <1>8, <1>9, <2>1 DEF Consistent, Placed, ReadPc, WritePc, TestPc
    <2>2. CASE q # p
      <3>1. loc'[q] = loc[q] /\ Consistent(loc[q]) /\ Placed(loc[q]) /\ (env[q] # "LIVE" => loc[q] = Start)
        BY <1>8, <2>2 DEF RingInv, CallsOK
      <3>2. loc[q].pc \notin {"write_store", "write_inc"}
        <4>1. ~Busy(loc[q], "write")
          BY <1>1, <1>4, <2>2 DEF RingInv, CallsOK, Alone
        <4> QED
          BY <3>1, <4>1 DEF Consistent, Busy, WritePc, Idle
      <3>3. Placed(loc[q])'
        BY <1>1, <3>1, <3>2 DEF Placed
      <3> QED
        BY <1>1, <3>1, <3>3
    <2> QED
      BY <2>1, <2>2
  <1>13. BufferOK'
    BY <1>1, <1>10 DEF RingInv, BufferOK
  <1>14. CallsOK'
    BY <1>8, <1>11, <1>12 DEF CallsOK
  <1>15. TypeOK'
    <2>1. \A q \in Proc : loc'[q].pc \in Pc
      BY <1>8 DEF Locals
    <2> QED
      BY <1>1, <1>9, <2>1 DEF RingInv, TypeOK
  <1> QED
    BY <1>10, <1>13, <1>14, <1>15 DEF RingInv

LEMMA RingWriteInc ==
  ASSUME RingInv, NEW p \in Proc, At(p, "write_inc"), p_wpos' = p_wpos + 1,
         loc' = [loc EXCEPT ![p].pc = "write_test", ![p].i = @ + 1],
         UNCHANGED <<fd, data, p_rpos, p_buf, got, sched>>
  PROVE  RingInv' /\ p_wpos < p_rpos + PIPEBUFSIZ /\ p_buf[p_wpos % PIPEBUFSIZ] = p_wpos
  <1>1. /\ p \in running /\ loc[p].pc = "write_inc" /\ p_rpos' = p_rpos /\ got' = got
        /\ fd' = fd /\ data' = data /\ p_buf' = p_buf
        /\ env' = env /\ running' = running
    BY DEF At, sched
  <1>2. loc[p] \in Locals /\ Consistent(loc[p]) /\ Placed(loc[p]) /\ loc \in [Proc -> Locals] /\ env[p] = "LIVE"
    BY <1>1, OnCpu DEF RingInv, CallsOK
  <1>3. /\ p_rpos \in Nat /\ p_wpos \in Nat /\ p_wpos < p_rpos + PIPEBUFSIZ /\ p_wpos - p_rpos \in 0 .. PIPEBUFSIZ
        /\ PIPEBUFSIZ \in Nat /\ p_buf[p_wpos % PIPEBUFSIZ] = p_wpos
    BY <1>1, <1>2, BufferAssumption DEF RingInv, TypeOK, Placed
  <1>4. loc[p].call = "write" /\ Busy(loc[p], "write")
    BY <1>1, <1>2 DEF Consistent, Busy, WritePc, Idle
  <1>5. PICK l \in Locals : l = [loc[p] EXCEPT !.pc = "write_test", !.i = loc[p].i + 1]
    BY <1>2 DEF Locals, Pc
  <1>6. l.pc = "write_test" /\ l.call = "write"
    BY <1>2, <1>4, <1>5 DEF Locals
  <1>7. loc' = [loc EXCEPT ![p] = l]
    BY <1>2, <1>5
  <1>8. loc' \in [Proc -> Locals] /\ loc'[p] = l /\ \A q \in Proc \ {p} : loc'[q] = loc[q]
    BY <1>1, <1>2, <1>7, OnCpu, Moved
  <1>9. Alone'
    <2>1. Busy(l, "write") /\ ~Busy(l, "read")
      BY <1>6 DEF Busy, Idle
    <2> QED
      BY <1>4, <1>8, <2>1 DEF RingInv, CallsOK, Alone
  <1>10. ASSUME NEW q \in Proc PROVE Consistent(loc'[q]) /\ Placed(loc[q])' /\ (env'[q] # "LIVE" => loc'[q] = Start)
    <2>1. CASE q = p
      BY <1>1, <1>2, <1>6, <1>8, <2>1 DEF Consistent, Placed, ReadPc, WritePc, TestPc
    <2>2. CASE q # p
      <3>1. loc'[q] = loc[q] /\ Consistent(loc[q]) /\ Placed(loc[q]) /\ (env[q] # "LIVE" => loc[q] = Start)
        BY <1>8, <2>2 DEF RingInv, CallsOK
      <3>2. loc[q].pc \notin {"write_store", "write_inc"}
        <4>1. ~Busy(loc[q], "write")
          BY <1>1, <1>4, <2>2 DEF RingInv, CallsOK, Alone
        <4> QED
          BY <3>1, <4>1 DEF Consistent, Busy, WritePc, Idle
      <3>3. Placed(loc[q])'
        BY <1>1, <1>3, <3>1, <3>2 DEF Placed
      <3> QED
        BY <1>1, <3>1, <3>3
    <2> QED
      BY <2>1, <2>2
  <1>11. BufferOK'
    <2>1. ASSUME NEW k \in p_rpos .. p_wpos PROVE p_buf[k % PIPEBUFSIZ] = k
      <3>1. k = p_wpos \/ k \in p_rpos .. p_wpos - 1
        BY <1>3
      <3> QED
        BY <1>3, <3>1 DEF RingInv, BufferOK
    <2>2. p_wpos' - 1 = p_wpos
      BY <1>3
    <2> QED
      BY <1>1, <2>1, <2>2 DEF BufferOK
  <1>12. CallsOK'
    BY <1>8, <1>9, <1>10 DEF CallsOK
  <1>13. TypeOK'
    <2>1. \A q \in Proc : loc'[q].pc \in Pc
      BY <1>8 DEF Locals
    <2>2. p_rpos' \in Nat /\ p_wpos' \in Nat /\ p_wpos' - p_rpos' \in 0 .. PIPEBUFSIZ
      BY <1>1, <1>3
    <2> QED
      BY <1>1, <2>1, <2>2 DEF RingInv, TypeOK
  <1> QED
    BY <1>3, <1>11, <1>12, <1>13 DEF RingInv

-----------------------------------------------------------------------------
(* Descriptors: what close, dup, fork and exit change.                     *)

FdPc == {"unmap_data", "dup_data", "dup_fd", "fork"}

LEMMA FdStep ==
  ASSUME RingInv, NEW p \in running, NEW l \in Locals, loc' = [loc EXCEPT ![p] = l],
         fd' \in [Proc -> [FdNum -> End \cup {Nothing}]], data' \in [Proc -> [FdNum -> BOOLEAN]],
         UNCHANGED <<p_rpos, p_wpos, p_buf, got, sched>>,
         l.pc \in FdPc \cup {"user"}, l.call = "none" \/ (l.call = loc[p].call /\ loc[p].pc \notin Idle)
  PROVE  /\ RingInv' /\ p \in Proc /\ env' = env /\ running' = running /\ env[p] = "LIVE"
         /\ loc'[p] = l /\ \A q \in Proc \ {p} : loc'[q] = loc[q]
  <1>1. p \in Proc /\ env[p] = "LIVE" /\ env' = env /\ running' = running
    BY OnCpu DEF sched
  <1>2. /\ running' \subseteq Proc /\ \A q \in running' : env'[q] = "LIVE"
        /\ Cardinality(running') <= NCPU /\ env' \in [Proc -> {"NONE", "NEW", "LIVE", "DEAD"}]
    BY <1>1 DEF RingInv, TypeOK
  <1>3. Consistent(l) /\ Placed(l) /\ \A call \in {"read", "write"} : Busy(l, call) => Busy(loc[p], call)
    BY DEF Consistent, Placed, Busy, ReadPc, WritePc, TestPc, FdPc
  <1>4. loc \in [Proc -> Locals]
    BY DEF RingInv, CallsOK
  <1>5. RingInv'
    BY <1>1, <1>2, <1>3, QuietStep
  <1> QED
    BY <1>1, <1>4, <1>5, Moved

\* Entry n of p is set; nobody else's is.
SetTo(f, g, p, n, v) ==
    g[p][n] = v /\ \A q \in Proc, m \in FdNum : q # p \/ m # n => g[q][m] = f[q][m]

LEMMA FdSet ==
  ASSUME TypeOK, NEW p \in Proc, NEW n \in FdNum, NEW v \in End \cup {Nothing},
         fd' = [fd EXCEPT ![p] = [fd[p] EXCEPT ![n] = v]]
  PROVE  fd' \in [Proc -> [FdNum -> End \cup {Nothing}]] /\ SetTo(fd, fd', p, n, v)
  BY DEF TypeOK, SetTo

LEMMA DataSet ==
  ASSUME TypeOK, NEW p \in Proc, NEW n \in FdNum, NEW v \in BOOLEAN,
         data' = [data EXCEPT ![p] = [data[p] EXCEPT ![n] = v]]
  PROVE  data' \in [Proc -> [FdNum -> BOOLEAN]] /\ SetTo(data, data', p, n, v)
  BY DEF TypeOK, SetTo

LEMMA CloseDoes ==
  ASSUME RingInv, NEW p \in Proc, NEW n \in FdNum, Close(p, n)
  PROVE  /\ RingInv' /\ p \in running /\ env' = env /\ running' = running /\ data' = data
         /\ SetTo(fd, fd', p, n, Nothing) /\ \A q \in Proc \ {p} : loc'[q] = loc[q]
         /\ loc[p].pc \in Idle
         /\ loc'[p].pc = "unmap_data" /\ loc'[p].n = n /\ loc'[p].to = Nothing
  <1>1. PICK l \in Locals : l = [Start EXCEPT !.pc = "unmap_data", !.n = n]
    BY StartIs DEF Locals, Pc
  <1>2. l.pc = "unmap_data" /\ l.n = n /\ l.to = Nothing /\ l.call = "none"
    BY <1>1, StartIs DEF Locals
  <1>3. /\ p \in running /\ loc[p].pc \in Idle /\ loc' = [loc EXCEPT ![p] = l]
        /\ UNCHANGED <<p_rpos, p_wpos, p_buf, got, sched>> /\ data' = data
    BY <1>1 DEF Close, Ready
  <1>4. TypeOK /\ data' \in [Proc -> [FdNum -> BOOLEAN]]
    BY <1>3 DEF RingInv, TypeOK
  <1>5. PICK none \in End \cup {Nothing} : none = Nothing
    OBVIOUS
  <1>6. fd' = [fd EXCEPT ![p] = [fd[p] EXCEPT ![n] = none]]
    BY <1>4, <1>5 DEF Close, TypeOK
  <1>7. fd' \in [Proc -> [FdNum -> End \cup {Nothing}]] /\ SetTo(fd, fd', p, n, none)
    BY <1>4, <1>6, FdSet
  <1>8. /\ RingInv' /\ env' = env /\ running' = running
        /\ loc'[p] = l /\ \A q \in Proc \ {p} : loc'[q] = loc[q]
    BY <1>2, <1>3, <1>4, <1>7, FdStep DEF FdPc
  <1> QED
    BY <1>2, <1>3, <1>5, <1>7, <1>8

LEMMA DupDoes ==
  ASSUME RingInv, NEW p \in Proc, NEW n \in FdNum, NEW to \in FdNum, Dup(p, n, to)
  PROVE  /\ RingInv' /\ p \in running /\ env' = env /\ running' = running /\ data' = data
         /\ SetTo(fd, fd', p, to, Nothing) /\ \A q \in Proc \ {p} : loc'[q] = loc[q]
         /\ loc[p].pc \in Idle
         /\ loc'[p].pc \in {"unmap_data", "dup_data"} /\ loc'[p].n = n /\ loc'[p].to = to
  <1>1. PICK pc \in {"unmap_data", "dup_data"} : pc = IF fd[p][to] \in End THEN "unmap_data" ELSE "dup_data"
    OBVIOUS
  <1>2. PICK l \in Locals : l = [Start EXCEPT !.pc = pc, !.n = n, !.to = to]
    BY StartIs, ZenonT(60) DEF Locals, Pc
  <1>3. l.pc = pc /\ l.n = n /\ l.to = to /\ l.call = "none"
    BY <1>2, StartIs DEF Locals
  <1>4. /\ p \in running /\ loc[p].pc \in Idle /\ loc' = [loc EXCEPT ![p] = l]
        /\ UNCHANGED <<p_rpos, p_wpos, p_buf, got, sched>> /\ data' = data
    BY <1>1, <1>2 DEF Dup, Ready
  <1>5. TypeOK /\ data' \in [Proc -> [FdNum -> BOOLEAN]]
    BY <1>4 DEF RingInv, TypeOK
  <1>6. PICK none \in End \cup {Nothing} : none = Nothing
    OBVIOUS
  <1>7. fd' = [fd EXCEPT ![p] = [fd[p] EXCEPT ![to] = none]]
    BY <1>5, <1>6 DEF Dup, TypeOK
  <1>8. fd' \in [Proc -> [FdNum -> End \cup {Nothing}]] /\ SetTo(fd, fd', p, to, none)
    BY <1>5, <1>7, FdSet
  <1>9. /\ RingInv' /\ env' = env /\ running' = running
        /\ loc'[p] = l /\ \A q \in Proc \ {p} : loc'[q] = loc[q]
    BY <1>3, <1>4, <1>5, <1>8, FdStep DEF FdPc
  <1> QED
    BY <1>3, <1>4, <1>6, <1>8, <1>9

LEMMA UnmapDoes ==
  ASSUME RingInv, NEW p \in Proc, UnmapData(p)
  PROVE  /\ RingInv' /\ p \in running /\ env' = env /\ running' = running /\ fd' = fd
         /\ loc[p].pc = "unmap_data" /\ Closing(p) \in FdNum
         /\ SetTo(data, data', p, Closing(p), FALSE) /\ \A q \in Proc \ {p} : loc'[q] = loc[q]
         /\ \/ loc'[p] = Start
            \/ loc[p].to # Nothing /\ loc'[p].pc = "dup_data" /\ loc'[p].to = loc[p].to /\ loc'[p].n = loc[p].n
  <1>1. p \in running /\ loc[p].pc = "unmap_data" /\ loc[p] \in Locals /\ loc \in [Proc -> Locals]
    BY OnCpu DEF UnmapData, At, RingInv, CallsOK
  <1>2. UNCHANGED <<p_rpos, p_wpos, p_buf, got, sched>> /\ fd' = fd
    BY DEF UnmapData
  <1>3. PICK n \in FdNum : n = Closing(p)
    BY <1>1 DEF Closing, Locals
  <1>4. TypeOK /\ fd' \in [Proc -> [FdNum -> End \cup {Nothing}]]
    BY <1>2 DEF RingInv, TypeOK
  <1>5. data' = [data EXCEPT ![p] = [data[p] EXCEPT ![n] = FALSE]]
    BY <1>3, <1>4 DEF UnmapData, TypeOK
  <1>6. data' \in [Proc -> [FdNum -> BOOLEAN]] /\ SetTo(data, data', p, n, FALSE)
    BY <1>4, <1>5, DataSet
  <1>7. CASE loc[p].to = Nothing
    <2>1. loc' = [loc EXCEPT ![p] = Start]
      BY <1>7 DEF UnmapData
    <2> QED
      BY <1>1, <1>2, <1>3, <1>4, <1>6, <2>1, StartIs, FdStep DEF FdPc
  <1>8. CASE loc[p].to # Nothing
    <2>1. PICK l \in Locals : l = [loc[p] EXCEPT !.pc = "dup_data"]
      BY <1>1 DEF Locals, Pc
    <2>2. l.pc = "dup_data" /\ l.call = loc[p].call /\ l.to = loc[p].to /\ l.n = loc[p].n
      BY <1>1, <2>1 DEF Locals
    <2>3. loc' = [loc EXCEPT ![p] = l]
      BY <1>1, <1>8, <2>1 DEF UnmapData
    <2>4. loc[p].pc \notin Idle
      BY <1>1 DEF Idle
    <2>5. /\ RingInv' /\ env' = env /\ running' = running
          /\ loc'[p] = l /\ \A q \in Proc \ {p} : loc'[q] = loc[q]
      BY <1>1, <1>2, <1>4, <1>6, <2>2, <2>3, <2>4, FdStep DEF FdPc
    <2> QED
      BY <1>1, <1>2, <1>3, <1>6, <1>8, <2>2, <2>5
  <1> QED
    BY <1>7, <1>8

LEMMA DupDataDoes ==
  ASSUME RingInv, NEW p \in Proc, loc[p].to \in FdNum, DupData(p)
  PROVE  /\ RingInv' /\ p \in running /\ env' = env /\ running' = running /\ fd' = fd
         /\ loc[p].pc = "dup_data" /\ \A q \in Proc \ {p} : loc'[q] = loc[q]
         /\ \/ loc'[p] = Start /\ data' = data
            \/ /\ SetTo(data, data', p, loc[p].to, TRUE)
               /\ loc'[p].pc = "dup_fd" /\ loc'[p].to = loc[p].to /\ loc'[p].n = loc[p].n
  <1>1. p \in running /\ loc[p].pc = "dup_data" /\ loc[p] \in Locals /\ loc \in [Proc -> Locals]
    BY OnCpu DEF DupData, At, RingInv, CallsOK
  <1>2. UNCHANGED <<p_rpos, p_wpos, p_buf, got, sched>> /\ fd' = fd
    BY DEF DupData
  <1>3. TypeOK /\ fd' \in [Proc -> [FdNum -> End \cup {Nothing}]]
    BY <1>2 DEF RingInv, TypeOK
  <1>4. CASE loc' = [loc EXCEPT ![p] = Start] /\ data' = data
    <2>1. data' \in [Proc -> [FdNum -> BOOLEAN]]
      BY <1>4 DEF RingInv, TypeOK
    <2> QED
      BY <1>1, <1>2, <1>3, <1>4, <2>1, StartIs, FdStep DEF FdPc
  <1>5. CASE data' = [data EXCEPT ![p][loc[p].to] = TRUE] /\ loc' = [loc EXCEPT ![p].pc = "dup_fd"]
    <2>1. PICK n \in FdNum : n = loc[p].to
      OBVIOUS
    <2>2. data' = [data EXCEPT ![p] = [data[p] EXCEPT ![n] = TRUE]]
      BY <1>3, <1>5, <2>1 DEF TypeOK
    <2>3. data' \in [Proc -> [FdNum -> BOOLEAN]] /\ SetTo(data, data', p, n, TRUE)
      BY <1>3, <2>2, DataSet
    <2>4. PICK l \in Locals : l = [loc[p] EXCEPT !.pc = "dup_fd"]
      BY <1>1 DEF Locals, Pc
    <2>5. l.pc = "dup_fd" /\ l.call = loc[p].call /\ l.to = loc[p].to /\ l.n = loc[p].n
      BY <1>1, <2>4 DEF Locals
    <2>6. loc' = [loc EXCEPT ![p] = l]
      BY <1>1, <1>5, <2>4
    <2>7. loc[p].pc \notin Idle
      BY <1>1 DEF Idle
    <2>8. /\ RingInv' /\ env' = env /\ running' = running
          /\ loc'[p] = l /\ \A q \in Proc \ {p} : loc'[q] = loc[q]
      BY <1>1, <1>2, <1>3, <2>3, <2>5, <2>6, <2>7, FdStep DEF FdPc
    <2> QED
      BY <1>1, <1>2, <2>1, <2>3, <2>5, <2>8
  <1> QED
    BY <1>4, <1>5 DEF DupData

LEMMA DupFdDoes ==
  ASSUME RingInv, NEW p \in Proc, loc[p].to \in FdNum, DupFd(p)
  PROVE  /\ RingInv' /\ p \in running /\ env' = env /\ running' = running /\ data' = data
         /\ loc[p].pc = "dup_fd" /\ \A q \in Proc \ {p} : loc'[q] = loc[q]
         /\ loc[p].n \in FdNum
         /\ \/ loc'[p] = Start /\ SetTo(fd, fd', p, loc[p].to, fd[p][loc[p].n])
            \/ /\ fd' = fd /\ loc'[p].pc = "unmap_data" /\ loc'[p].to = Nothing /\ loc'[p].n = loc[p].to
  <1>1. /\ p \in running /\ loc[p].pc = "dup_fd" /\ loc[p] \in Locals /\ loc \in [Proc -> Locals]
        /\ loc[p].n \in FdNum
    BY OnCpu DEF DupFd, At, RingInv, CallsOK, Locals
  <1>2. UNCHANGED <<p_rpos, p_wpos, p_buf, got, sched>> /\ data' = data
    BY DEF DupFd
  <1>3. TypeOK /\ data' \in [Proc -> [FdNum -> BOOLEAN]]
    BY <1>2 DEF RingInv, TypeOK
  <1>4. CASE fd' = [fd EXCEPT ![p][loc[p].to] = fd[p][loc[p].n]] /\ loc' = [loc EXCEPT ![p] = Start]
    <2>1. PICK n \in FdNum, v \in End \cup {Nothing} : n = loc[p].to /\ v = fd[p][loc[p].n]
      BY <1>1, <1>3 DEF TypeOK
    <2>2. fd' = [fd EXCEPT ![p] = [fd[p] EXCEPT ![n] = v]]
      BY <1>3, <1>4, <2>1 DEF TypeOK
    <2>3. fd' \in [Proc -> [FdNum -> End \cup {Nothing}]] /\ SetTo(fd, fd', p, n, v)
      BY <1>3, <2>2, FdSet
    <2>4. /\ RingInv' /\ env' = env /\ running' = running
          /\ loc'[p] = Start /\ \A q \in Proc \ {p} : loc'[q] = loc[q]
      BY <1>1, <1>2, <1>3, <1>4, <2>3, StartIs, FdStep DEF FdPc
    <2> QED
      BY <1>1, <1>2, <2>1, <2>3, <2>4
  <1>5. CASE loc' = [loc EXCEPT ![p] = [Start EXCEPT !.pc = "unmap_data", !.n = loc[p].to]] /\ fd' = fd
    <2>1. PICK l \in Locals : l = [Start EXCEPT !.pc = "unmap_data", !.n = loc[p].to]
      BY StartIs DEF Locals, Pc
    <2>2. l.pc = "unmap_data" /\ l.n = loc[p].to /\ l.to = Nothing /\ l.call = "none"
      BY <2>1, StartIs DEF Locals
    <2>3. fd' \in [Proc -> [FdNum -> End \cup {Nothing}]]
      BY <1>5 DEF RingInv, TypeOK
    <2>4. /\ RingInv' /\ env' = env /\ running' = running
          /\ loc'[p] = l /\ \A q \in Proc \ {p} : loc'[q] = loc[q]
      BY <1>1, <1>2, <1>3, <1>5, <2>1, <2>2, <2>3, FdStep DEF FdPc
    <2> QED
      BY <1>1, <1>2, <1>5, <2>2, <2>4
  <1> QED
    BY <1>4, <1>5 DEF DupFd

\* The pages that fork has to copy.
Shared(p) == {<<"fd", n>> : n \in {n \in FdNum : fd[p][n] \in End}}
             \cup {<<"data", n>> : n \in {n \in FdNum : data[p][n]}}

LEMMA SharedIs ==
  ASSUME NEW p
  PROVE  /\ Shared(p) \in SUBSET Page
         /\ \A n \in FdNum : (<<"fd", n>> \in Shared(p) <=> fd[p][n] \in End)
                             /\ (<<"data", n>> \in Shared(p) <=> data[p][n])
  <1>1. \A n \in FdNum : <<"fd", n>> \in Shared(p) <=> fd[p][n] \in End
    BY DEF Shared
  <1>2. \A n \in FdNum : <<"data", n>> \in Shared(p) <=> data[p][n]
    BY DEF Shared
  <1>3. Shared(p) \in SUBSET Page
    BY DEF Shared, Page
  <1> QED
    BY <1>1, <1>2, <1>3

\* The life of one process changes.
LEMMA LifeStep ==
  ASSUME RingInv, NEW p \in Proc, NEW l \in Locals, loc' = [loc EXCEPT ![p] = l], NEW c \in Proc,
         NEW s \in {"NEW", "LIVE", "DEAD"}, env' = [env EXCEPT ![c] = s],
         UNCHANGED <<p_rpos, p_wpos, p_buf, got>>,
         fd' \in [Proc -> [FdNum -> End \cup {Nothing}]], data' \in [Proc -> [FdNum -> BOOLEAN]],
         running' = running \ {c} \/ (running' = running /\ (s = "LIVE" \/ c \notin running)),
         l.pc \in FdPc \cup {"user"}, l.call = "none",
         env'[p] # "LIVE" => l = Start, c = p \/ env[c] # "LIVE" \/ s = "LIVE"
  PROVE  RingInv' /\ loc'[p] = l /\ \A q \in Proc \ {p} : loc'[q] = loc[q]
  <1>1. /\ env' \in [Proc -> {"NONE", "NEW", "LIVE", "DEAD"}]
        /\ env'[c] = s /\ \A q \in Proc \ {c} : env'[q] = env[q]
    BY DEF RingInv, TypeOK
  <1>2. /\ running \subseteq Proc /\ \A q \in running : env[q] = "LIVE"
        /\ Cardinality(running) <= NCPU /\ loc \in [Proc -> Locals]
    BY DEF RingInv, TypeOK, CallsOK
  <1>3. running' \subseteq Proc /\ \A q \in running' : env'[q] = "LIVE"
    BY <1>1, <1>2
  <1>4. Cardinality(running') <= NCPU
    <2>1. IsFiniteSet(running) /\ running' \subseteq running
      BY <1>2, FiniteAssumption, FS_Subset
    <2>2. Cardinality(running') <= Cardinality(running) /\ Cardinality(running') \in Nat /\ Cardinality(running) \in Nat
      BY <2>1, FS_Subset, FS_CardinalityType
    <2> QED
      BY <1>2, <2>2, CallAssumption
  <1>5. Consistent(l) /\ Placed(l) /\ \A call \in {"read", "write"} : ~Busy(l, call)
    BY DEF Consistent, Placed, Busy, ReadPc, WritePc, TestPc, FdPc
  <1>6. \A q \in Proc \ {p} : env'[q] # "LIVE" => env[q] # "LIVE"
    BY <1>1
  <1>7. RingInv'
    BY <1>1, <1>3, <1>4, <1>5, <1>6, QuietStep, ZenonT(60)
  <1> QED
    BY <1>2, <1>7, Moved

LEMMA ForkDoes ==
  ASSUME RingInv, NEW p \in Proc, NEW c \in Proc, Fork(p, c)
  PROVE  /\ RingInv' /\ p \in running /\ running' = running /\ fd' = fd /\ data' = data
         /\ env[c] = "NONE" /\ env'[c] = "NEW" /\ \A q \in Proc \ {c} : env'[q] = env[q]
         /\ loc[p].pc \in Idle /\ \A q \in Proc \ {p} : loc'[q] = loc[q]
         /\ loc'[p].pc = "fork" /\ loc'[p].child = c /\ loc'[p].todo = Shared(p)
  <1>1. p \in running /\ loc[p].pc \in Idle /\ env[c] = "NONE" /\ env[p] = "LIVE"
    BY OnCpu DEF Fork, Ready
  <1>2. PICK todo \in SUBSET Page : todo = Shared(p)
    BY SharedIs
  <1>3. PICK l \in Locals : l = [Start EXCEPT !.pc = "fork", !.child = c, !.todo = todo]
    BY StartIs DEF Locals, Pc
  <1>4. l.pc = "fork" /\ l.child = c /\ l.todo = todo /\ l.call = "none"
    BY <1>3, StartIs DEF Locals
  <1>5. loc' = [loc EXCEPT ![p] = l]
    BY <1>2, <1>3 DEF Fork, Shared
  <1>6. UNCHANGED <<p_rpos, p_wpos, p_buf, got>> /\ fd' = fd /\ data' = data /\ running' = running
    BY DEF Fork, shared
  <1>7. /\ fd' \in [Proc -> [FdNum -> End \cup {Nothing}]] /\ data' \in [Proc -> [FdNum -> BOOLEAN]]
        /\ c \notin running /\ c # p
    BY <1>1, <1>6 DEF RingInv, TypeOK
  <1>8. /\ env' = [env EXCEPT ![c] = "NEW"] /\ env'[c] = "NEW" /\ env'[p] = "LIVE"
        /\ \A q \in Proc \ {c} : env'[q] = env[q]
    BY <1>1, <1>7 DEF Fork, RingInv, TypeOK
  <1>9. RingInv' /\ loc'[p] = l /\ \A q \in Proc \ {p} : loc'[q] = loc[q]
    BY <1>1, <1>4, <1>5, <1>6, <1>7, <1>8, LifeStep DEF FdPc
  <1> QED
    BY <1>1, <1>2, <1>4, <1>6, <1>8, <1>9

LEMMA DupPageDoes ==
  ASSUME RingInv, NEW p \in Proc, loc[p].child \in Proc, DupPage(p)
  PROVE  /\ RingInv' /\ p \in running /\ env' = env /\ running' = running
         /\ loc[p].pc = "fork" /\ \A q \in Proc \ {p} : loc'[q] = loc[q]
         /\ loc'[p].pc = "fork" /\ loc'[p].child = loc[p].child
         /\ \E n \in FdNum :
               \/ /\ <<"fd", n>> \in loc[p].todo /\ loc'[p].todo = loc[p].todo \ {<<"fd", n>>}
                  /\ data' = data /\ SetTo(fd, fd', loc[p].child, n, fd[p][n])
               \/ /\ <<"data", n>> \in loc[p].todo /\ loc'[p].todo = loc[p].todo \ {<<"data", n>>}
                  /\ fd' = fd /\ SetTo(data, data', loc[p].child, n, TRUE)
  <1>1. /\ p \in running /\ loc[p].pc = "fork" /\ loc[p] \in Locals /\ loc \in [Proc -> Locals]
        /\ UNCHANGED <<p_rpos, p_wpos, p_buf, got, sched>>
    BY OnCpu DEF DupPage, At, RingInv, CallsOK
  <1>2. PICK page \in loc[p].todo :
               /\ loc' = [loc EXCEPT ![p].todo = @ \ {page}]
               /\ IF page[1] = "fd"
                  THEN fd' = [fd EXCEPT ![loc[p].child][page[2]] = fd[p][page[2]]] /\ UNCHANGED data
                  ELSE data' = [data EXCEPT ![loc[p].child][page[2]] = TRUE] /\ UNCHANGED fd
    BY DEF DupPage
  <1>3. page \in Page /\ loc[p].todo \in SUBSET Page
    BY <1>1 DEF Locals
  <1>4. PICK n \in FdNum : page = <<"fd", n>> \/ page = <<"data", n>>
    BY <1>3 DEF Page
  <1>5. PICK todo \in SUBSET Page : todo = loc[p].todo \ {page}
    BY <1>3
  <1>6. PICK l \in Locals : l = [loc[p] EXCEPT !.todo = todo]
    BY <1>1 DEF Locals
  <1>7. l.pc = "fork" /\ l.child = loc[p].child /\ l.todo = todo /\ l.call = loc[p].call
    BY <1>1, <1>6 DEF Locals
  <1>8. loc' = [loc EXCEPT ![p] = l]
    BY <1>1, <1>2, <1>5, <1>6
  <1>9. TypeOK /\ loc[p].pc \notin Idle
    BY <1>1 DEF RingInv, Idle
  <1>10. PICK c \in Proc : c = loc[p].child
    OBVIOUS
  <1>11. CASE page = <<"fd", n>>
    <2>1. PICK v \in End \cup {Nothing} : v = fd[p][n]
      BY <1>9 DEF TypeOK
    <2>2. fd' = [fd EXCEPT ![c] = [fd[c] EXCEPT ![n] = v]] /\ data' = data
      BY <1>2, <1>9, <1>10, <1>11, <2>1 DEF TypeOK
    <2>3. fd' \in [Proc -> [FdNum -> End \cup {Nothing}]] /\ SetTo(fd, fd', c, n, v)
      BY <1>9, <2>2, FdSet
    <2>4. data' \in [Proc -> [FdNum -> BOOLEAN]]
      BY <1>9, <2>2 DEF TypeOK
    <2>5. /\ RingInv' /\ env' = env /\ running' = running
          /\ loc'[p] = l /\ \A q \in Proc \ {p} : loc'[q] = loc[q]
      BY <1>1, <1>7, <1>8, <1>9, <2>3, <2>4, FdStep DEF FdPc
    <2> QED
      BY <1>1, <1>5, <1>7, <1>10, <1>11, <2>1, <2>2, <2>3, <2>5
  <1>12. CASE page = <<"data", n>>
    <2>1. data' = [data EXCEPT ![c] = [data[c] EXCEPT ![n] = TRUE]] /\ fd' = fd
      BY <1>2, <1>9, <1>10, <1>12 DEF TypeOK
    <2>2. data' \in [Proc -> [FdNum -> BOOLEAN]] /\ SetTo(data, data', c, n, TRUE)
      BY <1>9, <2>1, DataSet
    <2>3. fd' \in [Proc -> [FdNum -> End \cup {Nothing}]]
      BY <1>9, <2>1 DEF TypeOK
    <2>4. /\ RingInv' /\ env' = env /\ running' = running
          /\ loc'[p] = l /\ \A q \in Proc \ {p} : loc'[q] = loc[q]
      BY <1>1, <1>7, <1>8, <1>9, <2>2, <2>3, FdStep DEF FdPc
    <2> QED
      BY <1>1, <1>5, <1>7, <1>10, <1>12, <2>1, <2>2, <2>4
  <1> QED
    BY <1>4, <1>11, <1>12

LEMMA StartChildDoes ==
  ASSUME RingInv, NEW p \in Proc, loc[p].child \in Proc, env[loc[p].child] = "NEW", StartChild(p)
  PROVE  /\ RingInv' /\ p \in running /\ running' = running /\ fd' = fd /\ data' = data
         /\ loc[p].pc = "fork" /\ loc[p].todo = {} /\ loc[p].child # p
         /\ env'[loc[p].child] = "LIVE" /\ \A q \in Proc \ {loc[p].child} : env'[q] = env[q]
         /\ loc'[p] = Start /\ \A q \in Proc \ {p} : loc'[q] = loc[q]
  <1>1. /\ p \in running /\ loc[p].pc = "fork" /\ env[p] = "LIVE" /\ loc[p].todo = {}
        /\ loc' = [loc EXCEPT ![p] = Start]
    BY OnCpu DEF StartChild, At
  <1>2. PICK c \in Proc : c = loc[p].child
    OBVIOUS
  <1>3. /\ UNCHANGED <<p_rpos, p_wpos, p_buf, got>> /\ fd' = fd /\ data' = data /\ running' = running
        /\ env' = [env EXCEPT ![c] = "LIVE"]
    BY <1>2 DEF StartChild, shared
  <1>4. /\ fd' \in [Proc -> [FdNum -> End \cup {Nothing}]] /\ data' \in [Proc -> [FdNum -> BOOLEAN]]
        /\ env'[c] = "LIVE" /\ \A q \in Proc \ {c} : env'[q] = env[q]
    BY <1>3 DEF RingInv, TypeOK
  <1>5. RingInv' /\ loc'[p] = Start /\ \A q \in Proc \ {p} : loc'[q] = loc[q]
    BY <1>1, <1>3, <1>4, StartIs, LifeStep
  <1> QED
    BY <1>1, <1>2, <1>3, <1>4, <1>5

LEMMA EnvFreeDoes ==
  ASSUME RingInv, NEW p \in Proc, EnvFree(p)
  PROVE  /\ RingInv' /\ running' = running \ {p} /\ env[p] = "LIVE"
         /\ env'[p] = "DEAD" /\ \A q \in Proc \ {p} : env'[q] = env[q]
         /\ \A n \in FdNum : fd'[p][n] = Nothing /\ ~data'[p][n]
         /\ \A q \in Proc \ {p} : fd'[q] = fd[q] /\ data'[q] = data[q]
         /\ loc'[p] = Start /\ \A q \in Proc \ {p} : loc'[q] = loc[q]
  <1>1. /\ env[p] = "LIVE" /\ env' = [env EXCEPT ![p] = "DEAD"] /\ running' = running \ {p}
        /\ loc' = [loc EXCEPT ![p] = Start] /\ UNCHANGED <<p_rpos, p_wpos, p_buf, got>>
    BY DEF EnvFree
  <1>2. /\ fd' \in [Proc -> [FdNum -> End \cup {Nothing}]]
        /\ \A n \in FdNum : fd'[p][n] = Nothing
        /\ \A q \in Proc \ {p} : fd'[q] = fd[q]
    BY DEF EnvFree, RingInv, TypeOK
  <1>3. /\ data' \in [Proc -> [FdNum -> BOOLEAN]]
        /\ \A n \in FdNum : ~data'[p][n]
        /\ \A q \in Proc \ {p} : data'[q] = data[q]
    BY DEF EnvFree, RingInv, TypeOK
  <1>4. env'[p] = "DEAD" /\ \A q \in Proc \ {p} : env'[q] = env[q]
    BY <1>1 DEF RingInv, TypeOK
  <1>5. RingInv' /\ loc'[p] = Start /\ \A q \in Proc \ {p} : loc'[q] = loc[q]
    BY <1>1, <1>2, <1>3, <1>4, StartIs, LifeStep
  <1> QED
    BY <1>1, <1>2, <1>3, <1>4, <1>5

-----------------------------------------------------------------------------
(* The invariant of the descriptors.                                       *)

\* A descriptor that close or dup has in hand is not open, and dup_fd finds
\* its struct Pipe mapped.
HandOK(p) ==
    /\ loc[p].pc = "unmap_data" => fd[p][Closing(p)] = Nothing
    /\ loc[p].pc \in {"dup_data", "dup_fd"} => loc[p].to \in FdNum /\ fd[p][loc[p].to] = Nothing
    /\ loc[p].pc = "dup_fd" => data[p][loc[p].to]

\* Each Fd page comes with the struct Pipe, but in a child that fork is making.
Paired(p) ==
    /\ env[p] = "LIVE" => \A n \in FdNum : fd[p][n] \in End => data[p][n]
    /\ env[p] \in {"NONE", "DEAD"} => \A n \in FdNum : fd[p][n] = Nothing

\* The child has ends of its parent only, and has or will get the struct
\* Pipe for each.
ForkOK(p) ==
    loc[p].pc = "fork" =>
        /\ loc[p].child \in Proc /\ env[loc[p].child] = "NEW"
        /\ \A n \in FdNum :
              /\ fd[loc[p].child][n] \in End => fd[loc[p].child][n] = fd[p][n]
              /\ fd[loc[p].child][n] \in End \/ <<"fd", n>> \in loc[p].todo =>
                    data[loc[p].child][n] \/ <<"data", n>> \in loc[p].todo

OneParent == \A p, q \in Proc :
    loc[p].pc = "fork" /\ loc[q].pc = "fork" /\ loc[p].child = loc[q].child => p = q

PairInv == OneParent /\ \A p \in Proc : HandOK(p) /\ Paired(p) /\ ForkOK(p)

\* A process that forks shares its ends with its child only; when it is gone
\* nobody has the ends of the child it has left.
AloneInv == \A p, c \in Proc, n, m \in FdNum :
    /\ fd[p][n] \in End /\ fd[c][m] = fd[p][n] /\ env[p] = "LIVE" /\ p # c =>
          /\ env[c] = "NEW" => loc[p].pc = "fork" /\ loc[p].child = c
          /\ env[c] = "LIVE" => loc[p].pc # "fork"

\* What _pipeisclosed read from the Fd page is still so when it looks at the
\* struct Pipe, if it has not lost the only CPU.
RefInv == \A p \in running :
    loc[p].pc = "ref_pipe" /\ ~loc[p].resumed => loc[p].ref = RefFd(fd[p][loc[p].n])

-----------------------------------------------------------------------------
(* Steps that leave the descriptors alone.                                 *)

QuietCall(p) ==
    \/ SysYield(p) \/ ReadRefFd(p) \/ ReadRefPipe(p)
    \/ ReadTest(p) \/ ReadTake(p) \/ ReadInc(p) \/ WriteTest(p) \/ WriteByte(p)
    \/ \E n \in FdNum : IsClosed(p, n) \/ Read(p, n, CallLen) \/ Write(p, n, CallLen)

LEMMA RingQuiet ==
  ASSUME RingInv, NEW p \in Proc, QuietCall(p)
  PROVE  RingInv'
  <1>1. CASE WriteByte(p)
    BY <1>1, RingStore, RingWriteInc DEF WriteByte
  <1>2. CASE ~WriteByte(p)
    BY <1>2, RingOffCpu, RingReadRefFd, RingReadRefPipe, RingTest, RingReadTake, RingReadInc, RingIsClosed, RingCall
       DEF QuietCall
  <1> QED
    BY <1>1, <1>2

LEMMA QuietFrame ==
  ASSUME RingInv, NEW p \in Proc, QuietCall(p)
  PROVE  /\ p \in running /\ fd' = fd /\ data' = data /\ env' = env /\ running' \subseteq running
         /\ \E l : loc' = [loc EXCEPT ![p] = l]
  <1>1. /\ p \in running /\ fd' = fd /\ data' = data /\ env' = env /\ running' \subseteq running
    BY DEF QuietCall, SysYield, ReadRefFd, ReadRefPipe, ReadTest, ReadTake, ReadInc, WriteTest, WriteByte,
           IsClosed, Read, Write, At, Ready, shared, sched
  <1>2. loc \in [Proc -> Locals] /\ loc[p] \in Locals
    BY SMTT(30) DEF RingInv, CallsOK
  <1>3. \E l : loc' = [loc EXCEPT ![p] = l]
    BY <1>2 DEF QuietCall, SysYield, ReadRefFd, ReadRefPipe, ReadTest, ReadTake, ReadInc, WriteTest, WriteByte,
           IsClosed, Read, Write
  <1> QED
    BY <1>1, <1>3

LEMMA QuietPc ==
  ASSUME RingInv, NEW p \in Proc, QuietCall(p)
  PROVE  loc'[p].pc \notin FdPc
  <1>1. loc \in [Proc -> Locals] /\ loc[p] \in Locals
    BY DEF RingInv, CallsOK
  <1>2. CASE ReadRefPipe(p)
    <2>1. CASE loc[p].resumed
      <3>1. loc' = [loc EXCEPT ![p] = [loc[p] EXCEPT !.pc = "ref_fd", !.ref = 0, !.resumed = FALSE]]
        BY <1>1, <1>2, <2>1 DEF ReadRefPipe
      <3> QED
        BY <1>1, <3>1 DEF Locals, FdPc
    <2>2. CASE ~loc[p].resumed
      <3>1. loc'[p] = Verdict(p, loc[p].ref = RefPipe)
        BY <1>1, <1>2, <2>2 DEF ReadRefPipe
      <3> QED
        BY <1>1, <3>1, StartIs, VerdictIs DEF FdPc
    <2> QED
      BY <2>1, <2>2
  <1>3. CASE SysYield(p) \/ ReadRefFd(p) \/ WriteByte(p)
    BY <1>1, <1>3 DEF SysYield, ReadRefFd, WriteByte, Locals, FdPc
  <1>4. CASE ReadTake(p) \/ ReadInc(p)
    BY <1>1, <1>4 DEF ReadTake, ReadInc, Locals, FdPc
  <1>5. CASE ReadTest(p) \/ WriteTest(p)
    BY <1>1, <1>5, StartIs DEF ReadTest, WriteTest, Locals, FdPc
  <1>6. CASE \E n \in FdNum : IsClosed(p, n) \/ Read(p, n, CallLen) \/ Write(p, n, CallLen)
    <2>1. PICK n \in FdNum : IsClosed(p, n) \/ Read(p, n, CallLen) \/ Write(p, n, CallLen)
      BY <1>6
    <2>2. CASE IsClosed(p, n)
      BY <1>1, <2>2 DEF IsClosed, Start, FdPc
    <2>3. CASE Read(p, n, CallLen)
      BY <1>1, <2>3, ZenonT(60) DEF Read, Start, FdPc
    <2>4. CASE Write(p, n, CallLen)
      BY <1>1, <2>4, ZenonT(60) DEF Write, Start, FdPc
    <2> QED
      BY <2>1, <2>2, <2>3, <2>4
  <1> QED
    BY <1>2, <1>3, <1>4, <1>5, <1>6 DEF QuietCall

\* A step of a process that forks nothing and changes its own mappings only.
LEMMA PairOwn ==
  ASSUME RingInv, PairInv, NEW p \in Proc, env[p] = "LIVE", env' = env,
         \A q \in Proc \ {p} : loc'[q] = loc[q],
         \A q \in Proc \ {p}, m \in FdNum : fd'[q][m] = fd[q][m] /\ data'[q][m] = data[q][m],
         loc'[p].pc # "fork", HandOK(p)', Paired(p)'
  PROVE  PairInv'
  <1>1. OneParent'
    BY DEF PairInv, OneParent
  <1>2. ASSUME NEW q \in Proc PROVE HandOK(q)' /\ Paired(q)' /\ ForkOK(q)'
    <2>1. CASE q = p
      BY <2>1 DEF ForkOK
    <2>2. CASE q # p
      <3>1. loc'[q] = loc[q] /\ env'[q] = env[q] /\ loc[q] \in Locals
            /\ \A m \in FdNum : fd'[q][m] = fd[q][m] /\ data'[q][m] = data[q][m]
        BY <2>2 DEF RingInv, CallsOK
      <3>2. HandOK(q)'
        <4>1. loc[q].n \in FdNum /\ loc[q].to \in FdNum \cup {Nothing} /\ HandOK(q)
          BY <3>1 DEF Locals, PairInv
        <4> QED
          BY <3>1, <4>1 DEF HandOK, Closing
      <3>3. Paired(q)'
        BY <3>1 DEF PairInv, Paired
      <3>4. ForkOK(q)'
        <4>1. ASSUME loc[q].pc = "fork"
              PROVE  /\ loc[q].child \in Proc /\ env[loc[q].child] = "NEW"
                     /\ \A m \in FdNum : fd'[loc[q].child][m] = fd[loc[q].child][m]
                                         /\ data'[loc[q].child][m] = data[loc[q].child][m]
          <5>1. loc[q].child \in Proc \ {p} /\ env[loc[q].child] = "NEW"
            BY <4>1 DEF PairInv, ForkOK
          <5> QED
            BY <5>1
        <4>2. ForkOK(q)
          BY DEF PairInv
        <4> QED
          BY <3>1, <4>1, <4>2 DEF ForkOK
      <3> QED
        BY <3>2, <3>3, <3>4
    <2> QED
      BY <2>1, <2>2
  <1> QED
    BY <1>1, <1>2 DEF PairInv

LEMMA PairQuiet ==
  ASSUME RingInv, PairInv, NEW p \in Proc, QuietCall(p)
  PROVE  PairInv'
  <1>1. p \in running /\ fd' = fd /\ data' = data /\ env' = env
    BY QuietFrame
  <1>2. \A q \in Proc \ {p} : loc'[q] = loc[q]
    BY QuietFrame DEF RingInv, CallsOK
  <1>3. loc'[p].pc # "fork" /\ HandOK(p)'
    BY QuietPc DEF FdPc, HandOK
  <1>4. Paired(p)'
    BY <1>1 DEF PairInv, Paired
  <1> QED
    BY <1>1, <1>2, <1>3, <1>4, OnCpu, PairOwn

\* Resume and the interrupts change no more than the CPUs and resumed.
LEMMA TurnIs ==
  ASSUME RingInv, NEW p \in Proc, Resume(p) \/ Tick(p) \/ IdleTick(p)
  PROVE  /\ RingInv' /\ fd' = fd /\ data' = data /\ env' = env
         /\ \A q \in Proc \ {p} : loc'[q] = loc[q]
         /\ loc'[p].pc = loc[p].pc /\ loc'[p].n = loc[p].n /\ loc'[p].to = loc[p].to
         /\ loc'[p].child = loc[p].child /\ loc'[p].todo = loc[p].todo
  <1>1. loc \in [Proc -> Locals] /\ loc[p] \in Locals
    BY DEF RingInv, CallsOK
  <1>2. fd' = fd /\ data' = data /\ env' = env
    BY DEF Resume, Tick, IdleTick, shared
  <1>3. \A q \in Proc \ {p} : loc'[q] = loc[q]
    BY <1>1 DEF Resume, Tick, IdleTick
  <1>4. /\ loc'[p].pc = loc[p].pc /\ loc'[p].n = loc[p].n /\ loc'[p].to = loc[p].to
        /\ loc'[p].child = loc[p].child /\ loc'[p].todo = loc[p].todo
    <2>1. CASE Tick(p) \/ IdleTick(p)
      BY <2>1 DEF Tick, IdleTick
    <2>2. CASE Resume(p)
      BY <1>1, <2>2 DEF Resume, Locals
    <2> QED
      BY <2>1, <2>2
  <1> QED
    BY <1>2, <1>3, <1>4, RingResume, RingOffCpu

LEMMA PairTurn ==
  ASSUME RingInv, PairInv, NEW p \in Proc, Resume(p) \/ Tick(p) \/ IdleTick(p)
  PROVE  PairInv'
  <1>1. \A q \in Proc : /\ loc'[q].pc = loc[q].pc /\ loc'[q].n = loc[q].n /\ loc'[q].to = loc[q].to
                        /\ loc'[q].child = loc[q].child /\ loc'[q].todo = loc[q].todo
    <2>1. ASSUME NEW q \in Proc
          PROVE  /\ loc'[q].pc = loc[q].pc /\ loc'[q].n = loc[q].n /\ loc'[q].to = loc[q].to
                 /\ loc'[q].child = loc[q].child /\ loc'[q].todo = loc[q].todo
      BY TurnIs
    <2> QED
      BY <2>1
  <1>2. fd' = fd /\ data' = data /\ env' = env
    BY TurnIs
  <1>3. OneParent'
    BY <1>1 DEF PairInv, OneParent
  <1>4. ASSUME NEW q \in Proc PROVE HandOK(q)' /\ Paired(q)' /\ ForkOK(q)'
    <2>1. HandOK(q) /\ Paired(q) /\ ForkOK(q)
      BY DEF PairInv
    <2>2. HandOK(q)'
      BY <1>1, <1>2, <2>1 DEF HandOK, Closing
    <2>3. Paired(q)'
      BY <1>2, <2>1 DEF Paired
    <2>4. ForkOK(q)'
      BY <1>1, <1>2, <2>1 DEF ForkOK
    <2> QED
      BY <2>2, <2>3, <2>4
  <1> QED
    BY <1>3, <1>4 DEF PairInv

-----------------------------------------------------------------------------
(* Steps of the descriptor calls.                                          *)

LEMMA PairClose ==
  ASSUME RingInv, PairInv, NEW p \in Proc, NEW n \in FdNum, Close(p, n)
  PROVE  PairInv'
  <1>1. /\ p \in running /\ env' = env /\ data' = data /\ SetTo(fd, fd', p, n, Nothing)
        /\ \A q \in Proc \ {p} : loc'[q] = loc[q]
        /\ loc'[p].pc = "unmap_data" /\ loc'[p].n = n /\ loc'[p].to = Nothing
    BY CloseDoes
  <1>2. env[p] = "LIVE"
    BY <1>1, OnCpu
  <1>3. HandOK(p)'
    BY <1>1 DEF HandOK, Closing, SetTo
  <1>4. Paired(p)'
    BY <1>1, <1>2, NothingAssumption DEF PairInv, Paired, SetTo, End
  <1> QED
    BY <1>1, <1>2, <1>3, <1>4, PairOwn DEF SetTo

LEMMA PairDup ==
  ASSUME RingInv, PairInv, NEW p \in Proc, NEW n \in FdNum, NEW to \in FdNum, Dup(p, n, to)
  PROVE  PairInv'
  <1>1. /\ p \in running /\ env' = env /\ data' = data /\ SetTo(fd, fd', p, to, Nothing)
        /\ \A q \in Proc \ {p} : loc'[q] = loc[q]
        /\ loc'[p].pc \in {"unmap_data", "dup_data"} /\ loc'[p].n = n /\ loc'[p].to = to
    BY DupDoes
  <1>2. env[p] = "LIVE"
    BY <1>1, OnCpu
  <1>3. HandOK(p)'
    BY <1>1, NothingAssumption, FdNumAssumption DEF HandOK, Closing, SetTo
  <1>4. Paired(p)'
    BY <1>1, <1>2, NothingAssumption DEF PairInv, Paired, SetTo, End
  <1> QED
    BY <1>1, <1>2, <1>3, <1>4, PairOwn DEF SetTo

LEMMA PairUnmap ==
  ASSUME RingInv, PairInv, NEW p \in Proc, UnmapData(p)
  PROVE  PairInv'
  <1>1. /\ p \in running /\ env' = env /\ fd' = fd /\ loc[p].pc = "unmap_data" /\ Closing(p) \in FdNum
        /\ SetTo(data, data', p, Closing(p), FALSE) /\ \A q \in Proc \ {p} : loc'[q] = loc[q]
        /\ \/ loc'[p] = Start
           \/ loc[p].to # Nothing /\ loc'[p].pc = "dup_data" /\ loc'[p].to = loc[p].to /\ loc'[p].n = loc[p].n
    BY UnmapDoes
  <1>2. env[p] = "LIVE" /\ HandOK(p) /\ loc[p] \in Locals
    BY <1>1, OnCpu DEF PairInv
  <1>3. HandOK(p)' /\ loc'[p].pc # "fork"
    <2>1. CASE loc'[p] = Start
      BY <2>1, StartIs DEF HandOK
    <2>2. CASE loc'[p] # Start
      BY <1>1, <1>2, <2>2 DEF HandOK, Closing, Locals
    <2> QED
      BY <2>1, <2>2
  <1>4. Paired(p)'
    <2>1. ASSUME NEW m \in FdNum, fd[p][m] \in End PROVE data'[p][m]
      <3>1. m # Closing(p)
        BY <1>1, <1>2, <2>1, NothingAssumption DEF HandOK, End
      <3>2. data[p][m]
        BY <1>2, <2>1 DEF PairInv, Paired
      <3> QED
        BY <1>1, <2>1, <3>1, <3>2 DEF SetTo
    <2> QED
      BY <1>1, <1>2, <2>1 DEF Paired
  <1> QED
    BY <1>1, <1>2, <1>3, <1>4, PairOwn DEF SetTo

LEMMA PairDupData ==
  ASSUME RingInv, PairInv, NEW p \in Proc, DupData(p)
  PROVE  PairInv'
  <1>1. loc[p].to \in FdNum /\ fd[p][loc[p].to] = Nothing
    BY DEF PairInv, HandOK, DupData, At
  <1>2. /\ p \in running /\ env' = env /\ fd' = fd /\ \A q \in Proc \ {p} : loc'[q] = loc[q]
        /\ \/ loc'[p] = Start /\ data' = data
           \/ /\ SetTo(data, data', p, loc[p].to, TRUE)
              /\ loc'[p].pc = "dup_fd" /\ loc'[p].to = loc[p].to /\ loc'[p].n = loc[p].n
    BY <1>1, DupDataDoes
  <1>3. env[p] = "LIVE" /\ Paired(p)
    BY <1>2, OnCpu DEF PairInv
  <1>4. CASE loc'[p] = Start /\ data' = data
    <2>1. HandOK(p)' /\ loc'[p].pc # "fork" /\ Paired(p)'
      BY <1>2, <1>3, <1>4, StartIs DEF HandOK, Paired
    <2> QED
      BY <1>2, <1>3, <1>4, <2>1, PairOwn
  <1>5. CASE /\ SetTo(data, data', p, loc[p].to, TRUE)
             /\ loc'[p].pc = "dup_fd" /\ loc'[p].to = loc[p].to /\ loc'[p].n = loc[p].n
    <2>1. HandOK(p)'
      BY <1>1, <1>2, <1>5 DEF HandOK, SetTo
    <2>2. Paired(p)'
      BY <1>2, <1>3, <1>5 DEF Paired, SetTo
    <2> QED
      BY <1>2, <1>3, <1>5, <2>1, <2>2, PairOwn DEF SetTo
  <1> QED
    BY <1>2, <1>4, <1>5

LEMMA PairDupFd ==
  ASSUME RingInv, PairInv, NEW p \in Proc, DupFd(p)
  PROVE  PairInv'
  <1>1. loc[p].to \in FdNum /\ fd[p][loc[p].to] = Nothing /\ data[p][loc[p].to]
    BY DEF PairInv, HandOK, DupFd, At
  <1>2. /\ p \in running /\ env' = env /\ data' = data /\ \A q \in Proc \ {p} : loc'[q] = loc[q]
        /\ \/ loc'[p] = Start /\ SetTo(fd, fd', p, loc[p].to, fd[p][loc[p].n])
           \/ /\ fd' = fd /\ loc'[p].pc = "unmap_data" /\ loc'[p].to = Nothing /\ loc'[p].n = loc[p].to
    BY <1>1, DupFdDoes
  <1>3. env[p] = "LIVE" /\ Paired(p)
    BY <1>2, OnCpu DEF PairInv
  <1>4. CASE loc'[p] = Start /\ SetTo(fd, fd', p, loc[p].to, fd[p][loc[p].n])
    <2>1. HandOK(p)' /\ loc'[p].pc # "fork"
      BY <1>4, StartIs DEF HandOK
    <2>2. Paired(p)'
      BY <1>1, <1>2, <1>3, <1>4 DEF Paired, SetTo
    <2> QED
      BY <1>2, <1>3, <1>4, <2>1, <2>2, PairOwn DEF SetTo
  <1>5. CASE fd' = fd /\ loc'[p].pc = "unmap_data" /\ loc'[p].to = Nothing /\ loc'[p].n = loc[p].to
    <2>1. HandOK(p)' /\ Paired(p)'
      BY <1>1, <1>2, <1>3, <1>5 DEF HandOK, Closing, Paired
    <2> QED
      BY <1>2, <1>3, <1>5, <2>1, PairOwn
  <1> QED
    BY <1>2, <1>4, <1>5

LEMMA PairFork ==
  ASSUME RingInv, PairInv, NEW p \in Proc, NEW c \in Proc, Fork(p, c)
  PROVE  PairInv'
  <1>1. /\ p \in running /\ fd' = fd /\ data' = data
        /\ env[c] = "NONE" /\ env'[c] = "NEW" /\ \A q \in Proc \ {c} : env'[q] = env[q]
        /\ loc[p].pc \in Idle /\ \A q \in Proc \ {p} : loc'[q] = loc[q]
        /\ loc'[p].pc = "fork" /\ loc'[p].child = c /\ loc'[p].todo = Shared(p)
    BY ForkDoes
  <1>2. env[p] = "LIVE" /\ c # p /\ Paired(p) /\ Paired(c)
    BY <1>1, OnCpu DEF PairInv
  <1>3. OneParent'
    <2>1. \A q \in Proc \ {p} : loc[q].pc = "fork" => loc[q].child # c
      BY <1>1 DEF PairInv, ForkOK
    <2> QED
      BY <1>1, <2>1 DEF PairInv, OneParent
  <1>4. ForkOK(p)'
    <2>1. \A n \in FdNum : /\ fd[c][n] = Nothing
                           /\ <<"fd", n>> \in Shared(p) => <<"data", n>> \in Shared(p)
      BY <1>1, <1>2, SharedIs DEF Paired
    <2>2. Nothing \notin End
      BY NothingAssumption DEF End
    <2> QED
      BY <1>1, <2>1, <2>2 DEF ForkOK
  <1>5. ASSUME NEW q \in Proc PROVE HandOK(q)' /\ Paired(q)' /\ ForkOK(q)'
    <2>1. HandOK(q) /\ Paired(q) /\ ForkOK(q)
      BY DEF PairInv
    <2>2. HandOK(q)'
      <3>1. CASE q = p
        BY <1>1, <3>1 DEF HandOK
      <3>2. CASE q # p
        BY <1>1, <2>1, <3>2 DEF HandOK, Closing
      <3> QED
        BY <3>1, <3>2
    <2>3. Paired(q)'
      <3>1. CASE q = c
        BY <1>1, <3>1 DEF Paired
      <3>2. CASE q # c
        BY <1>1, <2>1, <3>2 DEF Paired
      <3> QED
        BY <3>1, <3>2
    <2>4. ForkOK(q)'
      <3>1. CASE q # p
        BY <1>1, <2>1, <3>1 DEF ForkOK
      <3> QED
        BY <1>4, <3>1
    <2> QED
      BY <2>2, <2>3, <2>4
  <1> QED
    BY <1>3, <1>5 DEF PairInv

LEMMA PairDupPage ==
  ASSUME RingInv, PairInv, NEW p \in Proc, DupPage(p)
  PROVE  PairInv'
  <1>1. PICK c \in Proc : c = loc[p].child
    BY DEF PairInv, ForkOK, DupPage, At
  <1>2. loc[p].pc = "fork" /\ env[c] = "NEW" /\ ForkOK(p)
    BY <1>1 DEF PairInv, ForkOK, DupPage, At
  <1>3. /\ p \in running /\ env' = env
        /\ loc[p].pc = "fork" /\ \A q \in Proc \ {p} : loc'[q] = loc[q]
        /\ loc'[p].pc = "fork" /\ loc'[p].child = c
        /\ \E n \in FdNum :
              \/ /\ <<"fd", n>> \in loc[p].todo /\ loc'[p].todo = loc[p].todo \ {<<"fd", n>>}
                 /\ data' = data /\ SetTo(fd, fd', c, n, fd[p][n])
              \/ /\ <<"data", n>> \in loc[p].todo /\ loc'[p].todo = loc[p].todo \ {<<"data", n>>}
                 /\ fd' = fd /\ SetTo(data, data', c, n, TRUE)
    BY <1>1, DupPageDoes
  <1>4. env[p] = "LIVE" /\ c # p /\ p \in Proc
    BY <1>2, <1>3, OnCpu
  <1>5. /\ \A q \in Proc \ {c}, m \in FdNum : fd'[q][m] = fd[q][m] /\ data'[q][m] = data[q][m]
    BY <1>3 DEF SetTo
  <1>6. OneParent'
    BY <1>1, <1>3 DEF PairInv, OneParent
  <1>7. ForkOK(p)'
    <2>1. PICK n \in FdNum :
              \/ /\ <<"fd", n>> \in loc[p].todo /\ loc'[p].todo = loc[p].todo \ {<<"fd", n>>}
                 /\ data' = data /\ SetTo(fd, fd', c, n, fd[p][n])
              \/ /\ <<"data", n>> \in loc[p].todo /\ loc'[p].todo = loc[p].todo \ {<<"data", n>>}
                 /\ fd' = fd /\ SetTo(data, data', c, n, TRUE)
      BY <1>3
    <2>2. ASSUME NEW m \in FdNum
          PROVE  /\ fd'[c][m] \in End => fd'[c][m] = fd'[p][m]
                 /\ fd'[c][m] \in End \/ <<"fd", m>> \in loc'[p].todo =>
                       data'[c][m] \/ <<"data", m>> \in loc'[p].todo
      <3>1. /\ fd[c][m] \in End => fd[c][m] = fd[p][m]
            /\ fd[c][m] \in End \/ <<"fd", m>> \in loc[p].todo => data[c][m] \/ <<"data", m>> \in loc[p].todo
        BY <1>1, <1>2 DEF ForkOK
      <3>2. fd'[p][m] = fd[p][m]
        BY <1>4, <1>5
      <3>3. CASE /\ <<"fd", n>> \in loc[p].todo /\ loc'[p].todo = loc[p].todo \ {<<"fd", n>>}
                 /\ data' = data /\ SetTo(fd, fd', c, n, fd[p][n])
        <4>1. <<"data", m>> # <<"fd", n>>
          OBVIOUS
        <4> QED
          BY <1>4, <3>1, <3>2, <3>3, <4>1 DEF SetTo
      <3>4. CASE /\ <<"data", n>> \in loc[p].todo /\ loc'[p].todo = loc[p].todo \ {<<"data", n>>}
                 /\ fd' = fd /\ SetTo(data, data', c, n, TRUE)
        <4>1. CASE m = n
          BY <3>1, <3>4, <4>1 DEF SetTo
        <4>2. CASE m # n
          BY <3>1, <3>4, <4>2 DEF SetTo
        <4> QED
          BY <4>1, <4>2
      <3> QED
        BY <2>1, <3>3, <3>4
    <2> QED
      BY <1>2, <1>3, <2>2 DEF ForkOK
  <1>8. ASSUME NEW q \in Proc PROVE HandOK(q)' /\ Paired(q)' /\ ForkOK(q)'
    <2>1. HandOK(q) /\ Paired(q) /\ ForkOK(q) /\ loc[q] \in Locals /\ (env[q] # "LIVE" => loc[q] = Start)
      BY DEF PairInv, RingInv, CallsOK
    <2>2. HandOK(q)'
      <3>1. CASE q = p
        BY <1>3, <3>1 DEF HandOK
      <3>2. CASE q = c
        BY <1>2, <1>3, <1>4, <2>1, <3>2, StartIs DEF HandOK
      <3>3. CASE q # p /\ q # c
        <4>1. loc[q].n \in FdNum /\ loc[q].to \in FdNum \cup {Nothing}
          BY <2>1 DEF Locals
        <4> QED
          BY <1>3, <1>5, <2>1, <3>3, <4>1 DEF HandOK, Closing
      <3> QED
        BY <3>1, <3>2, <3>3
    <2>3. Paired(q)'
      <3>1. CASE q = c
        BY <1>2, <1>3, <3>1 DEF Paired
      <3>2. CASE q # c
        BY <1>3, <1>5, <2>1, <3>2 DEF Paired
      <3> QED
        BY <3>1, <3>2
    <2>4. ForkOK(q)'
      <3>1. ASSUME q # p, loc[q].pc = "fork" PROVE loc[q].child \in Proc \ {c} /\ q # c
        <4>1. loc[q].child # c /\ loc[q].child \in Proc
          BY <1>1, <1>2, <2>1, <3>1 DEF PairInv, OneParent, ForkOK
        <4>2. env[q] = "LIVE"
          BY <2>1, <3>1, StartIs
        <4> QED
          BY <1>2, <4>1, <4>2
      <3>2. CASE q # p
        BY <1>3, <1>5, <2>1, <3>1, <3>2 DEF ForkOK
      <3> QED
        BY <1>7, <3>2
    <2> QED
      BY <2>2, <2>3, <2>4
  <1> QED
    BY <1>6, <1>8 DEF PairInv

LEMMA PairStartChild ==
  ASSUME RingInv, PairInv, NEW p \in Proc, StartChild(p)
  PROVE  PairInv'
  <1>1. PICK c \in Proc : c = loc[p].child
    BY DEF PairInv, ForkOK, StartChild, At
  <1>2. loc[p].pc = "fork" /\ env[c] = "NEW" /\ ForkOK(p)
    BY <1>1 DEF PairInv, ForkOK, StartChild, At
  <1>3. /\ p \in running /\ fd' = fd /\ data' = data /\ loc[p].todo = {} /\ c # p
        /\ env'[c] = "LIVE" /\ \A q \in Proc \ {c} : env'[q] = env[q]
        /\ loc'[p] = Start /\ \A q \in Proc \ {p} : loc'[q] = loc[q]
    BY <1>1, <1>2, StartChildDoes
  <1>4. OneParent'
    BY <1>3, StartIs DEF PairInv, OneParent
  <1>5. ASSUME NEW q \in Proc PROVE HandOK(q)' /\ Paired(q)' /\ ForkOK(q)'
    <2>1. HandOK(q) /\ Paired(q) /\ ForkOK(q)
      BY DEF PairInv
    <2>2. HandOK(q)'
      <3>1. CASE q = p
        BY <1>3, <3>1, StartIs DEF HandOK
      <3>2. CASE q # p
        BY <1>3, <2>1, <3>2 DEF HandOK, Closing
      <3> QED
        BY <3>1, <3>2
    <2>3. Paired(q)'
      <3>1. CASE q = c
        BY <1>1, <1>2, <1>3, <3>1 DEF Paired, ForkOK
      <3>2. CASE q # c
        BY <1>3, <2>1, <3>2 DEF Paired
      <3> QED
        BY <3>1, <3>2
    <2>4. ForkOK(q)'
      <3>1. CASE q = p
        BY <1>3, <3>1, StartIs DEF ForkOK
      <3>2. CASE q # p
        <4>1. loc[q].pc = "fork" => loc[q].child # c
          BY <1>1, <1>2, <3>2 DEF PairInv, OneParent
        <4> QED
          BY <1>3, <2>1, <3>2, <4>1 DEF ForkOK
      <3> QED
        BY <3>1, <3>2
    <2> QED
      BY <2>2, <2>3, <2>4
  <1> QED
    BY <1>4, <1>5 DEF PairInv

LEMMA PairEnvFree ==
  ASSUME RingInv, PairInv, NEW p \in Proc, EnvFree(p)
  PROVE  PairInv'
  <1>1. /\ env[p] = "LIVE" /\ env'[p] = "DEAD" /\ \A q \in Proc \ {p} : env'[q] = env[q]
        /\ \A n \in FdNum : fd'[p][n] = Nothing /\ ~data'[p][n]
        /\ \A q \in Proc \ {p} : fd'[q] = fd[q] /\ data'[q] = data[q]
        /\ loc'[p] = Start /\ \A q \in Proc \ {p} : loc'[q] = loc[q]
    BY EnvFreeDoes
  <1>2. OneParent'
    BY <1>1, StartIs DEF PairInv, OneParent
  <1>3. ASSUME NEW q \in Proc PROVE HandOK(q)' /\ Paired(q)' /\ ForkOK(q)'
    <2>1. HandOK(q) /\ Paired(q) /\ ForkOK(q)
      BY DEF PairInv
    <2>2. CASE q = p
      BY <1>1, <2>2, StartIs, NothingAssumption DEF HandOK, Paired, ForkOK, End
    <2>3. CASE q # p
      <3>1. HandOK(q)' /\ Paired(q)'
        BY <1>1, <2>1, <2>3 DEF HandOK, Paired, Closing
      <3>2. ForkOK(q)'
        <4>1. loc[q].pc = "fork" => loc[q].child \in Proc \ {p}
          BY <1>1, <2>1 DEF ForkOK
        <4> QED
          BY <1>1, <2>1, <2>3, <4>1 DEF ForkOK
      <3> QED
        BY <3>1, <3>2
    <2> QED
      BY <2>2, <2>3
  <1> QED
    BY <1>2, <1>3 DEF PairInv

-----------------------------------------------------------------------------
(* The invariants hold, whenever a process forks.                          *)

\* What a process other than its fork may do.
LEMMA CommonIs ==
  ASSUME NEW p \in Proc, Common(p)
  PROVE  \/ Resume(p) \/ Tick(p) \/ IdleTick(p) \/ EnvFree(p) \/ QuietCall(p)
         \/ UnmapData(p) \/ DupData(p) \/ DupFd(p) \/ DupPage(p) \/ StartChild(p)
         \/ \E n \in FdNum : Close(p, n) \/ \E to \in FdNum : Dup(p, n, to)
  BY FdNumAssumption DEF Common, Continue, Call, QuietCall

LEMMA RingInit == Init => RingInv /\ PairInv
  <1> SUFFICES ASSUME Init PROVE RingInv /\ PairInv
    OBVIOUS
  <1>1. /\ fd \in [Proc -> [FdNum -> End \cup {Nothing}]] /\ data \in [Proc -> [FdNum -> BOOLEAN]]
        /\ \A p \in Proc \ {First}, n \in FdNum : fd[p][n] = Nothing
    BY DEF Init, End
  <1>2. \A n \in FdNum : fd[First][n] \in End => data[First][n]
    BY FirstAssumption, NothingAssumption DEF Init, End
  <1>3. /\ env \in [Proc -> {"NONE", "NEW", "LIVE", "DEAD"}] /\ env[First] = "LIVE"
        /\ \A p \in Proc \ {First} : env[p] = "NONE"
        /\ running = {First} /\ loc = [p \in Proc |-> Start]
        /\ p_rpos = 0 /\ p_wpos = 0 /\ got = Nothing
        /\ p_buf \in [0 .. PIPEBUFSIZ - 1 -> Nat \cup {Nothing}]
    BY FirstAssumption DEF Init
  <1>4. TypeOK
    <2>1. Cardinality(running) <= NCPU
      <3>1. Cardinality({First}) = 1
        BY FS_Singleton
      <3> QED
        BY <1>3, <3>1, CallAssumption
    <2>2. running \in SUBSET {p \in Proc : env[p] = "LIVE"}
      BY <1>3, FirstAssumption
    <2>3. p_wpos - p_rpos \in 0 .. PIPEBUFSIZ /\ p_rpos \in Nat /\ p_wpos \in Nat
      BY <1>3, BufferAssumption
    <2>4. \A p \in Proc : loc[p].pc \in Pc
      BY <1>3, StartIs DEF Locals
    <2> QED
      BY <1>1, <1>3, <2>1, <2>2, <2>3, <2>4 DEF TypeOK
  <1>5. CallsOK
    BY <1>3, StartIs DEF CallsOK, Alone
  <1>6. BufferOK
    BY <1>3 DEF BufferOK
  <1>7. PairInv
    <2>1. OneParent
      BY <1>3, StartIs DEF OneParent
    <2>2. ASSUME NEW p \in Proc PROVE HandOK(p) /\ Paired(p) /\ ForkOK(p)
      <3>1. loc[p].pc = "user"
        BY <1>3, StartIs
      <3>2. Paired(p)
        BY <1>1, <1>2, <1>3, NothingAssumption DEF Paired, End
      <3> QED
        BY <3>1, <3>2 DEF HandOK, ForkOK
    <2> QED
      BY <2>1, <2>2 DEF PairInv
  <1> QED
    BY <1>4, <1>5, <1>6, <1>7 DEF RingInv

LEMMA ActionKeeps ==
  ASSUME RingInv, PairInv, NEW p \in Proc, Common(p) \/ \E c \in Proc : Fork(p, c)
  PROVE  RingInv' /\ PairInv'
  <1>1. CASE Resume(p) \/ Tick(p) \/ IdleTick(p)
    BY <1>1, TurnIs, PairTurn
  <1>2. CASE QuietCall(p)
    BY <1>2, RingQuiet, PairQuiet
  <1>3. CASE EnvFree(p)
    BY <1>3, EnvFreeDoes, PairEnvFree
  <1>4. CASE UnmapData(p)
    BY <1>4, UnmapDoes, PairUnmap
  <1>5. CASE DupData(p)
    <2>1. loc[p].to \in FdNum
      BY <1>5 DEF PairInv, HandOK, DupData, At
    <2> QED
      BY <1>5, <2>1, DupDataDoes, PairDupData
  <1>6. CASE DupFd(p)
    <2>1. loc[p].to \in FdNum
      BY <1>6 DEF PairInv, HandOK, DupFd, At
    <2> QED
      BY <1>6, <2>1, DupFdDoes, PairDupFd
  <1>7. CASE DupPage(p)
    <2>1. loc[p].child \in Proc
      BY <1>7 DEF PairInv, ForkOK, DupPage, At
    <2> QED
      BY <1>7, <2>1, DupPageDoes, PairDupPage
  <1>8. CASE StartChild(p)
    <2>1. loc[p].child \in Proc /\ env[loc[p].child] = "NEW"
      BY <1>8 DEF PairInv, ForkOK, StartChild, At
    <2> QED
      BY <1>8, <2>1, StartChildDoes, PairStartChild
  <1>9. CASE \E n \in FdNum : Close(p, n) \/ \E to \in FdNum : Dup(p, n, to)
    BY <1>9, CloseDoes, PairClose, DupDoes, PairDup
  <1>10. CASE \E c \in Proc : Fork(p, c)
    BY <1>10, ForkDoes, PairFork
  <1> QED
    BY <1>1, <1>2, <1>3, <1>4, <1>5, <1>6, <1>7, <1>8, <1>9, <1>10, CommonIs

LEMMA StutterKeeps ==
  ASSUME RingInv, PairInv, UNCHANGED vars
  PROVE  RingInv' /\ PairInv'
  <1>1. /\ fd' = fd /\ data' = data /\ p_rpos' = p_rpos /\ p_wpos' = p_wpos /\ p_buf' = p_buf /\ got' = got
        /\ env' = env /\ running' = running /\ loc' = loc
    BY DEF vars, shared, sched
  <1>2. RingInv'
    BY <1>1 DEF RingInv, TypeOK, CallsOK, Alone, Placed, BufferOK
  <1>3. PairInv'
    BY <1>1 DEF PairInv, OneParent, HandOK, Closing, Paired, ForkOK
  <1> QED
    BY <1>2, <1>3

\* Also when a process forks while others share its ends, the ring and the
\* pairs of pages keep their invariants.
THEOREM InvarianceAny == SpecAny => [](RingInv /\ PairInv)
  <1>1. RingInv /\ PairInv /\ [NextAny]_vars => RingInv' /\ PairInv'
    BY ActionKeeps, StutterKeeps DEF NextAny
  <1> QED
    BY <1>1, RingInit, PTL DEF SpecAny

\* So do they where a process forks only while it is alone with its ends.
THEOREM Invariance == Spec => [](RingInv /\ PairInv)
  <1>1. RingInv /\ PairInv /\ [Next]_vars => RingInv' /\ PairInv'
    BY ActionKeeps, StutterKeeps DEF Next, ForkSafely
  <1> QED
    BY <1>1, RingInit, PTL DEF Spec

\* The ring buffer of lib/pipe.c never holds more than it has room for, and
\* every variable keeps its type.
THEOREM TypesKept == Spec => []TypeOK
  <1>1. RingInv => TypeOK
    BY DEF RingInv
  <1> QED
    BY <1>1, Invariance, PTL

-----------------------------------------------------------------------------
(* The counts that _pipeisclosed compares.                                 *)

Ends(end) == {q \in Proc \X FdNum : fd[q[1]][q[2]] = end}
Pipes == {q \in Proc \X FdNum : data[q[1]][q[2]]}

\* If the references of an end are among those of the struct Pipe, the count
\* of the latter leaves room for any other of them.
LEMMA CountBoth ==
  ASSUME NEW end, NEW S, S \subseteq Pipes, Ends(end) \subseteq Pipes, S \cap Ends(end) = {}
  PROVE  RefPipe >= RefFd(end) + Cardinality(S)
  <1>1. IsFiniteSet(Pipes) /\ IsFiniteSet(Ends(end)) /\ IsFiniteSet(S)
    BY CountType, FS_Subset DEF Ends, Pipes
  <1>2. Cardinality(S \cup Ends(end)) = Cardinality(S) + Cardinality(Ends(end)) - Cardinality(S \cap Ends(end))
    BY <1>1, FS_Union
  <1>3. Cardinality(S \cap Ends(end)) = 0
    BY FS_EmptySet
  <1>4. Cardinality(S \cup Ends(end)) <= Cardinality(Pipes)
    BY <1>1, FS_Subset
  <1>5. /\ Cardinality(S) \in Nat /\ Cardinality(Ends(end)) \in Nat /\ Cardinality(Pipes) \in Nat
        /\ Cardinality(S \cup Ends(end)) \in Nat
    BY <1>1, FS_CardinalityType, FS_Union
  <1>6. RefFd(end) = Cardinality(Ends(end)) /\ RefPipe = Cardinality(Pipes)
    BY DEF RefFd, RefPipe, Ends, Pipes
  <1> QED
    BY <1>2, <1>3, <1>4, <1>5, <1>6

LEMMA CoverEnds == RingInv /\ PairInv => PipeRefsCoverEnds
  <1> SUFFICES ASSUME RingInv, PairInv, \A p \in Proc : env[p] # "NEW"
               PROVE  RefPipe >= RefFd("R") + RefFd("W")
    BY DEF PipeRefsCoverEnds
  <1>1. ASSUME NEW end \in End PROVE Ends(end) \subseteq Pipes
    <2>1. ASSUME NEW p \in Proc, NEW n \in FdNum, fd[p][n] = end PROVE data[p][n]
      <3>1. env[p] = "LIVE"
        BY <2>1, NothingAssumption DEF PairInv, Paired, RingInv, TypeOK, End
      <3> QED
        BY <2>1, <3>1 DEF PairInv, Paired
    <2> QED
      BY <2>1 DEF Ends, Pipes
  <1>2. Ends("W") \cap Ends("R") = {}
    BY DEF Ends
  <1>3. RefPipe >= RefFd("R") + Cardinality(Ends("W"))
    BY <1>1, <1>2, CountBoth DEF End
  <1> QED
    BY <1>3 DEF RefFd, Ends

\* The count of the struct Pipe covers both ends at every step of close, dup
\* and exit (lib/fd.c, lib/pipe.c): what _pipeisclosed relies on.  It does
\* whenever a process forks, too.
THEOREM CountsCoverEnds == SpecAny => []PipeRefsCoverEnds
  BY InvarianceAny, CoverEnds, PTL

\* The same under the rule that the runs use.
THEOREM CountsCover == Spec => []PipeRefsCoverEnds
  BY Invariance, CoverEnds, PTL

-----------------------------------------------------------------------------
(* The bytes arrive in order.                                              *)

\* The numbers from a up to, not including, b.
Run(a, b) == [k \in 1 .. b - a |-> a + k - 1]

LEMMA RunType ==
  ASSUME NEW a \in Nat, NEW b \in Nat, a <= b
  PROVE  /\ Run(a, b) \in Seq(Nat) /\ Len(Run(a, b)) = b - a
         /\ \A k \in 1 .. b - a : Run(a, b)[k] = a + k - 1
  <1>1. b - a \in Nat /\ \A k \in 1 .. b - a : a + k - 1 \in Nat
    OBVIOUS
  <1> QED
    BY <1>1 DEF Run

LEMMA RunAppend ==
  ASSUME NEW a \in Nat, NEW b \in Nat, a <= b
  PROVE  Run(a, b + 1) = Append(Run(a, b), b)
  <1> DEFINE s == Run(a, b)
             t == Run(a, b + 1)
             u == Append(s, b)
  <1>1. s \in Seq(Nat) /\ Len(s) = b - a /\ \A k \in 1 .. b - a : s[k] = a + k - 1
    BY RunType
  <1>2. t \in Seq(Nat) /\ Len(t) = b + 1 - a /\ \A k \in 1 .. b + 1 - a : t[k] = a + k - 1
    BY RunType
  <1>3. /\ u \in Seq(Nat) /\ Len(u) = Len(s) + 1 /\ u[Len(s) + 1] = b
        /\ \A k \in 1 .. Len(s) : u[k] = s[k]
    <2> HIDE DEF s
    <2> QED
      BY <1>1, AppendProperties
  <1> HIDE DEF s, t, u
  <1>4. Len(t) = Len(u) /\ \A k \in 1 .. Len(t) : t[k] = u[k]
    <2>1. Len(t) = (b - a) + 1 /\ Len(s) = b - a /\ b - a \in Nat /\ Len(t) = Len(u)
      BY <1>1, <1>2, <1>3
    <2>2. ASSUME NEW k \in 1 .. Len(t) PROVE t[k] = u[k]
      <3>1. t[k] = a + k - 1
        BY <1>2
      <3>2. CASE k \in 1 .. b - a
        BY <1>1, <1>3, <2>1, <3>1, <3>2
      <3>3. CASE k = (b - a) + 1
        BY <1>3, <2>1, <3>1, <3>3
      <3> QED
        BY <2>1, <3>2, <3>3
    <2> QED
      BY <2>1, <2>2
  <1>5. t = u
    BY <1>2, <1>3, <1>4, SeqEqual
  <1> QED
    BY <1>5 DEF s, t, u

LEMMA RunTail ==
  ASSUME NEW a \in Nat, NEW b \in Nat, a < b
  PROVE  Run(a, b) # << >> /\ Head(Run(a, b)) = a /\ Run(a + 1, b) = Tail(Run(a, b))
  <1> DEFINE s == Run(a, b)
             t == Run(a + 1, b)
             u == Tail(s)
  <1>1. s \in Seq(Nat) /\ Len(s) = b - a /\ \A k \in 1 .. b - a : s[k] = a + k - 1
    BY RunType
  <1>2. t \in Seq(Nat) /\ Len(t) = b - (a + 1) /\ \A k \in 1 .. b - (a + 1) : t[k] = (a + 1) + k - 1
    BY RunType
  <1>3. s # << >> /\ Head(s) = s[1]
    <2> HIDE DEF s
    <2> QED
      BY <1>1
  <1>4. u \in Seq(Nat) /\ Len(u) = Len(s) - 1 /\ \A k \in 1 .. Len(u) : u[k] = s[k + 1]
    <2> HIDE DEF s
    <2> QED
      BY <1>1, <1>3, HeadTailProperties
  <1> HIDE DEF s, t, u
  <1>5. Len(t) = Len(u) /\ (\A k \in 1 .. Len(t) : t[k] = u[k]) /\ s[1] = a
    BY <1>1, <1>2, <1>4
  <1>6. t = u
    BY <1>2, <1>4, <1>5, SeqEqual
  <1> QED
    BY <1>3, <1>5, <1>6 DEF s, t, u

\* The bytes in the buffer are the positions between the two ends.
LEMMA BytesAre == RingInv => Bytes = Run(p_rpos, p_wpos)
  <1> SUFFICES ASSUME RingInv PROVE Bytes = Run(p_rpos, p_wpos)
    OBVIOUS
  <1>1. p_rpos \in Nat /\ p_wpos \in Nat
    BY DEF RingInv, TypeOK
  <1>2. ASSUME NEW k \in 1 .. p_wpos - p_rpos PROVE p_buf[(p_rpos + k - 1) % PIPEBUFSIZ] = p_rpos + k - 1
    <2>1. p_rpos + k - 1 \in p_rpos .. p_wpos - 1
      BY <1>1
    <2> QED
      BY <2>1 DEF RingInv, BufferOK
  <1> QED
    BY <1>2 DEF Bytes, Run

LEMMA BytesAreNext == RingInv' => (Bytes = Run(p_rpos, p_wpos))'
  BY BytesAre, PTL

LEMMA PutIs ==
  ASSUME RingInv, RingInv', p_wpos' = p_wpos + 1, p_rpos' = p_rpos, got' = got, p_wpos < p_rpos + PIPEBUFSIZ
  PROVE  Queue!Put
  <1>1. p_rpos \in Nat /\ p_wpos \in Nat /\ p_rpos <= p_wpos /\ PIPEBUFSIZ \in Nat
    BY BufferAssumption DEF RingInv, TypeOK
  <1>2. Bytes = Run(p_rpos, p_wpos) /\ Bytes' = Run(p_rpos, p_wpos + 1)
    BY BytesAre, BytesAreNext
  <1>3. Len(Bytes) < PIPEBUFSIZ
    BY <1>1, <1>2, RunType
  <1>4. Bytes' = Append(Bytes, p_wpos)
    BY <1>1, <1>2, RunAppend
  <1> QED
    BY <1>3, <1>4 DEF Queue!Put

LEMMA TakeIs ==
  ASSUME RingInv, RingInv', p_rpos' = p_rpos + 1, p_wpos' = p_wpos, got' = p_rpos, p_rpos < p_wpos
  PROVE  Queue!Take
  <1>1. p_rpos \in Nat /\ p_wpos \in Nat
    BY DEF RingInv, TypeOK
  <1>2. Bytes = Run(p_rpos, p_wpos) /\ Bytes' = Run(p_rpos + 1, p_wpos)
    BY BytesAre, BytesAreNext
  <1>3. Bytes # << >> /\ got' = Head(Bytes) /\ Bytes' = Tail(Bytes)
    BY <1>1, <1>2, RunTail
  <1> QED
    BY <1>3 DEF Queue!Take

\* A step that moves no position and, but for a slot outside them, leaves the
\* buffer alone.
LEMMA StutterIs ==
  ASSUME RingInv, RingInv', p_rpos' = p_rpos, p_wpos' = p_wpos, got' = got
  PROVE  UNCHANGED Queue!vars
  BY BytesAre, BytesAreNext DEF Queue!vars

LEMMA QueueInit == Init => Queue!Init
  <1> SUFFICES ASSUME Init PROVE Queue!Init
    OBVIOUS
  <1>1. RingInv /\ p_rpos = 0 /\ p_wpos = 0 /\ got = Nothing
    BY RingInit DEF Init
  <1>2. Bytes = Run(0, 0) /\ Run(0, 0) \in Seq(Nat) /\ Len(Run(0, 0)) = 0
    BY <1>1, BytesAre, RunType
  <1> QED
    BY <1>1, <1>2 DEF Queue!Init

LEMMA QueueStep ==
  ASSUME RingInv, RingInv', NEW p \in Proc, Common(p) \/ \E c \in Proc : Fork(p, c)
  PROVE  Queue!Put \/ Queue!Take \/ UNCHANGED Queue!vars
  <1>1. CASE ReadInc(p)
    BY <1>1, RingReadInc, TakeIs
  <1>2. CASE WriteByte(p)
    <2>1. CASE p_wpos' = p_wpos
      BY <1>2, <2>1, StutterIs DEF WriteByte
    <2>2. CASE p_wpos' # p_wpos
      <3>1. RingInv' /\ p_wpos < p_rpos + PIPEBUFSIZ /\ p_wpos' = p_wpos + 1 /\ p_rpos' = p_rpos /\ got' = got
        BY <1>2, <2>2, RingWriteInc DEF WriteByte
      <3> QED
        BY <3>1, PutIs
    <2> QED
      BY <2>1, <2>2
  <1>3. CASE ~ReadInc(p) /\ ~WriteByte(p)
    <2>1. p_rpos' = p_rpos /\ p_wpos' = p_wpos /\ got' = got
      BY <1>3, CommonIs
         DEF Resume, Tick, IdleTick, EnvFree, QuietCall, SysYield, ReadRefFd, ReadRefPipe, ReadTest, ReadTake,
             WriteTest, IsClosed, Read, Write, UnmapData, DupData, DupFd, DupPage, StartChild, Close, Dup, Fork, shared
    <2> QED
      BY <2>1, StutterIs, SMTT(30)
  <1> QED
    BY <1>1, <1>2, <1>3

\* The bytes that devpipe_read delivers are those devpipe_write was given, in
\* order, none lost and none twice, whatever the reader, the writer and the
\* scheduler do: Pipe implements ByteQueue.
THEOREM ImplementsByteQueue == Spec => BytesInOrder
  <1>1. ASSUME RingInv, RingInv', [Next]_vars PROVE Queue!Put \/ Queue!Take \/ UNCHANGED Queue!vars
    <2>1. CASE Next
      BY <1>1, <2>1, QueueStep DEF Next, ForkSafely
    <2>2. CASE UNCHANGED vars
      BY <1>1, <2>2, StutterIs DEF vars, shared
    <2> QED
      BY <1>1, <2>1, <2>2
  <1>2. RingInv /\ RingInv' /\ [Next]_vars => [Queue!Put \/ Queue!Take]_(Queue!vars)
    BY <1>1
  <1> QED
    BY <1>2, QueueInit, Invariance, PTL DEF Spec, BytesInOrder, Queue!Spec

-----------------------------------------------------------------------------
(* A call finds the other end closed only when it is, on one CPU.          *)

LEMMA AloneTurn ==
  ASSUME RingInv, AloneInv, NEW p \in Proc, Resume(p) \/ Tick(p) \/ IdleTick(p)
  PROVE  AloneInv'
  <1>1. \A q \in Proc : loc'[q].pc = loc[q].pc /\ loc'[q].child = loc[q].child
    BY TurnIs
  <1>2. fd' = fd /\ env' = env
    BY TurnIs
  <1> QED
    BY <1>1, <1>2 DEF AloneInv

\* A process not in fork that gets ends from itself only.
LEMMA AloneOwn ==
  ASSUME RingInv, AloneInv, NEW p \in Proc, env' = env,
         \A q \in Proc \ {p} : loc'[q] = loc[q],
         \A q \in Proc \ {p}, m \in FdNum : fd'[q][m] = fd[q][m],
         loc[p].pc # "fork", loc'[p].pc # "fork",
         \A m \in FdNum : fd'[p][m] \in End => \E k \in FdNum : fd[p][k] = fd'[p][m]
  PROVE  AloneInv'
  <1>1. ASSUME NEW x \in Proc, NEW y \in Proc, NEW n \in FdNum, NEW m \in FdNum,
               fd'[x][n] \in End, fd'[y][m] = fd'[x][n], env'[x] = "LIVE", x # y
        PROVE  /\ env'[y] = "NEW" => loc'[x].pc = "fork" /\ loc'[x].child = y
               /\ env'[y] = "LIVE" => loc'[x].pc # "fork"
    <2>1. PICK k \in FdNum : fd[x][k] = fd'[x][n]
      BY <1>1
    <2>2. PICK j \in FdNum : fd[y][j] = fd'[y][m]
      BY <1>1
    <2>3. /\ env[y] = "NEW" => loc[x].pc = "fork" /\ loc[x].child = y
          /\ env[y] = "LIVE" => loc[x].pc # "fork"
      BY <1>1, <2>1, <2>2 DEF AloneInv
    <2>4. CASE x = p
      BY <2>3, <2>4
    <2>5. CASE x # p
      BY <2>3, <2>5
    <2> QED
      BY <2>4, <2>5
  <1> QED
    BY <1>1 DEF AloneInv

LEMMA AloneQuiet ==
  ASSUME RingInv, AloneInv, NEW p \in Proc, QuietCall(p)
  PROVE  AloneInv'
  <1>1. p \in running /\ fd' = fd /\ env' = env
    BY QuietFrame
  <1>2. \A q \in Proc \ {p} : loc'[q] = loc[q]
    BY QuietFrame DEF RingInv, CallsOK
  <1>3. loc'[p].pc # "fork"
    BY QuietPc, SMTT(30) DEF FdPc
  <1>4. loc[p].pc # "fork"
    BY DEF QuietCall, SysYield, ReadRefFd, ReadRefPipe, ReadTest, ReadTake, ReadInc, WriteTest, WriteByte,
           IsClosed, Read, Write, At, Ready, Idle
  <1> QED
    BY <1>1, <1>2, <1>3, <1>4, AloneOwn

LEMMA AloneFork ==
  ASSUME RingInv, PairInv, AloneInv, NEW p \in Proc, NEW c \in Proc, OwnsItsEnds(p), Fork(p, c)
  PROVE  AloneInv'
  <1>1. /\ p \in running /\ fd' = fd
        /\ env[c] = "NONE" /\ env'[c] = "NEW" /\ \A q \in Proc \ {c} : env'[q] = env[q]
        /\ \A q \in Proc \ {p} : loc'[q] = loc[q]
    BY ForkDoes
  <1>2. \A n \in FdNum : fd[c][n] \notin End
    BY <1>1, NothingAssumption DEF PairInv, Paired, End
  <1>3. ASSUME NEW x \in Proc, NEW y \in Proc, NEW n \in FdNum, NEW m \in FdNum,
               fd[x][n] \in End, fd[y][m] = fd[x][n], env'[x] = "LIVE", x # y
        PROVE  /\ env'[y] = "NEW" => loc'[x].pc = "fork" /\ loc'[x].child = y
               /\ env'[y] = "LIVE" => loc'[x].pc # "fork"
    <2>1. x # c /\ y # c /\ x # p
      BY <1>1, <1>2, <1>3 DEF OwnsItsEnds
    <2> QED
      BY <1>1, <1>3, <2>1 DEF AloneInv
  <1> QED
    BY <1>1, <1>3 DEF AloneInv

LEMMA AloneDupPage ==
  ASSUME RingInv, PairInv, AloneInv, NEW p \in Proc, DupPage(p)
  PROVE  AloneInv'
  <1>1. PICK c \in Proc : c = loc[p].child
    BY DEF PairInv, ForkOK, DupPage, At
  <1>2. loc[p].pc = "fork" /\ env[c] = "NEW"
    BY <1>1 DEF PairInv, ForkOK, DupPage, At
  <1>3. /\ p \in running /\ env' = env
        /\ \A q \in Proc : loc'[q].pc = loc[q].pc /\ loc'[q].child = loc[q].child
        /\ fd' = fd \/ \E n \in FdNum : SetTo(fd, fd', c, n, fd[p][n])
    BY <1>1, DupPageDoes
  <1>4. CASE fd' = fd
    BY <1>3, <1>4 DEF AloneInv
  <1>5. CASE \E k \in FdNum : SetTo(fd, fd', c, k, fd[p][k])
    <2>1. PICK k \in FdNum : SetTo(fd, fd', c, k, fd[p][k])
      BY <1>5
    <2>2. ASSUME NEW x \in Proc, NEW y \in Proc, NEW n \in FdNum, NEW m \in FdNum,
                 fd'[x][n] \in End, fd'[y][m] = fd'[x][n], env[x] = "LIVE", x # y
          PROVE  /\ env[y] = "NEW" => loc[x].pc = "fork" /\ loc[x].child = y
                 /\ env[y] = "LIVE" => loc[x].pc # "fork"
      <3>1. x # c /\ fd'[x][n] = fd[x][n]
        BY <1>2, <2>1, <2>2 DEF SetTo
      <3>2. CASE y # c \/ m # k
        <4>1. fd'[y][m] = fd[y][m]
          BY <2>1, <3>2 DEF SetTo
        <4> QED
          BY <2>2, <3>1, <4>1 DEF AloneInv
      <3>3. CASE y = c /\ m = k
        <4>1. fd[p][k] = fd[x][n] /\ env[p] = "LIVE"
          BY <1>3, <2>1, <2>2, <3>1, <3>3, OnCpu DEF SetTo
        <4>2. x = p
          BY <1>2, <2>2, <3>1, <4>1 DEF AloneInv
        <4> QED
          BY <1>1, <1>2, <3>3, <4>2
      <3> QED
        BY <3>2, <3>3
    <2> QED
      BY <1>3, <2>2 DEF AloneInv
  <1> QED
    BY <1>3, <1>4, <1>5

LEMMA AloneStartChild ==
  ASSUME RingInv, PairInv, AloneInv, NEW p \in Proc, StartChild(p)
  PROVE  AloneInv'
  <1>1. PICK c \in Proc : c = loc[p].child
    BY DEF PairInv, ForkOK, StartChild, At
  <1>2. loc[p].pc = "fork" /\ env[c] = "NEW" /\ \A n \in FdNum : fd[c][n] \in End => fd[c][n] = fd[p][n]
    BY <1>1 DEF PairInv, ForkOK, StartChild, At
  <1>3. /\ p \in running /\ fd' = fd /\ c # p
        /\ env'[c] = "LIVE" /\ \A q \in Proc \ {c} : env'[q] = env[q]
        /\ loc'[p] = Start /\ \A q \in Proc \ {p} : loc'[q] = loc[q]
    BY <1>1, <1>2, StartChildDoes
  <1>4. env[p] = "LIVE" /\ loc'[p].pc # "fork" /\ loc'[c].pc # "fork"
    BY <1>2, <1>3, OnCpu, StartIs DEF RingInv, CallsOK
  <1>5. ASSUME NEW x \in Proc, NEW y \in Proc, NEW n \in FdNum, NEW m \in FdNum,
               fd[x][n] \in End, fd[y][m] = fd[x][n], env'[x] = "LIVE", x # y
        PROVE  /\ env'[y] = "NEW" => loc'[x].pc = "fork" /\ loc'[x].child = y
               /\ env'[y] = "LIVE" => loc'[x].pc # "fork"
    <2>1. CASE x = c
      <3>1. fd[p][n] = fd[x][n]
        BY <1>2, <1>5, <2>1
      <3>2. env'[y] # "NEW"
        BY <1>1, <1>2, <1>3, <1>4, <1>5, <2>1, <3>1 DEF AloneInv
      <3> QED
        BY <1>4, <2>1, <3>2
    <2>2. CASE y = c
      <3>1. fd[p][m] = fd[x][n]
        BY <1>2, <1>5, <2>2
      <3>2. CASE x # p
        <4>1. env[x] = "LIVE" /\ loc'[x] = loc[x]
          BY <1>3, <1>5, <2>2, <3>2
        <4>2. loc[x].pc # "fork"
          BY <1>4, <1>5, <3>1, <3>2, <4>1 DEF AloneInv
        <4> QED
          BY <1>3, <2>2, <4>1, <4>2
      <3> QED
        BY <1>3, <1>4, <2>2, <3>2
    <2>3. CASE x # c /\ y # c
      <3>1. env[x] = "LIVE" /\ env'[y] = env[y]
        BY <1>3, <1>5, <2>3
      <3>2. /\ env[y] = "NEW" => loc[x].pc = "fork" /\ loc[x].child = y
            /\ env[y] = "LIVE" => loc[x].pc # "fork"
        BY <1>5, <3>1 DEF AloneInv
      <3> QED
        BY <1>1, <1>3, <1>4, <2>3, <3>1, <3>2
    <2> QED
      BY <2>1, <2>2, <2>3
  <1> QED
    BY <1>3, <1>5 DEF AloneInv

LEMMA AloneEnvFree ==
  ASSUME RingInv, AloneInv, NEW p \in Proc, EnvFree(p)
  PROVE  AloneInv'
  <1>1. /\ env[p] = "LIVE" /\ env'[p] = "DEAD" /\ \A q \in Proc \ {p} : env'[q] = env[q]
        /\ \A n \in FdNum : fd'[p][n] = Nothing
        /\ \A q \in Proc \ {p} : fd'[q] = fd[q]
        /\ \A q \in Proc \ {p} : loc'[q] = loc[q]
    BY EnvFreeDoes
  <1>2. Nothing \notin End
    BY NothingAssumption DEF End
  <1>3. ASSUME NEW x \in Proc, NEW y \in Proc, NEW n \in FdNum, NEW m \in FdNum,
               fd'[x][n] \in End, fd'[y][m] = fd'[x][n], env'[x] = "LIVE", x # y
        PROVE  /\ env'[y] = "NEW" => loc'[x].pc = "fork" /\ loc'[x].child = y
               /\ env'[y] = "LIVE" => loc'[x].pc # "fork"
    <2>1. x # p /\ y # p
      BY <1>1, <1>2, <1>3
    <2> QED
      BY <1>1, <1>3, <2>1 DEF AloneInv
  <1> QED
    BY <1>3 DEF AloneInv

\* close and dup: what a step of theirs does to the ends of the process.
LEMMA FdCallIs ==
  ASSUME RingInv, PairInv, NEW p \in Proc,
         \/ UnmapData(p) \/ DupData(p) \/ DupFd(p)
         \/ \E n \in FdNum : Close(p, n) \/ \E to \in FdNum : Dup(p, n, to)
  PROVE  /\ p \in running /\ running' = running /\ env' = env
         /\ \A q \in Proc \ {p} : loc'[q] = loc[q]
         /\ \A q \in Proc \ {p}, m \in FdNum : fd'[q][m] = fd[q][m]
         /\ loc[p].pc \in FdPc \cup Idle /\ loc[p].pc # "fork"
         /\ loc'[p].pc \in FdPc \cup {"user"} /\ loc'[p].pc # "fork"
         /\ \A m \in FdNum : fd'[p][m] \in End => \E k \in FdNum : fd[p][k] = fd'[p][m]
  <1>1. Nothing \notin End
    BY NothingAssumption DEF End
  <1>2. CASE UnmapData(p)
    BY <1>2, UnmapDoes, StartIs DEF FdPc
  <1>3. CASE DupData(p)
    <2>1. loc[p].to \in FdNum
      BY <1>3 DEF PairInv, HandOK, DupData, At
    <2> QED
      BY <1>3, <2>1, DupDataDoes, StartIs DEF FdPc
  <1>4. CASE DupFd(p)
    <2>1. loc[p].to \in FdNum
      BY <1>4 DEF PairInv, HandOK, DupFd, At
    <2>2. /\ p \in running /\ env' = env /\ running' = running
          /\ loc[p].pc = "dup_fd" /\ \A q \in Proc \ {p} : loc'[q] = loc[q]
          /\ loc[p].n \in FdNum
          /\ \/ loc'[p] = Start /\ SetTo(fd, fd', p, loc[p].to, fd[p][loc[p].n])
             \/ fd' = fd /\ loc'[p].pc = "unmap_data"
      BY <1>4, <2>1, DupFdDoes
    <2>3. \A m \in FdNum : fd'[p][m] \in End => \E k \in FdNum : fd[p][k] = fd'[p][m]
      BY <2>1, <2>2 DEF SetTo
    <2>4. \A q \in Proc \ {p}, m \in FdNum : fd'[q][m] = fd[q][m]
      BY <2>2 DEF SetTo
    <2> QED
      BY <2>2, <2>3, <2>4, StartIs DEF FdPc
  <1>5. CASE \E n \in FdNum : Close(p, n)
    <2>1. PICK n \in FdNum : Close(p, n)
      BY <1>5
    <2> QED
      BY <1>1, <2>1, CloseDoes DEF SetTo, FdPc, Idle
  <1>6. CASE \E n, to \in FdNum : Dup(p, n, to)
    <2>1. PICK n \in FdNum, to \in FdNum : Dup(p, n, to)
      BY <1>6
    <2> QED
      BY <1>1, <2>1, DupDoes DEF SetTo, FdPc, Idle
  <1> QED
    BY <1>2, <1>3, <1>4, <1>5, <1>6

LEMMA AloneKeeps ==
  ASSUME RingInv, PairInv, AloneInv, NEW p \in Proc, Common(p) \/ ForkSafely(p)
  PROVE  AloneInv'
  <1>1. CASE \/ UnmapData(p) \/ DupData(p) \/ DupFd(p)
             \/ \E n \in FdNum : Close(p, n) \/ \E to \in FdNum : Dup(p, n, to)
    BY <1>1, FdCallIs, AloneOwn
  <1>2. CASE ForkSafely(p)
    BY <1>2, AloneFork DEF ForkSafely
  <1>3. CASE \/ Resume(p) \/ Tick(p) \/ IdleTick(p) \/ EnvFree(p) \/ QuietCall(p)
             \/ DupPage(p) \/ StartChild(p)
    BY <1>3, AloneTurn, AloneEnvFree, AloneQuiet, AloneDupPage, AloneStartChild
  <1> QED
    BY <1>1, <1>2, <1>3, CommonIs

LEMMA AloneInit == Init => AloneInv
  <1> SUFFICES ASSUME Init PROVE AloneInv
    OBVIOUS
  <1>1. Nothing \notin End
    BY NothingAssumption DEF End
  <1>2. \A p \in Proc, n \in FdNum : fd[p][n] \in End => p = First
    BY <1>1 DEF Init
  <1> QED
    BY <1>2 DEF AloneInv

\* On one CPU nobody else runs.
LEMMA OneCpu ==
  ASSUME RingInv, NCPU = 1, NEW p \in running
  PROVE  running = {p} /\ Cardinality(running) = 1
  <1>1. IsFiniteSet(running) /\ Cardinality(running) <= 1
    BY FiniteAssumption, FS_Subset DEF RingInv, TypeOK
  <1>2. Cardinality(running) \in Nat /\ Cardinality(running) # 0
    BY <1>1, FS_CardinalityType, FS_EmptySet
  <1>3. Cardinality(running) = 1
    BY <1>1, <1>2
  <1>4. PICK x : running = {x}
    BY <1>1, <1>3, FS_Singleton
  <1> QED
    BY <1>3, <1>4

LEMMA QuietTests ==
  ASSUME RingInv, NEW p \in Proc, QuietCall(p)
  PROVE  /\ ~ReadRefFd(p) => loc'[p].pc # "ref_pipe"
         /\ ~ReadRefPipe(p) => loc'[p].pc # "closed"
  <1>1. loc \in [Proc -> Locals] /\ loc[p] \in Locals
    BY DEF RingInv, CallsOK
  <1>2. CASE ReadRefPipe(p)
    <2>1. CASE loc[p].resumed
      <3>1. loc' = [loc EXCEPT ![p] = [loc[p] EXCEPT !.pc = "ref_fd", !.ref = 0, !.resumed = FALSE]]
        BY <1>1, <1>2, <2>1 DEF ReadRefPipe
      <3> QED
        BY <1>1, <1>2, <3>1 DEF Locals
    <2>2. CASE ~loc[p].resumed
      <3>1. loc'[p] = Verdict(p, loc[p].ref = RefPipe)
        BY <1>1, <1>2, <2>2 DEF ReadRefPipe
      <3> QED
        BY <1>1, <1>2, <3>1, StartIs, VerdictIs
    <2> QED
      BY <2>1, <2>2
  <1>3. CASE ReadRefFd(p)
    <2>1. PICK k \in Nat : k = RefFd(fd[p][loc[p].n])
      BY CountType
    <2>2. loc' = [loc EXCEPT ![p] = [loc[p] EXCEPT !.pc = "ref_pipe", !.ref = k]]
      BY <1>1, <1>3, <2>1 DEF ReadRefFd
    <2> QED
      BY <1>1, <1>3, <2>2 DEF Locals
  <1>4. CASE SysYield(p) \/ WriteByte(p)
    BY <1>1, <1>4 DEF SysYield, WriteByte, Locals
  <1>5. CASE ReadTake(p) \/ ReadInc(p)
    BY <1>1, <1>5 DEF ReadTake, ReadInc, Locals
  <1>6. CASE ReadTest(p) \/ WriteTest(p)
    BY <1>1, <1>6, StartIs DEF ReadTest, WriteTest, Locals
  <1>7. CASE \E n \in FdNum : IsClosed(p, n) \/ Read(p, n, CallLen) \/ Write(p, n, CallLen)
    <2>1. PICK n \in FdNum : IsClosed(p, n) \/ Read(p, n, CallLen) \/ Write(p, n, CallLen)
      BY <1>7
    <2>2. CASE IsClosed(p, n)
      BY <1>1, <2>2 DEF IsClosed, Start
    <2>3. CASE Read(p, n, CallLen)
      BY <1>1, <2>3, ZenonT(60) DEF Read, Start
    <2>4. CASE Write(p, n, CallLen)
      BY <1>1, <2>4, ZenonT(60) DEF Write, Start
    <2> QED
      BY <2>1, <2>2, <2>3, <2>4
  <1> QED
    BY <1>2, <1>3, <1>4, <1>5, <1>6, <1>7 DEF QuietCall

\* A step of the running process that does not end in front of the load of
\* the count of the struct Pipe.
LEMMA RefMoved ==
  ASSUME RingInv, NCPU = 1, NEW p \in running, running' \subseteq running, loc'[p].pc # "ref_pipe"
  PROVE  RefInv'
  BY OneCpu DEF RefInv

LEMMA RefKeeps ==
  ASSUME RingInv, PairInv, RefInv, NCPU = 1, NEW p \in Proc, Common(p) \/ ForkSafely(p)
  PROVE  RefInv'
  <1>1. CASE Resume(p)
    <2>1. running = {}
      <3>1. ASSUME NEW q \in running PROVE FALSE
        BY <1>1, OneCpu DEF Resume
      <3> QED
        BY <3>1
    <2>2. running' = {p} /\ loc'[p].pc = loc[p].pc
      BY <1>1, <2>1, TurnIs DEF Resume
    <2>3. loc'[p].resumed = (loc[p].pc \in Window)
      <3>1. loc \in [Proc -> Locals] /\ loc[p] \in Locals
        BY DEF RingInv, CallsOK
      <3> QED
        BY <1>1, <3>1 DEF Resume, Locals
    <2>4. loc[p].pc = "ref_pipe" => loc'[p].resumed
      BY <2>3 DEF Window
    <2> QED
      BY <2>2, <2>4 DEF RefInv
  <1>2. CASE Tick(p) \/ IdleTick(p)
    <2>1. p \in running /\ running' = running \ {p}
      BY <1>2 DEF Tick, IdleTick, Ready
    <2> QED
      BY <2>1, OneCpu DEF RefInv
  <1>3. CASE ReadRefFd(p)
    <2>1. p \in running /\ running' = running /\ fd' = fd /\ loc[p] \in Locals
      BY <1>3, OnCpu DEF ReadRefFd, At, shared, sched
    <2>2. PICK k \in Nat : k = RefFd(fd[p][loc[p].n])
      BY CountType
    <2>3. loc'[p] = [loc[p] EXCEPT !.pc = "ref_pipe", !.ref = k]
      BY <1>3, <2>1, <2>2 DEF ReadRefFd, RingInv, CallsOK
    <2>4. loc'[p].ref = k /\ loc'[p].n = loc[p].n
      BY <2>1, <2>3 DEF Locals
    <2>5. loc'[p].ref = RefFd(fd[p][loc[p].n])' 
      BY <2>1, <2>2, <2>4 DEF RefFd
    <2> QED
      BY <2>1, <2>5, OneCpu DEF RefInv
  <1>4. CASE QuietCall(p) /\ ~ReadRefFd(p)
    BY <1>4, QuietFrame, QuietTests, RefMoved
  <1>5. CASE \/ UnmapData(p) \/ DupData(p) \/ DupFd(p)
             \/ \E n \in FdNum : Close(p, n) \/ \E to \in FdNum : Dup(p, n, to)
    BY <1>5, FdCallIs, RefMoved DEF FdPc
  <1>6. CASE DupPage(p)
    <2>1. loc[p].child \in Proc
      BY <1>6 DEF PairInv, ForkOK, DupPage, At
    <2> QED
      BY <1>6, <2>1, DupPageDoes, RefMoved
  <1>7. CASE StartChild(p)
    <2>1. loc[p].child \in Proc /\ env[loc[p].child] = "NEW"
      BY <1>7 DEF PairInv, ForkOK, StartChild, At
    <2> QED
      BY <1>7, <2>1, StartChildDoes, StartIs, RefMoved
  <1>8. CASE ForkSafely(p)
    <2>1. PICK c \in Proc : Fork(p, c)
      BY <1>8 DEF ForkSafely
    <2> QED
      BY <2>1, ForkDoes, RefMoved
  <1>9. CASE EnvFree(p)
    <2>1. running' = running \ {p} /\ \A q \in Proc \ {p} : loc'[q] = loc[q]
      BY <1>9, EnvFreeDoes
    <2>2. ASSUME NEW q \in running' PROVE loc'[q].pc # "ref_pipe"
      <3>1. q \in running /\ q # p /\ q \in Proc
        BY <2>1, <2>2, OnCpu
      <3>2. running = {q}
        BY <3>1, OneCpu
      <3>3. loc[q].pc \in Idle
        BY <1>9, <3>1, <3>2 DEF EnvFree, Ready
      <3> QED
        BY <2>1, <3>1, <3>3 DEF Idle
    <2> QED
      BY <2>2 DEF RefInv
  <1> QED
    BY <1>1, <1>2, <1>3, <1>4, <1>5, <1>6, <1>7, <1>8, <1>9, CommonIs

\* A verdict once right stays right: live processes get ends of the pipe from
\* live processes only.
LEMMA ClosedStays ==
  ASSUME RingInv, ClosedMeansClosed,
         \A q \in Proc : loc'[q].pc = "closed" =>
             loc[q].pc = "closed" /\ loc'[q].n = loc[q].n /\ loc[q].n \in FdNum
             /\ fd'[q][loc[q].n] \in {fd[q][loc[q].n], Nothing},
         \A q \in Proc, m \in FdNum : env'[q] = "LIVE" /\ fd'[q][m] \in End =>
             \E r \in Proc, k \in FdNum : env[r] = "LIVE" /\ fd[r][k] = fd'[q][m]
  PROVE  ClosedMeansClosed'
  <1>1. ASSUME NEW p \in Proc, loc'[p].pc = "closed", fd'[p][loc'[p].n] \in End,
               NEW q \in Proc, NEW m \in FdNum, env'[q] = "LIVE"
        PROVE  fd'[q][m] # Other(fd'[p][loc'[p].n])
    <2>1. loc[p].pc = "closed" /\ fd[p][loc[p].n] = fd'[p][loc'[p].n]
      BY <1>1, NothingAssumption DEF End
    <2>2. Other(fd'[p][loc'[p].n]) \in End
      BY DEF Other, End
    <2>3. SUFFICES ASSUME fd'[q][m] = Other(fd'[p][loc'[p].n]) PROVE FALSE
      OBVIOUS
    <2>4. PICK r \in Proc, k \in FdNum : env[r] = "LIVE" /\ fd[r][k] = fd'[q][m]
      BY <1>1, <2>2, <2>3
    <2> QED
      BY <1>1, <2>1, <2>3, <2>4 DEF ClosedMeansClosed
  <1> QED
    BY <1>1 DEF ClosedMeansClosed, Other

\* The test itself: with the counts equal, no live process has the other end.
LEMMA VerdictIsRight ==
  ASSUME RingInv, PairInv, AloneInv, NEW p \in Proc, env[p] = "LIVE", NEW n \in FdNum, fd[p][n] \in End,
         loc[p].pc # "fork", RefFd(fd[p][n]) = RefPipe
  PROVE  \A q \in Proc, m \in FdNum : env[q] = "LIVE" => fd[q][m] # Other(fd[p][n])
  <1> DEFINE e == fd[p][n]
             S == {q \in Proc \X FdNum : env[q[1]] = "LIVE" /\ fd[q[1]][q[2]] = Other(e)}
  <1>1. Other(e) \in End /\ Other(e) # e
    BY DEF Other, End
  <1>2. S \subseteq Pipes
    <2>1. ASSUME NEW q \in Proc, NEW m \in FdNum, env[q] = "LIVE", fd[q][m] = Other(e) PROVE data[q][m]
      BY <1>1, <2>1 DEF PairInv, Paired
    <2> QED
      BY <2>1 DEF Pipes
  <1>3. Ends(e) \subseteq Pipes
    <2>1. ASSUME NEW q \in Proc, NEW m \in FdNum, fd[q][m] = e PROVE data[q][m]
      <3>1. env[q] # "NEW"
        BY <2>1 DEF AloneInv
      <3>2. env[q] = "LIVE"
        BY <2>1, <3>1, NothingAssumption DEF PairInv, Paired, RingInv, TypeOK, End
      <3> QED
        BY <2>1, <3>2 DEF PairInv, Paired
    <2> QED
      BY <2>1 DEF Ends, Pipes
  <1>4. S \cap Ends(e) = {}
    BY <1>1 DEF Ends
  <1>5. RefPipe >= RefFd(e) + Cardinality(S)
    <2> HIDE DEF e, S
    <2> QED
      BY <1>2, <1>3, <1>4, CountBoth
  <1>6. IsFiniteSet(S)
    BY <1>2, CountType, FS_Subset DEF Pipes
  <1>7. Cardinality(S) = 0
    BY <1>5, <1>6, CountType, FS_CardinalityType
  <1>8. S = {}
    BY <1>6, <1>7, FS_EmptySet
  <1> QED
    <2>1. ASSUME NEW q \in Proc, NEW m \in FdNum, env[q] = "LIVE", fd[q][m] = Other(e) PROVE FALSE
      <3>1. <<q, m>> \in S
        BY <2>1
      <3> QED
        BY <1>8, <3>1
    <2> QED
      BY <2>1

LEMMA ClosedQuiet ==
  ASSUME RingInv, PairInv, AloneInv, RefInv, ClosedMeansClosed, NEW p \in Proc, QuietCall(p)
  PROVE  ClosedMeansClosed'
  <1>1. p \in running /\ fd' = fd /\ env' = env
    BY QuietFrame
  <1>2. \A q \in Proc \ {p} : loc'[q] = loc[q]
    BY QuietFrame DEF RingInv, CallsOK
  <1>3. CASE loc'[p].pc # "closed"
    <2>1. \A q \in Proc : loc[q].n \in FdNum
      BY DEF RingInv, CallsOK, Locals
    <2> QED
      BY <1>1, <1>2, <1>3, <2>1, ClosedStays
  <1>4. CASE loc'[p].pc = "closed"
    <2>1. ReadRefPipe(p) /\ loc[p].pc = "ref_pipe" /\ loc[p] \in Locals /\ loc \in [Proc -> Locals] /\ env[p] = "LIVE"
      BY <1>1, <1>4, QuietTests, OnCpu DEF ReadRefPipe, At, RingInv, CallsOK
    <2>2. ~loc[p].resumed
      <3>1. SUFFICES ASSUME loc[p].resumed PROVE FALSE
        OBVIOUS
      <3>2. loc' = [loc EXCEPT ![p] = [loc[p] EXCEPT !.pc = "ref_fd", !.ref = 0, !.resumed = FALSE]]
        BY <2>1, <3>1 DEF ReadRefPipe
      <3> QED
        BY <1>4, <2>1, <3>2 DEF Locals
    <2>3. loc'[p] = Verdict(p, loc[p].ref = RefPipe)
      BY <2>1, <2>2 DEF ReadRefPipe
    <2>4. loc[p].ref = RefPipe /\ loc'[p].n = loc[p].n /\ loc[p].n \in FdNum
      <3>1. CASE loc[p].ref = RefPipe
        <4>1. loc'[p] = [Start EXCEPT !.pc = "closed", !.call = loc[p].call, !.n = loc[p].n]
          BY <2>3, <3>1 DEF Verdict
        <4> QED
          BY <2>1, <3>1, <4>1, StartIs DEF Locals
      <3>2. CASE loc[p].ref # RefPipe
        <4>1. loc'[p] = Start \/ loc'[p] = [loc[p] EXCEPT !.pc = "yield", !.ref = 0, !.resumed = FALSE]
          BY <2>3, <3>2 DEF Verdict
        <4>2. loc'[p].pc # "closed"
          BY <2>1, <4>1, StartIs, YieldIs
        <4> QED
          BY <1>4, <4>2
      <3> QED
        BY <3>1, <3>2
    <2>5. RefFd(fd[p][loc[p].n]) = RefPipe
      BY <1>1, <2>1, <2>2, <2>4 DEF RefInv
    <2>6. fd[p][loc[p].n] \in End =>
             \A q \in Proc, m \in FdNum : env[q] = "LIVE" => fd[q][m] # Other(fd[p][loc[p].n])
      BY <2>1, <2>4, <2>5, VerdictIsRight
    <2>7. ASSUME NEW x \in Proc, loc'[x].pc = "closed", fd[x][loc'[x].n] \in End
          PROVE  \A q \in Proc, m \in FdNum : env[q] = "LIVE" => fd[q][m] # Other(fd[x][loc'[x].n])
      <3>1. CASE x = p
        BY <2>4, <2>6, <2>7, <3>1
      <3>2. CASE x # p
        BY <1>2, <2>7, <3>2 DEF ClosedMeansClosed
      <3> QED
        BY <3>1, <3>2
    <2> QED
      BY <1>1, <2>7 DEF ClosedMeansClosed, Other
  <1> QED
    BY <1>3, <1>4

LEMMA ClosedKeeps ==
  ASSUME RingInv, PairInv, AloneInv, RefInv, ClosedMeansClosed, NEW p \in Proc, Common(p) \/ ForkSafely(p)
  PROVE  ClosedMeansClosed'
  <1>1. \A q \in Proc : loc[q].n \in FdNum
    BY DEF RingInv, CallsOK, Locals
  <1>2. CASE Resume(p) \/ Tick(p) \/ IdleTick(p)
    <2>1. \A q \in Proc : loc'[q].pc = loc[q].pc /\ loc'[q].n = loc[q].n
      BY <1>2, TurnIs
    <2>2. fd' = fd /\ env' = env
      BY <1>2, TurnIs
    <2> QED
      BY <1>1, <2>1, <2>2, ClosedStays
  <1>3. CASE \/ UnmapData(p) \/ DupData(p) \/ DupFd(p)
             \/ \E n \in FdNum : Close(p, n) \/ \E to \in FdNum : Dup(p, n, to)
    <2>1. /\ env' = env
          /\ \A q \in Proc \ {p} : loc'[q] = loc[q]
          /\ \A q \in Proc \ {p}, m \in FdNum : fd'[q][m] = fd[q][m]
          /\ loc'[p].pc # "closed"
          /\ \A m \in FdNum : fd'[p][m] \in End => \E k \in FdNum : fd[p][k] = fd'[p][m]
      BY <1>3, FdCallIs DEF FdPc
    <2>2. \A q \in Proc : loc'[q].pc = "closed" =>
             loc[q].pc = "closed" /\ loc'[q].n = loc[q].n /\ loc[q].n \in FdNum
             /\ fd'[q][loc[q].n] \in {fd[q][loc[q].n], Nothing}
      BY <1>1, <2>1
    <2>3. \A q \in Proc, m \in FdNum : env'[q] = "LIVE" /\ fd'[q][m] \in End =>
             \E r \in Proc, k \in FdNum : env[r] = "LIVE" /\ fd[r][k] = fd'[q][m]
      BY <2>1
    <2> QED
      BY <2>2, <2>3, ClosedStays
  <1>4. CASE QuietCall(p)
    BY <1>4, ClosedQuiet
  <1>5. CASE EnvFree(p)
    <2>1. /\ env'[p] = "DEAD" /\ \A q \in Proc \ {p} : env'[q] = env[q]
          /\ \A q \in Proc \ {p} : fd'[q] = fd[q]
          /\ loc'[p].pc # "closed" /\ \A q \in Proc \ {p} : loc'[q] = loc[q]
      BY <1>5, EnvFreeDoes, StartIs
    <2> QED
      BY <1>1, <2>1, ClosedStays
  <1>6. CASE DupPage(p)
    <2>1. PICK c \in Proc : c = loc[p].child
      BY <1>6 DEF PairInv, ForkOK, DupPage, At
    <2>2. env[c] = "NEW" /\ loc[c].pc # "closed"
      BY <1>6, <2>1, StartIs DEF PairInv, ForkOK, DupPage, At, RingInv, CallsOK
    <2>3. /\ env' = env /\ \A q \in Proc \ {p} : loc'[q] = loc[q]
          /\ loc'[p].pc # "closed" /\ (fd' = fd \/ \E n \in FdNum : SetTo(fd, fd', c, n, fd[p][n]))
      BY <1>6, <2>1, DupPageDoes
    <2>4. \A q \in Proc \ {c}, m \in FdNum : fd'[q][m] = fd[q][m]
      BY <2>3 DEF SetTo
    <2> QED
      BY <1>1, <2>2, <2>3, <2>4, ClosedStays
  <1>7. CASE StartChild(p)
    <2>1. PICK c \in Proc : c = loc[p].child
      BY <1>7 DEF PairInv, ForkOK, StartChild, At
    <2>2. env[c] = "NEW" /\ \A n \in FdNum : fd[c][n] \in End => fd[c][n] = fd[p][n]
      BY <1>7, <2>1 DEF PairInv, ForkOK, StartChild, At
    <2>3. /\ p \in running /\ fd' = fd
          /\ \A q \in Proc \ {c} : env'[q] = env[q]
          /\ loc'[p].pc # "closed" /\ \A q \in Proc \ {p} : loc'[q] = loc[q]
      BY <1>7, <2>1, <2>2, StartChildDoes, StartIs
    <2>4. env[p] = "LIVE"
      BY <2>3, OnCpu
    <2> QED
      BY <1>1, <2>2, <2>3, <2>4, ClosedStays
  <1>8. CASE ForkSafely(p)
    <2>1. PICK c \in Proc : Fork(p, c)
      BY <1>8 DEF ForkSafely
    <2>2. /\ fd' = fd /\ env'[c] = "NEW" /\ \A q \in Proc \ {c} : env'[q] = env[q]
          /\ loc'[p].pc # "closed" /\ \A q \in Proc \ {p} : loc'[q] = loc[q]
      BY <2>1, ForkDoes
    <2> QED
      BY <1>1, <2>2, ClosedStays
  <1> QED
    BY <1>2, <1>3, <1>4, <1>5, <1>6, <1>7, <1>8, CommonIs

LEMMA AllStutter ==
  ASSUME RingInv, AloneInv, RefInv, ClosedMeansClosed, UNCHANGED vars
  PROVE  AloneInv' /\ RefInv' /\ ClosedMeansClosed'
  <1>1. fd' = fd /\ env' = env /\ running' = running /\ loc' = loc
    BY DEF vars, shared, sched
  <1> QED
    BY <1>1 DEF AloneInv, RefInv, RefFd, ClosedMeansClosed, Other

\* On one CPU, and when a process forks only while no other shares its ends,
\* the reference counts that _pipeisclosed compares give the right answer:
\* testpiperace2.c's "RACE: pipe appears closed" does not happen.  (With two
\* CPUs it does: MCPipeSmp.cfg.)
THEOREM ClosedIsClosed ==
  ASSUME NCPU = 1
  PROVE  Spec => []ClosedMeansClosed
  <1> DEFINE I == AloneInv /\ RefInv /\ ClosedMeansClosed
  <1>1. Init => I
    <2>1. Init => \A p \in Proc : loc[p].pc = "user"
      BY StartIs DEF Init
    <2>2. Init /\ RingInv => RefInv /\ ClosedMeansClosed
      BY <2>1, OnCpu DEF RefInv, ClosedMeansClosed
    <2> QED
      BY <2>2, AloneInit, RingInit
  <1>2. RingInv /\ PairInv /\ I /\ [Next]_vars => I'
    <2> SUFFICES ASSUME RingInv, PairInv, I, [Next]_vars PROVE I'
      OBVIOUS
    <2>1. CASE Next
      BY <2>1, AloneKeeps, RefKeeps, ClosedKeeps DEF Next
    <2>2. CASE UNCHANGED vars
      BY <2>2, AllStutter
    <2> QED
      BY <2>1, <2>2
  <1> HIDE DEF I
  <1>3. I => ClosedMeansClosed
    BY DEF I
  <1> QED
    BY <1>1, <1>2, <1>3, Invariance, PTL DEF Spec

============================================================================
