--------------------------- MODULE CowForkProofs ---------------------------
(***************************************************************************)
(* Proofs about CowFork for any number of processes, pages and frames, and *)
(* about its refinement of PrivateMemory.                                  *)
(***************************************************************************)
EXTENDS CowFork, TLAPS, WellFoundedInduction

-----------------------------------------------------------------------------
(* The inductive invariant.                                                *)

\* The places in fork and spawn where there is a child.
ForkMaking == {"map_child", "map_self", "xstack", "upcall", "status"}
SpawnMaking == {"sp_stack", "sp_fill", "sp_map", "sp_unmap", "sp_share", "sp_status"}
Making == ForkMaking \cup SpawnMaking

\* Where the loops of fork and spawn are.
PlaceOK(p) ==
    /\ loc[p].pc \in Making => loc[p].va \in UserVA
    /\ loc[p].pc = "map_self" => loc[p].va \notin SharedVA
    /\ loc[p].pc = "sp_stack" => loc[p].va = Stack
    /\ loc[p].pc = "sp_fill" => loc[p].va \in Segment
    /\ loc[p].pc \in {"sp_map", "sp_unmap"} => loc[p].va \in Segment \cup {Stack}

\* A process makes one child at a time, which nobody else makes and which
\* has not run yet.
MakerOK(p) ==
    /\ env[p] # "LIVE" => loc[p] = User
    /\ loc[p].pc \in Making <=> loc[p].child # NoProc
    /\ loc[p].child # NoProc => env[loc[p].child] = "NEW"
    /\ PlaceOK(p)
    /\ \A q \in Proc : loc[p].child = loc[q].child /\ loc[p].child # NoProc => p = q
MakerInv == \A p \in Proc : MakerOK(p)

\* The pages of the child that fork or spawn has mapped so far.
Given(p, x) ==
    LET va == loc[p].va
    IN  \/ loc[p].pc = "map_child" /\ x < va
        \/ loc[p].pc = "map_self" /\ x <= va
        \/ loc[p].pc \in {"sp_fill", "sp_map"} /\ va # Stack /\ (x = Stack \/ (x \in Segment /\ x < va))
        \/ loc[p].pc = "sp_unmap" /\ (x = Stack \/ (va # Stack /\ x \in Segment /\ x <= va))
        \/ loc[p].pc = "sp_share" /\ (x \notin SharedVA \/ x < va)
        \/ loc[p].pc \in {"xstack", "upcall", "status", "sp_status"}

\* What a page table entry can be, by its address.
BitsAt(va) ==
    IF va \in SharedVA THEN {{"W", "SHARE"}}
    ELSE IF va \in UserVA THEN {{"W"}, {"COW"}} ELSE {{"W"}}

BitsOK == \A p \in Proc, va \in VA : Mapped(p, va) => pt[p][va].bits \in BitsAt(va)

\* A process has its memory as long as it runs.
LifeOK ==
    \A p \in Proc :
        /\ env[p] \in {"NONE", "DEAD"} => \A va \in VA : ~Mapped(p, va)
        /\ env[p] = "LIVE" => \A va \in UserVA : Mapped(p, va)

GivenOK ==
    \A p \in Proc : loc[p].pc \in Making =>
        \A va \in UserVA : Mapped(loc[p].child, va) <=> Given(p, va)

SharedSame ==
    \A p, q \in Proc : \A va \in SharedVA :
        Mapped(p, va) /\ Mapped(q, va) => pt[p][va].frame = pt[q][va].frame

PageInv == BitsOK /\ LifeOK /\ GivenOK /\ SharedSame

\* The reasons why a page that p may write at va is mapped at wa of q too.
Excused(p, va, q, wa) ==
    \/ va = wa /\ va \in SharedVA
    \/ p = q /\ loc[p].fault = "unmap" /\ {va, wa} = {PFTEMP, loc[p].fva}
    \/ va = UTEMP /\ loc[p].pc = "sp_unmap" /\ q = loc[p].child /\ wa = loc[p].va
    \/ wa = UTEMP /\ loc[q].pc = "sp_unmap" /\ p = loc[q].child /\ va = loc[q].va
    \/ va = wa /\ loc[p].pc = "map_self" /\ q = loc[p].child /\ va = loc[p].va /\ "W" \notin pt[q][wa].bits

Exclusive ==
    \A p, q \in Proc : \A va, wa \in VA :
        "W" \in pt[p][va].bits /\ pt[q][wa].frame = pt[p][va].frame =>
            (p = q /\ va = wa) \/ Excused(p, va, q, wa)

\* Who has the handler has the exception stack, and fork sets both for
\* itself before there are copy-on-write pages, and for the child before it
\* runs; a spawned child has no such pages.
HandlerOK(p) ==
    /\ env[p] = "NONE" => ~upcall[p]
    /\ env[p] = "LIVE" /\ upcall[p] => Mapped(p, UXSTACK)
    /\ loc[p].pc \in {"exofork"} \cup ForkMaking => upcall[p]
    /\ loc[p].pc \in {"upcall", "status"} => Mapped(loc[p].child, UXSTACK)
    /\ loc[p].pc = "status" => upcall[loc[p].child]
    /\ loc[p].pc \in SpawnMaking =>
           ~upcall[loc[p].child] /\ \A va \in VA : "COW" \notin pt[loc[p].child][va].bits
    /\ env[p] = "LIVE" => \A va \in VA : "COW" \in pt[p][va].bits => upcall[p]
HandlerInv == \A p \in Proc : HandlerOK(p)

\* The page that the fault handler replaces keeps what it had, until the
\* write that faulted.
FaultOK(p) ==
    LET fva == loc[p].fva
    IN  /\ loc[p].fault \in {"copy", "map", "unmap"} => Mapped(p, PFTEMP)
        /\ loc[p].fault \in {"alloc", "copy", "map"} => "W" \notin pt[p][fva].bits
        /\ loc[p].fault \in {"unmap", "again"} => "W" \in pt[p][fva].bits
        /\ loc[p].fault = "unmap" => pt[p][PFTEMP].frame = pt[p][fva].frame
        /\ loc[p].fault = "map" => mem[pt[p][PFTEMP].frame] = mem[pt[p][fva].frame]
        /\ loc[p].fault # "none" => fva \notin SharedVA /\ loc[p].fval # mem[pt[p][fva].frame]
FaultInv == \A p \in Proc : FaultOK(p)

\* What spawn has prepared at UTEMP is the page of the image.
PreparedInv ==
    \A p \in Proc : loc[p].pc = "sp_map" =>
        /\ Mapped(p, UTEMP)
        /\ mem[pt[p][UTEMP].frame] = IF loc[p].va = Stack THEN ArgValue ELSE FileValue[loc[p].va]

Inv ==
    /\ TypeOK /\ MakerInv /\ PageInv /\ Exclusive
    /\ HandlerInv /\ FaultInv /\ PreparedInv

-----------------------------------------------------------------------------
(* Facts about the constants and the helpers.                              *)

\* Where the pages lie.
LEMMA Layout ==
  /\ UserVA \subseteq VA /\ UserVA \subseteq Nat /\ {UTEMP, PFTEMP, UXSTACK} \subseteq VA
  /\ VA = {UTEMP, PFTEMP, UXSTACK} \cup UserVA
  /\ UTEMP \notin UserVA /\ PFTEMP \notin UserVA /\ UXSTACK \notin UserVA
  /\ UTEMP # PFTEMP /\ UTEMP # UXSTACK /\ PFTEMP # UXSTACK
  /\ UTEXT \in UserVA /\ Stack \in UserVA /\ Stack \notin SharedVA /\ Stack \notin Segment
  /\ SharedVA \subseteq UserVA /\ Segment \subseteq UserVA
  /\ \A va \in UserVA : va \in Segment \/ va \in SharedVA \/ va = Stack
  /\ \A va \in Segment : va \notin SharedVA
  /\ \A va \in UserVA : UTEXT <= va /\ va <= Stack /\ (va # Stack => va + 1 \in UserVA)
  BY LayoutAssumption, SharedAssumption, SegmentAssumption, SMT
  DEF VA, UserVA, UTEMP, PFTEMP, UXSTACK, UTEXT, Stack

\* A set of addresses that is not empty has a least one, which Min chooses.
LEMMA LeastIn ==
  ASSUME NEW S \in SUBSET Nat, S # {}
  PROVE  Min(S) \in S /\ \A x \in S : Min(S) <= x
  <1>1. \E x \in S : \A y \in S : ~ (<<y, x>> \in OpToRel(<, Nat))
    BY NatLessThanWellFounded, WFMin
  <1>2. PICK x \in S : \A y \in S : ~ (<<y, x>> \in OpToRel(<, Nat))
    BY <1>1
  <1>3. ASSUME NEW y \in S PROVE x <= y
    <2>1. ~ (y < x)
      <3>1. <<y, x>> \in Nat \X Nat /\ <<y, x>>[1] = y /\ <<y, x>>[2] = x
        OBVIOUS
      <3> QED
        BY <1>2, <3>1 DEF OpToRel
    <2> QED
      BY <2>1
  <1> QED
    BY <1>3 DEF Min

LocFields ==
    [pc : {"user"} \cup ForkPc \cup SpawnPc, va : VA, child : Proc \cup {NoProc}, fva : UserVA,
     fval : Value, fault : {"none", "alloc", "copy", "map", "unmap", "again"}]

LEMMA LocTyped == TypeOK => loc \in [Proc -> LocFields]
  BY DEF TypeOK, LocFields

LEMMA UserTyped == User \in LocFields
  BY Layout, ValueAssumption DEF User, LocFields

\* A page that alloc returns is mapped nowhere.
LEMMA NewFrameFree ==
  ASSUME Free # {}
  PROVE  NewFrame \in Frame /\ \A p \in Proc, va \in VA : pt[p][va].frame # NewFrame
  BY DEF Free, NewFrame

LEMMA PteTyped ==
  /\ NoPte \notin Pte /\ NoPte.frame = NoFrame /\ NoPte.bits = {}
  /\ \A f \in Frame : [frame |-> f, bits |-> {"W"}] \in Pte
  /\ TypeOK => \A p \in Proc, va \in VA :
        /\ Mapped(p, va) <=> pt[p][va] \in Pte
        /\ Mapped(p, va) <=> pt[p][va].frame \in Frame
        /\ ~Mapped(p, va) => pt[p][va].bits = {} /\ pt[p][va].frame = NoFrame
        /\ pt[p][va] \in Pte \cup {NoPte}
  <1>1. NoPte \notin Pte /\ NoPte.frame = NoFrame /\ NoPte.bits = {} /\ \A e \in Pte : e.frame \in Frame
    BY FrameAssumption DEF NoPte, Pte
  <1>2. \A f \in Frame : [frame |-> f, bits |-> {"W"}] \in Pte
    BY DEF Pte, Bit
  <1>3. ASSUME TypeOK, NEW p \in Proc, NEW va \in VA PROVE pt[p][va] \in Pte \cup {NoPte}
    BY <1>3 DEF TypeOK
  <1> QED
    BY <1>1, <1>2, <1>3, FrameAssumption DEF Mapped

-----------------------------------------------------------------------------
(* Every step keeps the invariant.                                         *)

\* What a write to a page does, apart from setting it.
StoreFault(p, va, v) ==
    /\ upcall[p] /\ "W" \in pt[p][UXSTACK].bits
    /\ "W" \notin pt[p][va].bits /\ v # mem[pt[p][va].frame]
    /\ loc' = [loc EXCEPT ![p].fault = "alloc", ![p].fva = va, ![p].fval = v]
    /\ UNCHANGED <<env, pt, mem, upcall, panic>>

StoreDone(p, va, v) ==
    /\ "W" \in pt[p][va].bits /\ v # mem[pt[p][va].frame]
    /\ mem' = [mem EXCEPT ![pt[p][va].frame] = v]
    /\ UNCHANGED <<env, pt, upcall, loc, panic>>

\* A process that exits, or is destroyed.
Dies(p) ==
    /\ env[p] = "LIVE"
    /\ env' = [env EXCEPT ![p] = "DEAD"]
    /\ pt' = [pt EXCEPT ![p] = [va \in VA |-> NoPte]]
    /\ upcall' = [upcall EXCEPT ![p] = FALSE]
    /\ loc' = [loc EXCEPT ![p] = User]
    /\ UNCHANGED <<mem, panic>>

Writes(p, va, v) ==
    /\ env[p] = "LIVE" /\ loc[p].fault = "none"
    /\ StoreFault(p, va, v) \/ StoreDone(p, va, v)

\* The steps of one process, without those that only set panic.
StepCases(p) ==
    \/ \E va \in UserVA, v \in Value : Writes(p, va, v)
    \/ Dies(p)
    \/ Panic
    \/ Free # {} /\ (FaultAlloc(p) \/ SetHandler(p) \/ AllocXstack(p) \/ SpawnFill(p))
    \/ Free = {} /\ SpawnFill(p)
    \/ FaultCopy(p) \/ FaultMap(p) \/ FaultUnmap(p) \/ WriteAgain(p)
    \/ Fork(p) \/ DupChild(p) \/ DupSelf(p) \/ SetUpcall(p) \/ StartChild(p)
    \/ Spawn(p) \/ SpawnStack(p) \/ SpawnMap(p) \/ SpawnUnmap(p) \/ SpawnShare(p)
    \/ \E c \in Proc : Exofork(p, c) \/ SpawnExofork(p, c)

LEMMA Cases ==
  ASSUME Next
  PROVE  \E p \in Proc : StepCases(p)
  <1>1. ASSUME NEW p \in Proc, NEW va \in UserVA, NEW v \in Value, Store(p, va, v),
               env[p] = "LIVE", loc[p].fault = "none"
        PROVE  Writes(p, va, v) \/ Dies(p)
    BY <1>1 DEF Store, Writes, StoreFault, StoreDone, Dies
  <1>2. ASSUME NEW p \in Proc, NEW v \in Value, PushStack(p, v) \/ \E va \in UserVA : Write(p, va, v)
        PROVE  StepCases(p)
    BY <1>1, <1>2, Layout DEF PushStack, Write, At, StepCases
  <1>3. ASSUME NEW p \in Proc, Exit(p) PROVE StepCases(p)
    BY <1>3 DEF Exit, Dies, StepCases
  <1>4. ASSUME NEW p \in Proc, Fault(p) PROVE StepCases(p)
    BY <1>4 DEF Fault, FaultAlloc, StepCases
  <1>5. ASSUME NEW p \in Proc, ForkStep(p) PROVE StepCases(p)
    BY <1>5 DEF ForkStep, SetHandler, AllocXstack, StepCases
  <1>6. ASSUME NEW p \in Proc, SpawnStep(p) PROVE StepCases(p)
    BY <1>6 DEF SpawnStep, StepCases
  <1> QED
    BY <1>2, <1>3, <1>4, <1>5, <1>6 DEF Next

\* One entry of a page table is set.
LEMMA Slot ==
  ASSUME TypeOK, NEW q \in Proc, NEW va \in VA, NEW pte \in Pte \cup {NoPte},
         pt' = [pt EXCEPT ![q][va] = pte]
  PROVE  /\ pt'[q][va] = pte
         /\ \A r \in Proc, wa \in VA : r # q \/ wa # va => pt'[r][wa] = pt[r][wa]
         /\ pt' \in [Proc -> [VA -> Pte \cup {NoPte}]]
  BY DEF TypeOK

\* What p knows of its child while it makes it.
LEMMA Child ==
  ASSUME Inv, NEW p \in Proc, loc[p].pc \in Making
  PROVE  /\ env[p] = "LIVE" /\ loc[p].child \in Proc \ {p} /\ env[loc[p].child] = "NEW"
         /\ loc[p].va \in UserVA /\ loc[loc[p].child] = User
         /\ loc[p].pc # "map_self" \/ loc[p].va \notin SharedVA
  <1>1. User.pc \notin Making
    BY DEF User, Making, ForkMaking, SpawnMaking
  <1>2. loc[p].child \in Proc \cup {NoProc}
    BY LocTyped DEF Inv, LocFields
  <1> QED
    BY <1>1, <1>2 DEF Inv, MakerInv, MakerOK, PlaceOK

\* duppage: a copy-on-write or writable page becomes copy-on-write in the
\* child first, a shared one is mapped as it is.
LEMMA DupChildCases ==
  ASSUME Inv, NEW p \in Proc, DupChild(p)
  PROVE  LET va == loc[p].va
             c == loc[p].child
         IN  \/ /\ va \notin SharedVA
                /\ pt' = [pt EXCEPT ![c][va] = [frame |-> pt[p][va].frame, bits |-> {"COW"}]]
                /\ loc' = [loc EXCEPT ![p].pc = "map_self"]
             \/ /\ va \in SharedVA
                /\ pt' = [pt EXCEPT ![c][va] = pt[p][va]]
                /\ loc' = [loc EXCEPT ![p] = NextPage(p)]
  <1> DEFINE va == loc[p].va
             pte == pt[p][va]
  <1>1. loc[p].pc \in Making /\ env[p] = "LIVE"
    BY DEF DupChild, At, Making, ForkMaking
  <1>2. va \in UserVA /\ va \in VA
    BY <1>1, Child, Layout
  <1>3. Mapped(p, va) /\ pte.bits \in BitsAt(va) /\ pte \in Pte
    BY <1>1, <1>2, PteTyped DEF Inv, PageInv, BitsOK, LifeOK
  <1>4. pte = [frame |-> pte.frame, bits |-> pte.bits]
    BY <1>3 DEF Pte
  <1>5. CASE va \in SharedVA
    <2>1. ~IsCow(pte.bits)
      BY <1>3, <1>5, SMTT(30) DEF BitsAt, IsCow
    <2> QED
      BY <1>3, <1>5, <2>1 DEF DupChild
  <1>6. CASE va \notin SharedVA
    <2>1. IsCow(pte.bits) /\ CowBits(pte.bits) = {"COW"}
      BY <1>2, <1>3, <1>6 DEF BitsAt, IsCow, CowBits, Avail
    <2>2. [pte EXCEPT !.bits = CowBits(@)] = [frame |-> pte.frame, bits |-> {"COW"}]
      BY <1>4, <2>1
    <2> QED
      BY <1>3, <1>6, <2>1, <2>2 DEF DupChild
  <1> QED
    BY <1>5, <1>6

LEMMA DupSelfCases ==
  ASSUME Inv, NEW p \in Proc, DupSelf(p)
  PROVE  LET va == loc[p].va
         IN  /\ va \in UserVA /\ Mapped(p, va)
             /\ pt' = [pt EXCEPT ![p][va] = [frame |-> pt[p][va].frame, bits |-> {"COW"}]]
  <1> DEFINE va == loc[p].va
             pte == pt[p][va]
  <1>1. loc[p].pc \in Making /\ env[p] = "LIVE" /\ loc[p].pc = "map_self"
    BY DEF DupSelf, At, Making, ForkMaking
  <1>2. va \in UserVA /\ va \in VA /\ va \notin SharedVA
    BY <1>1, Child, Layout
  <1>3. Mapped(p, va) /\ pte.bits \in BitsAt(va) /\ pte \in Pte
    BY <1>1, <1>2, PteTyped DEF Inv, PageInv, BitsOK, LifeOK
  <1>4. pte = [frame |-> pte.frame, bits |-> pte.bits]
    BY <1>3 DEF Pte
  <1>5. CowBits(pte.bits) = {"COW"}
    BY <1>2, <1>3 DEF BitsAt, CowBits, Avail
  <1>6. [pte EXCEPT !.bits = CowBits(@)] = [frame |-> pte.frame, bits |-> {"COW"}]
    BY <1>4, <1>5
  <1>7. pt \in [Proc -> [VA -> Pte \cup {NoPte}]]
    BY DEF Inv, TypeOK
  <1>8. pt' = [pt EXCEPT ![p][va] = [pte EXCEPT !.bits = CowBits(@)]]
    BY <1>2, <1>7 DEF DupSelf
  <1> QED
    BY <1>2, <1>3, <1>6, <1>8

LEMMA SpawnShareCases ==
  ASSUME Inv, NEW p \in Proc, SpawnShare(p)
  PROVE  LET va == loc[p].va
         IN  \/ va \in SharedVA /\ Mapped(p, va) /\ pt' = [pt EXCEPT ![loc[p].child][va] = pt[p][va]]
             \/ va \notin SharedVA /\ pt' = pt
  <1> DEFINE va == loc[p].va
  <1>1. loc[p].pc \in Making /\ env[p] = "LIVE"
    BY DEF SpawnShare, At, Making, SpawnMaking
  <1>2. va \in UserVA /\ va \in VA
    BY <1>1, Child, Layout
  <1>3. Mapped(p, va) /\ pt[p][va].bits \in BitsAt(va)
    BY <1>1, <1>2 DEF Inv, PageInv, BitsOK, LifeOK
  <1>4. "SHARE" \in pt[p][va].bits <=> va \in SharedVA
    BY <1>2, <1>3 DEF BitsAt
  <1> QED
    BY <1>3, <1>4 DEF SpawnShare

\* The pages that the fault handler works on are there.
LEMMA FaultPages ==
  ASSUME Inv, NEW p \in Proc, loc[p].fault # "none"
  PROVE  /\ env[p] = "LIVE" /\ loc[p].fva \in UserVA /\ loc[p].fva \in VA
         /\ Mapped(p, loc[p].fva) /\ pt[p][loc[p].fva].frame \in Frame
         /\ loc[p].fault \in {"copy", "map", "unmap"} =>
                /\ Mapped(p, PFTEMP) /\ pt[p][PFTEMP].frame \in Frame
                /\ pt[p][PFTEMP].bits = {"W"}
  <1>1. env[p] = "LIVE"
    BY DEF Inv, MakerInv, MakerOK, User
  <1>2. loc[p].fva \in UserVA /\ loc[p].fva \in VA
    BY LocTyped, Layout DEF Inv, LocFields
  <1>3. Mapped(p, loc[p].fva)
    BY <1>1, <1>2 DEF Inv, PageInv, BitsOK, LifeOK
  <1>4. loc[p].fault \in {"copy", "map", "unmap"} => Mapped(p, PFTEMP)
    BY DEF Inv, FaultInv, FaultOK
  <1>5. Mapped(p, PFTEMP) => pt[p][PFTEMP].bits = {"W"}
    BY Layout DEF Inv, PageInv, BitsOK, BitsAt
  <1> QED
    BY <1>1, <1>2, <1>3, <1>4, <1>5, PteTyped, Layout DEF Inv

\* The page tables and the contents of frames keep their types when a frame
\* that is free is mapped and set.
LEMMA AllocTyped ==
  ASSUME Inv, Free # {}, NEW q \in Proc, NEW va \in VA, NEW v \in Value,
         pt' = [pt EXCEPT ![q][va] = [frame |-> NewFrame, bits |-> {"W"}]],
         mem' = [mem EXCEPT ![NewFrame] = v]
  PROVE  /\ pt' \in [Proc -> [VA -> Pte \cup {NoPte}]]
         /\ mem' \in [Frame -> Value]
         /\ mem'[NewFrame] = v
         /\ \A f \in Frame : f # NewFrame => mem'[f] = mem[f]
         /\ [frame |-> NewFrame, bits |-> {"W"}] \in Pte
  <1>1. NewFrame \in Frame /\ [frame |-> NewFrame, bits |-> {"W"}] \in Pte
    BY NewFrameFree, PteTyped
  <1>2. pt' \in [Proc -> [VA -> Pte \cup {NoPte}]]
    BY <1>1, Slot DEF Inv
  <1> QED
    BY <1>1, <1>2 DEF Inv, TypeOK

\* The locals of a process after each kind of step.
LEMMA NextPageTyped ==
  ASSUME Inv, NEW p \in Proc, loc[p].pc \in Making
  PROVE  NextPage(p) \in LocFields
  <1>1. loc[p] \in LocFields /\ loc[p].va \in UserVA /\ (loc[p].va # Stack => loc[p].va + 1 \in VA)
    BY LocTyped, Child, Layout, ZenonT(60) DEF Inv
  <1> QED
    BY <1>1, Layout, ZenonT(60) DEF NextPage, LocFields, ForkPc

LEMMA NextTypeOK ==
  ASSUME Inv, [Next]_vars
  PROVE  TypeOK'
  <1> DEFINE Env == [Proc -> {"NONE", "NEW", "LIVE", "DEAD"}]
             Tables == [Proc -> [VA -> Pte \cup {NoPte}]]
             Typed == /\ env' \in Env /\ pt' \in Tables /\ mem' \in [Frame -> Value]
                      /\ upcall' \in [Proc -> BOOLEAN] /\ loc' \in [Proc -> LocFields]
                      /\ panic' \in BOOLEAN
  <1>1. /\ env \in Env /\ pt \in Tables /\ mem \in [Frame -> Value]
        /\ upcall \in [Proc -> BOOLEAN] /\ loc \in [Proc -> LocFields] /\ panic \in BOOLEAN
    BY LocTyped DEF Inv, TypeOK
  <1>2. ArgValue \in Value /\ Zero \in Value /\ FileValue \in [Segment -> Value]
    BY ValueAssumption
  <1> HIDE DEF Env, Tables
  <1>4. ASSUME NEW p \in Proc, StepCases(p) PROVE Typed
    <2>1. ASSUME NEW va \in UserVA, NEW v \in Value, Writes(p, va, v) PROVE Typed
      <3>1. Mapped(p, va) /\ pt[p][va].frame \in Frame /\ va \in VA
        BY <2>1, Layout, PteTyped DEF Writes, Inv, PageInv, BitsOK, LifeOK
      <3> QED
        BY <1>1, <2>1, <3>1 DEF Writes, StoreFault, StoreDone, LocFields
    <2>2. CASE Dies(p)
      BY <1>1, <2>2, UserTyped DEF Dies, Env, Tables
    <2>3. CASE Panic
      BY <1>1, <2>3 DEF Panic
    <2>4. CASE Free # {} /\ FaultAlloc(p)
      <3>1. pt' \in Tables /\ mem' \in [Frame -> Value]
        BY <1>2, <2>4, AllocTyped, Layout DEF FaultAlloc, PageAlloc, Tables
      <3> QED
        BY <1>1, <2>4, <3>1 DEF FaultAlloc, LocFields
    <2>5. CASE Free # {} /\ SetHandler(p)
      <3>1. pt' \in Tables /\ mem' \in [Frame -> Value]
        BY <1>2, <2>5, AllocTyped, Layout DEF SetHandler, PageAlloc, Tables
      <3>2. upcall' \in [Proc -> BOOLEAN]
        BY <1>1, <2>5 DEF SetHandler
      <3>3. loc' \in [Proc -> LocFields]
        BY <1>1, <2>5 DEF SetHandler, LocFields, ForkPc
      <3>4. UNCHANGED <<env, panic>>
        BY <2>5 DEF SetHandler
      <3> QED
        BY <1>1, <3>1, <3>2, <3>3, <3>4
    <2>6. CASE Free # {} /\ AllocXstack(p)
      <3>1. loc[p].child \in Proc
        BY <2>6, Child DEF AllocXstack, At, Making, ForkMaking
      <3>2. pt' \in Tables /\ mem' \in [Frame -> Value]
        BY <1>2, <2>6, <3>1, AllocTyped, Layout DEF AllocXstack, PageAlloc, Tables
      <3> QED
        BY <1>1, <2>6, <3>2 DEF AllocXstack, LocFields, ForkPc
    <2>7. CASE Free # {} /\ SpawnFill(p) /\ ~ \E u \in Pte \cup {NoPte} : SpawnFail(p, u)
      <3>1. loc[p].va \in Segment /\ FileValue[loc[p].va] \in Value
        BY <1>2, <2>7 DEF SpawnFill, At, Inv, MakerInv, MakerOK, PlaceOK
      <3>2. [frame |-> NewFrame, bits |-> {"W"}] \in Pte
        BY <2>7, PteTyped, NewFrameFree
      <3>3. ~ SpawnFail(p, [frame |-> NewFrame, bits |-> {"W"}])
        BY <2>7, <3>2
      <3>4. pt' \in Tables /\ mem' \in [Frame -> Value]
        BY <2>7, <3>1, <3>3, AllocTyped, Layout DEF SpawnFill, Tables
      <3> QED
        BY <1>1, <2>7, <3>3, <3>4 DEF SpawnFill, LocFields, SpawnPc
    <2>8. CASE SpawnFill(p) /\ \E u \in Pte \cup {NoPte} : SpawnFail(p, u)
      <3>1. PICK u \in Pte \cup {NoPte} : SpawnFail(p, u)
        BY <2>8
      <3>2. loc[p].child \in Proc
        BY <2>8, Child DEF SpawnFill, At, Making, SpawnMaking
      <3>3. env' \in Env
        BY <1>1, <3>1, <3>2 DEF SpawnFail, Env
      <3>4. pt' \in Tables
        BY <1>1, <3>1, <3>2, Layout DEF SpawnFail, Tables
      <3>5. loc' \in [Proc -> LocFields] /\ UNCHANGED <<upcall, panic>>
        BY <1>1, <3>1, UserTyped DEF SpawnFail
      <3>6. mem' \in [Frame -> Value]
        <4>1. loc[p].va \in Segment /\ FileValue[loc[p].va] \in Value
          BY <1>2, <2>8 DEF SpawnFill, At, Inv, MakerInv, MakerOK, PlaceOK
        <4> QED
          BY <1>1, <1>2, <2>8, <4>1, NewFrameFree DEF SpawnFill
      <3> QED
        BY <1>1, <3>3, <3>4, <3>5, <3>6
    <2>9. CASE FaultCopy(p)
      <3>1. pt[p][PFTEMP].frame \in Frame /\ pt[p][loc[p].fva].frame \in Frame
        BY <2>9, FaultPages DEF FaultCopy, AtFault
      <3> QED
        BY <1>1, <2>9, <3>1 DEF FaultCopy, LocFields
    <2>10. CASE FaultMap(p)
      <3>1. pt[p][PFTEMP].frame \in Frame /\ loc[p].fva \in VA
        BY <2>10, FaultPages DEF FaultMap, AtFault
      <3>2. [frame |-> pt[p][PFTEMP].frame, bits |-> {"W"}] \in Pte
        BY <3>1, PteTyped
      <3>3. pt' \in Tables
        BY <2>10, <3>1, <3>2, Slot DEF FaultMap, Tables, Inv
      <3> QED
        BY <1>1, <2>10, <3>3 DEF FaultMap, LocFields
    <2>11. CASE FaultUnmap(p)
      <3>1. pt' \in Tables
        BY <2>11, Slot, Layout DEF FaultUnmap, Tables, Inv
      <3> QED
        BY <1>1, <2>11, <3>1 DEF FaultUnmap, LocFields
    <2>12. CASE WriteAgain(p)
      <3>1. pt[p][loc[p].fva].frame \in Frame /\ loc[p].fval \in Value
        BY <1>1, <2>12, FaultPages DEF WriteAgain, AtFault, LocFields
      <3>2. Stack \in UserVA
        BY Layout
      <3>3. loc' \in [Proc -> LocFields]
        <4>1. [loc[p] EXCEPT !.fault = "none", !.fva = Stack, !.fval = Zero] \in LocFields
          BY <1>1, <1>2, <3>2 DEF LocFields
        <4>2. loc' = [loc EXCEPT ![p] = [loc[p] EXCEPT !.fault = "none", !.fva = Stack, !.fval = Zero]]
          BY <1>1, <2>12 DEF WriteAgain
        <4> QED
          BY <1>1, <4>1, <4>2
      <3> QED
        BY <1>1, <2>12, <3>1, <3>3 DEF WriteAgain
    <2>13. CASE Fork(p) \/ Spawn(p)
      BY <1>1, <2>13 DEF Fork, Spawn, LocFields, ForkPc, SpawnPc
    <2>14. ASSUME NEW c \in Proc, Exofork(p, c) \/ SpawnExofork(p, c) PROVE Typed
      BY <1>1, <2>14, Layout DEF Exofork, SpawnExofork, LocFields, ForkPc, SpawnPc, Env
    <2>15. CASE DupChild(p)
      <3>1. loc[p].pc \in Making
        BY <2>15 DEF DupChild, At, Making, ForkMaking
      <3>2. /\ loc[p].va \in VA /\ loc[p].child \in Proc /\ pt[p][loc[p].va] \in Pte \cup {NoPte}
            /\ pt[p][loc[p].va].frame \in Frame
        <4>1. env[p] = "LIVE" /\ loc[p].va \in UserVA /\ loc[p].va \in VA /\ loc[p].child \in Proc
          BY <3>1, Child, Layout
        <4>2. Mapped(p, loc[p].va)
          BY <4>1 DEF Inv, PageInv, BitsOK, LifeOK
        <4> QED
          BY <4>1, <4>2, PteTyped DEF Inv
      <3>3. [frame |-> pt[p][loc[p].va].frame, bits |-> {"COW"}] \in Pte
        BY <3>2 DEF Pte, Bit
      <3>4. pt' \in Tables
        <4>1. CASE pt' = [pt EXCEPT ![loc[p].child][loc[p].va] = [frame |-> pt[p][loc[p].va].frame, bits |-> {"COW"}]]
          BY <3>2, <3>3, <4>1, Slot DEF Tables, Inv
        <4>2. CASE pt' = [pt EXCEPT ![loc[p].child][loc[p].va] = pt[p][loc[p].va]]
          BY <3>2, <4>2, Slot DEF Tables, Inv
        <4> QED
          BY <2>15, <4>1, <4>2, DupChildCases, SMTT(30)
      <3>5. loc' \in [Proc -> LocFields]
        <4>1. [loc[p] EXCEPT !.pc = "map_self"] \in LocFields
          BY <1>1 DEF LocFields, ForkPc
        <4> QED
          BY <1>1, <2>15, <3>1, <4>1, DupChildCases, NextPageTyped
      <3> QED
        BY <1>1, <2>15, <3>4, <3>5 DEF DupChild
    <2>16. CASE DupSelf(p)
      <3>1. loc[p].pc \in Making
        BY <2>16 DEF DupSelf, At, Making, ForkMaking
      <3>2. loc[p].va \in VA /\ pt[p][loc[p].va].frame \in Frame
        BY <2>16, DupSelfCases, Layout, PteTyped DEF Inv
      <3>3. [frame |-> pt[p][loc[p].va].frame, bits |-> {"COW"}] \in Pte
        BY <3>2 DEF Pte, Bit
      <3>4. pt' \in Tables
        BY <2>16, <3>2, <3>3, DupSelfCases, Slot DEF Tables, Inv
      <3>5. loc' \in [Proc -> LocFields]
        BY <1>1, <2>16, <3>1, NextPageTyped DEF DupSelf
      <3> QED
        BY <1>1, <2>16, <3>4, <3>5 DEF DupSelf
    <2>17. CASE SetUpcall(p)
      <3>1. loc[p].child \in Proc
        BY <2>17, Child DEF SetUpcall, At, Making, ForkMaking
      <3> QED
        BY <1>1, <2>17, <3>1 DEF SetUpcall, LocFields, ForkPc
    <2>18. CASE StartChild(p)
      <3>1. loc[p].child \in Proc
        BY <2>18, Child DEF StartChild, At, Making, ForkMaking, SpawnMaking
      <3> QED
        BY <1>1, <2>18, <3>1, UserTyped DEF StartChild, Env
    <2>19. CASE SpawnStack(p)
      <3>1. CASE Free = {}
        BY <1>1, <2>19, <3>1, UserTyped DEF SpawnStack
      <3>2. CASE Free # {}
        <4>1. pt' \in Tables /\ mem' \in [Frame -> Value]
          BY <1>2, <2>19, <3>2, AllocTyped, Layout DEF SpawnStack, Tables
        <4> QED
          BY <1>1, <2>19, <3>2, <4>1 DEF SpawnStack, LocFields, SpawnPc
      <3> QED
        BY <3>1, <3>2
    <2>20. CASE SpawnMap(p)
      <3>1. loc[p].va \in VA /\ loc[p].child \in Proc /\ pt[p][UTEMP] \in Pte \cup {NoPte}
        BY <2>20, Child, Layout, PteTyped DEF SpawnMap, At, Making, SpawnMaking, Inv
      <3>2. pt' \in Tables
        BY <2>20, <3>1, Slot DEF SpawnMap, Tables, Inv
      <3> QED
        BY <1>1, <2>20, <3>2 DEF SpawnMap, LocFields, SpawnPc
    <2>21. CASE SpawnUnmap(p)
      <3>1. pt' \in Tables
        BY <2>21, Slot, Layout DEF SpawnUnmap, Tables, Inv
      <3>2. Rest(loc[p].va) # {} => Min(Rest(loc[p].va)) \in VA
        <4>1. Rest(loc[p].va) \in SUBSET Segment /\ Segment \in SUBSET Nat /\ Segment \in SUBSET VA
          BY Layout DEF Rest
        <4> QED
          BY <4>1, LeastIn
      <3>3. [loc[p] EXCEPT !.pc = "sp_share", !.va = UTEXT] \in LocFields
        <4>1. UTEXT \in VA
          BY Layout
        <4> QED
          BY <1>1, <4>1 DEF LocFields, SpawnPc
      <3>4. Rest(loc[p].va) # {} => [loc[p] EXCEPT !.pc = "sp_fill", !.va = Min(Rest(loc[p].va))] \in LocFields
        BY <1>1, <3>2 DEF LocFields, SpawnPc
      <3>5. \E l \in LocFields : loc' = [loc EXCEPT ![p] = l]
        <4>1. loc' = [loc EXCEPT ![p] =
                 IF Rest(loc[p].va) # {} THEN [loc[p] EXCEPT !.pc = "sp_fill", !.va = Min(Rest(loc[p].va))]
                 ELSE [loc[p] EXCEPT !.pc = "sp_share", !.va = UTEXT]]
          BY <2>21 DEF SpawnUnmap
        <4> QED
          BY <3>3, <3>4, <4>1
      <3>6. loc' \in [Proc -> LocFields]
        BY <1>1, <3>5
      <3> QED
        BY <1>1, <2>21, <3>1, <3>6 DEF SpawnUnmap
    <2>22. CASE SpawnShare(p)
      <3>1. /\ loc[p].va \in UserVA /\ loc[p].va \in VA /\ loc[p].child \in Proc
            /\ pt[p][loc[p].va] \in Pte \cup {NoPte}
        BY <2>22, Child, Layout, PteTyped DEF SpawnShare, At, Making, SpawnMaking, Inv
      <3>2. pt' \in Tables
        BY <1>1, <2>22, <3>1, SpawnShareCases, Slot DEF Tables, Inv
      <3>3. loc[p].va # Stack => loc[p].va + 1 \in VA
        BY <3>1, Layout
      <3>4. loc' \in [Proc -> LocFields]
        BY <1>1, <2>22, <3>1, <3>3 DEF SpawnShare, LocFields, SpawnPc
      <3> QED
        BY <1>1, <2>22, <3>2, <3>4 DEF SpawnShare
    <2>23. Free = {} /\ SpawnFill(p) => \E u \in Pte \cup {NoPte} : SpawnFail(p, u)
      BY PteTyped, Layout DEF SpawnFill, Inv
    <2> QED
      BY <1>4, <2>1, <2>2, <2>3, <2>4, <2>5, <2>6, <2>7, <2>8, <2>9, <2>10, <2>11, <2>12, <2>13, <2>14,
         <2>15, <2>16, <2>17, <2>18, <2>19, <2>20, <2>21, <2>22, <2>23
      DEF StepCases
  <1>5. ASSUME UNCHANGED vars PROVE Typed
    BY <1>1, <1>5 DEF vars
  <1>6. Typed => TypeOK'
    BY DEF TypeOK, LocFields, Env, Tables
  <1> QED
    BY <1>4, <1>5, <1>6, Cases

\* A step that neither begins nor ends the making of a child.
LEMMA MakerKept ==
  ASSUME Inv, NEW p \in Proc, env[p] = "LIVE", UNCHANGED env,
         \A q \in Proc \ {p} : loc'[q] = loc[q],
         loc'[p].child = loc[p].child, loc'[p].pc \in Making <=> loc[p].pc \in Making,
         PlaceOK(p)'
  PROVE  MakerInv'
  BY DEF Inv, MakerInv, MakerOK, PlaceOK

\* A step that ends it, or ends the maker.
LEMMA MakerGone ==
  ASSUME Inv, NEW p \in Proc, loc' = [loc EXCEPT ![p] = User],
         \A q \in Proc \ {p} : env'[q] # "LIVE" => loc[q] = User,
         \A q \in Proc : env[q] = "NEW" => env'[q] = "NEW" \/ q = loc[p].child
  PROVE  MakerInv'
  <1>1. loc'[p] = User /\ \A q \in Proc \ {p} : loc'[q] = loc[q]
    BY LocTyped DEF Inv
  <1>2. User.child = NoProc /\ User.pc = "user"
    BY DEF User
  <1>3. \A q \in Proc : loc[q].child # NoProc => loc[q].child \in Proc
    BY LocTyped DEF Inv, LocFields
  <1>4. MakerOK(p)'
    BY <1>1, <1>2 DEF MakerOK, PlaceOK, Making, ForkMaking, SpawnMaking
  <1>5. ASSUME NEW q \in Proc \ {p} PROVE MakerOK(q)'
    <2>1. loc[q].child # NoProc => loc[q].child # loc[p].child /\ env[loc[q].child] = "NEW"
      BY DEF Inv, MakerInv, MakerOK
    <2>2. loc[q].child # NoProc => env'[loc[q].child] = "NEW"
      BY <1>3, <2>1
    <2>3. PlaceOK(q)'
      BY <1>1 DEF Inv, MakerInv, MakerOK, PlaceOK
    <2> QED
      BY <1>1, <1>2, <2>2, <2>3 DEF Inv, MakerInv, MakerOK
  <1> QED
    BY <1>4, <1>5 DEF MakerInv

\* The loop of fork goes on to the next page, or is done.
LEMMA NextPageCases ==
  ASSUME Inv, NEW p \in Proc, loc[p].pc \in Making
  PROVE  /\ NextPage(p).child = loc[p].child
         /\ NextPage(p).fault = loc[p].fault /\ NextPage(p).fva = loc[p].fva
         /\ NextPage(p).fval = loc[p].fval
         /\ \/ loc[p].va = Stack /\ NextPage(p).pc = "xstack" /\ NextPage(p).va = UTEXT
            \/ loc[p].va # Stack /\ NextPage(p).pc = "map_child" /\ NextPage(p).va = loc[p].va + 1
         /\ NextPage(p).va \in UserVA
  <1>1. loc[p] \in LocFields /\ loc[p].va \in UserVA
    BY LocTyped, Child DEF Inv
  <1>2. UTEXT \in UserVA /\ (loc[p].va # Stack => loc[p].va + 1 \in UserVA)
    BY <1>1, Layout
  <1>3. CASE loc[p].va = Stack
    BY <1>1, <1>2, <1>3 DEF NextPage, LocFields
  <1>4. CASE loc[p].va # Stack
    <2>1. NextPage(p) = [loc[p] EXCEPT !.pc = "map_child", !.va = loc[p].va + 1]
      BY <1>1, <1>4 DEF NextPage, LocFields
    <2> QED
      BY <1>1, <1>2, <1>4, <2>1 DEF LocFields
  <1> QED
    BY <1>3, <1>4

LEMMA OnlyActor ==
  ASSUME Inv, NEW p \in Proc, StepCases(p)
  PROVE  \A q \in Proc \ {p} : loc'[q] = loc[q]
  <1> USE LocTyped DEF Inv
  <1>1. CASE \E va \in UserVA, v \in Value : Writes(p, va, v)
    BY <1>1 DEF Writes, StoreFault, StoreDone
  <1>2. CASE Dies(p) \/ Panic
    BY <1>2 DEF Dies, Panic
  <1>3. CASE Free # {} /\ (FaultAlloc(p) \/ SetHandler(p) \/ AllocXstack(p))
    BY <1>3 DEF FaultAlloc, SetHandler, AllocXstack
  <1>4. CASE SpawnFill(p)
    BY <1>4 DEF SpawnFill, SpawnFail
  <1>5. CASE FaultCopy(p) \/ FaultMap(p) \/ FaultUnmap(p) \/ WriteAgain(p)
    BY <1>5 DEF FaultCopy, FaultMap, FaultUnmap, WriteAgain
  <1>6. CASE Fork(p) \/ DupChild(p) \/ DupSelf(p) \/ SetUpcall(p) \/ StartChild(p)
    BY <1>6 DEF Fork, DupChild, DupSelf, SetUpcall, StartChild
  <1>7. CASE Spawn(p) \/ SpawnStack(p) \/ SpawnMap(p) \/ SpawnUnmap(p) \/ SpawnShare(p)
    BY <1>7 DEF Spawn, SpawnStack, SpawnMap, SpawnUnmap, SpawnShare
  <1>8. CASE \E c \in Proc : Exofork(p, c) \/ SpawnExofork(p, c)
    BY <1>8 DEF Exofork, SpawnExofork
  <1> QED
    BY <1>1, <1>2, <1>3, <1>4, <1>5, <1>6, <1>7, <1>8 DEF StepCases

LEMMA NextMakerInv ==
  ASSUME Inv, NEW p \in Proc, StepCases(p)
  PROVE  MakerInv'
  <1> USE DEF Inv
  <1>1. \A q \in Proc \ {p} : loc'[q] = loc[q]
    BY OnlyActor
  <1>2. loc[p] \in LocFields /\ loc \in [Proc -> LocFields]
    BY LocTyped
  <1>3. PlaceOK(p)
    BY DEF MakerInv, MakerOK
  <1>4. ASSUME UNCHANGED env, env[p] = "LIVE", loc'[p].pc = loc[p].pc, loc'[p].va = loc[p].va,
               loc'[p].child = loc[p].child
        PROVE  MakerInv'
    <2>1. PlaceOK(p)'
      BY <1>3, <1>4 DEF PlaceOK
    <2> QED
      BY <1>1, <1>4, <2>1, MakerKept
  <1>5. ASSUME NEW va \in UserVA, NEW v \in Value, Writes(p, va, v) PROVE MakerInv'
    <2>1. UNCHANGED env /\ env[p] = "LIVE" /\ loc'[p].pc = loc[p].pc /\ loc'[p].va = loc[p].va
          /\ loc'[p].child = loc[p].child
      BY <1>2, <1>5 DEF Writes, StoreFault, StoreDone, LocFields
    <2> QED
      BY <1>4, <2>1
  <1>6. CASE Dies(p)
    <2>1. \A q \in Proc \ {p} : env'[q] = env[q]
      BY <1>6 DEF Dies, TypeOK
    <2>2. loc' = [loc EXCEPT ![p] = User] /\ env[p] = "LIVE"
      BY <1>6 DEF Dies
    <2>3. \A q \in Proc \ {p} : env'[q] # "LIVE" => loc[q] = User
      BY <2>1 DEF MakerInv, MakerOK
    <2>4. \A q \in Proc : env[q] = "NEW" => env'[q] = "NEW"
      BY <2>1, <2>2
    <2> QED
      BY <2>2, <2>3, <2>4, MakerGone
  <1>7. CASE Panic
    BY <1>7 DEF Panic, MakerInv, MakerOK, PlaceOK
  <1>8. CASE (Free # {} /\ FaultAlloc(p)) \/ FaultCopy(p) \/ FaultMap(p) \/ FaultUnmap(p) \/ WriteAgain(p)
    <2>1. UNCHANGED env /\ env[p] = "LIVE"
      BY <1>8 DEF FaultAlloc, FaultCopy, FaultMap, FaultUnmap, WriteAgain, AtFault
    <2>2. loc'[p].pc = loc[p].pc /\ loc'[p].va = loc[p].va /\ loc'[p].child = loc[p].child
      BY <1>2, <1>8 DEF FaultAlloc, FaultCopy, FaultMap, FaultUnmap, WriteAgain, LocFields
    <2> QED
      BY <1>4, <2>1, <2>2, SMTT(30)
  <1>9. CASE Fork(p) \/ Spawn(p) \/ (Free # {} /\ SetHandler(p))
    <2>1. UNCHANGED env /\ env[p] = "LIVE" /\ loc[p].pc \in {"user", "handler"}
      BY <1>9 DEF Fork, Spawn, SetHandler, At
    <2>2. loc'[p].pc \in {"exofork", "handler", "sp_exofork"} /\ loc'[p].child = loc[p].child
      BY <1>2, <1>9 DEF Fork, Spawn, SetHandler, LocFields
    <2>3. PlaceOK(p)'
      BY <2>2 DEF PlaceOK, Making, ForkMaking, SpawnMaking
    <2> QED
      BY <1>1, <2>1, <2>2, <2>3, MakerKept DEF Making, ForkMaking, SpawnMaking
  <1>10. ASSUME NEW c \in Proc, Exofork(p, c) \/ SpawnExofork(p, c) PROVE MakerInv'
    <2>1. env[c] = "NONE" /\ env' = [env EXCEPT ![c] = "NEW"] /\ env[p] = "LIVE"
      BY <1>10 DEF Exofork, SpawnExofork, At
    <2>2. env'[c] = "NEW" /\ \A q \in Proc \ {c} : env'[q] = env[q]
      BY <2>1 DEF TypeOK
    <2>3. /\ loc'[p].child = c
          /\ \/ loc'[p].pc = "map_child" /\ loc'[p].va = UTEXT
             \/ loc'[p].pc = "sp_stack" /\ loc'[p].va = Stack
      BY <1>2, <1>10 DEF Exofork, SpawnExofork, LocFields
    <2>4. PlaceOK(p)'
      BY <2>3, Layout DEF PlaceOK
    <2>5. \A q \in Proc : loc[q].child # c
      BY <2>1, FirstAssumption DEF MakerInv, MakerOK
    <2>6. MakerOK(p)'
      BY <1>1, <2>1, <2>2, <2>3, <2>4, <2>5, FirstAssumption
      DEF MakerOK, Making, ForkMaking, SpawnMaking
    <2>7. ASSUME NEW q \in Proc \ {p} PROVE MakerOK(q)'
      <3>1. loc'[q] = loc[q] /\ (loc[q].child # NoProc => loc[q].child \in Proc \ {c})
        BY <1>1, <2>5, LocTyped DEF LocFields
      <3>2. loc[q].child # NoProc => env'[loc[q].child] = "NEW"
        BY <2>2, <3>1 DEF MakerInv, MakerOK
      <3>3. env'[q] # "LIVE" => loc[q] = User
        BY <2>1, <2>2 DEF MakerInv, MakerOK
      <3>4. PlaceOK(q)'
        BY <3>1 DEF MakerInv, MakerOK, PlaceOK
      <3> QED
        BY <1>1, <2>3, <2>5, <3>1, <3>2, <3>3, <3>4 DEF MakerInv, MakerOK
    <2> QED
      BY <2>6, <2>7 DEF MakerInv
  <1>11. ASSUME env[p] = "LIVE", UNCHANGED env, loc[p].pc \in Making, loc'[p].pc \in Making,
                loc'[p].child = loc[p].child, PlaceOK(p)'
         PROVE  MakerInv'
    BY <1>1, <1>11, MakerKept
  <1>12. CASE DupChild(p) \/ DupSelf(p)
    <2>1. loc[p].pc \in Making /\ env[p] = "LIVE" /\ UNCHANGED env
      BY <1>12 DEF DupChild, DupSelf, At, Making, ForkMaking
    <2>2. CASE loc' = [loc EXCEPT ![p] = NextPage(p)]
      <3>1. loc'[p] = NextPage(p)
        BY <1>2, <2>2
      <3>2. PlaceOK(p)'
        BY <2>1, <3>1, NextPageCases DEF PlaceOK
      <3> QED
        BY <1>11, <2>1, <3>1, <3>2, NextPageCases DEF Making, ForkMaking
    <2>3. CASE loc' = [loc EXCEPT ![p].pc = "map_self"] /\ loc[p].va \notin SharedVA
      <3>1. loc'[p].pc = "map_self" /\ loc'[p].va = loc[p].va /\ loc'[p].child = loc[p].child
        BY <1>2, <2>3 DEF LocFields
      <3>2. PlaceOK(p)'
        BY <1>3, <2>1, <2>3, <3>1 DEF PlaceOK
      <3> QED
        BY <1>11, <2>1, <3>1, <3>2 DEF Making, ForkMaking
    <2> QED
      BY <1>12, <2>2, <2>3, DupChildCases DEF DupSelf
  <1>13. CASE (Free # {} /\ AllocXstack(p)) \/ SetUpcall(p)
    <2>1. loc[p].pc \in Making /\ env[p] = "LIVE" /\ UNCHANGED env
      BY <1>13 DEF AllocXstack, SetUpcall, At, Making, ForkMaking
    <2>2. loc'[p].pc \in {"upcall", "status"} /\ loc'[p].va = loc[p].va /\ loc'[p].child = loc[p].child
      BY <1>2, <1>13 DEF AllocXstack, SetUpcall, LocFields
    <2>3. PlaceOK(p)'
      BY <1>3, <2>1, <2>2 DEF PlaceOK
    <2> QED
      BY <1>11, <2>1, <2>2, <2>3 DEF Making, ForkMaking
  <1>14. CASE StartChild(p)
    <2>1. loc[p].pc \in Making
      BY <1>14 DEF StartChild, At, Making, ForkMaking, SpawnMaking
    <2>2. loc' = [loc EXCEPT ![p] = User] /\ env' = [env EXCEPT ![loc[p].child] = "LIVE"]
      BY <1>14 DEF StartChild
    <2>3. \A q \in Proc \ {loc[p].child} : env'[q] = env[q]
      BY <2>2 DEF TypeOK
    <2>4. \A q \in Proc \ {p} : env'[q] # "LIVE" => loc[q] = User
      BY <2>1, <2>3, Child DEF MakerInv, MakerOK
    <2>5. \A q \in Proc : env[q] = "NEW" => env'[q] = "NEW" \/ q = loc[p].child
      BY <2>3
    <2> QED
      BY <2>2, <2>4, <2>5, MakerGone
  <1>15. ASSUME NEW u \in Pte \cup {NoPte}, SpawnFail(p, u), loc[p].pc \in Making PROVE MakerInv'
    <2>1. loc' = [loc EXCEPT ![p] = User] /\ env' = [env EXCEPT ![loc[p].child] = "DEAD"]
      BY <1>15 DEF SpawnFail
    <2>2. \A q \in Proc \ {loc[p].child} : env'[q] = env[q]
      BY <2>1 DEF TypeOK
    <2>3. \A q \in Proc \ {p} : env'[q] # "LIVE" => loc[q] = User
      BY <1>15, <2>2, Child DEF MakerInv, MakerOK
    <2>4. \A q \in Proc : env[q] = "NEW" => env'[q] = "NEW" \/ q = loc[p].child
      BY <2>2
    <2> QED
      BY <2>1, <2>3, <2>4, MakerGone
  <1>16. CASE SpawnFill(p) \/ SpawnStack(p)
    <2>1. loc[p].pc \in {"sp_stack", "sp_fill"} /\ loc[p].pc \in Making /\ env[p] = "LIVE"
      BY <1>16 DEF SpawnFill, SpawnStack, At, Making, SpawnMaking
    <2>2. CASE loc' = [loc EXCEPT ![p].pc = "sp_map"] /\ UNCHANGED env
      <3>1. loc'[p].pc = "sp_map" /\ loc'[p].va = loc[p].va /\ loc'[p].child = loc[p].child
        BY <1>2, <2>2 DEF LocFields
      <3>2. PlaceOK(p)'
        BY <1>3, <2>1, <3>1 DEF PlaceOK
      <3> QED
        BY <1>11, <2>1, <2>2, <3>1, <3>2 DEF Making, SpawnMaking
    <2>3. CASE loc' = [loc EXCEPT ![p] = User] /\ UNCHANGED env
      BY <2>1, <2>3, MakerGone DEF MakerInv, MakerOK
    <2>4. \A f \in Frame : [frame |-> f, bits |-> {"W"}] \in Pte
      BY PteTyped
    <2>5. pt[p][UTEMP] \in Pte \cup {NoPte} /\ (Free # {} => NewFrame \in Frame)
      BY PteTyped, Layout, NewFrameFree
    <2> QED
      BY <1>15, <1>16, <2>1, <2>2, <2>3, <2>4, <2>5 DEF SpawnFill, SpawnStack
  <1>17. CASE SpawnMap(p)
    <2>1. loc[p].pc = "sp_map" /\ loc[p].pc \in Making /\ env[p] = "LIVE" /\ UNCHANGED env
      BY <1>17 DEF SpawnMap, At, Making, SpawnMaking
    <2>2. loc'[p].pc = "sp_unmap" /\ loc'[p].va = loc[p].va /\ loc'[p].child = loc[p].child
      BY <1>2, <1>17 DEF SpawnMap, LocFields
    <2>3. PlaceOK(p)'
      BY <1>3, <2>1, <2>2 DEF PlaceOK
    <2> QED
      BY <1>11, <2>1, <2>2, <2>3 DEF Making, SpawnMaking
  <1>18. CASE SpawnUnmap(p)
    <2>1. loc[p].pc = "sp_unmap" /\ loc[p].pc \in Making /\ env[p] = "LIVE" /\ UNCHANGED env
      BY <1>18 DEF SpawnUnmap, At, Making, SpawnMaking
    <2>2. /\ loc'[p].child = loc[p].child
          /\ \/ loc'[p].pc = "sp_share" /\ loc'[p].va = UTEXT
             \/ loc'[p].pc = "sp_fill" /\ loc'[p].va = Min(Rest(loc[p].va)) /\ Rest(loc[p].va) # {}
      BY <1>2, <1>18 DEF SpawnUnmap, LocFields
    <2>3. Rest(loc[p].va) # {} => Min(Rest(loc[p].va)) \in Segment
      <3>1. Rest(loc[p].va) \in SUBSET Segment /\ Segment \in SUBSET Nat
        BY Layout DEF Rest
      <3> QED
        BY <3>1, LeastIn
    <2>4. UTEXT \in UserVA /\ Segment \subseteq UserVA
      BY Layout
    <2>5. PlaceOK(p)'
      BY <2>2, <2>3, <2>4 DEF PlaceOK
    <2> QED
      BY <1>11, <2>1, <2>2, <2>5 DEF Making, SpawnMaking
  <1>19. CASE SpawnShare(p)
    <2>1. loc[p].pc = "sp_share" /\ loc[p].pc \in Making /\ env[p] = "LIVE" /\ UNCHANGED env
      BY <1>19 DEF SpawnShare, At, Making, SpawnMaking
    <2>2. /\ loc'[p].child = loc[p].child
          /\ \/ loc'[p].pc = "sp_status" /\ loc'[p].va = loc[p].va
             \/ loc'[p].pc = "sp_share" /\ loc'[p].va = loc[p].va + 1 /\ loc[p].va # Stack
      BY <1>2, <1>19, <2>1 DEF SpawnShare, LocFields
    <2>3. loc[p].va \in UserVA /\ (loc[p].va # Stack => loc[p].va + 1 \in UserVA)
      BY <2>1, Child, Layout
    <2>4. PlaceOK(p)'
      BY <2>2, <2>3 DEF PlaceOK
    <2> QED
      BY <1>11, <2>1, <2>2, <2>4 DEF Making, SpawnMaking
  <1> QED
    BY <1>5, <1>6, <1>7, <1>8, <1>9, <1>10, <1>12, <1>13, <1>14, <1>16, <1>17, <1>18, <1>19
    DEF StepCases

\* What setting one entry does to the pages in general.
LEMMA SlotPages ==
  ASSUME Inv, NEW q \in Proc, NEW va \in VA, NEW pte \in Pte \cup {NoPte},
         pt' = [pt EXCEPT ![q][va] = pte],
         pte # NoPte => pte.bits \in BitsAt(va),
         pte # NoPte /\ va \in SharedVA => \E r \in Proc : Mapped(r, va) /\ pt[r][va].frame = pte.frame
  PROVE  BitsOK' /\ SharedSame'
  <1> TypeOK
    BY DEF Inv
  <1>1. pt'[q][va] = pte /\ \A r \in Proc, wa \in VA : r # q \/ wa # va => pt'[r][wa] = pt[r][wa]
    BY DEF TypeOK
  <1>2. BitsOK'
    BY <1>1 DEF Inv, PageInv, BitsOK, Mapped
  <1>3. SharedVA \subseteq VA
    BY Layout
  <1>4. SharedSame'
    BY <1>1, <1>3 DEF Inv, PageInv, SharedSame, Mapped
  <1> QED
    BY <1>2, <1>4

\* No page comes.
LEMMA FewerPages ==
  ASSUME Inv, \A q \in Proc, va \in VA : pt'[q][va] = pt[q][va] \/ pt'[q][va] = NoPte
  PROVE  BitsOK' /\ SharedSame'
  <1>1. SharedVA \subseteq VA
    BY Layout
  <1> QED
    BY <1>1 DEF Inv, PageInv, BitsOK, SharedSame, Mapped

\* Other makers, and their children, are not concerned.
LEMMA GivenKept ==
  ASSUME Inv, NEW p \in Proc, env[p] = "LIVE",
         \A q \in Proc \ {p} : loc'[q] = loc[q],
         \A q \in Proc, va \in UserVA : q # p /\ q # loc[p].child => pt'[q][va] = pt[q][va],
         loc'[p].pc \in Making =>
             /\ loc'[p].child = loc[p].child
             /\ \A va \in UserVA : pt'[loc[p].child][va] # NoPte <=> Given(p, va)'
  PROVE  GivenOK'
  <1>1. ASSUME NEW q \in Proc \ {p}, loc'[q].pc \in Making, NEW va \in UserVA
        PROVE  pt'[loc'[q].child][va] # NoPte <=> Given(q, va)'
    <2>1. loc'[q] = loc[q] /\ loc[q].child \in Proc \ {p} /\ loc[q].child # loc[p].child
      BY <1>1, Child DEF Inv, MakerInv, MakerOK
    <2>2. pt'[loc[q].child][va] = pt[loc[q].child][va]
      BY <2>1
    <2>3. pt[loc[q].child][va] # NoPte <=> Given(q, va)
      BY <1>1, <2>1 DEF Inv, PageInv, GivenOK, Mapped
    <2> QED
      BY <2>1, <2>2, <2>3 DEF Given
  <1> QED
    BY <1>1 DEF GivenOK, Mapped

\* A step that is none of fork or spawn, or does not get them further.
LEMMA GivenSame ==
  ASSUME Inv, NEW p \in Proc, env[p] = "LIVE",
         \A q \in Proc \ {p} : loc'[q] = loc[q],
         \A q \in Proc, va \in UserVA : q # p => pt'[q][va] = pt[q][va],
         loc'[p].pc = loc[p].pc, loc'[p].va = loc[p].va, loc'[p].child = loc[p].child
  PROVE  GivenOK'
  <1>1. ASSUME loc[p].pc \in Making, NEW va \in UserVA
        PROVE  pt'[loc[p].child][va] # NoPte <=> Given(p, va)'
    <2>1. pt'[loc[p].child][va] = pt[loc[p].child][va]
      BY <1>1, Child
    <2>2. pt[loc[p].child][va] # NoPte <=> Given(p, va)
      BY <1>1 DEF Inv, PageInv, GivenOK, Mapped
    <2> QED
      BY <2>1, <2>2 DEF Given
  <1> QED
    BY <1>1, GivenKept

\* A process that has no child makes none.
LEMMA GivenNone ==
  ASSUME Inv, NEW p \in Proc, env[p] = "LIVE",
         \A q \in Proc \ {p} : loc'[q] = loc[q],
         \A q \in Proc, va \in UserVA : q # p /\ q # loc[p].child => pt'[q][va] = pt[q][va],
         loc'[p].pc \notin Making
  PROVE  GivenOK'
  BY GivenKept

\* Where fork and spawn are with the pages of a child after a step.
LEMMA GivenNext ==
  ASSUME Inv, NEW p \in Proc, loc[p].pc \in Making,
         \A q \in Proc \ {p} : loc'[q] = loc[q],
         \A q \in Proc, va \in UserVA : q # p /\ q # loc[p].child => pt'[q][va] = pt[q][va],
         loc'[p].child = loc[p].child,
         NEW x, x = loc[p].va, pt'[loc[p].child][x] # NoPte <=> Given(p, x)',
         \A va \in UserVA : va # x =>
             /\ pt'[loc[p].child][va] = pt[loc[p].child][va]
             /\ Given(p, va)' <=> Given(p, va)
  PROVE  GivenOK'
  <1>1. env[p] = "LIVE" /\ loc[p].va \in UserVA
    BY Child
  <1>2. ASSUME NEW va \in UserVA PROVE pt'[loc[p].child][va] # NoPte <=> Given(p, va)'
    <2>1. pt[loc[p].child][va] # NoPte <=> Given(p, va)
      BY DEF Inv, PageInv, GivenOK, Mapped
    <2>2. CASE va = x
      BY <2>2
    <2>3. CASE va # x
      <3>1. pt'[loc[p].child][va] = pt[loc[p].child][va] /\ (Given(p, va)' <=> Given(p, va))
        BY <2>3
      <3> QED
        BY <2>1, <3>1
    <2> QED
      BY <2>2, <2>3
  <1> QED
    BY <1>1, <1>2, GivenKept

\* What a step does to the life of processes: no one that runs loses a page.
LEMMA LifeKept ==
  ASSUME Inv, UNCHANGED env, NEW q \in Proc, NEW va \in VA, NEW pte \in Pte \cup {NoPte},
         pt' = [pt EXCEPT ![q][va] = pte], env[q] \in {"LIVE", "NEW"},
         pte = NoPte => va \notin UserVA
  PROVE  LifeOK'
  <1> TypeOK
    BY DEF Inv
  <1>1. pt'[q][va] = pte /\ \A r \in Proc, wa \in VA : r # q \/ wa # va => pt'[r][wa] = pt[r][wa]
    BY DEF TypeOK
  <1>2. UserVA \subseteq VA
    BY Layout
  <1> QED
    BY <1>1, <1>2 DEF Inv, PageInv, LifeOK, Mapped

\* All at once, for an entry outside the memory that fork copies.
LEMMA UtilityPages ==
  ASSUME Inv, UNCHANGED env, NEW q \in Proc, NEW va \in VA \ UserVA, NEW pte \in Pte \cup {NoPte},
         pt' = [pt EXCEPT ![q][va] = pte], env[q] \in {"LIVE", "NEW"},
         pte # NoPte => pte.bits = {"W"}
  PROVE  /\ BitsOK' /\ SharedSame' /\ LifeOK'
         /\ \A r \in Proc, wa \in UserVA : pt'[r][wa] = pt[r][wa]
  <1> TypeOK
    BY DEF Inv
  <1>1. pt'[q][va] = pte /\ \A r \in Proc, wa \in VA : r # q \/ wa # va => pt'[r][wa] = pt[r][wa]
    BY DEF TypeOK
  <1>2. va \notin SharedVA /\ UserVA \subseteq VA
    BY Layout
  <1>3. BitsOK' /\ SharedSame'
    BY <1>2, SlotPages DEF BitsAt
  <1>4. LifeOK'
    BY LifeKept
  <1> QED
    BY <1>1, <1>2, <1>3, <1>4

LEMMA NextPageInv ==
  ASSUME Inv, NEW p \in Proc, StepCases(p)
  PROVE  PageInv'
  <1> USE DEF Inv
  <1>1. \A q \in Proc \ {p} : loc'[q] = loc[q]
    BY OnlyActor
  <1>2. loc[p] \in LocFields /\ loc \in [Proc -> LocFields]
    BY LocTyped
  <1>3. UserVA \subseteq VA /\ UserVA \subseteq Nat /\ SharedVA \subseteq UserVA
    BY Layout
  <1>4. ASSUME UNCHANGED pt PROVE BitsOK' /\ SharedSame'
    BY <1>4, FewerPages
  <1>5. ASSUME UNCHANGED <<env, pt>> PROVE LifeOK'
    BY <1>5 DEF PageInv, LifeOK, Mapped
  <1>6. ASSUME UNCHANGED <<env, pt>>, env[p] = "LIVE", loc'[p].pc = loc[p].pc, loc'[p].va = loc[p].va,
               loc'[p].child = loc[p].child
        PROVE  PageInv'
    BY <1>1, <1>4, <1>5, <1>6, GivenSame DEF PageInv
  <1>7. ASSUME NEW va \in UserVA, NEW v \in Value, Writes(p, va, v) PROVE PageInv'
    <2>1. /\ UNCHANGED <<env, pt>> /\ env[p] = "LIVE" /\ loc'[p].pc = loc[p].pc
          /\ loc'[p].va = loc[p].va /\ loc'[p].child = loc[p].child
      BY <1>2, <1>7 DEF Writes, StoreFault, StoreDone, LocFields
    <2> QED
      BY <1>6, <2>1
  <1>8. CASE FaultCopy(p) \/ WriteAgain(p)
    <2>1. /\ UNCHANGED <<env, pt>> /\ env[p] = "LIVE" /\ loc'[p].pc = loc[p].pc
          /\ loc'[p].va = loc[p].va /\ loc'[p].child = loc[p].child
      BY <1>2, <1>8 DEF FaultCopy, WriteAgain, AtFault, LocFields
    <2> QED
      BY <1>6, <2>1
  <1>9. CASE Panic
    BY <1>9 DEF Panic, PageInv, BitsOK, LifeOK, GivenOK, SharedSame, Mapped, Given
  <1>10. CASE Dies(p)
    <2>1. env[p] = "LIVE" /\ env'[p] = "DEAD" /\ \A q \in Proc \ {p} : env'[q] = env[q] /\ pt'[q] = pt[q]
      BY <1>10 DEF Dies, TypeOK
    <2>2. \A va \in VA : pt'[p][va] = NoPte
      BY <1>10 DEF Dies, TypeOK
    <2>3. BitsOK' /\ SharedSame'
      BY <2>1, <2>2, FewerPages
    <2>4. LifeOK'
      BY <2>1, <2>2 DEF PageInv, LifeOK, Mapped
    <2>5. loc'[p].pc \notin Making
      BY <1>2, <1>10 DEF Dies, User, Making, ForkMaking, SpawnMaking
    <2>6. GivenOK'
      BY <1>1, <2>1, <2>5, GivenNone
    <2> QED
      BY <2>3, <2>4, <2>6 DEF PageInv
  <1>11. CASE Fork(p) \/ Spawn(p)
    <2>1. UNCHANGED <<env, pt>> /\ env[p] = "LIVE"
      BY <1>11 DEF Fork, Spawn, At
    <2>2. loc'[p].pc \notin Making
      <3>1. loc'[p].pc \in {"exofork", "handler", "sp_exofork"}
        BY <1>2, <1>11 DEF Fork, Spawn, LocFields
      <3> QED
        BY <3>1 DEF Making, ForkMaking, SpawnMaking
    <2> QED
      BY <1>1, <1>4, <1>5, <2>1, <2>2, GivenNone DEF PageInv
  <1>12. CASE Free # {} /\ (FaultAlloc(p) \/ SetHandler(p))
    <2>1. env[p] = "LIVE" /\ UNCHANGED env
      BY <1>12 DEF FaultAlloc, SetHandler, At, AtFault
    <2>2. PICK va \in {PFTEMP, UXSTACK} : pt' = [pt EXCEPT ![p][va] = [frame |-> NewFrame, bits |-> {"W"}]]
      BY <1>12 DEF FaultAlloc, SetHandler, PageAlloc
    <2>3. va \in VA \ UserVA /\ [frame |-> NewFrame, bits |-> {"W"}] \in Pte \cup {NoPte}
      BY <1>12, Layout, NewFrameFree, PteTyped
    <2>4. BitsOK' /\ SharedSame' /\ LifeOK' /\ \A r \in Proc, wa \in UserVA : pt'[r][wa] = pt[r][wa]
      BY <2>1, <2>2, <2>3, UtilityPages
    <2>5. \/ loc'[p].pc \notin Making
          \/ loc'[p].pc = loc[p].pc /\ loc'[p].va = loc[p].va /\ loc'[p].child = loc[p].child
      BY <1>2, <1>12 DEF FaultAlloc, SetHandler, LocFields, Making, ForkMaking, SpawnMaking
    <2>6. GivenOK'
      BY <1>1, <2>1, <2>4, <2>5, GivenNone, GivenSame
    <2> QED
      BY <2>4, <2>6 DEF PageInv
  <1>13. CASE FaultUnmap(p)
    <2>1. env[p] = "LIVE" /\ UNCHANGED env /\ pt' = [pt EXCEPT ![p][PFTEMP] = NoPte]
      BY <1>13 DEF FaultUnmap, AtFault
    <2>2. PFTEMP \in VA \ UserVA
      BY Layout
    <2>3. BitsOK' /\ SharedSame' /\ LifeOK' /\ \A r \in Proc, wa \in UserVA : pt'[r][wa] = pt[r][wa]
      BY <2>1, <2>2, UtilityPages
    <2>4. loc'[p].pc = loc[p].pc /\ loc'[p].va = loc[p].va /\ loc'[p].child = loc[p].child
      BY <1>2, <1>13 DEF FaultUnmap, LocFields
    <2>5. GivenOK'
      BY <1>1, <2>1, <2>3, <2>4, GivenSame
    <2> QED
      BY <2>3, <2>5 DEF PageInv
  <1>14. CASE FaultMap(p)
    <2> DEFINE fva == loc[p].fva
               pte == [frame |-> pt[p][PFTEMP].frame, bits |-> {"W"}]
    <2>1. env[p] = "LIVE" /\ UNCHANGED env /\ pt' = [pt EXCEPT ![p][fva] = pte] /\ loc[p].fault = "map"
      BY <1>14 DEF FaultMap, AtFault
    <2>2. fva \in UserVA /\ fva \in VA /\ pte \in Pte /\ Mapped(p, fva)
      BY <2>1, FaultPages, PteTyped
    <2>3. fva \notin SharedVA
      <3>1. "W" \notin pt[p][fva].bits /\ pt[p][fva].bits \in BitsAt(fva)
        BY <2>1, <2>2 DEF FaultInv, FaultOK, PageInv, BitsOK
      <3> QED
        BY <3>1 DEF BitsAt
    <2>4. pte.bits \in BitsAt(fva) /\ pte # NoPte
      BY <2>2, <2>3, PteTyped DEF BitsAt
    <2> HIDE DEF pte
    <2>5. BitsOK' /\ SharedSame'
      BY <2>1, <2>2, <2>3, <2>4, SlotPages
    <2>6. LifeOK'
      BY <2>1, <2>2, <2>4, LifeKept
    <2>7. loc'[p].pc = loc[p].pc /\ loc'[p].va = loc[p].va /\ loc'[p].child = loc[p].child
      BY <1>2, <1>14 DEF FaultMap, LocFields
    <2>8. \A q \in Proc, va \in UserVA : q # p => pt'[q][va] = pt[q][va]
      BY <2>1 DEF TypeOK
    <2>9. GivenOK'
      BY <1>1, <2>1, <2>7, <2>8, GivenSame
    <2> QED
      BY <2>5, <2>6, <2>9 DEF PageInv

  <1>15. CASE Free # {} /\ AllocXstack(p)
    <2>1. loc[p].pc = "xstack" /\ loc[p].pc \in Making /\ UNCHANGED env
      BY <1>15 DEF AllocXstack, At, Making, ForkMaking
    <2>2. loc[p].child \in Proc /\ env[loc[p].child] = "NEW" /\ env[p] = "LIVE"
      BY <2>1, Child
    <2>3. pt' = [pt EXCEPT ![loc[p].child][UXSTACK] = [frame |-> NewFrame, bits |-> {"W"}]]
      BY <1>15 DEF AllocXstack, PageAlloc
    <2>4. UXSTACK \in VA \ UserVA /\ [frame |-> NewFrame, bits |-> {"W"}] \in Pte \cup {NoPte}
      BY <1>15, Layout, NewFrameFree, PteTyped
    <2>5. BitsOK' /\ SharedSame' /\ LifeOK' /\ \A r \in Proc, wa \in UserVA : pt'[r][wa] = pt[r][wa]
      BY <2>1, <2>2, <2>3, <2>4, UtilityPages
    <2>6. loc'[p].pc = "upcall" /\ loc'[p].va = loc[p].va /\ loc'[p].child = loc[p].child
      BY <1>2, <1>15 DEF AllocXstack, LocFields
    <2>7. \A x \in UserVA : Given(p, x)' <=> Given(p, x)
      BY <2>1, <2>6 DEF Given
    <2>8. GivenOK'
      BY <1>1, <2>2, <2>5, <2>6, <2>7, <2>1, GivenKept DEF PageInv, GivenOK, Mapped
    <2> QED
      BY <2>5, <2>8 DEF PageInv
  <1>16. CASE SetUpcall(p)
    <2>1. loc[p].pc = "upcall" /\ loc[p].pc \in Making /\ UNCHANGED <<env, pt>>
      BY <1>16 DEF SetUpcall, At, Making, ForkMaking
    <2>2. loc'[p].pc = "status" /\ loc'[p].child = loc[p].child
      BY <1>2, <1>16 DEF SetUpcall, LocFields
    <2>3. \A x \in UserVA : Given(p, x)' <=> Given(p, x)
      BY <2>1, <2>2 DEF Given
    <2>4. GivenOK'
      BY <1>1, <2>1, <2>2, <2>3, Child, GivenKept DEF PageInv, GivenOK, Mapped
    <2> QED
      BY <1>4, <1>5, <2>1, <2>4 DEF PageInv
  <1>17. ASSUME NEW c \in Proc, Exofork(p, c) \/ SpawnExofork(p, c) PROVE PageInv'
    <2>1. UNCHANGED pt /\ env[c] = "NONE" /\ env' = [env EXCEPT ![c] = "NEW"] /\ env[p] = "LIVE"
      BY <1>17 DEF Exofork, SpawnExofork, At
    <2>2. \A va \in VA : pt[c][va] = NoPte
      BY <2>1 DEF PageInv, LifeOK, Mapped
    <2>3. /\ loc'[p].child = c
          /\ \/ loc'[p].pc = "map_child" /\ loc'[p].va = UTEXT
             \/ loc'[p].pc = "sp_stack"
      BY <1>2, <1>17 DEF Exofork, SpawnExofork, LocFields
    <2>4. \A x \in UserVA : ~Given(p, x)'
      BY <2>3, Layout DEF Given
    <2>5. GivenOK'
      <3>1. ASSUME NEW q \in Proc \ {p}, loc'[q].pc \in Making, NEW va \in UserVA
            PROVE  pt'[loc'[q].child][va] # NoPte <=> Given(q, va)'
        <4>1. loc'[q] = loc[q] /\ (pt[loc[q].child][va] # NoPte <=> Given(q, va))
          BY <1>1, <3>1 DEF PageInv, GivenOK, Mapped
        <4> QED
          BY <2>1, <4>1 DEF Given
      <3> QED
        BY <1>3, <2>1, <2>2, <2>3, <2>4, <3>1 DEF GivenOK, Mapped
    <2>6. LifeOK'
      BY <2>1 DEF PageInv, LifeOK, TypeOK, Mapped
    <2> QED
      BY <1>4, <2>1, <2>5, <2>6 DEF PageInv
  <1>18. CASE DupChild(p)
    <2> DEFINE va == loc[p].va
               c == loc[p].child
    <2>1. loc[p].pc = "map_child" /\ loc[p].pc \in Making /\ UNCHANGED env
      BY <1>18 DEF DupChild, At, Making, ForkMaking
    <2>2. /\ c \in Proc \ {p} /\ env[c] = "NEW" /\ env[p] = "LIVE"
          /\ va \in UserVA /\ va \in VA /\ pt[p][va] \in Pte /\ pt[p][va].frame \in Frame
      BY <1>3, <2>1, Child, PteTyped, ZenonT(60) DEF PageInv, LifeOK
    <2>3. PICK pte \in Pte :
              /\ pt' = [pt EXCEPT ![c][va] = pte]
              /\ pte.bits \in BitsAt(va) /\ pte.frame = pt[p][va].frame
      <3>1. [frame |-> pt[p][va].frame, bits |-> {"COW"}] \in Pte
        BY <2>2 DEF Pte, Bit
      <3>2. pt[p][va].bits \in BitsAt(va)
        BY <2>2, PteTyped DEF PageInv, BitsOK
      <3>3. va \notin SharedVA => {"COW"} \in BitsAt(va)
        BY <2>2 DEF BitsAt
      <3> QED
        BY <1>18, <2>2, <3>1, <3>2, <3>3, DupChildCases
    <2>4. pte # NoPte /\ Mapped(p, va)
      BY <2>2, <2>3, PteTyped
    <2>5. BitsOK' /\ SharedSame'
      BY <2>2, <2>3, <2>4, SlotPages
    <2>6. LifeOK'
      BY <2>1, <2>2, <2>3, <2>4, LifeKept
    <2>7. /\ pt'[c][va] = pte
          /\ \A q \in Proc, wa \in UserVA : q # c \/ wa # va => pt'[q][wa] = pt[q][wa]
      BY <1>3, <2>2, <2>3 DEF TypeOK
    <2>8. /\ loc'[p].child = c
          /\ \/ loc'[p].pc = "map_self" /\ loc'[p].va = va
             \/ va = Stack /\ loc'[p].pc = "xstack"
             \/ va # Stack /\ loc'[p].pc = "map_child" /\ loc'[p].va = va + 1
      <3>1. CASE loc' = [loc EXCEPT ![p].pc = "map_self"]
        BY <1>2, <3>1 DEF LocFields
      <3>2. CASE loc' = [loc EXCEPT ![p] = NextPage(p)]
        <4>1. loc'[p] = NextPage(p)
          BY <1>2, <3>2
        <4> QED
          BY <2>1, <4>1, NextPageCases
      <3> QED
        BY <1>18, <3>1, <3>2, DupChildCases
    <2>9. PICK x \in UserVA : x = va
      BY <2>2
    <2>10. Given(p, x)' /\ \A wa \in UserVA : wa # x => (Given(p, wa)' <=> Given(p, wa))
      <3>1. \A wa \in UserVA : wa \in Nat /\ wa <= Stack
        BY <1>3, Layout
      <3>2. ASSUME NEW wa \in UserVA PROVE Given(p, wa)' <=> wa <= x
        BY <2>8, <2>9, <3>1 DEF Given
      <3>3. ASSUME NEW wa \in UserVA PROVE Given(p, wa) <=> wa < x
        BY <2>1, <2>9 DEF Given
      <3> QED
        BY <3>1, <3>2, <3>3
    <2>11. GivenOK'
      <3>1. /\ loc'[p].child = loc[p].child /\ pt'[loc[p].child][x] # NoPte
            /\ \A q \in Proc, wa \in UserVA : q # loc[p].child \/ wa # x => pt'[q][wa] = pt[q][wa]
        BY <2>4, <2>7, <2>8, <2>9
      <3>2. \A wa \in UserVA : wa # x => pt'[loc[p].child][wa] = pt[loc[p].child][wa]
        BY <2>2, <3>1
      <3> QED
        BY <1>1, <2>1, <2>9, <2>10, <3>1, <3>2, GivenNext
    <2> QED
      BY <2>5, <2>6, <2>11 DEF PageInv
  <1>19. CASE DupSelf(p)
    <2> DEFINE va == loc[p].va
               pte == [frame |-> pt[p][va].frame, bits |-> {"COW"}]
    <2>1. loc[p].pc = "map_self" /\ loc[p].pc \in Making /\ UNCHANGED env
      BY <1>19, SMTT(30) DEF DupSelf, At, Making, ForkMaking
    <2>2. /\ env[p] = "LIVE" /\ va \in UserVA /\ va \in VA /\ va \notin SharedVA /\ pte \in Pte
          /\ pt' = [pt EXCEPT ![p][va] = pte] /\ loc' = [loc EXCEPT ![p] = NextPage(p)]
      <3>1. pt[p][va].frame \in Frame
        BY <1>3, <1>19, DupSelfCases, PteTyped
      <3> QED
        BY <1>3, <1>19, <2>1, <3>1, Child, DupSelfCases DEF DupSelf, Pte, Bit
    <2>3. pte # NoPte /\ pte.bits \in BitsAt(va)
      BY <2>2, PteTyped DEF BitsAt
    <2> HIDE DEF pte
    <2>4. BitsOK' /\ SharedSame' /\ LifeOK'
      BY <2>1, <2>2, <2>3, SlotPages, LifeKept
    <2>5. \A q \in Proc, wa \in UserVA : q # p => pt'[q][wa] = pt[q][wa]
      BY <2>2 DEF TypeOK
    <2>6. /\ loc'[p].child = loc[p].child
          /\ \/ va = Stack /\ loc'[p].pc = "xstack"
             \/ va # Stack /\ loc'[p].pc = "map_child" /\ loc'[p].va = va + 1
      BY <1>2, <2>1, <2>2, NextPageCases
    <2>7. \A wa \in UserVA : Given(p, wa)' <=> Given(p, wa)
      <3>1. va \in Nat /\ \A wa \in UserVA : wa \in Nat /\ wa <= Stack
        BY <1>3, <2>2, Layout
      <3> QED
        BY <2>1, <2>6, <3>1 DEF Given
    <2>8. \A wa \in UserVA : pt'[loc[p].child][wa] # NoPte <=> Given(p, wa)'
      BY <2>1, <2>5, <2>7, Child DEF PageInv, GivenOK, Mapped
    <2>9. GivenOK'
      BY <1>1, <2>2, <2>5, <2>6, <2>8, GivenKept
    <2> QED
      BY <2>4, <2>9 DEF PageInv
  <1>20. CASE StartChild(p)
    <2>1. loc[p].pc \in {"status", "sp_status"} /\ loc[p].pc \in Making /\ UNCHANGED pt
      BY <1>20 DEF StartChild, At, Making, ForkMaking, SpawnMaking
    <2>2. loc' = [loc EXCEPT ![p] = User] /\ env' = [env EXCEPT ![loc[p].child] = "LIVE"]
      BY <1>20 DEF StartChild
    <2>3. \A va \in UserVA : Mapped(loc[p].child, va)
      BY <2>1 DEF PageInv, GivenOK, Given
    <2>4. LifeOK'
      <3>1. loc[p].child \in Proc
        BY <2>1, Child
      <3>2. env'[loc[p].child] = "LIVE" /\ \A q \in Proc : q # loc[p].child => env'[q] = env[q]
        BY <2>2, <3>1 DEF TypeOK
      <3> QED
        BY <2>1, <2>3, <3>1, <3>2 DEF PageInv, LifeOK, Mapped
    <2>5. loc'[p].pc \notin Making
      BY <1>2, <2>2 DEF User, Making, ForkMaking, SpawnMaking
    <2>6. GivenOK'
      BY <1>1, <2>1, <2>5, Child, GivenNone
    <2> QED
      BY <1>4, <2>1, <2>4, <2>6 DEF PageInv
  <1>21. ASSUME NEW u \in Pte \cup {NoPte}, SpawnFail(p, u), loc[p].pc \in Making, u # NoPte => u.bits = {"W"}
         PROVE  PageInv'
    <2> DEFINE c == loc[p].child
    <2>1. c \in Proc \ {p} /\ env[c] = "NEW" /\ env[p] = "LIVE"
      BY <1>21, Child
    <2>2. /\ env' = [env EXCEPT ![c] = "DEAD"] /\ loc' = [loc EXCEPT ![p] = User]
          /\ pt' = [pt EXCEPT ![c] = [va \in VA |-> NoPte], ![p][UTEMP] = u]
      BY <1>21 DEF SpawnFail
    <2> HIDE DEF c
    <2>3. /\ \A va \in VA : pt'[c][va] = NoPte
          /\ pt'[p][UTEMP] = u
          /\ \A q \in Proc, va \in VA : q # c /\ (q # p \/ va # UTEMP) => pt'[q][va] = pt[q][va]
      BY <2>1, <2>2, Layout DEF TypeOK
    <2>4. UTEMP \in VA \ UserVA /\ UTEMP \notin SharedVA
      BY Layout
    <2>5. BitsOK'
      BY <1>21, <2>3, <2>4 DEF PageInv, BitsOK, BitsAt, Mapped
    <2>6. SharedSame'
      BY <1>3, <2>3, <2>4 DEF PageInv, SharedSame, Mapped
    <2>7. LifeOK'
      <3>1. env'[c] = "DEAD" /\ \A q \in Proc : q # c => env'[q] = env[q]
        BY <2>1, <2>2 DEF TypeOK
      <3> QED
        BY <1>3, <2>1, <2>3, <2>4, <3>1 DEF PageInv, LifeOK, Mapped
    <2>8. loc'[p].pc \notin Making
      BY <1>2, <2>2 DEF User, Making, ForkMaking, SpawnMaking
    <2>9. \A q \in Proc, va \in UserVA : q # p /\ q # loc[p].child => pt'[q][va] = pt[q][va]
      BY <1>3, <2>3 DEF c
    <2>10. GivenOK'
      BY <1>1, <2>1, <2>8, <2>9, GivenNone
    <2> QED
      BY <2>5, <2>6, <2>7, <2>10 DEF PageInv
  <1>22. CASE SpawnFill(p) \/ SpawnStack(p)
    <2>1. loc[p].pc \in {"sp_stack", "sp_fill"} /\ loc[p].pc \in Making
      BY <1>22 DEF SpawnFill, SpawnStack, At, Making, SpawnMaking
    <2>2. Free # {} => [frame |-> NewFrame, bits |-> {"W"}] \in Pte
      BY NewFrameFree, PteTyped
    <2>3. pt[p][UTEMP] \in Pte \cup {NoPte} /\ (pt[p][UTEMP] # NoPte => pt[p][UTEMP].bits = {"W"})
      BY Layout, PteTyped DEF PageInv, BitsOK, BitsAt, Mapped
    <2>4. CASE Free # {} /\ pt' = [pt EXCEPT ![p][UTEMP] = [frame |-> NewFrame, bits |-> {"W"}]]
               /\ loc' = [loc EXCEPT ![p].pc = "sp_map"] /\ UNCHANGED env
      <3>1. UTEMP \in VA \ UserVA /\ env[p] = "LIVE"
        BY <2>1, Layout, Child
      <3>2. BitsOK' /\ SharedSame' /\ LifeOK' /\ \A r \in Proc, wa \in UserVA : pt'[r][wa] = pt[r][wa]
        BY <2>2, <2>4, <3>1, UtilityPages
      <3>3. loc'[p].pc = "sp_map" /\ loc'[p].va = loc[p].va /\ loc'[p].child = loc[p].child
        BY <1>2, <2>4 DEF LocFields
      <3>4. (loc[p].pc = "sp_stack" => loc[p].va = Stack) /\ (loc[p].pc = "sp_fill" => loc[p].va # Stack)
        BY Layout DEF MakerInv, MakerOK, PlaceOK
      <3>5. \A x \in UserVA : Given(p, x)' <=> Given(p, x)
        BY <2>1, <3>3, <3>4 DEF Given
      <3>6. \A wa \in UserVA : pt'[loc[p].child][wa] # NoPte <=> Given(p, wa)'
        BY <2>1, <3>2, <3>5, Child DEF PageInv, GivenOK, Mapped
      <3>7. GivenOK'
        BY <1>1, <3>1, <3>2, <3>3, <3>6, GivenKept
      <3> QED
        BY <3>2, <3>7 DEF PageInv
    <2>5. CASE loc' = [loc EXCEPT ![p] = User] /\ UNCHANGED <<env, pt>>
      <3>1. loc'[p].pc \notin Making
        BY <1>2, <2>5 DEF User, Making, ForkMaking, SpawnMaking
      <3> QED
        BY <1>1, <1>4, <1>5, <2>1, <2>5, <3>1, Child, GivenNone DEF PageInv
    <2> QED
      BY <1>21, <1>22, <2>1, <2>2, <2>3, <2>4, <2>5 DEF SpawnFill, SpawnStack
  <1>23. CASE SpawnMap(p)
    <2> DEFINE va == loc[p].va
               c == loc[p].child
    <2>1. loc[p].pc = "sp_map" /\ loc[p].pc \in Making /\ UNCHANGED env
      BY <1>23 DEF SpawnMap, At, Making, SpawnMaking
    <2>2. /\ c \in Proc \ {p} /\ env[c] = "NEW" /\ env[p] = "LIVE"
          /\ va \in UserVA /\ va \in VA /\ va \in Segment \cup {Stack}
      BY <1>3, <2>1, Child DEF MakerInv, MakerOK, PlaceOK
    <2>3. PICK pte \in Pte : pt' = [pt EXCEPT ![c][va] = pte] /\ pte.bits = {"W"} /\ pte # NoPte
      <3>1. Mapped(p, UTEMP) /\ pt[p][UTEMP].bits = {"W"}
        BY <2>1, Layout DEF PreparedInv, PageInv, BitsOK, BitsAt
      <3>2. pt[p][UTEMP] \in Pte /\ pt[p][UTEMP] # NoPte
        BY <3>1, Layout, PteTyped DEF Mapped
      <3> QED
        BY <1>23, <3>1, <3>2 DEF SpawnMap
    <2>4. va \notin SharedVA
      BY <2>2, Layout
    <2>5. BitsOK' /\ SharedSame'
      BY <2>2, <2>3, <2>4, SlotPages DEF BitsAt
    <2>6. LifeOK'
      BY <2>1, <2>2, <2>3, LifeKept
    <2>7. /\ pt'[c][va] = pte
          /\ \A q \in Proc, wa \in UserVA : q # c \/ wa # va => pt'[q][wa] = pt[q][wa]
      BY <1>3, <2>2, <2>3 DEF TypeOK
    <2>8. loc'[p].pc = "sp_unmap" /\ loc'[p].va = va /\ loc'[p].child = c
      BY <1>2, <1>23 DEF SpawnMap, LocFields
    <2>9. PICK x \in UserVA : x = va /\ x \in Segment \cup {Stack}
      BY <2>2
    <2>10. Given(p, x)' /\ \A wa \in UserVA : wa # x => (Given(p, wa)' <=> Given(p, wa))
      <3>1. Stack \notin Segment /\ \A wa \in UserVA : wa \in Nat
        BY <1>3, Layout
      <3>2. ASSUME NEW wa \in UserVA
            PROVE  Given(p, wa)' <=> wa = Stack \/ (x # Stack /\ wa \in Segment /\ wa <= x)
        BY <2>8, <2>9 DEF Given
      <3>3. ASSUME NEW wa \in UserVA
            PROVE  Given(p, wa) <=> x # Stack /\ (wa = Stack \/ (wa \in Segment /\ wa < x))
        BY <2>1, <2>9 DEF Given
      <3> QED
        BY <2>9, <3>1, <3>2, <3>3
    <2>11. GivenOK'
      BY <1>1, <2>1, <2>3, <2>7, <2>8, <2>9, <2>10, GivenNext
    <2> QED
      BY <2>5, <2>6, <2>11 DEF PageInv
  <1>24. CASE SpawnUnmap(p)
    <2>1. loc[p].pc = "sp_unmap" /\ loc[p].pc \in Making /\ UNCHANGED env
          /\ pt' = [pt EXCEPT ![p][UTEMP] = NoPte]
      BY <1>24 DEF SpawnUnmap, At, Making, SpawnMaking
    <2>2. env[p] = "LIVE" /\ loc[p].va \in UserVA /\ UTEMP \in VA \ UserVA
      BY <2>1, Child, Layout
    <2>3. BitsOK' /\ SharedSame' /\ LifeOK' /\ \A r \in Proc, wa \in UserVA : pt'[r][wa] = pt[r][wa]
      BY <2>1, <2>2, UtilityPages
    <2>4. /\ loc'[p].child = loc[p].child
          /\ \/ loc'[p].pc = "sp_share" /\ loc'[p].va = UTEXT /\ Rest(loc[p].va) = {}
             \/ loc'[p].pc = "sp_fill" /\ loc'[p].va = Min(Rest(loc[p].va)) /\ Rest(loc[p].va) # {}
      BY <1>2, <1>24 DEF SpawnUnmap, LocFields
    <2>5. \A x \in UserVA : Given(p, x)' <=> Given(p, x)
      <3>1. PICK va \in UserVA : va = loc[p].va
        BY <2>2
      <3>2. Rest(va) \in SUBSET Segment /\ Segment \in SUBSET Nat /\ Stack \notin Segment /\ va \in Nat
        BY <1>3, Layout DEF Rest
      <3>3. Rest(va) # {} => Min(Rest(va)) \in Rest(va) /\ \A x \in Rest(va) : Min(Rest(va)) <= x
        BY <3>2, LeastIn
      <3>4. ASSUME NEW x \in UserVA
            PROVE  Given(p, x) <=> x = Stack \/ (va # Stack /\ x \in Segment /\ x <= va)
        BY <2>1, <3>1 DEF Given
      <3>5. CASE Rest(va) = {}
        <4>1. \A x \in Segment : va # Stack /\ x <= va
          BY <3>2, <3>5 DEF Rest
        <4>2. ASSUME NEW x \in UserVA PROVE Given(p, x)' <=> x \notin SharedVA
          BY <2>4, <3>1, <3>5, Layout DEF Given
        <4> QED
          BY <3>4, <4>1, <4>2, Layout
      <3>6. CASE Rest(va) # {}
        <4>1. PICK m : m = Min(Rest(va)) /\ m \in Segment
          BY <3>2, <3>3, <3>6
        <4>2. \A x \in Segment : x < m <=> va # Stack /\ x <= va
          BY <3>2, <3>3, <3>6, <4>1 DEF Rest
        <4>3. ASSUME NEW x \in UserVA PROVE Given(p, x)' <=> x = Stack \/ (x \in Segment /\ x < m)
          BY <2>4, <3>1, <3>2, <3>6, <4>1 DEF Given
        <4> QED
          BY <3>4, <4>2, <4>3
      <3> QED
        BY <3>5, <3>6
    <2>6. \A wa \in UserVA : pt'[loc[p].child][wa] # NoPte <=> Given(p, wa)'
      BY <2>1, <2>3, <2>5, Child DEF PageInv, GivenOK, Mapped
    <2>7. GivenOK'
      BY <1>1, <2>2, <2>3, <2>4, <2>6, GivenKept
    <2> QED
      BY <2>3, <2>7 DEF PageInv
  <1>25. CASE SpawnShare(p)
    <2> DEFINE va == loc[p].va
               c == loc[p].child
    <2>1. loc[p].pc = "sp_share" /\ loc[p].pc \in Making /\ UNCHANGED env
      BY <1>25 DEF SpawnShare, At, Making, SpawnMaking
    <2>2. c \in Proc \ {p} /\ env[c] = "NEW" /\ env[p] = "LIVE" /\ va \in UserVA /\ va \in VA
      BY <1>3, <2>1, Child
    <2>3. /\ loc'[p].child = c
          /\ \/ va = Stack /\ loc'[p].pc = "sp_status"
             \/ va # Stack /\ loc'[p].pc = "sp_share" /\ loc'[p].va = va + 1
      BY <1>2, <1>25, <2>1 DEF SpawnShare, LocFields
    <2>9. PICK x \in UserVA : x = va
      BY <2>2
    <2>4. Given(p, x)' /\ \A wa \in UserVA : wa # x => (Given(p, wa)' <=> Given(p, wa))
      <3>1. \A wa \in UserVA : wa \in Nat /\ wa <= Stack
        BY <1>3, Layout
      <3>2. ASSUME NEW wa \in UserVA PROVE Given(p, wa)' <=> wa \notin SharedVA \/ wa <= x
        BY <2>3, <2>9, <3>1 DEF Given
      <3>3. ASSUME NEW wa \in UserVA PROVE Given(p, wa) <=> wa \notin SharedVA \/ wa < x
        BY <2>1, <2>9 DEF Given
      <3> QED
        BY <3>1, <3>2, <3>3
    <2>5. CASE va \in SharedVA /\ Mapped(p, va) /\ pt' = [pt EXCEPT ![c][va] = pt[p][va]]
      <3>1. pt[p][va] \in Pte /\ pt[p][va] # NoPte /\ pt[p][va].bits \in BitsAt(va)
        BY <2>2, <2>5, PteTyped DEF PageInv, BitsOK, Mapped
      <3>2. BitsOK' /\ SharedSame'
        BY <2>2, <2>5, <3>1, SlotPages
      <3>3. LifeOK'
        BY <2>1, <2>2, <2>5, <3>1, LifeKept
      <3>4. /\ pt'[c][va] # NoPte
            /\ \A q \in Proc, wa \in UserVA : q # c \/ wa # va => pt'[q][wa] = pt[q][wa]
        BY <1>3, <2>2, <2>5, <3>1 DEF TypeOK
      <3>5. GivenOK'
        <4>1. /\ loc'[p].child = loc[p].child /\ pt'[loc[p].child][x] # NoPte
              /\ \A q \in Proc, wa \in UserVA : q # loc[p].child \/ wa # x => pt'[q][wa] = pt[q][wa]
          BY <2>3, <2>9, <3>4
        <4>2. \A wa \in UserVA : wa # x => pt'[loc[p].child][wa] = pt[loc[p].child][wa]
          BY <2>2, <4>1
        <4> QED
          BY <1>1, <2>1, <2>9, <2>4, <4>1, <4>2, GivenNext
      <3> QED
        BY <3>2, <3>3, <3>5 DEF PageInv
    <2>6. CASE va \notin SharedVA /\ pt' = pt
      <3>1. pt[c][va] # NoPte
        BY <2>1, <2>2, <2>6 DEF PageInv, GivenOK, Given, Mapped
      <3>2. GivenOK'
        BY <1>1, <2>1, <2>3, <2>9, <2>4, <2>6, <3>1, GivenNext
      <3> QED
        BY <1>4, <1>5, <2>1, <2>6, <3>2 DEF PageInv
    <2> QED
      BY <1>25, <2>5, <2>6, SpawnShareCases
  <1> QED
    BY <1>7, <1>8, <1>9, <1>10, <1>11, <1>12, <1>13, <1>14, <1>15, <1>16, <1>17, <1>18, <1>19, <1>20,
       <1>22, <1>23, <1>24, <1>25
    DEF StepCases

\* A reason to map a page twice stays one in a step of p that is not about it.
LEMMA ExcusedKept ==
  ASSUME NEW p \in Proc, \A q \in Proc \ {p} : loc'[q] = loc[q],
         loc[p].fault = "unmap" => loc'[p].fault = "unmap" /\ loc'[p].fva = loc[p].fva,
         loc[p].pc \in {"sp_unmap", "map_self"} =>
             loc'[p].pc = loc[p].pc /\ loc'[p].va = loc[p].va /\ loc'[p].child = loc[p].child,
         NEW r \in Proc, NEW s \in Proc, NEW v \in VA, NEW w \in VA,
         Excused(r, v, s, w), pt'[s][w] = pt[s][w]
  PROVE  Excused(r, v, s, w)'
  <1>1. CASE r = p /\ s = p
    BY <1>1 DEF Excused
  <1>2. CASE r = p /\ s # p
    BY <1>2 DEF Excused
  <1>3. CASE r # p /\ s = p
    BY <1>3 DEF Excused
  <1>4. CASE r # p /\ s # p
    BY <1>4 DEF Excused
  <1> QED
    BY <1>1, <1>2, <1>3, <1>4

\* No page comes.
LEMMA ExclusiveFewer ==
  ASSUME Inv, \A q \in Proc, va \in VA : pt'[q][va] = pt[q][va] \/ pt'[q][va] = NoPte,
         \A r, s \in Proc : \A v, w \in VA :
            /\ Excused(r, v, s, w) /\ pt'[r][v] = pt[r][v] /\ pt'[s][w] = pt[s][w]
            /\ Mapped(r, v) /\ Mapped(s, w)
            => Excused(r, v, s, w)'
  PROVE  Exclusive'
  <1> SUFFICES ASSUME NEW r \in Proc, NEW s \in Proc, NEW v \in VA, NEW w \in VA,
                      "W" \in pt'[r][v].bits, pt'[s][w].frame = pt'[r][v].frame
               PROVE  (r = s /\ v = w) \/ Excused(r, v, s, w)'
    BY DEF Exclusive
  <1>1. pt'[r][v] = pt[r][v] /\ Mapped(r, v)
    BY PteTyped DEF Mapped
  <1>2. pt[r][v].frame \in Frame
    BY <1>1, PteTyped DEF Inv
  <1>3. pt'[s][w] = pt[s][w] /\ Mapped(s, w)
    BY <1>1, <1>2, PteTyped, FrameAssumption DEF Mapped
  <1>4. (r = s /\ v = w) \/ Excused(r, v, s, w)
    BY <1>1, <1>3 DEF Inv, Exclusive
  <1> QED
    BY <1>1, <1>3, <1>4

\* One page comes, at va of q.
LEMMA ExclusiveSlot ==
  ASSUME Inv, NEW q \in Proc, NEW va \in VA, NEW pte \in Pte, pt'[q][va] = pte,
         \A r \in Proc, v \in VA : r # q \/ v # va => pt'[r][v] = pt[r][v] \/ pt'[r][v] = NoPte,
         \A r, s \in Proc : \A v, w \in VA :
            /\ Excused(r, v, s, w) /\ pt'[r][v] = pt[r][v] /\ pt'[s][w] = pt[s][w]
            /\ Mapped(r, v) /\ Mapped(s, w) /\ (r # q \/ v # va) /\ (s # q \/ w # va)
            => Excused(r, v, s, w)',
         \A s \in Proc, w \in VA :
            (s # q \/ w # va) /\ pt'[s][w] = pt[s][w] /\ pt[s][w].frame = pte.frame =>
                /\ "W" \in pte.bits => Excused(q, va, s, w)'
                /\ "W" \in pt[s][w].bits => Excused(s, w, q, va)'
  PROVE  Exclusive'
  <1> SUFFICES ASSUME NEW r \in Proc, NEW s \in Proc, NEW v \in VA, NEW w \in VA,
                      "W" \in pt'[r][v].bits, pt'[s][w].frame = pt'[r][v].frame,
                      r # s \/ v # w
               PROVE  Excused(r, v, s, w)'
    BY DEF Exclusive
  <1>1. pte.frame \in Frame
    BY DEF Pte
  <1>2. ASSUME NEW t \in Proc, NEW x \in VA, t # q \/ x # va, pt'[t][x].frame \in Frame
        PROVE  pt'[t][x] = pt[t][x] /\ Mapped(t, x)
    BY <1>2, PteTyped, FrameAssumption DEF Mapped
  <1>3. pt'[r][v].frame \in Frame
    <2>1. CASE r = q /\ v = va
      BY <1>1, <2>1
    <2>2. CASE r # q \/ v # va
      <3>1. pt'[r][v] = pt[r][v] /\ Mapped(r, v)
        BY <2>2, PteTyped DEF Mapped
      <3> QED
        BY <3>1, PteTyped DEF Inv
    <2> QED
      BY <2>1, <2>2
  <1>4. CASE r = q /\ v = va
    <2>1. (s # q \/ w # va) /\ pt'[s][w] = pt[s][w]
      BY <1>2, <1>3, <1>4
    <2> QED
      BY <1>4, <2>1
  <1>5. CASE s = q /\ w = va
    <2>1. (r # q \/ v # va) /\ pt'[r][v] = pt[r][v]
      BY <1>2, <1>3, <1>5
    <2> QED
      BY <1>5, <2>1
  <1>6. CASE (r # q \/ v # va) /\ (s # q \/ w # va)
    <2>1. pt'[r][v] = pt[r][v] /\ Mapped(r, v) /\ pt'[s][w] = pt[s][w] /\ Mapped(s, w)
      BY <1>2, <1>3, <1>6
    <2>2. Excused(r, v, s, w)
      BY <2>1 DEF Inv, Exclusive
    <2> QED
      BY <1>6, <2>1, <2>2
  <1> QED
    BY <1>4, <1>5, <1>6

\* One page comes that was mapped nowhere.
LEMMA ExclusiveNew ==
  ASSUME Inv, Free # {}, NEW q \in Proc, NEW va \in VA,
         pt'[q][va] = [frame |-> NewFrame, bits |-> {"W"}],
         \A r \in Proc, v \in VA : r # q \/ v # va => pt'[r][v] = pt[r][v] \/ pt'[r][v] = NoPte,
         \A r, s \in Proc : \A v, w \in VA :
            Excused(r, v, s, w) /\ pt'[s][w] = pt[s][w] => Excused(r, v, s, w)'
  PROVE  Exclusive'
  <1>1. [frame |-> NewFrame, bits |-> {"W"}] \in Pte
    BY NewFrameFree, PteTyped
  <1>2. \A s \in Proc, w \in VA : pt[s][w].frame # NewFrame
    BY NewFrameFree
  <1> QED
    BY <1>1, <1>2, ExclusiveSlot

\* Nobody else may write the pages of a running process, but for the shared
\* ones and while it handles a page fault.
LEMMA NoReason ==
  ASSUME Inv, NEW p \in Proc, env[p] = "LIVE", loc[p].fault # "unmap", NEW va \in UserVA,
         NEW s \in Proc, NEW w \in VA, s # p \/ w # va, pt[s][w].frame = pt[p][va].frame
  PROVE  /\ "W" \in pt[s][w].bits => w = va /\ va \in SharedVA
         /\ "W" \in pt[p][va].bits /\ loc[p].pc # "map_self" => w = va /\ va \in SharedVA
  <1>1. va \in VA /\ va # UTEMP
    BY Layout
  <1>2. \A q \in Proc : loc[q].child # p
    BY FirstAssumption DEF Inv, MakerInv, MakerOK
  <1>3. ASSUME "W" \in pt[s][w].bits PROVE w = va /\ va \in SharedVA
    <2>1. Excused(s, w, p, va)
      BY <1>1, <1>3 DEF Inv, Exclusive
    <2> QED
      BY <1>1, <1>2, <2>1 DEF Excused
  <1>4. ASSUME "W" \in pt[p][va].bits, loc[p].pc # "map_self" PROVE w = va /\ va \in SharedVA
    <2>1. Excused(p, va, s, w)
      BY <1>1, <1>4 DEF Inv, Exclusive
    <2> QED
      BY <1>1, <1>2, <1>4, <2>1 DEF Excused
  <1> QED
    BY <1>3, <1>4

LEMMA NextExclusive ==
  ASSUME Inv, NEW p \in Proc, StepCases(p)
  PROVE  Exclusive'
  <1> USE DEF Inv
  <1>1. \A q \in Proc \ {p} : loc'[q] = loc[q]
    BY OnlyActor
  <1>2. loc[p] \in LocFields /\ loc \in [Proc -> LocFields]
    BY LocTyped
  <1>3. pt \in [Proc -> [VA -> Pte \cup {NoPte}]]
    BY DEF TypeOK
  <1> DEFINE Steady ==
        /\ loc[p].fault = "unmap" => loc'[p].fault = "unmap" /\ loc'[p].fva = loc[p].fva
        /\ loc[p].pc \in {"sp_unmap", "map_self"} =>
             loc'[p].pc = loc[p].pc /\ loc'[p].va = loc[p].va /\ loc'[p].child = loc[p].child
  <1>4. ASSUME Steady, NEW r \in Proc, NEW s \in Proc, NEW v \in VA, NEW w \in VA,
               Excused(r, v, s, w), pt'[s][w] = pt[s][w]
        PROVE  Excused(r, v, s, w)'
    BY <1>1, <1>4, ExcusedKept
  <1> HIDE DEF Steady
  <1>5. ASSUME Steady, \A q \in Proc, va \in VA : pt'[q][va] = pt[q][va] \/ pt'[q][va] = NoPte
        PROVE  Exclusive'
    BY <1>4, <1>5, ExclusiveFewer
  <1>6. ASSUME Steady, Free # {}, NEW q \in Proc, NEW va \in VA,
               pt' = [pt EXCEPT ![q][va] = [frame |-> NewFrame, bits |-> {"W"}]]
        PROVE  Exclusive'
    <2>1. /\ pt'[q][va] = [frame |-> NewFrame, bits |-> {"W"}]
          /\ \A r \in Proc, v \in VA : r # q \/ v # va => pt'[r][v] = pt[r][v]
      BY <1>3, <1>6
    <2>2. \A r, s \in Proc : \A v, w \in VA :
            Excused(r, v, s, w) /\ pt'[s][w] = pt[s][w] => Excused(r, v, s, w)'
      BY <1>4, <1>6
    <2>3. Free # {}
      BY <1>6
    <2> HIDE DEF Inv
    <2> QED
      BY <2>1, <2>2, <2>3, ExclusiveNew
  <1>7. ASSUME NEW va \in UserVA, NEW v \in Value, Writes(p, va, v) PROVE Exclusive'
    <2>1. UNCHANGED pt /\ loc[p].fault # "unmap"
      BY <1>7 DEF Writes, StoreFault, StoreDone
    <2>2. loc'[p].pc = loc[p].pc /\ loc'[p].va = loc[p].va /\ loc'[p].child = loc[p].child
      BY <1>2, <1>7 DEF Writes, StoreFault, StoreDone, LocFields
    <2>3. Steady
      BY <2>1, <2>2 DEF Steady
    <2> QED
      BY <1>5, <2>1, <2>3
  <1>8. CASE Panic
    <2>1. Steady /\ UNCHANGED pt
      BY <1>8 DEF Panic, Steady
    <2> QED
      BY <1>5, <2>1
  <1>9. CASE FaultCopy(p) \/ WriteAgain(p)
    <2>1. UNCHANGED pt /\ loc[p].fault # "unmap"
      BY <1>9 DEF FaultCopy, WriteAgain, AtFault
    <2>2. loc'[p].pc = loc[p].pc /\ loc'[p].va = loc[p].va /\ loc'[p].child = loc[p].child
      BY <1>2, <1>9 DEF FaultCopy, WriteAgain, LocFields
    <2>3. Steady
      BY <2>1, <2>2 DEF Steady
    <2> QED
      BY <1>5, <2>1, <2>3
  <1>10. CASE Free # {} /\ FaultAlloc(p)
    <2>1. /\ pt' = [pt EXCEPT ![p][PFTEMP] = [frame |-> NewFrame, bits |-> {"W"}]]
          /\ loc[p].fault # "unmap" /\ PFTEMP \in VA
      BY <1>10, Layout DEF FaultAlloc, AtFault, PageAlloc
    <2>2. loc'[p].pc = loc[p].pc /\ loc'[p].va = loc[p].va /\ loc'[p].child = loc[p].child
      BY <1>2, <1>10 DEF FaultAlloc, LocFields
    <2>3. Steady
      BY <2>1, <2>2 DEF Steady
    <2> QED
      BY <1>6, <1>10, <2>1, <2>3
  <1>11. CASE Fork(p) \/ Spawn(p) \/ SetUpcall(p) \/ StartChild(p)
              \/ (\E c \in Proc : Exofork(p, c) \/ SpawnExofork(p, c)) \/ (Free = {} /\ SpawnStack(p))
    <2>1. UNCHANGED pt
      BY <1>11 DEF Fork, Spawn, SetUpcall, StartChild, Exofork, SpawnExofork, SpawnStack
    <2>2. loc[p].fault # "unmap" /\ loc[p].pc \notin {"sp_unmap", "map_self"}
      BY <1>11 DEF Fork, Spawn, SetUpcall, StartChild, Exofork, SpawnExofork, SpawnStack, At
    <2>3. Steady
      BY <2>2 DEF Steady
    <2> QED
      BY <1>5, <2>1, <2>3
  <1>12. CASE Free # {} /\ (SetHandler(p) \/ AllocXstack(p) \/ SpawnStack(p))
    <2>1. loc[p].fault # "unmap" /\ loc[p].pc \in {"handler", "xstack", "sp_stack"}
      BY <1>12 DEF SetHandler, AllocXstack, SpawnStack, At
    <2>2. PICK q \in Proc, va \in VA : pt' = [pt EXCEPT ![q][va] = [frame |-> NewFrame, bits |-> {"W"}]]
      <3>1. AllocXstack(p) => loc[p].child \in Proc
        BY Child DEF AllocXstack, At, Making, ForkMaking
      <3>2. UTEMP \in VA /\ UXSTACK \in VA
        BY Layout
      <3> QED
        BY <1>12, <3>1, <3>2 DEF SetHandler, AllocXstack, SpawnStack, PageAlloc
    <2>3. Steady
      BY <2>1 DEF Steady
    <2> QED
      BY <1>6, <1>12, <2>2, <2>3
  <1>13. CASE Dies(p)
    <2>1. /\ \A va \in VA : pt'[p][va] = NoPte
          /\ \A q \in Proc \ {p} : pt'[q] = pt[q]
      BY <1>3, <1>13 DEF Dies
    <2>2. ASSUME NEW r \in Proc \ {p}, NEW s \in Proc \ {p}, NEW v \in VA, NEW w \in VA, Excused(r, v, s, w)
          PROVE  Excused(r, v, s, w)'
      BY <1>1, <2>1, <2>2 DEF Excused
    <2> QED
      BY <2>1, <2>2, ExclusiveFewer DEF Mapped
  <1>14. CASE SpawnFill(p)
    <2>1. /\ loc[p].fault # "unmap" /\ loc[p].pc = "sp_fill"
          /\ loc[p].child \in Proc \ {p} /\ UTEMP \in VA
      BY <1>14, Child, Layout DEF SpawnFill, At, Making, SpawnMaking
    <2>2. Steady
      BY <2>1 DEF Steady
    <2>3. CASE Free # {} /\ pt' = [pt EXCEPT ![p][UTEMP] = [frame |-> NewFrame, bits |-> {"W"}]]
      BY <1>6, <2>1, <2>2, <2>3
    <2>4. ASSUME NEW u, SpawnFail(p, u)
          PROVE  /\ pt'[p][UTEMP] = u
                 /\ \A r \in Proc, v \in VA : r # p \/ v # UTEMP => pt'[r][v] = pt[r][v] \/ pt'[r][v] = NoPte
      BY <1>3, <2>1, <2>4 DEF SpawnFail
    <2>5. CASE Free = {} /\ SpawnFail(p, pt[p][UTEMP])
      BY <1>5, <2>2, <2>4, <2>5
    <2>6. CASE Free # {} /\ SpawnFail(p, [frame |-> NewFrame, bits |-> {"W"}])
      <3>1. /\ pt'[p][UTEMP] = [frame |-> NewFrame, bits |-> {"W"}]
            /\ \A r \in Proc, v \in VA : r # p \/ v # UTEMP => pt'[r][v] = pt[r][v] \/ pt'[r][v] = NoPte
        BY <2>4, <2>6
      <3>2. \A r, s \in Proc : \A v, w \in VA :
               Excused(r, v, s, w) /\ pt'[s][w] = pt[s][w] => Excused(r, v, s, w)'
        BY <1>4, <2>2
      <3> QED
        BY <2>1, <2>6, <3>1, <3>2, ExclusiveNew
    <2> QED
      BY <1>14, <2>3, <2>5, <2>6 DEF SpawnFill
  <1>15. CASE FaultUnmap(p)
    <2>1. /\ loc[p].fault = "unmap" /\ pt' = [pt EXCEPT ![p][PFTEMP] = NoPte]
          /\ PFTEMP \in VA
      BY <1>15, Layout DEF FaultUnmap, AtFault
    <2>2. loc'[p].pc = loc[p].pc /\ loc'[p].va = loc[p].va /\ loc'[p].child = loc[p].child
      BY <1>2, <1>15 DEF FaultUnmap, LocFields
    <2>3. /\ pt'[p][PFTEMP] = NoPte
          /\ \A q \in Proc, va \in VA : q # p \/ va # PFTEMP => pt'[q][va] = pt[q][va]
      BY <1>3, <2>1
    <2>4. ASSUME NEW r \in Proc, NEW s \in Proc, NEW v \in VA, NEW w \in VA, Excused(r, v, s, w),
                 pt'[r][v] = pt[r][v], pt'[s][w] = pt[s][w], Mapped(r, v), Mapped(s, w)
          PROVE  Excused(r, v, s, w)'
      <3>1. r # p \/ v # PFTEMP
        BY <2>3, <2>4 DEF Mapped
      <3>2. s # p \/ w # PFTEMP
        BY <2>3, <2>4 DEF Mapped
      <3>3. CASE r = s /\ loc[r].fault = "unmap" /\ {v, w} = {PFTEMP, loc[r].fva}
        BY <1>1, <2>4, <3>1, <3>2, <3>3 DEF Excused
      <3>4. CASE ~(r = s /\ loc[r].fault = "unmap" /\ {v, w} = {PFTEMP, loc[r].fva})
        <4>1. /\ loc'[r].pc = loc[r].pc /\ loc'[r].va = loc[r].va /\ loc'[r].child = loc[r].child
              /\ loc'[s].pc = loc[s].pc /\ loc'[s].va = loc[s].va /\ loc'[s].child = loc[s].child
          BY <1>1, <2>2
        <4> QED
          BY <2>4, <3>4, <4>1 DEF Excused
      <3> QED
        BY <3>3, <3>4
    <2> QED
      BY <2>3, <2>4, ExclusiveFewer
  <1>16. CASE SpawnUnmap(p)
    <2>1. /\ loc[p].fault = "none" /\ loc[p].pc = "sp_unmap" /\ pt' = [pt EXCEPT ![p][UTEMP] = NoPte]
          /\ UTEMP \in VA
      BY <1>16, Layout DEF SpawnUnmap, At
    <2>2. /\ pt'[p][UTEMP] = NoPte
          /\ \A q \in Proc, va \in VA : q # p \/ va # UTEMP => pt'[q][va] = pt[q][va]
      BY <1>3, <2>1
    <2>3. ASSUME NEW r \in Proc, NEW s \in Proc, NEW v \in VA, NEW w \in VA, Excused(r, v, s, w),
                 pt'[r][v] = pt[r][v], pt'[s][w] = pt[s][w], Mapped(r, v), Mapped(s, w)
          PROVE  Excused(r, v, s, w)'
      <3>1. r # p \/ v # UTEMP
        BY <2>2, <2>3 DEF Mapped
      <3>2. s # p \/ w # UTEMP
        BY <2>2, <2>3 DEF Mapped
      <3>3. CASE r = p
        BY <1>1, <2>1, <2>3, <3>1, <3>2, <3>3 DEF Excused
      <3>4. CASE r # p
        BY <1>1, <2>1, <2>3, <3>2, <3>4 DEF Excused
      <3> QED
        BY <3>3, <3>4
    <2> QED
      BY <2>2, <2>3, ExclusiveFewer
  <1>17. CASE FaultMap(p)
    <2> DEFINE fva == loc[p].fva
    <2>1. PICK pte \in Pte : pt' = [pt EXCEPT ![p][fva] = pte] /\ pte.bits = {"W"} /\ pte.frame = pt[p][PFTEMP].frame
      <3>1. [frame |-> pt[p][PFTEMP].frame, bits |-> {"W"}] \in Pte
        BY <1>17, FaultPages, PteTyped DEF FaultMap, AtFault
      <3> QED
        BY <1>17, <3>1 DEF FaultMap
    <2>2. /\ loc[p].fault = "map" /\ fva \in UserVA /\ fva \in VA /\ "W" \in pt[p][PFTEMP].bits
          /\ PFTEMP \in VA \ UserVA /\ PFTEMP # UTEMP /\ PFTEMP \notin SharedVA /\ UTEMP \notin UserVA
      BY <1>17, FaultPages, Layout DEF FaultMap, AtFault
    <2>3. /\ loc'[p].pc = loc[p].pc /\ loc'[p].va = loc[p].va /\ loc'[p].child = loc[p].child
          /\ loc'[p].fault = "unmap" /\ loc'[p].fva = fva
      BY <1>2, <1>17 DEF FaultMap, LocFields
    <2>4. Steady
      BY <2>2, <2>3 DEF Steady
    <2>5. /\ pt'[p][fva] = pte
          /\ \A q \in Proc, va \in VA : q # p \/ va # fva => pt'[q][va] = pt[q][va]
      BY <1>3, <2>1, <2>2
    <2>6. ASSUME NEW s \in Proc, NEW w \in VA, s # p \/ w # fva, pt[s][w].frame = pte.frame
          PROVE  s = p /\ w = PFTEMP
      <3>1. \A q \in Proc : loc[q].pc = "sp_unmap" \/ loc[q].pc = "map_self" => loc[q].va \in UserVA
        BY DEF MakerInv, MakerOK, PlaceOK, Making, ForkMaking, SpawnMaking
      <3>2. ~Excused(p, PFTEMP, s, w)
        BY <2>2, <3>1 DEF Excused
      <3> QED
        BY <2>1, <2>2, <2>6, <3>2 DEF Exclusive
    <2>7. PICK x \in UserVA : x = fva
      BY <2>2
    <2>8. Excused(p, x, p, PFTEMP)' /\ Excused(p, PFTEMP, p, x)'
      BY <2>3, <2>7 DEF Excused
    <2>9. \A s \in Proc, w \in VA :
            (s # p \/ w # x) /\ pt'[s][w] = pt[s][w] /\ pt[s][w].frame = pte.frame =>
                Excused(p, x, s, w)' /\ Excused(s, w, p, x)'
      BY <2>6, <2>7, <2>8
    <2>10. \A r, s \in Proc : \A v, w \in VA :
            Excused(r, v, s, w) /\ pt'[s][w] = pt[s][w] => Excused(r, v, s, w)'
      BY <1>4, <2>4
    <2>11. pt'[p][x] = pte /\ \A r \in Proc, v \in VA : r # p \/ v # x => pt'[r][v] = pt[r][v]
      BY <2>5, <2>7
    <2> QED
      BY <2>2, <2>7, <2>9, <2>10, <2>11, ExclusiveSlot
  <1>18. ASSUME Steady, NEW x \in UserVA, NEW c \in Proc \ {p}, NEW pte \in Pte, pt' = [pt EXCEPT ![c][x] = pte],
                env[p] = "LIVE", pte.frame = pt[p][x].frame, loc[p].fault # "unmap", loc[p].pc # "map_self",
                x \in SharedVA => pte = pt[p][x],
                x \notin SharedVA => "W" \notin pte.bits /\ Excused(p, x, c, x)'
         PROVE  Exclusive'
    <2>1. x \in VA
      BY Layout
    <2>2. pt'[c][x] = pte /\ \A q \in Proc, va \in VA : q # c \/ va # x => pt'[q][va] = pt[q][va]
      BY <1>3, <1>18, <2>1
    <2>3. ASSUME NEW s \in Proc, NEW w \in VA, s # c \/ w # x, pt[s][w].frame = pte.frame
          PROVE  /\ "W" \in pte.bits => Excused(c, x, s, w)'
                 /\ "W" \in pt[s][w].bits => Excused(s, w, c, x)'
      <3>1. CASE s = p /\ w = x
        BY <1>18, <3>1 DEF Excused
      <3>2. CASE s # p \/ w # x
        <4>1. "W" \in pt[s][w].bits => w = x /\ x \in SharedVA
          BY <1>18, <2>3, <3>2, NoReason
        <4>2. "W" \in pte.bits => w = x /\ x \in SharedVA
          BY <1>18, <2>3, <3>2, NoReason
        <4> QED
          BY <4>1, <4>2 DEF Excused
      <3> QED
        BY <3>1, <3>2
    <2>4. \A r, s \in Proc : \A v, w \in VA :
            Excused(r, v, s, w) /\ pt'[s][w] = pt[s][w] => Excused(r, v, s, w)'
      BY <1>4, <1>18
    <2> QED
      BY <2>1, <2>2, <2>3, <2>4, ExclusiveSlot
  <1>19. CASE DupChild(p)
    <2>1. loc[p].pc = "map_child" /\ loc[p].pc \in Making /\ loc[p].fault = "none"
      BY <1>19 DEF DupChild, At, Making, ForkMaking
    <2>2. PICK x \in UserVA : x = loc[p].va
      BY <2>1, Child
    <2>3. PICK c \in Proc \ {p} : c = loc[p].child
      BY <2>1, Child
    <2>4. env[p] = "LIVE" /\ pt[p][x] \in Pte /\ pt[p][x].frame \in Frame /\ x \in VA
      BY <2>1, Child, Layout, PteTyped DEF PageInv, LifeOK
    <2>5. Steady
      BY <2>1 DEF Steady
    <2>6. CASE x \notin SharedVA
      <3>1. PICK pte \in Pte : pte = [frame |-> pt[p][x].frame, bits |-> {"COW"}]
        BY <2>4 DEF Pte, Bit
      <3>2. pt' = [pt EXCEPT ![c][x] = pte] /\ loc' = [loc EXCEPT ![p].pc = "map_self"]
        BY <1>19, <2>2, <2>3, <2>6, <3>1, DupChildCases
      <3>3. loc'[p].pc = "map_self" /\ loc'[p].va = x /\ loc'[p].child = c
        BY <1>2, <2>2, <2>3, <3>2 DEF LocFields
      <3>4. pt'[c][x] = pte /\ "W" \notin pte.bits /\ pte.frame = pt[p][x].frame
        BY <1>3, <2>4, <3>1, <3>2
      <3>5. Excused(p, x, c, x)'
        BY <3>3, <3>4 DEF Excused
      <3> QED
        BY <1>18, <2>1, <2>4, <2>5, <2>6, <3>2, <3>4, <3>5
    <2>7. CASE x \in SharedVA
      <3>1. pt' = [pt EXCEPT ![c][x] = pt[p][x]]
        BY <1>19, <2>2, <2>3, <2>7, DupChildCases
      <3> QED
        BY <1>18, <2>1, <2>4, <2>5, <2>7, <3>1
    <2> QED
      BY <2>6, <2>7
  <1>20. CASE SpawnShare(p)
    <2>1. loc[p].pc = "sp_share" /\ loc[p].pc \in Making /\ loc[p].fault = "none"
      BY <1>20 DEF SpawnShare, At, Making, SpawnMaking
    <2>2. PICK x \in UserVA : x = loc[p].va
      BY <2>1, Child
    <2>3. PICK c \in Proc \ {p} : c = loc[p].child
      BY <2>1, Child
    <2>4. env[p] = "LIVE" /\ pt[p][x] \in Pte
      BY <2>1, Child, Layout, PteTyped DEF PageInv, LifeOK
    <2>5. Steady
      BY <2>1 DEF Steady
    <2>6. CASE x \notin SharedVA /\ pt' = pt
      BY <1>5, <2>5, <2>6
    <2>7. CASE x \in SharedVA /\ pt' = [pt EXCEPT ![c][x] = pt[p][x]]
      BY <1>18, <2>1, <2>4, <2>5, <2>7
    <2> QED
      BY <1>20, <2>2, <2>3, <2>6, <2>7, SpawnShareCases
  <1>21. CASE DupSelf(p)
    <2>1. loc[p].pc = "map_self" /\ loc[p].pc \in Making /\ loc[p].fault = "none" /\ env[p] = "LIVE"
      BY <1>21 DEF DupSelf, At, Making, ForkMaking
    <2>2. PICK x \in UserVA \ SharedVA : x = loc[p].va
      BY <2>1, Child
    <2>3. PICK pte \in Pte :
              pt' = [pt EXCEPT ![p][x] = pte] /\ "W" \notin pte.bits /\ pte.frame = pt[p][x].frame
      <3>1. pt[p][x].frame \in Frame
        BY <1>21, <2>2, DupSelfCases, Layout, PteTyped
      <3>2. [frame |-> pt[p][x].frame, bits |-> {"COW"}] \in Pte
        BY <3>1 DEF Pte, Bit
      <3> QED
        BY <1>21, <2>2, <3>2, DupSelfCases
    <2>4. x \in VA
      BY Layout
    <2>5. pt'[p][x] = pte /\ \A q \in Proc, va \in VA : q # p \/ va # x => pt'[q][va] = pt[q][va]
      BY <1>3, <2>3, <2>4
    <2>6. ASSUME NEW r \in Proc, NEW s \in Proc, NEW v \in VA, NEW w \in VA, Excused(r, v, s, w),
                 pt'[s][w] = pt[s][w], r # p \/ v # x
          PROVE  Excused(r, v, s, w)'
      <3>1. loc'[p].fault = "none" /\ loc'[p].child = loc[p].child
        BY <1>2, <1>21, <2>1, NextPageCases DEF DupSelf
      <3>2. CASE r = p
        BY <1>1, <2>1, <2>2, <2>6, <3>1, <3>2 DEF Excused
      <3>3. CASE r # p
        BY <1>1, <2>1, <2>2, <2>6, <3>1, <3>3 DEF Excused
      <3> QED
        BY <3>2, <3>3
    <2>7. \A s \in Proc, w \in VA :
            (s # p \/ w # x) /\ pt[s][w].frame = pte.frame => "W" \notin pt[s][w].bits
      BY <2>1, <2>2, <2>3, NoReason
    <2> QED
      BY <2>3, <2>4, <2>5, <2>6, <2>7, ExclusiveSlot
  <1>22. CASE SpawnMap(p)
    <2>1. loc[p].pc = "sp_map" /\ loc[p].pc \in Making /\ loc[p].fault = "none"
      BY <1>22 DEF SpawnMap, At, Making, SpawnMaking
    <2>2. PICK x \in UserVA : x = loc[p].va
      BY <2>1, Child
    <2>3. PICK c \in Proc \ {p} : c = loc[p].child
      BY <2>1, Child
    <2>4. UTEMP \in VA \ UserVA /\ x \in VA /\ UTEMP # PFTEMP /\ UTEMP \notin SharedVA
      BY Layout
    <2>5. PICK pte \in Pte : pte = pt[p][UTEMP] /\ pte.bits = {"W"} /\ pt' = [pt EXCEPT ![c][x] = pte]
      <3>1. Mapped(p, UTEMP)
        BY <2>1 DEF PreparedInv
      <3>2. pt[p][UTEMP] \in Pte /\ pt[p][UTEMP].bits = {"W"}
        BY <2>4, <3>1, PteTyped DEF PageInv, BitsOK, BitsAt
      <3> QED
        BY <1>22, <2>2, <2>3, <3>2 DEF SpawnMap
    <2>6. loc'[p].pc = "sp_unmap" /\ loc'[p].va = x /\ loc'[p].child = c
      BY <1>2, <1>22, <2>2, <2>3 DEF SpawnMap, LocFields
    <2>7. pt'[c][x] = pte /\ \A q \in Proc, va \in VA : q # c \/ va # x => pt'[q][va] = pt[q][va]
      BY <1>3, <2>4, <2>5
    <2>8. Excused(p, UTEMP, c, x)' /\ Excused(c, x, p, UTEMP)'
      BY <2>6 DEF Excused
    <2>9. ASSUME NEW s \in Proc, NEW w \in VA, pt[s][w].frame = pte.frame
          PROVE  s = p /\ w = UTEMP
      <3>1. \A q \in Proc : loc[q].pc = "sp_unmap" \/ loc[q].pc = "map_self" => loc[q].va \in UserVA
        BY DEF MakerInv, MakerOK, PlaceOK, Making, ForkMaking, SpawnMaking
      <3>2. ~Excused(p, UTEMP, s, w)
        BY <2>1, <2>4, <3>1 DEF Excused
      <3> QED
        BY <2>4, <2>5, <2>9, <3>2 DEF Exclusive
    <2>10. Steady
      BY <2>1 DEF Steady
    <2>11. \A r, s \in Proc : \A v, w \in VA :
            Excused(r, v, s, w) /\ pt'[s][w] = pt[s][w] => Excused(r, v, s, w)'
      BY <1>4, <2>10
    <2> QED
      BY <2>4, <2>7, <2>8, <2>9, <2>11, ExclusiveSlot
  <1> QED
    BY <1>7, <1>8, <1>9, <1>10, <1>11, <1>12, <1>13, <1>14, <1>15, <1>16, <1>17, <1>19, <1>20, <1>21, <1>22
    DEF StepCases

\* A step that sets no handler and does not change who lives.
LEMMA HandlerKept ==
  ASSUME Inv, NEW p \in Proc, env[p] = "LIVE", UNCHANGED <<env, upcall>>,
         \A q \in Proc \ {p} : loc'[q] = loc[q],
         \A q \in Proc : Mapped(q, UXSTACK) => pt'[q][UXSTACK] # NoPte,
         \A q \in Proc, va \in VA : "COW" \in pt'[q][va].bits =>
             \/ "COW" \in pt[q][va].bits
             \/ q = p /\ upcall[p]
             \/ q = loc[p].child /\ loc[p].pc \in ForkMaking,
         loc'[p].pc \in {"exofork"} \cup ForkMaking => upcall[p],
         loc'[p].pc \in {"upcall", "status"} => pt'[loc'[p].child][UXSTACK] # NoPte,
         loc'[p].pc = "status" => upcall[loc'[p].child],
         loc'[p].pc \in SpawnMaking => loc[p].pc \in SpawnMaking /\ loc'[p].child = loc[p].child
  PROVE  HandlerInv'
  <1>1. \A q \in Proc : HandlerOK(q)
    BY DEF Inv, HandlerInv
  <1>2. ForkMaking \cap SpawnMaking = {} /\ ForkMaking \subseteq Making /\ SpawnMaking \subseteq Making
    BY DEF ForkMaking, SpawnMaking, Making
  <1>3. HandlerOK(p)'
    <2>1. loc[p].pc \in SpawnMaking => loc[p].child \in Proc \ {p}
      BY <1>2, Child
    <2> QED
      BY <1>1, <1>2, <2>1 DEF HandlerOK, Mapped
  <1>4. ASSUME NEW q \in Proc \ {p} PROVE HandlerOK(q)'
    <2>1. loc[q].pc \in Making =>
            loc[q].child \in Proc \ {p} /\ loc[q].child # loc[p].child /\ env[q] = "LIVE"
      BY Child DEF Inv, MakerInv, MakerOK
    <2>2. env[q] = "LIVE" /\ q = loc[p].child => loc[p].pc \notin ForkMaking
      BY <1>2, Child
    <2>3. loc[q].pc \in {"upcall", "status"} => loc[q].pc \in ForkMaking
      BY DEF ForkMaking
    <2>4. loc'[q] = loc[q] /\ env'[q] = env[q] /\ upcall' = upcall
      OBVIOUS
    <2>5. \A va \in VA : "COW" \in pt'[q][va].bits => "COW" \in pt[q][va].bits \/ env[q] # "LIVE"
      BY <2>2
    <2>6. loc[q].pc \in Making =>
            /\ \A va \in VA : "COW" \in pt'[loc[q].child][va].bits => "COW" \in pt[loc[q].child][va].bits
            /\ Mapped(loc[q].child, UXSTACK) => pt'[loc[q].child][UXSTACK] # NoPte
      BY <2>1
    <2> QED
      BY <1>1, <1>2, <2>3, <2>4, <2>5, <2>6 DEF HandlerOK, Mapped
  <1> QED
    BY <1>3, <1>4 DEF HandlerInv

\* One entry set to a page that is not copy-on-write.
LEMMA HandlerSlot ==
  ASSUME Inv, NEW q \in Proc, NEW va \in VA, NEW pte \in Pte \cup {NoPte},
         pt' = [pt EXCEPT ![q][va] = pte], pte = NoPte => va # UXSTACK, "COW" \notin pte.bits
  PROVE  /\ \A r \in Proc : Mapped(r, UXSTACK) => pt'[r][UXSTACK] # NoPte
         /\ \A r \in Proc, wa \in VA : "COW" \in pt'[r][wa].bits => "COW" \in pt[r][wa].bits
  <1>3. TypeOK
    BY DEF Inv
  <1>1. /\ pt'[q][va] = pte
        /\ \A r \in Proc, wa \in VA : r # q \/ wa # va => pt'[r][wa] = pt[r][wa]
    BY <1>3 DEF TypeOK
  <1>2. UXSTACK \in VA
    BY Layout
  <1> QED
    BY <1>1, <1>2 DEF Mapped

\* A process that the step is not about, nor its child.
LEMMA HandlerOther ==
  ASSUME Inv, NEW q \in Proc, loc'[q] = loc[q], env'[q] = env[q], upcall'[q] = upcall[q],
         \A va \in VA : pt'[q][va] = pt[q][va],
         loc[q].pc \in Making =>
             /\ upcall'[loc[q].child] = upcall[loc[q].child]
             /\ \A va \in VA : pt'[loc[q].child][va] = pt[loc[q].child][va]
  PROVE  HandlerOK(q)'
  <1>1. HandlerOK(q) /\ UXSTACK \in VA
    BY Layout DEF Inv, HandlerInv
  <1>2. {"upcall", "status"} \subseteq Making /\ SpawnMaking \subseteq Making
    BY DEF Making, ForkMaking
  <1>3. pt'[q][UXSTACK] = pt[q][UXSTACK]
    BY <1>1
  <1>4. loc[q].pc \in Making => pt'[loc[q].child][UXSTACK] = pt[loc[q].child][UXSTACK]
    BY <1>1
  <1> QED
    BY <1>1, <1>2, <1>3, <1>4 DEF HandlerOK, Mapped

LEMMA NextHandlerInv ==
  ASSUME Inv, NEW p \in Proc, StepCases(p)
  PROVE  HandlerInv'
  <1>1. \A q \in Proc \ {p} : loc'[q] = loc[q]
    BY OnlyActor
  <1>2. loc[p] \in LocFields /\ loc \in [Proc -> LocFields]
    BY LocTyped DEF Inv
  <1>3. pt \in [Proc -> [VA -> Pte \cup {NoPte}]] /\ env \in [Proc -> {"NONE", "NEW", "LIVE", "DEAD"}]
        /\ upcall \in [Proc -> BOOLEAN]
    BY DEF Inv, TypeOK
  <1>4. \A q \in Proc : HandlerOK(q)
    BY DEF Inv, HandlerInv
  <1>5. \A pc \in Making : pc \in ForkMaking <=> pc \notin SpawnMaking
    BY DEF Making, ForkMaking, SpawnMaking
  <1> DEFINE PagesKept ==
        /\ \A q \in Proc : Mapped(q, UXSTACK) => pt'[q][UXSTACK] # NoPte
        /\ \A q \in Proc, va \in VA : "COW" \in pt'[q][va].bits =>
             \/ "COW" \in pt[q][va].bits
             \/ q = p /\ upcall[p]
             \/ q = loc[p].child /\ loc[p].pc \in ForkMaking
  <1>6. ASSUME UNCHANGED pt PROVE PagesKept
    BY <1>6 DEF Mapped
  <1>7. ASSUME NEW q \in Proc, NEW va \in VA, NEW pte \in Pte \cup {NoPte},
               pt' = [pt EXCEPT ![q][va] = pte], pte = NoPte => va # UXSTACK, "COW" \notin pte.bits
        PROVE  PagesKept
    BY <1>7, HandlerSlot
  <1>8. ASSUME env[p] = "LIVE", UNCHANGED <<env, upcall>>, PagesKept,
               loc'[p].pc = loc[p].pc, loc'[p].child = loc[p].child
        PROVE  HandlerInv'
    <2>1. /\ loc'[p].pc \in {"exofork"} \cup ForkMaking => upcall[p]
          /\ loc'[p].pc \in {"upcall", "status"} => pt'[loc'[p].child][UXSTACK] # NoPte
          /\ loc'[p].pc = "status" => upcall[loc'[p].child]
      <3>1. loc[p].pc \in {"upcall", "status"} => loc[p].child \in Proc
        BY Child DEF Making, ForkMaking
      <3> QED
        BY <1>4, <1>8, <3>1 DEF HandlerOK
    <2> QED
      BY <1>1, <1>8, <2>1, HandlerKept
  <1> HIDE DEF PagesKept
  <1>9. ASSUME NEW va \in UserVA, NEW v \in Value, Writes(p, va, v) PROVE HandlerInv'
    <2>1. UNCHANGED <<env, pt, upcall>> /\ env[p] = "LIVE"
      BY <1>9 DEF Writes, StoreFault, StoreDone
    <2>2. loc'[p].pc = loc[p].pc /\ loc'[p].child = loc[p].child
      BY <1>2, <1>9 DEF Writes, StoreFault, StoreDone, LocFields
    <2> QED
      BY <1>6, <1>8, <2>1, <2>2
  <1>10. CASE Panic
    BY <1>4, <1>10 DEF Panic, HandlerInv, HandlerOK, Mapped
  <1>11. CASE (Free # {} /\ FaultAlloc(p)) \/ FaultCopy(p) \/ FaultMap(p) \/ FaultUnmap(p) \/ WriteAgain(p)
    <2>1. UNCHANGED <<env, upcall>> /\ env[p] = "LIVE"
      BY <1>11 DEF FaultAlloc, FaultCopy, FaultMap, FaultUnmap, WriteAgain, AtFault
    <2>2. loc'[p].pc = loc[p].pc /\ loc'[p].child = loc[p].child
      BY <1>2, <1>11 DEF FaultAlloc, FaultCopy, FaultMap, FaultUnmap, WriteAgain, LocFields
    <2>3. PFTEMP \in VA /\ PFTEMP # UXSTACK /\ NoPte.bits = {} /\ \A f \in Frame : [frame |-> f, bits |-> {"W"}] \in Pte
      BY Layout, PteTyped
    <2>4. PagesKept
      <3>1. CASE Free # {} /\ FaultAlloc(p)
        BY <1>7, <2>3, <3>1, NewFrameFree, PteTyped DEF FaultAlloc, PageAlloc
      <3>2. CASE FaultCopy(p) \/ WriteAgain(p)
        BY <1>6, <3>2 DEF FaultCopy, WriteAgain
      <3>3. CASE FaultMap(p)
        <4>1. loc[p].fva \in VA /\ pt[p][PFTEMP].frame \in Frame
          BY <3>3, FaultPages DEF FaultMap, AtFault
        <4>2. PICK pte \in Pte : pte = [frame |-> pt[p][PFTEMP].frame, bits |-> {"W"}]
          BY <2>3, <4>1
        <4>3. pt' = [pt EXCEPT ![p][loc[p].fva] = pte] /\ pte # NoPte /\ "COW" \notin pte.bits
          BY <3>3, <4>2, PteTyped DEF FaultMap
        <4> QED
          BY <1>7, <4>1, <4>3
      <3>4. CASE FaultUnmap(p)
        BY <1>7, <2>3, <3>4 DEF FaultUnmap
      <3> QED
        BY <1>11, <3>1, <3>2, <3>3, <3>4
    <2> QED
      BY <1>8, <2>1, <2>2, <2>4
  <1>12. CASE Fork(p) \/ Spawn(p)
    <2>1. UNCHANGED <<env, pt, upcall>> /\ env[p] = "LIVE"
      BY <1>12 DEF Fork, Spawn, At
    <2>2. loc'[p].pc \in {"exofork", "handler", "sp_exofork"} /\ (loc'[p].pc = "exofork" => upcall[p])
      BY <1>2, <1>12 DEF Fork, Spawn, LocFields
    <2> QED
      BY <1>1, <1>6, <2>1, <2>2, HandlerKept DEF PagesKept, ForkMaking, SpawnMaking
  <1>13. CASE DupChild(p) \/ DupSelf(p)
    <2>1. /\ UNCHANGED <<env, upcall>> /\ env[p] = "LIVE" /\ loc[p].pc \in {"map_child", "map_self"}
          /\ loc[p].pc \in Making
      BY <1>13 DEF DupChild, DupSelf, At, Making, ForkMaking
    <2>2. upcall[p] /\ loc[p].pc \in ForkMaking
      BY <1>4, <2>1 DEF HandlerOK, ForkMaking
    <2>3. loc'[p].pc \in {"map_self", "map_child", "xstack"}
      <3>1. CASE loc' = [loc EXCEPT ![p].pc = "map_self"]
        BY <1>2, <3>1 DEF LocFields
      <3>2. CASE loc' = [loc EXCEPT ![p] = NextPage(p)]
        <4>1. loc'[p] = NextPage(p)
          BY <1>2, <3>2
        <4> QED
          BY <2>1, <4>1, NextPageCases
      <3> QED
        BY <1>13, <3>1, <3>2, DupChildCases DEF DupSelf
    <2>4. PICK q \in {p, loc[p].child}, va \in VA, pte \in Pte : pt' = [pt EXCEPT ![q][va] = pte]
      <3>1. loc[p].va \in UserVA /\ loc[p].va \in VA
        BY <2>1, Child, Layout
      <3>2. pt[p][loc[p].va] \in Pte /\ pt[p][loc[p].va].frame \in Frame
        BY <2>1, <3>1, PteTyped DEF Inv, PageInv, LifeOK
      <3>3. [frame |-> pt[p][loc[p].va].frame, bits |-> {"COW"}] \in Pte
        BY <3>2 DEF Pte, Bit
      <3> QED
        BY <1>13, <3>1, <3>2, <3>3, DupChildCases, DupSelfCases
    <2>5. /\ q \in Proc /\ pte # NoPte /\ pt'[q][va] = pte
          /\ \A r \in Proc, wa \in VA : r # q \/ wa # va => pt'[r][wa] = pt[r][wa]
      BY <1>3, <2>1, <2>4, Child, PteTyped
    <2>6. PagesKept
      BY <2>2, <2>4, <2>5, Layout DEF PagesKept, Mapped
    <2> QED
      BY <1>1, <2>1, <2>2, <2>3, <2>6, HandlerKept DEF PagesKept, SpawnMaking
  <1>14. ASSUME env[p] = "LIVE", NEW q \in Proc, q # p, loc[q].pc \in Making
         PROVE  loc[q].child \in Proc \ {p} /\ loc[q].child # loc[p].child
    <2>1. loc[q].child \in Proc /\ env[loc[q].child] = "NEW" /\ loc[q].child # NoProc
      BY <1>14, Child, FirstAssumption
    <2> QED
      BY <1>14, <2>1 DEF Inv, MakerInv, MakerOK
  <1>15. CASE Dies(p)
    <2>1. /\ env[p] = "LIVE" /\ env'[p] = "DEAD" /\ ~upcall'[p] /\ loc'[p] = User
          /\ \A q \in Proc \ {p} : env'[q] = env[q] /\ upcall'[q] = upcall[q] /\ pt'[q] = pt[q]
      BY <1>2, <1>3, <1>15 DEF Dies
    <2>2. HandlerOK(p)'
      BY <2>1 DEF HandlerOK, User, ForkMaking, SpawnMaking
    <2>3. ASSUME NEW q \in Proc \ {p} PROVE HandlerOK(q)'
      BY <1>1, <1>14, <2>1, HandlerOther
    <2> QED
      BY <2>2, <2>3 DEF HandlerInv
  <1>16. CASE Free # {} /\ SetHandler(p)
    <2>1. /\ UNCHANGED env /\ env[p] = "LIVE" /\ UXSTACK \in VA /\ upcall' = [upcall EXCEPT ![p] = TRUE]
          /\ pt' = [pt EXCEPT ![p][UXSTACK] = [frame |-> NewFrame, bits |-> {"W"}]]
      BY <1>16, Layout DEF SetHandler, At, PageAlloc
    <2>2. [frame |-> NewFrame, bits |-> {"W"}] \in Pte
      BY <1>16, NewFrameFree, PteTyped
    <2>3. /\ upcall'[p] /\ pt'[p][UXSTACK] # NoPte
          /\ \A q \in Proc \ {p} : upcall'[q] = upcall[q] /\ pt'[q] = pt[q]
      BY <1>3, <2>1, <2>2, PteTyped
    <2>4. loc'[p].pc = "exofork"
      BY <1>2, <1>16 DEF SetHandler, LocFields
    <2>5. HandlerOK(p)'
      BY <2>1, <2>3, <2>4 DEF HandlerOK, Mapped, SpawnMaking
    <2>6. ASSUME NEW q \in Proc \ {p} PROVE HandlerOK(q)'
      BY <1>1, <1>14, <2>1, <2>3, HandlerOther
    <2> QED
      BY <2>5, <2>6 DEF HandlerInv
  <1>17. CASE Free # {} /\ AllocXstack(p)
    <2>1. /\ UNCHANGED <<env, upcall>> /\ env[p] = "LIVE" /\ UXSTACK \in VA
          /\ loc[p].pc = "xstack" /\ loc[p].pc \in Making /\ loc[p].pc \in ForkMaking
          /\ pt' = [pt EXCEPT ![loc[p].child][UXSTACK] = [frame |-> NewFrame, bits |-> {"W"}]]
      BY <1>17, Layout DEF AllocXstack, At, PageAlloc, Making, ForkMaking
    <2>2. PICK c \in Proc : c = loc[p].child
      BY <2>1, Child
    <2>3. PICK pte \in Pte : pte = [frame |-> NewFrame, bits |-> {"W"}] /\ pte # NoPte /\ "COW" \notin pte.bits
      <3>1. [frame |-> NewFrame, bits |-> {"W"}] \in Pte
        BY <1>17, NewFrameFree, PteTyped
      <3> QED
        BY <3>1, PteTyped
    <2>4. pt' = [pt EXCEPT ![c][UXSTACK] = pte] /\ pt'[c][UXSTACK] = pte
      BY <1>3, <2>1, <2>2, <2>3
    <2>5. PagesKept
      BY <1>7, <2>1, <2>3, <2>4
    <2>6. loc'[p].pc = "upcall" /\ loc'[p].child = c
      BY <1>2, <1>17, <2>2 DEF AllocXstack, LocFields
    <2>7. upcall[p]
      BY <1>4, <2>1 DEF HandlerOK
    <2> QED
      BY <1>1, <2>1, <2>3, <2>4, <2>5, <2>6, <2>7, HandlerKept DEF PagesKept, SpawnMaking
  <1>18. CASE SetUpcall(p)
    <2>1. /\ UNCHANGED <<env, pt>> /\ env[p] = "LIVE" /\ upcall' = [upcall EXCEPT ![loc[p].child] = TRUE]
          /\ loc[p].pc = "upcall" /\ loc[p].pc \in Making /\ loc[p].pc \in ForkMaking
      BY <1>18 DEF SetUpcall, At, Making, ForkMaking
    <2>2. PICK c \in Proc \ {p} : c = loc[p].child /\ env[c] = "NEW" /\ loc[c] = User
      BY <2>1, Child
    <2>3. upcall'[c] /\ \A q \in Proc \ {c} : upcall'[q] = upcall[q]
      BY <1>3, <2>1, <2>2
    <2>4. loc'[p].pc = "status" /\ loc'[p].child = c
      BY <1>2, <1>18, <2>2 DEF SetUpcall, LocFields
    <2>5. upcall[p] /\ Mapped(c, UXSTACK)
      BY <1>4, <2>1, <2>2 DEF HandlerOK
    <2>6. HandlerOK(p)'
      <3>1. HandlerOK(p)
        BY <1>4
      <3>2. upcall'[p] = upcall[p]
        BY <2>3
      <3> QED
        BY <2>1, <2>3, <2>4, <2>5, <3>1, <3>2 DEF HandlerOK, Mapped, SpawnMaking
    <2>7. HandlerOK(c)'
      BY <1>1, <2>1, <2>2 DEF HandlerOK, User, ForkMaking, SpawnMaking
    <2>8. ASSUME NEW q \in Proc \ {p, c} PROVE HandlerOK(q)'
      <3>1. loc[q].pc \in Making => upcall'[loc[q].child] = upcall[loc[q].child]
        BY <1>14, <2>1, <2>2, <2>3
      <3> QED
        BY <1>1, <2>1, <2>3, <3>1, HandlerOther
    <2> QED
      BY <2>6, <2>7, <2>8 DEF HandlerInv
  <1>19. CASE StartChild(p)
    <2>1. /\ UNCHANGED <<pt, upcall>> /\ env[p] = "LIVE" /\ env' = [env EXCEPT ![loc[p].child] = "LIVE"]
          /\ loc[p].pc \in {"status", "sp_status"} /\ loc[p].pc \in Making /\ loc' = [loc EXCEPT ![p] = User]
      BY <1>19 DEF StartChild, At, Making, ForkMaking, SpawnMaking
    <2>2. PICK c \in Proc \ {p} : c = loc[p].child /\ env[c] = "NEW" /\ loc[c] = User
      BY <2>1, Child
    <2>3. env'[c] = "LIVE" /\ \A q \in Proc \ {c} : env'[q] = env[q]
      BY <1>3, <2>1, <2>2
    <2>4. loc'[p] = User
      BY <1>2, <2>1
    <2>5. /\ upcall[c] => Mapped(c, UXSTACK)
          /\ \A va \in VA : "COW" \in pt[c][va].bits => upcall[c]
      <3>1. CASE loc[p].pc = "status"
        BY <1>4, <2>2, <3>1 DEF HandlerOK
      <3>2. CASE loc[p].pc = "sp_status"
        BY <1>4, <2>2, <3>2 DEF HandlerOK, SpawnMaking
      <3> QED
        BY <2>1, <3>1, <3>2
    <2>6. HandlerOK(p)'
      <3>1. HandlerOK(p)
        BY <1>4
      <3> QED
        BY <2>1, <2>3, <2>4, <3>1, SMTT(30) DEF HandlerOK, Mapped, User, ForkMaking, SpawnMaking
    <2>7. HandlerOK(c)'
      BY <1>1, <2>1, <2>2, <2>3, <2>5, SMTT(30) DEF HandlerOK, Mapped, User, ForkMaking, SpawnMaking
    <2>8. ASSUME NEW q \in Proc \ {p, c} PROVE HandlerOK(q)'
      BY <1>1, <2>1, <2>3, HandlerOther
    <2> QED
      BY <2>6, <2>7, <2>8 DEF HandlerInv
  <1>20. ASSUME NEW c \in Proc, Exofork(p, c) \/ SpawnExofork(p, c) PROVE HandlerInv'
    <2>1. /\ UNCHANGED <<pt, upcall>> /\ env[p] = "LIVE" /\ env[c] = "NONE"
          /\ env' = [env EXCEPT ![c] = "NEW"] /\ loc[p].pc \in {"exofork", "sp_exofork"}
          /\ loc[p].pc = "exofork" \/ SpawnExofork(p, c)
      BY <1>20 DEF Exofork, SpawnExofork, At
    <2>2. env'[c] = "NEW" /\ \A q \in Proc \ {c} : env'[q] = env[q]
      BY <1>3, <2>1
    <2>3. /\ loc'[p].child = c
          /\ \/ loc'[p].pc = "map_child" /\ loc[p].pc = "exofork"
             \/ loc'[p].pc = "sp_stack"
      BY <1>2, <1>20 DEF Exofork, SpawnExofork, LocFields, At
    <2>4. loc[c] = User /\ ~upcall[c] /\ \A va \in VA : pt[c][va] = NoPte
      BY <1>4, <2>1 DEF HandlerOK, Inv, MakerInv, MakerOK, PageInv, LifeOK, Mapped
    <2>5. HandlerOK(p)'
      <3>1. HandlerOK(p) /\ NoPte.bits = {}
        BY <1>4, PteTyped
      <3>2. env'[p] = "LIVE"
        BY <2>1, <2>2
      <3>3. \A va \in VA : "COW" \notin pt[c][va].bits
        BY <2>4, <3>1
      <3> QED
        BY <2>1, <2>3, <2>4, <3>1, <3>2, <3>3 DEF HandlerOK, Mapped, ForkMaking, SpawnMaking
    <2>6. HandlerOK(c)'
      BY <1>1, <2>1, <2>2, <2>4 DEF HandlerOK, Mapped, User, ForkMaking, SpawnMaking
    <2>7. ASSUME NEW q \in Proc \ {p, c} PROVE HandlerOK(q)'
      BY <1>1, <2>1, <2>2, HandlerOther
    <2> QED
      BY <2>5, <2>6, <2>7 DEF HandlerInv
  <1>21. ASSUME NEW u \in Pte \cup {NoPte}, SpawnFail(p, u), loc[p].pc \in Making, "COW" \notin u.bits
         PROVE  HandlerInv'
    <2>1. PICK c \in Proc \ {p} : c = loc[p].child /\ env[c] = "NEW" /\ loc[c] = User
      BY <1>21, Child
    <2>2. env[p] = "LIVE" /\ UTEMP \in VA /\ UTEMP # UXSTACK
      BY <1>21, Child, Layout
    <2>3. /\ env' = [env EXCEPT ![c] = "DEAD"] /\ loc' = [loc EXCEPT ![p] = User] /\ UNCHANGED upcall
          /\ pt' = [pt EXCEPT ![c] = [va \in VA |-> NoPte], ![p][UTEMP] = u]
      BY <1>21, <2>1 DEF SpawnFail
    <2>4. /\ pt'[p][UTEMP] = u
          /\ \A q \in Proc, va \in VA : q # c /\ (q # p \/ va # UTEMP) => pt'[q][va] = pt[q][va]
      BY <1>3, <2>1, <2>2, <2>3
    <2>5. env'[c] = "DEAD" /\ (\A q \in Proc \ {c} : env'[q] = env[q]) /\ loc'[p] = User
      BY <1>2, <1>3, <2>1, <2>3
    <2>6. HandlerOK(p)'
      <3>1. HandlerOK(p) /\ pt'[p][UXSTACK] = pt[p][UXSTACK]
        BY <1>4, <2>2, <2>4, Layout
      <3>2. \A va \in VA : "COW" \in pt'[p][va].bits => "COW" \in pt[p][va].bits
        BY <1>21, <2>4
      <3>3. env'[p] = env[p] /\ upcall' = upcall
        BY <2>3, <2>5
      <3>4. loc'[p].pc = "user"
        BY <2>5 DEF User
      <3> QED
        BY <3>1, <3>2, <3>3, <3>4 DEF HandlerOK, Mapped, ForkMaking, SpawnMaking
    <2>7. HandlerOK(c)'
      BY <1>1, <2>1, <2>5 DEF HandlerOK, User, ForkMaking, SpawnMaking
    <2>8. ASSUME NEW q \in Proc \ {p, c} PROVE HandlerOK(q)'
      <3>1. env'[q] = env[q] /\ upcall' = upcall /\ \A va \in VA : pt'[q][va] = pt[q][va]
        BY <2>3, <2>4, <2>5
      <3>2. loc[q].pc \in Making => \A va \in VA : pt'[loc[q].child][va] = pt[loc[q].child][va]
        BY <1>14, <2>1, <2>2, <2>4
      <3> QED
        BY <1>1, <3>1, <3>2, HandlerOther
    <2> QED
      BY <2>6, <2>7, <2>8 DEF HandlerInv
  <1>22. ASSUME env[p] = "LIVE", UNCHANGED <<env, upcall>>, PagesKept,
                loc[p].pc \in SpawnMaking, loc'[p].pc \in SpawnMaking, loc'[p].child = loc[p].child
         PROVE  HandlerInv'
    <2>1. loc'[p].pc \notin {"exofork", "upcall", "status"} \cup ForkMaking
      BY <1>22 DEF SpawnMaking, ForkMaking
    <2> QED
      BY <1>1, <1>22, <2>1, HandlerKept DEF PagesKept
  <1>23. CASE SpawnFill(p) \/ SpawnStack(p)
    <2>1. /\ loc[p].pc \in {"sp_stack", "sp_fill"} /\ loc[p].pc \in Making /\ loc[p].pc \in SpawnMaking
          /\ env[p] = "LIVE" /\ UTEMP \in VA /\ UTEMP # UXSTACK
      BY <1>23, Layout DEF SpawnFill, SpawnStack, At, Making, SpawnMaking
    <2>2. Free # {} => [frame |-> NewFrame, bits |-> {"W"}] \in Pte
      BY NewFrameFree, PteTyped
    <2>3. pt[p][UTEMP] \in Pte \cup {NoPte} /\ "COW" \notin pt[p][UTEMP].bits
      BY <2>1, Layout, PteTyped DEF Inv, PageInv, BitsOK, BitsAt
    <2>4. CASE Free # {} /\ pt' = [pt EXCEPT ![p][UTEMP] = [frame |-> NewFrame, bits |-> {"W"}]]
               /\ loc' = [loc EXCEPT ![p].pc = "sp_map"] /\ UNCHANGED <<env, upcall>>
      <3>1. PagesKept
        <4>1. PICK pte \in Pte : pte = [frame |-> NewFrame, bits |-> {"W"}] /\ pte # NoPte /\ "COW" \notin pte.bits
          BY <2>2, <2>4, PteTyped
        <4>2. pt' = [pt EXCEPT ![p][UTEMP] = pte]
          BY <2>4, <4>1
        <4> QED
          BY <1>7, <2>1, <4>1, <4>2
      <3>2. loc'[p].pc = "sp_map" /\ loc'[p].child = loc[p].child
        BY <1>2, <2>4 DEF LocFields
      <3>3. loc'[p].pc \in SpawnMaking
        BY <3>2 DEF SpawnMaking
      <3> QED
        BY <1>22, <2>1, <2>4, <3>1, <3>2, <3>3
    <2>5. CASE loc' = [loc EXCEPT ![p] = User] /\ UNCHANGED <<env, pt, upcall>>
      <3>1. loc'[p].pc = "user"
        BY <1>2, <2>5 DEF User
      <3> QED
        BY <1>1, <1>6, <2>1, <2>5, <3>1, HandlerKept DEF PagesKept, ForkMaking, SpawnMaking
    <2>6. Free # {} => "COW" \notin [frame |-> NewFrame, bits |-> {"W"}].bits
      OBVIOUS
    <2> QED
      BY <1>21, <1>23, <2>1, <2>2, <2>3, <2>4, <2>5, <2>6 DEF SpawnFill, SpawnStack
  <1>24. CASE SpawnMap(p)
    <2>1. /\ loc[p].pc = "sp_map" /\ loc[p].pc \in Making /\ loc[p].pc \in SpawnMaking
          /\ env[p] = "LIVE" /\ UNCHANGED <<env, upcall>> /\ UTEMP \in VA
      BY <1>24, Layout DEF SpawnMap, At, Making, SpawnMaking
    <2>2. PICK x \in UserVA : x = loc[p].va
      BY <2>1, Child
    <2>3. PICK c \in Proc : c = loc[p].child
      BY <2>1, Child
    <2>4. x \in VA /\ pt' = [pt EXCEPT ![c][x] = pt[p][UTEMP]] /\ "COW" \notin pt[p][UTEMP].bits
          /\ pt[p][UTEMP] \in Pte \cup {NoPte} /\ pt[p][UTEMP] # NoPte
      <3>1. Mapped(p, UTEMP)
        BY <2>1 DEF Inv, PreparedInv
      <3> QED
        BY <1>24, <2>1, <2>2, <2>3, <3>1, Layout, PteTyped DEF SpawnMap, Inv, PageInv, BitsOK, BitsAt, Mapped
    <2>5. PagesKept
      BY <1>7, <2>4
    <2>6. loc'[p].pc \in SpawnMaking /\ loc'[p].child = loc[p].child
      BY <1>2, <1>24 DEF SpawnMap, LocFields, SpawnMaking
    <2> QED
      BY <1>22, <2>1, <2>5, <2>6
  <1>25. CASE SpawnUnmap(p)
    <2>1. /\ loc[p].pc = "sp_unmap" /\ loc[p].pc \in SpawnMaking /\ pt' = [pt EXCEPT ![p][UTEMP] = NoPte]
          /\ env[p] = "LIVE" /\ UNCHANGED <<env, upcall>> /\ UTEMP \in VA /\ UTEMP # UXSTACK
      BY <1>25, Layout DEF SpawnUnmap, At, SpawnMaking
    <2>2. PagesKept
      BY <1>7, <2>1, PteTyped
    <2>3. loc'[p].pc \in SpawnMaking /\ loc'[p].child = loc[p].child
      BY <1>2, <1>25 DEF SpawnUnmap, LocFields, SpawnMaking
    <2> QED
      BY <1>22, <2>1, <2>2, <2>3
  <1>26. CASE SpawnShare(p)
    <2>1. /\ loc[p].pc = "sp_share" /\ loc[p].pc \in Making /\ loc[p].pc \in SpawnMaking
          /\ env[p] = "LIVE" /\ UNCHANGED <<env, upcall>>
      BY <1>26 DEF SpawnShare, At, Making, SpawnMaking
    <2>2. PICK x \in UserVA : x = loc[p].va
      BY <2>1, Child
    <2>3. PICK c \in Proc : c = loc[p].child
      BY <2>1, Child
    <2>4. PagesKept
      <3>1. CASE x \in SharedVA /\ Mapped(p, x) /\ pt' = [pt EXCEPT ![c][x] = pt[p][x]]
        <4>1. x \in VA /\ pt[p][x] \in Pte \cup {NoPte} /\ pt[p][x] # NoPte /\ "COW" \notin pt[p][x].bits
          BY <3>1, Layout, PteTyped DEF Inv, PageInv, BitsOK, BitsAt, Mapped
        <4> QED
          BY <1>7, <3>1, <4>1
      <3> QED
        BY <1>6, <1>26, <2>2, <2>3, <3>1, SpawnShareCases
    <2>5. loc'[p].child = loc[p].child /\ loc'[p].pc \in {"sp_share", "sp_status"}
      BY <1>2, <1>26, <2>1 DEF SpawnShare, LocFields
    <2> QED
      BY <1>22, <2>1, <2>4, <2>5 DEF SpawnMaking
  <1> QED
    BY <1>9, <1>10, <1>11, <1>12, <1>13, <1>15, <1>16, <1>17, <1>18, <1>19, <1>20, <1>23, <1>24, <1>25, <1>26
    DEF StepCases

\* The page tables that a step of p changes.
LEMMA OnlyTables ==
  ASSUME Inv, NEW p \in Proc, StepCases(p), NEW q \in Proc, q # p, q # loc[p].child, NEW va \in VA
  PROVE  pt'[q][va] = pt[q][va]
  <1>1. pt \in [Proc -> [VA -> Pte \cup {NoPte}]]
    BY DEF Inv, TypeOK
  <1>2. ASSUME NEW r \in Proc, NEW x \in VA, NEW pte, pt' = [pt EXCEPT ![r][x] = pte], r \in {p, loc[p].child}
        PROVE  pt'[q][va] = pt[q][va]
    BY <1>1, <1>2
  <1>3. UTEMP \in VA /\ PFTEMP \in VA /\ UXSTACK \in VA /\ loc[p].fva \in VA
    BY Layout, LocTyped DEF Inv, LocFields
  <1>4. loc[p].pc \in Making => loc[p].child \in Proc /\ loc[p].va \in VA
    BY Child, Layout
  <1>5. CASE \E x \in UserVA, v \in Value : Writes(p, x, v)
    BY <1>5 DEF Writes, StoreFault, StoreDone
  <1>6. CASE Dies(p) \/ Panic \/ (Free # {} /\ (FaultAlloc(p) \/ SetHandler(p)))
    BY <1>1, <1>2, <1>3, <1>6 DEF Dies, Panic, FaultAlloc, SetHandler, PageAlloc
  <1>7. CASE Free # {} /\ AllocXstack(p)
    BY <1>2, <1>3, <1>4, <1>7, SMTT(30) DEF AllocXstack, PageAlloc, At, Making, ForkMaking
  <1>8. CASE SpawnFill(p) \/ SpawnStack(p)
    BY <1>1, <1>3, <1>8 DEF SpawnFill, SpawnStack, SpawnFail
  <1>9. CASE FaultCopy(p) \/ FaultMap(p) \/ FaultUnmap(p) \/ WriteAgain(p)
    BY <1>2, <1>3, <1>9 DEF FaultCopy, FaultMap, FaultUnmap, WriteAgain
  <1>10. CASE Fork(p) \/ SetUpcall(p) \/ StartChild(p) \/ Spawn(p)
              \/ \E c \in Proc : Exofork(p, c) \/ SpawnExofork(p, c)
    BY <1>10 DEF Fork, SetUpcall, StartChild, Spawn, Exofork, SpawnExofork
  <1>11. CASE DupChild(p) \/ DupSelf(p)
    <2>1. loc[p].pc \in Making
      BY <1>11 DEF DupChild, DupSelf, At, Making, ForkMaking
    <2>2. \E r \in {p, loc[p].child}, pte \in {pt[p][loc[p].va], [frame |-> pt[p][loc[p].va].frame, bits |-> {"COW"}]} :
              pt' = [pt EXCEPT ![r][loc[p].va] = pte]
      BY <1>11, DupChildCases, DupSelfCases
    <2> QED
      BY <1>2, <1>4, <2>1, <2>2
  <1>12. CASE SpawnMap(p) \/ SpawnUnmap(p) \/ SpawnShare(p)
    <2>1. loc[p].pc \in Making
      BY <1>12 DEF SpawnMap, SpawnUnmap, SpawnShare, At, Making, SpawnMaking
    <2> QED
      BY <1>2, <1>3, <1>4, <1>12, <2>1 DEF SpawnMap, SpawnUnmap, SpawnShare
  <1> QED
    BY <1>5, <1>6, <1>7, <1>8, <1>9, <1>10, <1>11, <1>12 DEF StepCases

\* What a step of p writes: a page that is mapped nowhere yet, one that p may
\* write, or the page of its fault handler.
Written(p, f) ==
    \/ \A q \in Proc, va \in VA : pt[q][va].frame # f
    \/ \E va \in UserVA \cup {PFTEMP} : "W" \in pt[p][va].bits /\ pt[p][va].frame = f

LEMMA OnlyWritten ==
  ASSUME Inv, NEW p \in Proc, StepCases(p)
  PROVE  UNCHANGED mem \/ \E f \in Frame, v \in Value : mem' = [mem EXCEPT ![f] = v] /\ Written(p, f)
  <1>1. mem \in [Frame -> Value] /\ Zero \in Value /\ ArgValue \in Value /\ FileValue \in [Segment -> Value]
    BY ValueAssumption DEF Inv, TypeOK
  <1>2. Free # {} => NewFrame \in Frame /\ Written(p, NewFrame)
    BY NewFrameFree DEF Written
  <1>3. ASSUME NEW va \in UserVA, NEW v \in Value, StoreDone(p, va, v), env[p] = "LIVE"
        PROVE  pt[p][va].frame \in Frame /\ Written(p, pt[p][va].frame)
    BY <1>3, Layout, PteTyped DEF StoreDone, Written, Inv, PageInv, LifeOK
  <1>4. CASE \E va \in UserVA, v \in Value : Writes(p, va, v)
    BY <1>3, <1>4 DEF Writes, StoreFault, StoreDone
  <1>5. CASE Dies(p) \/ Panic
    BY <1>5 DEF Dies, Panic
  <1>6. CASE Free # {} /\ (FaultAlloc(p) \/ SetHandler(p) \/ AllocXstack(p))
    BY <1>1, <1>2, <1>6 DEF FaultAlloc, SetHandler, AllocXstack, PageAlloc
  <1>7. CASE SpawnFill(p) \/ SpawnStack(p)
    <2>1. loc[p].pc = "sp_fill" => FileValue[loc[p].va] \in Value
      BY <1>1 DEF Inv, MakerInv, MakerOK, PlaceOK
    <2> QED
      BY <1>1, <1>2, <1>7, <2>1 DEF SpawnFill, SpawnStack, At
  <1>8. CASE FaultCopy(p)
    <2>1. /\ pt[p][PFTEMP].frame \in Frame /\ pt[p][loc[p].fva].frame \in Frame
          /\ "W" \in pt[p][PFTEMP].bits
      BY <1>8, FaultPages DEF FaultCopy, AtFault
    <2>2. Written(p, pt[p][PFTEMP].frame)
      BY <2>1, SMTT(30) DEF Written
    <2> QED
      BY <1>1, <1>8, <2>1, <2>2 DEF FaultCopy
  <1>9. CASE WriteAgain(p)
    <2>1. /\ pt[p][loc[p].fva].frame \in Frame /\ loc[p].fva \in UserVA /\ loc[p].fval \in Value
          /\ "W" \in pt[p][loc[p].fva].bits
      BY <1>9, FaultPages, LocTyped DEF WriteAgain, AtFault, Inv, FaultInv, FaultOK, LocFields
    <2>2. Written(p, pt[p][loc[p].fva].frame)
      BY <2>1 DEF Written
    <2> QED
      BY <1>9, <2>1, <2>2 DEF WriteAgain
  <1>10. CASE FaultMap(p) \/ FaultUnmap(p) \/ Fork(p) \/ DupChild(p) \/ DupSelf(p) \/ SetUpcall(p) \/ StartChild(p)
    BY <1>10, SMTT(30) DEF FaultMap, FaultUnmap, Fork, DupChild, DupSelf, SetUpcall, StartChild
  <1>11. CASE Spawn(p) \/ SpawnMap(p) \/ SpawnUnmap(p) \/ SpawnShare(p)
              \/ \E c \in Proc : Exofork(p, c) \/ SpawnExofork(p, c)
    BY <1>11 DEF Spawn, SpawnMap, SpawnUnmap, SpawnShare, Exofork, SpawnExofork
  <1> QED
    BY <1>4, <1>5, <1>6, <1>7, <1>8, <1>9, <1>10, <1>11 DEF StepCases

\* Others do not write what a fault handler has prepared, nor what spawn has.
LEMMA HandlerPagesSafe ==
  ASSUME Inv, NEW p \in Proc, StepCases(p), NEW q \in Proc \ {p}, loc[q].fault # "none",
         NEW va \in {PFTEMP, loc[q].fva}, Mapped(q, va)
  PROVE  mem'[pt[q][va].frame] = mem[pt[q][va].frame]
  <1>1. va \in VA /\ va # UTEMP /\ va \notin SharedVA
    <2>1. loc[q].fva \in UserVA /\ loc[q].fva \in VA /\ loc[q].fva \notin SharedVA
      BY FaultPages DEF Inv, FaultInv, FaultOK
    <2> QED
      BY <2>1, Layout
  <1>2. \A r \in Proc : loc[r].child # q
    <2>1. env[q] = "LIVE" /\ q # NoProc
      BY FaultPages, FirstAssumption
    <2> QED
      BY <2>1 DEF Inv, MakerInv, MakerOK
  <1>3. ASSUME NEW x \in VA, "W" \in pt[p][x].bits PROVE pt[q][va].frame # pt[p][x].frame
    <2>1. ~Excused(p, x, q, va)
      BY <1>1, <1>2 DEF Excused
    <2> QED
      BY <1>1, <1>3, <2>1 DEF Inv, Exclusive
  <1>4. \A f \in Frame : Written(p, f) => pt[q][va].frame # f
    BY <1>1, <1>3, Layout DEF Written
  <1>5. mem \in [Frame -> Value] /\ pt[q][va].frame \in Frame
    BY <1>1, PteTyped DEF Inv, TypeOK
  <1> QED
    BY <1>4, <1>5, OnlyWritten

LEMMA PreparedSafe ==
  ASSUME Inv, NEW p \in Proc, StepCases(p), NEW q \in Proc, loc[q].pc = "sp_map"
  PROVE  mem'[pt[q][UTEMP].frame] = mem[pt[q][UTEMP].frame]
  <1>1. /\ UTEMP \in VA \ UserVA /\ UTEMP # PFTEMP /\ UTEMP \notin SharedVA
        /\ UserVA \cup {PFTEMP} \subseteq VA
    BY Layout
  <1>2. Mapped(q, UTEMP) /\ "W" \in pt[q][UTEMP].bits
    BY <1>1 DEF Inv, PreparedInv, PageInv, BitsOK, BitsAt
  <1>3. ASSUME NEW x \in UserVA \cup {PFTEMP}
        PROVE  pt[p][x].frame # pt[q][UTEMP].frame
    <2>1. \A r \in Proc : loc[r].pc = "sp_unmap" \/ loc[r].pc = "map_self" => loc[r].va \in UserVA
      BY DEF Inv, MakerInv, MakerOK, PlaceOK, Making, ForkMaking, SpawnMaking
    <2>2. loc[q].fault = "unmap" => loc[q].fva \in UserVA
      BY FaultPages
    <2>3. ~Excused(q, UTEMP, p, x)
      BY <1>1, <2>1, <2>2 DEF Excused
    <2> QED
      BY <1>1, <1>2, <2>3 DEF Inv, Exclusive
  <1>4. \A f \in Frame : Written(p, f) => pt[q][UTEMP].frame # f
    BY <1>1, <1>3 DEF Written
  <1>5. mem \in [Frame -> Value] /\ pt[q][UTEMP].frame \in Frame
    BY <1>1, <1>2, PteTyped DEF Inv, TypeOK
  <1> QED
    BY <1>4, <1>5, OnlyWritten

LEMMA NextFaultInv ==
  ASSUME Inv, NEW p \in Proc, StepCases(p)
  PROVE  FaultInv'
  <1>1. \A q \in Proc \ {p} : loc'[q] = loc[q]
    BY OnlyActor
  <1>2. loc[p] \in LocFields /\ loc \in [Proc -> LocFields]
    BY LocTyped DEF Inv
  <1>3. pt \in [Proc -> [VA -> Pte \cup {NoPte}]] /\ mem \in [Frame -> Value]
    BY DEF Inv, TypeOK
  <1>4. \A q \in Proc : FaultOK(q)
    BY DEF Inv, FaultInv
  <1>5. ASSUME NEW q \in Proc \ {p}, env[p] = "LIVE" PROVE FaultOK(q)'
    <2>1. CASE loc[q].fault = "none"
      BY <1>1, <2>1 DEF FaultOK
    <2>2. CASE loc[q].fault # "none"
      <3>1. /\ env[q] = "LIVE" /\ loc[q].fva \in VA /\ Mapped(q, loc[q].fva) /\ PFTEMP \in VA
            /\ loc[q].fault \in {"copy", "map", "unmap"} => Mapped(q, PFTEMP)
        BY <2>2, FaultPages, Layout
      <3>2. q # loc[p].child
        BY <3>1, FirstAssumption DEF Inv, MakerInv, MakerOK
      <3>3. \A va \in VA : pt'[q][va] = pt[q][va]
        BY <3>2, OnlyTables
      <3>4. /\ mem'[pt[q][loc[q].fva].frame] = mem[pt[q][loc[q].fva].frame]
            /\ loc[q].fault = "map" => mem'[pt[q][PFTEMP].frame] = mem[pt[q][PFTEMP].frame]
        BY <2>2, <3>1, HandlerPagesSafe
      <3>5. pt'[q][loc[q].fva] = pt[q][loc[q].fva] /\ pt'[q][PFTEMP] = pt[q][PFTEMP]
        BY <3>1, <3>3
      <3>6. FaultOK(q) /\ loc'[q] = loc[q]
        BY <1>1, <1>4
      <3> QED
        BY <3>4, <3>5, <3>6 DEF FaultOK, Mapped
    <2> QED
      BY <2>1, <2>2
  <1>6. ASSUME env[p] = "LIVE", FaultOK(p)' PROVE FaultInv'
    BY <1>5, <1>6 DEF FaultInv
  <1>7. ASSUME env[p] = "LIVE", loc'[p].fault = "none" PROVE FaultInv'
    BY <1>6, <1>7 DEF FaultOK
  <1>8. ASSUME NEW va \in UserVA, NEW v \in Value, Writes(p, va, v) PROVE FaultInv'
    <2>1. CASE StoreDone(p, va, v)
      BY <1>7, <1>8, <2>1 DEF Writes, StoreDone
    <2>2. CASE StoreFault(p, va, v)
      <3>1. /\ loc'[p].fault = "alloc" /\ loc'[p].fva = va /\ loc'[p].fval = v
            /\ UNCHANGED <<pt, mem>> /\ env[p] = "LIVE"
        BY <1>2, <1>8, <2>2 DEF Writes, StoreFault, LocFields
      <3>2. "W" \notin pt[p][va].bits /\ v # mem[pt[p][va].frame]
        BY <2>2 DEF StoreFault
      <3>3. va \notin SharedVA
        BY <3>1, <3>2, Layout DEF Inv, PageInv, BitsOK, BitsAt, LifeOK
      <3> QED
        BY <1>6, <3>1, <3>2, <3>3 DEF FaultOK
    <2> QED
      BY <1>8, <2>1, <2>2 DEF Writes
  <1>9. CASE Dies(p)
    BY <1>2, <1>7, <1>9 DEF Dies, User
  <1>10. CASE Panic
    BY <1>4, <1>10 DEF Panic, FaultInv, FaultOK, Mapped
  <1>11. CASE Free # {} /\ FaultAlloc(p)
    <2>1. /\ env[p] = "LIVE" /\ loc[p].fault = "alloc" /\ PFTEMP \in VA
          /\ pt' = [pt EXCEPT ![p][PFTEMP] = [frame |-> NewFrame, bits |-> {"W"}]]
          /\ mem' = [mem EXCEPT ![NewFrame] = Zero]
      BY <1>11, Layout DEF FaultAlloc, AtFault, PageAlloc
    <2>2. PICK x \in UserVA : x = loc[p].fva /\ pt[p][x].frame \in Frame /\ x \in VA
      BY <2>1, FaultPages
    <2>3. loc'[p].fault = "copy" /\ loc'[p].fva = x /\ loc'[p].fval = loc[p].fval
      BY <1>2, <1>11, <2>2 DEF FaultAlloc, LocFields
    <2>4. [frame |-> NewFrame, bits |-> {"W"}] # NoPte /\ NewFrame \in Frame /\ pt[p][x].frame # NewFrame
      BY <1>11, <2>2, NewFrameFree, PteTyped
    <2>5. pt'[p][x] = pt[p][x] /\ pt'[p][PFTEMP] # NoPte
      BY <1>3, <2>1, <2>2, <2>4, Layout
    <2>6. mem'[pt[p][x].frame] = mem[pt[p][x].frame]
      BY <1>3, <2>1, <2>2, <2>4, SMTT(30)
    <2>7. FaultOK(p)'
      BY <1>4, <2>1, <2>2, <2>3, <2>5, <2>6, ZenonT(60) DEF FaultOK, Mapped
    <2> QED
      BY <1>6, <2>1, <2>7
  <1>12. CASE FaultCopy(p)
    <2>1. /\ env[p] = "LIVE" /\ loc[p].fault = "copy" /\ UNCHANGED pt
          /\ mem' = [mem EXCEPT ![pt[p][PFTEMP].frame] = mem[pt[p][loc[p].fva].frame]]
      BY <1>12 DEF FaultCopy, AtFault
    <2>2. PICK x \in UserVA : x = loc[p].fva /\ pt[p][x].frame \in Frame
      BY <2>1, FaultPages
    <2>3. loc'[p].fault = "map" /\ loc'[p].fva = x /\ loc'[p].fval = loc[p].fval
      BY <1>2, <1>12, <2>2 DEF FaultCopy, LocFields
    <2>4. pt[p][PFTEMP].frame \in Frame /\ Mapped(p, PFTEMP)
      BY <2>1, FaultPages
    <2>5. mem'[pt[p][x].frame] = mem[pt[p][x].frame] /\ mem'[pt[p][PFTEMP].frame] = mem[pt[p][x].frame]
      BY <1>3, <2>1, <2>2, <2>4
    <2>6. FaultOK(p)'
      BY <1>4, <2>1, <2>2, <2>3, <2>4, <2>5, ZenonT(60) DEF FaultOK, Mapped
    <2> QED
      BY <1>6, <2>1, <2>6
  <1>13. CASE FaultMap(p)
    <2>1. env[p] = "LIVE" /\ loc[p].fault = "map" /\ UNCHANGED mem
      BY <1>13 DEF FaultMap, AtFault
    <2>2. PICK x \in UserVA : x = loc[p].fva /\ x \in VA
      BY <2>1, FaultPages
    <2>3. PFTEMP \in VA /\ PFTEMP # x /\ Mapped(p, PFTEMP)
      BY <2>1, FaultPages, Layout
    <2>4. pt' = [pt EXCEPT ![p][x] = [frame |-> pt[p][PFTEMP].frame, bits |-> {"W"}]]
      BY <1>13, <2>2 DEF FaultMap
    <2>5. loc'[p].fault = "unmap" /\ loc'[p].fva = x /\ loc'[p].fval = loc[p].fval
      BY <1>2, <1>13, <2>2 DEF FaultMap, LocFields
    <2>6. pt'[p][PFTEMP] = pt[p][PFTEMP] /\ pt'[p][x].frame = pt[p][PFTEMP].frame /\ "W" \in pt'[p][x].bits
      BY <1>3, <2>2, <2>3, <2>4
    <2>7. FaultOK(p)'
      BY <1>4, <2>1, <2>2, <2>3, <2>5, <2>6 DEF FaultOK, Mapped
    <2> QED
      BY <1>6, <2>1, <2>7
  <1>14. CASE FaultUnmap(p)
    <2>1. /\ env[p] = "LIVE" /\ loc[p].fault = "unmap" /\ UNCHANGED mem
          /\ pt' = [pt EXCEPT ![p][PFTEMP] = NoPte]
      BY <1>14 DEF FaultUnmap, AtFault
    <2>2. PICK x \in UserVA : x = loc[p].fva /\ x \in VA /\ x # PFTEMP
      BY <2>1, FaultPages, Layout
    <2>3. loc'[p].fault = "again" /\ loc'[p].fva = x /\ loc'[p].fval = loc[p].fval
      BY <1>2, <1>14, <2>2 DEF FaultUnmap, LocFields
    <2>4. pt'[p][x] = pt[p][x]
      BY <1>3, <2>1, <2>2
    <2>5. FaultOK(p)'
      BY <1>4, <2>1, <2>2, <2>3, <2>4 DEF FaultOK, Mapped
    <2> QED
      BY <1>6, <2>1, <2>5
  <1>15. CASE WriteAgain(p)
    <2>1. env[p] = "LIVE" /\ loc'[p].fault = "none"
      BY <1>2, <1>15 DEF WriteAgain, AtFault, LocFields
    <2> QED
      BY <1>7, <2>1
  <1>16. CASE Fork(p) \/ Spawn(p) \/ (Free # {} /\ (SetHandler(p) \/ AllocXstack(p))) \/ SetUpcall(p) \/ SpawnMap(p)
    <2>1. env[p] = "LIVE" /\ loc[p].fault = "none"
      BY <1>16 DEF Fork, Spawn, SetHandler, AllocXstack, SetUpcall, SpawnMap, At
    <2>2. loc'[p].fault = loc[p].fault
      BY <1>2, <1>16 DEF Fork, Spawn, SetHandler, AllocXstack, SetUpcall, SpawnMap, LocFields
    <2> QED
      BY <1>7, <2>1, <2>2
  <1>17. CASE StartChild(p) \/ SpawnFill(p) \/ SpawnStack(p)
    <2>1. env[p] = "LIVE" /\ loc[p].fault = "none"
      BY <1>17 DEF StartChild, SpawnFill, SpawnStack, At
    <2>2. loc'[p].fault = "none"
      BY <1>2, <1>17, <2>1 DEF StartChild, SpawnFill, SpawnStack, SpawnFail, LocFields, User
    <2> QED
      BY <1>7, <2>1, <2>2
  <1>18. CASE DupChild(p) \/ DupSelf(p)
    <2>1. env[p] = "LIVE" /\ loc[p].fault = "none" /\ loc[p].pc \in Making
      BY <1>18 DEF DupChild, DupSelf, At, Making, ForkMaking
    <2>2. loc' = [loc EXCEPT ![p].pc = "map_self"] \/ loc' = [loc EXCEPT ![p] = NextPage(p)]
      BY <1>18, DupChildCases DEF DupSelf
    <2>3. loc'[p].fault = "none"
      BY <1>2, <2>1, <2>2, NextPageCases DEF LocFields
    <2> QED
      BY <1>7, <2>1, <2>3
  <1>19. CASE SpawnUnmap(p) \/ SpawnShare(p)
    <2>1. env[p] = "LIVE" /\ loc[p].fault = "none"
      BY <1>19 DEF SpawnUnmap, SpawnShare, At
    <2>2. loc[p] \in LocFields
      BY <1>2, SMTT(30)
    <2>3. \E pc, va : \/ loc'[p] = [loc[p] EXCEPT !.pc = pc, !.va = va]
                      \/ loc'[p] = [loc[p] EXCEPT !.pc = pc]
                      \/ loc'[p] = [loc[p] EXCEPT !.va = va]
      <3>1. CASE SpawnUnmap(p)
        <4>1. PICK y : y = Min(Rest(loc[p].va))
          OBVIOUS
        <4>2. \/ loc'[p] = [loc[p] EXCEPT !.pc = "sp_fill", !.va = y]
              \/ loc'[p] = [loc[p] EXCEPT !.pc = "sp_share", !.va = UTEXT]
          BY <1>2, <3>1, <4>1 DEF SpawnUnmap
        <4> QED
          BY <4>2
      <3>2. CASE SpawnShare(p)
        <4>1. PICK y : y = loc[p].va + 1
          OBVIOUS
        <4>2. loc'[p] = [loc[p] EXCEPT !.pc = "sp_status"] \/ loc'[p] = [loc[p] EXCEPT !.va = y]
          BY <1>2, <3>2, <4>1 DEF SpawnShare
        <4> QED
          BY <4>2
      <3> QED
        BY <1>19, <3>1, <3>2
    <2>4. loc'[p].fault = "none"
      BY <2>1, <2>2, <2>3 DEF LocFields
    <2> QED
      BY <1>7, <2>1, <2>4
  <1>20. ASSUME NEW c \in Proc, Exofork(p, c) \/ SpawnExofork(p, c) PROVE FaultInv'
    <2>1. env[p] = "LIVE" /\ loc[p].fault = "none"
      BY <1>20 DEF Exofork, SpawnExofork, At
    <2>2. loc'[p].fault = "none"
      BY <1>2, <1>20, <2>1 DEF Exofork, SpawnExofork, LocFields
    <2> QED
      BY <1>7, <2>1, <2>2
  <1> QED
    BY <1>8, <1>9, <1>10, <1>11, <1>12, <1>13, <1>14, <1>15, <1>16, <1>17, <1>18, <1>19, <1>20
    DEF StepCases

LEMMA NextPreparedInv ==
  ASSUME Inv, NEW p \in Proc, StepCases(p)
  PROVE  PreparedInv'
  <1>1. \A q \in Proc \ {p} : loc'[q] = loc[q]
    BY OnlyActor
  <1>2. loc[p] \in LocFields /\ loc \in [Proc -> LocFields]
    BY LocTyped DEF Inv
  <1>3. pt \in [Proc -> [VA -> Pte \cup {NoPte}]] /\ mem \in [Frame -> Value]
    BY DEF Inv, TypeOK
  <1> DEFINE Prepared(q) ==
        loc[q].pc = "sp_map" =>
            /\ Mapped(q, UTEMP)
            /\ mem[pt[q][UTEMP].frame] = IF loc[q].va = Stack THEN ArgValue ELSE FileValue[loc[q].va]
  <1>4. ASSUME NEW q \in Proc, loc'[q].pc = loc[q].pc, loc'[q].va = loc[q].va,
               loc[q].pc = "sp_map" => pt'[q][UTEMP] = pt[q][UTEMP]
        PROVE  Prepared(q)'
    BY <1>4, PreparedSafe DEF Inv, PreparedInv, Mapped
  <1>5. ASSUME NEW q \in Proc \ {p}, env[p] = "LIVE" PROVE Prepared(q)'
    <2>1. CASE loc[q].pc = "sp_map"
      <3>1. loc[q].pc \in Making /\ UTEMP \in VA
        BY <2>1, Layout DEF Making, SpawnMaking
      <3>2. q # loc[p].child
        BY <3>1, Child, FirstAssumption DEF Inv, MakerInv, MakerOK
      <3> QED
        BY <1>1, <1>4, <3>1, <3>2, OnlyTables
    <2>2. CASE loc[q].pc # "sp_map"
      BY <1>1, <2>2
    <2> QED
      BY <2>1, <2>2
  <1>6. ASSUME env[p] = "LIVE", Prepared(p)' PROVE PreparedInv'
    BY <1>5, <1>6 DEF PreparedInv
  <1>7. ASSUME env[p] = "LIVE", loc'[p].pc # "sp_map" PROVE PreparedInv'
    BY <1>6, <1>7
  <1>8. ASSUME env[p] = "LIVE", loc'[p].pc = loc[p].pc, loc'[p].va = loc[p].va, pt'[p][UTEMP] = pt[p][UTEMP]
        PROVE  PreparedInv'
    BY <1>4, <1>6, <1>8
  <1> HIDE DEF Prepared
  <1>9. UTEMP \in VA \ UserVA /\ UTEMP # PFTEMP /\ PFTEMP \in VA /\ loc[p].fva \in VA /\ loc[p].fva # UTEMP
    BY <1>2, Layout DEF LocFields
  <1>10. ASSUME NEW va \in UserVA, NEW v \in Value, Writes(p, va, v) PROVE PreparedInv'
    <2>1. env[p] = "LIVE" /\ UNCHANGED pt /\ loc'[p].pc = loc[p].pc /\ loc'[p].va = loc[p].va
      BY <1>2, <1>10 DEF Writes, StoreFault, StoreDone, LocFields
    <2> QED
      BY <1>8, <2>1
  <1>11. CASE Dies(p)
    BY <1>2, <1>7, <1>11 DEF Dies, User
  <1>12. CASE Panic
    BY <1>12 DEF Panic, Inv, PreparedInv, Mapped
  <1>13. CASE (Free # {} /\ FaultAlloc(p)) \/ FaultCopy(p) \/ FaultMap(p) \/ FaultUnmap(p) \/ WriteAgain(p)
    <2>1. env[p] = "LIVE"
      BY <1>13 DEF FaultAlloc, FaultCopy, FaultMap, FaultUnmap, WriteAgain, AtFault
    <2>2. loc'[p].pc = loc[p].pc /\ loc'[p].va = loc[p].va
      BY <1>2, <1>13 DEF FaultAlloc, FaultCopy, FaultMap, FaultUnmap, WriteAgain, LocFields
    <2>3. pt'[p][UTEMP] = pt[p][UTEMP]
      BY <1>3, <1>9, <1>13 DEF FaultAlloc, FaultCopy, FaultMap, FaultUnmap, WriteAgain, PageAlloc
    <2> QED
      BY <1>8, <2>1, <2>2, <2>3, SMTT(30)
  <1>14. CASE Fork(p) \/ Spawn(p) \/ (Free # {} /\ (SetHandler(p) \/ AllocXstack(p))) \/ SetUpcall(p) \/ SpawnMap(p)
    <2>1. env[p] = "LIVE"
      BY <1>14 DEF Fork, Spawn, SetHandler, AllocXstack, SetUpcall, SpawnMap, At
    <2>2. loc'[p].pc \in {"exofork", "handler", "sp_exofork", "upcall", "status", "sp_unmap"}
      BY <1>2, <1>14 DEF Fork, Spawn, SetHandler, AllocXstack, SetUpcall, SpawnMap, LocFields
    <2> QED
      BY <1>7, <2>1, <2>2
  <1>15. CASE DupChild(p) \/ DupSelf(p)
    <2>1. env[p] = "LIVE" /\ loc[p].pc \in Making
      BY <1>15 DEF DupChild, DupSelf, At, Making, ForkMaking
    <2>2. loc' = [loc EXCEPT ![p].pc = "map_self"] \/ loc' = [loc EXCEPT ![p] = NextPage(p)]
      BY <1>15, DupChildCases DEF DupSelf
    <2>3. loc'[p].pc # "sp_map"
      BY <1>2, <2>1, <2>2, NextPageCases DEF LocFields
    <2> QED
      BY <1>7, <2>1, <2>3
  <1>16. CASE StartChild(p) \/ SpawnUnmap(p) \/ SpawnShare(p)
    <2>1. env[p] = "LIVE"
      BY <1>16 DEF StartChild, SpawnUnmap, SpawnShare, At
    <2>2. loc'[p].pc # "sp_map"
      <3>1. StartChild(p) => loc'[p].pc = "user"
        BY <1>2 DEF StartChild, User
      <3>2. SpawnUnmap(p) => loc'[p].pc \in {"sp_fill", "sp_share"}
        BY <1>2 DEF SpawnUnmap, LocFields
      <3>3. SpawnShare(p) => loc'[p].pc \in {"sp_share", "sp_status"}
        BY <1>2 DEF SpawnShare, At, LocFields
      <3> QED
        BY <1>16, <3>1, <3>2, <3>3
    <2> QED
      BY <1>7, <2>1, <2>2
  <1>17. ASSUME NEW c \in Proc, Exofork(p, c) \/ SpawnExofork(p, c) PROVE PreparedInv'
    <2>1. env[p] = "LIVE"
      BY <1>17 DEF Exofork, SpawnExofork, At
    <2>2. loc'[p].pc \in {"map_child", "sp_stack"}
      BY <1>2, <1>17 DEF Exofork, SpawnExofork, LocFields
    <2> QED
      BY <1>7, <2>1, <2>2
  <1>18. CASE SpawnFill(p) \/ SpawnStack(p)
    <2>1. /\ env[p] = "LIVE" /\ loc[p].pc \in {"sp_stack", "sp_fill"}
          /\ loc[p].pc = "sp_fill" => loc[p].va # Stack
          /\ loc[p].pc = "sp_stack" => loc[p].va = Stack
      BY <1>18, Layout DEF SpawnFill, SpawnStack, At, Inv, MakerInv, MakerOK, PlaceOK
    <2>2. PICK v : v = IF loc[p].va = Stack THEN ArgValue ELSE FileValue[loc[p].va]
      OBVIOUS
    <2>3. CASE /\ Free # {} /\ pt' = [pt EXCEPT ![p][UTEMP] = [frame |-> NewFrame, bits |-> {"W"}]]
               /\ mem' = [mem EXCEPT ![NewFrame] = v] /\ loc' = [loc EXCEPT ![p].pc = "sp_map"]
      <3>1. NewFrame \in Frame /\ [frame |-> NewFrame, bits |-> {"W"}] # NoPte
        BY <2>3, NewFrameFree, PteTyped
      <3>2. pt'[p][UTEMP] # NoPte /\ pt'[p][UTEMP].frame = NewFrame
        BY <1>3, <1>9, <2>3, <3>1
      <3>3. mem'[NewFrame] = v
        BY <1>3, <2>3, <3>1
      <3>4. loc'[p].va = loc[p].va
        BY <1>2, <2>3 DEF LocFields
      <3>5. Prepared(p)'
        BY <2>2, <3>2, <3>3, <3>4 DEF Prepared, Mapped
      <3> QED
        BY <1>6, <2>1, <3>5
    <2>4. CASE loc' = [loc EXCEPT ![p] = User]
      BY <1>2, <1>7, <2>1, <2>4 DEF User
    <2> QED
      BY <1>18, <2>1, <2>2, <2>3, <2>4 DEF SpawnFill, SpawnStack, SpawnFail, At
  <1> QED
    BY <1>10, <1>11, <1>12, <1>13, <1>14, <1>15, <1>16, <1>17, <1>18 DEF StepCases

-----------------------------------------------------------------------------
(* The theorems.                                                           *)

LEMMA InitInv ==
  ASSUME Init
  PROVE  Inv
  <1> DEFINE g == CHOOSE f \in Injection(UserVA, Frame) : TRUE
             Page(va) == [frame |-> g[va], bits |-> IF va \in SharedVA THEN {"W", "SHARE"} ELSE {"W"}]
  <1>1. g \in [UserVA -> Frame] /\ \A x, y \in UserVA : g[x] = g[y] => x = y
    <2>1. g \in Injection(UserVA, Frame)
      BY FrameAssumption
    <2> QED
      BY <2>1 DEF Injection, IsInjective
  <1>2. \A va \in UserVA : Page(va) \in Pte /\ Page(va).frame = g[va]
                            /\ Page(va).bits = IF va \in SharedVA THEN {"W", "SHARE"} ELSE {"W"}
    BY <1>1 DEF Pte, Bit
  <1>3. /\ pt = [p \in Proc |-> [va \in VA |-> IF p = First /\ va \in UserVA THEN Page(va) ELSE NoPte]]
        /\ env = [p \in Proc |-> IF p = First THEN "LIVE" ELSE "NONE"]
        /\ mem = [f \in Frame |-> Zero] /\ upcall = [p \in Proc |-> FALSE]
        /\ loc = [p \in Proc |-> User] /\ panic = FALSE
    BY DEF Init
  <1> HIDE DEF g, Page
  <1>4. \A p \in Proc, va \in VA : pt[p][va] = IF p = First /\ va \in UserVA THEN Page(va) ELSE NoPte
    BY <1>3
  <1>5. \A p \in Proc : loc[p].pc = "user" /\ loc[p].child = NoProc /\ loc[p].fault = "none"
    BY <1>3 DEF User
  <1>6. TypeOK
    <2>1. loc \in [Proc -> LocFields]
      BY <1>3, UserTyped
    <2>2. pt \in [Proc -> [VA -> Pte \cup {NoPte}]]
      BY <1>2, <1>3
    <2>3. mem \in [Frame -> Value]
      BY <1>3, ValueAssumption
    <2> QED
      BY <1>3, <2>1, <2>2, <2>3 DEF TypeOK, LocFields
  <1>7. MakerInv
    BY <1>3, <1>5 DEF MakerInv, MakerOK, PlaceOK, Making, ForkMaking, SpawnMaking
  <1>8. UserVA \subseteq VA /\ SharedVA \subseteq UserVA
    BY Layout
  <1>9. ASSUME NEW p \in Proc, NEW va \in VA PROVE Mapped(p, va) <=> p = First /\ va \in UserVA
    BY <1>2, <1>4, PteTyped DEF Mapped
  <1>10. BitsOK
    BY <1>2, <1>4, <1>9 DEF BitsOK, BitsAt
  <1>11. LifeOK
    BY <1>3, <1>8, <1>9 DEF LifeOK
  <1>12. GivenOK /\ SharedSame
    BY <1>5, <1>8, <1>9 DEF GivenOK, SharedSame, Making, ForkMaking, SpawnMaking
  <1>13. Exclusive
    <2>1. ASSUME NEW p \in Proc, NEW va \in VA, "W" \in pt[p][va].bits PROVE p = First /\ va \in UserVA
      BY <1>4, <2>1, PteTyped
    <2>2. ASSUME NEW p \in Proc, NEW va \in VA, pt[p][va].frame \in Frame PROVE p = First /\ va \in UserVA
      BY <1>4, <2>2, PteTyped, FrameAssumption
    <2>3. \A va \in UserVA : pt[First][va].frame = g[va]
      BY <1>2, <1>4, <1>8, FirstAssumption
    <2> QED
      BY <1>1, <2>1, <2>2, <2>3 DEF Exclusive
  <1>14. HandlerInv
    <2>1. \A p \in Proc, va \in VA : "COW" \notin pt[p][va].bits
      BY <1>2, <1>4, PteTyped
    <2> QED
      BY <1>3, <1>5, <2>1 DEF HandlerInv, HandlerOK, ForkMaking, SpawnMaking
  <1>15. FaultInv /\ PreparedInv
    BY <1>5 DEF FaultInv, FaultOK, PreparedInv
  <1> QED
    BY <1>6, <1>7, <1>10, <1>11, <1>12, <1>13, <1>14, <1>15 DEF Inv, PageInv

\* The strengthened invariant holds of every behaviour.
THEOREM Invariance == Spec => []Inv
  <1>1. Init => Inv
    BY InitInv
  <1>2. Inv /\ [Next]_vars => Inv'
    <2> SUFFICES ASSUME Inv, [Next]_vars PROVE Inv'
      OBVIOUS
    <2>1. TypeOK'
      BY NextTypeOK
    <2>2. CASE Next
      <3>1. PICK p \in Proc : StepCases(p)
        BY <2>2, Cases
      <3> QED
        BY <2>1, <3>1, NextMakerInv, NextPageInv, NextExclusive, NextHandlerInv, NextFaultInv, NextPreparedInv
        DEF Inv
    <2>3. CASE UNCHANGED vars
      <3>1. MakerInv'
        BY <2>3 DEF vars, Inv, MakerInv, MakerOK, PlaceOK
      <3>2. PageInv'
        BY <2>3 DEF vars, Inv, PageInv, BitsOK, LifeOK, GivenOK, SharedSame, Given, Mapped
      <3>3. Exclusive'
        BY <2>3 DEF vars, Inv, Exclusive, Excused
      <3>4. HandlerInv' /\ FaultInv' /\ PreparedInv'
        BY <2>3 DEF vars, Inv, HandlerInv, HandlerOK, FaultInv, FaultOK, PreparedInv, Mapped
      <3> QED
        BY <2>1, <3>1, <3>2, <3>3, <3>4 DEF Inv
    <2> QED
      BY <2>2, <2>3
  <1> QED
    BY <1>1, <1>2, PTL DEF Spec

\* The variables of the model keep their types.
THEOREM TypesKept == Spec => []TypeOK
  <1>1. Inv => TypeOK
    BY DEF Inv
  <1> QED
    BY <1>1, Invariance, PTL

\* No two processes ever write the same frame unless they share it, whatever
\* the order of the system calls of fork, spawn and the fault handler: for
\* any number of processes, pages and frames.
THEOREM WritersAlone == Spec => []SoleWriter
  <1>1. ASSUME Inv PROVE SoleWriter
    <2> SUFFICES ASSUME NEW p \in Proc, NEW va \in VA, "W" \in pt[p][va].bits,
                        NEW q \in Proc, NEW wa \in VA, pt[q][wa].frame = pt[p][va].frame, q # p \/ wa # va
                 PROVE  \/ va = wa /\ "SHARE" \in pt[p][va].bits \cap pt[q][wa].bits
                        \/ p = q /\ PFTEMP \in {va, wa} /\ loc[p].fault = "unmap" /\ loc[p].fva \in {va, wa}
                        \/ UTEMP \in {va, wa} /\ "NEW" \in {env[p], env[q]}
                        \/ va = wa /\ env[q] = "NEW" /\ "W" \notin pt[q][wa].bits
                             /\ (env[p] = "LIVE" => loc[p].pc = "map_self" /\ loc[p].va = va /\ loc[p].child = q)
      BY DEF SoleWriter
    <2>1. Mapped(p, va) /\ Mapped(q, wa)
      BY <1>1, PteTyped DEF Inv
    <2>2. Excused(p, va, q, wa)
      BY <1>1 DEF Inv, Exclusive
    <2>3. \A r \in Proc : loc[r].pc \in {"sp_unmap", "map_self"} => env[loc[r].child] = "NEW"
      BY <1>1, Child DEF Making, ForkMaking, SpawnMaking
    <2>4. CASE va = wa /\ va \in SharedVA
      BY <1>1, <2>1, <2>4 DEF Inv, PageInv, BitsOK, BitsAt
    <2>5. CASE ~(va = wa /\ va \in SharedVA)
      BY <2>2, <2>3, <2>5 DEF Excused
    <2> QED
      BY <2>4, <2>5
  <1> QED
    BY <1>1, Invariance, PTL

\* Whoever runs on copy-on-write pages can take the fault of its next write:
\* fork installs the handler and the exception stack, in the parent and in
\* the child, before either runs on such a page.
THEOREM FaultsCanBeTaken == Spec => []CanFault
  <1>1. ASSUME Inv PROVE CanFault
    <2> SUFFICES ASSUME NEW p \in Proc, env[p] = "LIVE", NEW va \in VA, "COW" \in pt[p][va].bits
                 PROVE  upcall[p] /\ "W" \in pt[p][UXSTACK].bits
      BY DEF CanFault
    <2>1. upcall[p] /\ Mapped(p, UXSTACK)
      BY <1>1 DEF Inv, HandlerInv, HandlerOK
    <2> QED
      <3>1. UXSTACK \in VA /\ BitsAt(UXSTACK) = {{"W"}}
        BY Layout DEF BitsAt
      <3>2. pt[p][UXSTACK].bits = {"W"}
        BY <1>1, <2>1, <3>1 DEF Inv, PageInv, BitsOK
      <3> QED
        BY <2>1, <3>2
  <1> QED
    BY <1>1, Invariance, PTL

-----------------------------------------------------------------------------
(* The refinement of PrivateMemory.  Life and Cells, the refinement        *)
(* mapping, change for the process that takes a step and its child only,   *)
(* and for whoever shares what it writes.                                  *)

\* Who has a child is alive.
LEMMA MadeIff ==
  ASSUME Inv, NEW c \in Proc
  PROVE  /\ Made(c) <=> \E p \in Proc : loc[p].child = c
         /\ \A p \in Proc : loc[p].child = c => loc[p].pc \in Making
  BY FirstAssumption DEF Made, Inv, MakerInv, MakerOK, User

\* The page of the child that its parent can still write.
EarlyBy(p, x) ==
    /\ loc[p].pc = "map_self" /\ loc[p].va = x
    /\ pt[p][x].frame = pt[loc[p].child][x].frame /\ "W" \in pt[p][x].bits

LEMMA EarlyIff ==
  ASSUME Inv, NEW p \in Proc, loc[p].child # NoProc, NEW x
  PROVE  Early(loc[p].child, x) <=> EarlyBy(p, x)
  <1>1. \A q \in Proc : loc[q].child = loc[p].child => q = p
    BY DEF Inv, MakerInv, MakerOK
  <1> QED
    BY <1>1 DEF Early, EarlyBy

LEMMA ViewValues ==
  /\ \A c \in Proc : Life[c] = IF env[c] = "NEW" /\ ~Made(c) THEN "DEAD" ELSE env[c]
  /\ \A c \in Proc : \A x \in UserVA :
        Cells[c][x] = IF Visible(c, x) THEN mem[pt[c][x].frame] ELSE NoValue
  BY DEF Life, Cells

\* What a running process sees, and what a child has while it is made.
RunningView(p) ==
    env[p] = "LIVE" =>
        /\ Life[p] = "LIVE"
        /\ \A x \in UserVA : Cells[p][x] = mem[pt[p][x].frame] /\ Cells[p][x] # NoValue
ChildView(p) ==
    loc[p].child # NoProc =>
        /\ Life[loc[p].child] = "NEW"
        /\ \A x \in UserVA : Cells[loc[p].child][x] =
               IF Mapped(loc[p].child, x) /\ ~EarlyBy(p, x) THEN mem[pt[loc[p].child][x].frame] ELSE NoValue

\* A process that has no memory, or a child that nobody makes any more.
NoView(c) == env[c] \in {"NONE", "DEAD"} \/ (env[c] = "NEW" /\ ~Made(c)) => \A x \in UserVA : Cells[c][x] = NoValue

LEMMA Views == Inv => \A p \in Proc : RunningView(p) /\ ChildView(p) /\ NoView(p)
  <1>1. ASSUME Inv, NEW p \in Proc, env[p] = "LIVE" PROVE RunningView(p)
    <2>1. \A x \in UserVA : Mapped(p, x) /\ mem[pt[p][x].frame] \in Value
      BY <1>1, Layout, PteTyped DEF Inv, TypeOK, PageInv, LifeOK
    <2> QED
      BY <1>1, <2>1, ViewValues, ValueAssumption DEF Visible, RunningView
  <1>2. ASSUME Inv, NEW p \in Proc, loc[p].child # NoProc PROVE ChildView(p)
    <2>1. loc[p].pc \in Making
      BY <1>2 DEF Inv, MakerInv, MakerOK
    <2>2. PICK c \in Proc : c = loc[p].child
      BY <1>2, <2>1, Child
    <2>3. env[c] = "NEW" /\ Made(c)
      BY <1>2, <2>1, <2>2, Child, MadeIff
    <2>4. \A x \in UserVA : Early(c, x) <=> EarlyBy(p, x)
      BY <1>2, <2>2, EarlyIff
    <2> QED
      BY <2>2, <2>3, <2>4, ViewValues DEF Visible, ChildView
  <1>3. ASSUME Inv, NEW c \in Proc PROVE NoView(c)
    BY <1>3, ViewValues, Layout DEF Visible, NoView, Inv, PageInv, LifeOK
  <1> QED
    BY <1>1, <1>2, <1>3 DEF RunningView, ChildView

LEMMA ViewsNext == Inv' => \A p \in Proc : (RunningView(p) /\ ChildView(p) /\ NoView(p))'
  <1>1. Inv' => (\A p \in Proc : RunningView(p) /\ ChildView(p) /\ NoView(p))'
    BY Views, PTL
  <1> QED
    BY <1>1

\* Nobody else's view changes with the step of p, but for what it writes.
LEMMA ViewOfOthers ==
  ASSUME Inv, Inv', NEW p \in Proc, StepCases(p), NEW c \in Proc,
         c # p, c # loc[p].child, c # loc'[p].child, env'[c] = env[c]
  PROVE  /\ Life'[c] = Life[c]
         /\ \A x \in UserVA :
               (Mapped(c, x) => mem'[pt[c][x].frame] = mem[pt[c][x].frame]) => Cells'[c][x] = Cells[c][x]
         /\ \A x \in UserVA : Visible(c, x)' <=> Visible(c, x)
  <1>1. \A q \in Proc \ {p} : loc'[q] = loc[q]
    BY OnlyActor
  <1>2. \A x \in UserVA : pt'[c][x] = pt[c][x]
    BY OnlyTables, Layout
  <1>3. Made(c)' <=> Made(c)
    <2>1. Made(c) <=> \E q \in Proc : loc[q].child = c
      BY MadeIff
    <2>2. Made(c)' <=> \E q \in Proc : loc'[q].child = c
      <3>1. ASSUME NEW q \in Proc, loc'[q].child = c PROVE env'[q] = "LIVE"
        BY <3>1, FirstAssumption DEF Inv, MakerInv, MakerOK, User
      <3> QED
        BY <3>1 DEF Made
    <2> QED
      BY <1>1, <2>1, <2>2
  <1>4. ASSUME NEW x \in UserVA PROVE Early(c, x)' <=> Early(c, x)
    <2>1. ASSUME NEW q \in Proc, loc[q].child = c, q # p PROVE pt'[q][x] = pt[q][x]
      <3>1. loc[q].pc \in Making /\ env[q] = "LIVE"
        BY <2>1, MadeIff, Child
      <3>2. q # loc[p].child
        BY <3>1, FirstAssumption DEF Inv, MakerInv, MakerOK
      <3> QED
        BY <2>1, <3>2, OnlyTables, Layout
    <2> QED
      BY <1>1, <1>2, <2>1 DEF Early
  <1>5. \A x \in UserVA : Visible(c, x)' <=> Visible(c, x)
    BY <1>2, <1>3, <1>4 DEF Visible, Mapped
  <1>6. Life'[c] = Life[c]
    BY <1>3 DEF Life
  <1>7. \A x \in UserVA : Cells'[c][x] = IF Visible(c, x)' THEN mem'[pt'[c][x].frame] ELSE NoValue
    BY DEF Cells
  <1> QED
    BY <1>2, <1>5, <1>6, <1>7, ViewValues DEF Visible

\* A step of p that does not show.
LEMMA Hidden ==
  ASSUME Inv, Inv', NEW p \in Proc, StepCases(p), env[p] = "LIVE", UNCHANGED env,
         loc'[p].child = loc[p].child,
         \A q \in Proc, x \in UserVA : q # p /\ Mapped(q, x) => mem'[pt[q][x].frame] = mem[pt[q][x].frame],
         \A x \in UserVA : mem'[pt'[p][x].frame] = mem[pt[p][x].frame],
         loc[p].child # NoProc => \A x \in UserVA :
             /\ pt'[loc[p].child][x] = pt[loc[p].child][x]
             /\ EarlyBy(p, x)' <=> EarlyBy(p, x)
  PROVE  UNCHANGED <<Life, Cells>>
  <1>1. Life'[p] = Life[p] /\ \A x \in UserVA : Cells'[p][x] = Cells[p][x]
    BY Views, ViewsNext DEF RunningView
  <1>2. ASSUME loc[p].child # NoProc
        PROVE  /\ Life'[loc[p].child] = Life[loc[p].child]
               /\ \A x \in UserVA : Cells'[loc[p].child][x] = Cells[loc[p].child][x]
    <2>1. loc[p].child \in Proc \ {p}
      BY <1>2, Child DEF Inv, MakerInv, MakerOK
    <2>2. PICK c \in Proc \ {p} : c = loc[p].child
      BY <2>1
    <2>3. /\ Life[c] = "NEW"
          /\ \A x \in UserVA : Cells[c][x] = IF Mapped(c, x) /\ ~EarlyBy(p, x) THEN mem[pt[c][x].frame] ELSE NoValue
      BY <1>2, <2>2, Views DEF ChildView
    <2>4. /\ Life'[c] = "NEW"
          /\ \A x \in UserVA :
               Cells'[c][x] = IF pt'[c][x] # NoPte /\ ~EarlyBy(p, x)' THEN mem'[pt'[c][x].frame] ELSE NoValue
      BY <1>2, <2>2, ViewsNext DEF ChildView, Mapped
    <2>5. \A x \in UserVA : Cells'[c][x] = Cells[c][x]
      BY <1>2, <2>2, <2>3, <2>4 DEF Mapped
    <2> QED
      BY <2>2, <2>3, <2>4, <2>5
  <1>3. \A c \in Proc : c # p /\ c # loc[p].child =>
            Life'[c] = Life[c] /\ \A x \in UserVA : Cells'[c][x] = Cells[c][x]
    BY ViewOfOthers
  <1>4. \A c \in Proc : Life'[c] = Life[c] /\ \A x \in UserVA : Cells'[c][x] = Cells[c][x]
    BY <1>1, <1>2, <1>3, FirstAssumption
  <1> QED
    BY <1>4 DEF Life, Cells

\* Tables of cells that agree are the same.
LEMMA SameCells ==
  ASSUME \A d \in Proc, y \in UserVA : Cells'[d][y] = Cells[d][y]
  PROVE  Cells' = Cells
  BY DEF Cells

LEMMA Rows ==
  /\ \A d \in Proc : Cells[d] = [y \in UserVA |-> Cells[d][y]]
  /\ \A d \in Proc : Cells'[d] = [y \in UserVA |-> Cells'[d][y]]
  /\ Cells = [d \in Proc |-> Cells[d]] /\ Cells' = [d \in Proc |-> Cells'[d]]
  BY DEF Cells

LEMMA OneCell ==
  ASSUME NEW c \in Proc, NEW x \in UserVA, NEW v, Cells'[c][x] = v,
         \A d \in Proc, y \in UserVA : d # c \/ y # x => Cells'[d][y] = Cells[d][y]
  PROVE  Cells' = [Cells EXCEPT ![c][x] = v]
  <1> DEFINE Row == [Cells[c] EXCEPT ![x] = v]
  <1>1. ASSUME NEW d \in Proc \ {c} PROVE Cells'[d] = Cells[d]
    <2>1. [y \in UserVA |-> Cells'[d][y]] = [y \in UserVA |-> Cells[d][y]]
      OBVIOUS
    <2> QED
      BY <2>1, Rows
  <1>2. Cells'[c] = Row
    <2>1. Row = [y \in UserVA |-> IF y = x THEN v ELSE Cells[c][y]]
      BY Rows
    <2>2. [y \in UserVA |-> Cells'[c][y]] = [y \in UserVA |-> IF y = x THEN v ELSE Cells[c][y]]
      OBVIOUS
    <2> QED
      BY <2>1, <2>2, Rows
  <1> HIDE DEF Row
  <1>3. [Cells EXCEPT ![c] = Row] = [d \in Proc |-> IF d = c THEN Row ELSE Cells[d]]
    BY Rows
  <1>4. [d \in Proc |-> Cells'[d]] = [d \in Proc |-> IF d = c THEN Row ELSE Cells[d]]
    BY <1>1, <1>2
  <1>5. Cells' = [Cells EXCEPT ![c] = Row]
    BY <1>3, <1>4, Rows
  <1> QED
    BY <1>5 DEF Row

\* A step of p that gives its child a page, or takes care of one.
LEMMA ChildCell ==
  ASSUME Inv, Inv', NEW p \in Proc, StepCases(p), env[p] = "LIVE", UNCHANGED <<env, mem>>,
         NEW c \in Proc \ {p}, loc[p].child = c, loc'[p].child = c, NEW x \in UserVA,
         \A y \in UserVA : pt'[p][y].frame = pt[p][y].frame,
         \A y \in UserVA : y # x =>
             /\ pt'[c][y] = pt[c][y]
             /\ EarlyBy(p, y)' <=> EarlyBy(p, y)
  PROVE  /\ UNCHANGED Life
         /\ \A d \in Proc, y \in UserVA : d # c \/ y # x => Cells'[d][y] = Cells[d][y]
  <1>1. Life'[p] = Life[p] /\ \A y \in UserVA : Cells'[p][y] = Cells[p][y]
    BY Views, ViewsNext DEF RunningView
  <1>2. /\ Life[c] = "NEW"
        /\ \A y \in UserVA : Cells[c][y] = IF Mapped(c, y) /\ ~EarlyBy(p, y) THEN mem[pt[c][y].frame] ELSE NoValue
    BY FirstAssumption, Views DEF ChildView
  <1>3. /\ Life'[c] = "NEW"
        /\ \A y \in UserVA :
             Cells'[c][y] = IF pt'[c][y] # NoPte /\ ~EarlyBy(p, y)' THEN mem'[pt'[c][y].frame] ELSE NoValue
    BY FirstAssumption, ViewsNext DEF ChildView, Mapped
  <1>4. \A y \in UserVA : y # x => Cells'[c][y] = Cells[c][y]
    BY <1>2, <1>3 DEF Mapped
  <1>5. \A d \in Proc : d # p /\ d # c =>
            Life'[d] = Life[d] /\ \A y \in UserVA : Cells'[d][y] = Cells[d][y]
    BY ViewOfOthers
  <1>6. \A d \in Proc : Life'[d] = Life[d] /\ \A y \in UserVA : d # c \/ y # x => Cells'[d][y] = Cells[d][y]
    BY <1>1, <1>2, <1>3, <1>4, <1>5
  <1>7. UNCHANGED Life
    BY <1>6 DEF Life
  <1> QED
    BY <1>6, <1>7

\* The frames in use keep their contents when a free one is set.
LEMMA AllocQuiet ==
  ASSUME Inv, Free # {}, NEW v, mem' = [mem EXCEPT ![NewFrame] = v], NEW q \in Proc, NEW x \in VA, Mapped(q, x)
  PROVE  mem'[pt[q][x].frame] = mem[pt[q][x].frame]
  BY NewFrameFree, PteTyped DEF Inv, TypeOK

\* The handler works at PFTEMP, of which nobody sees anything.
LEMMA PftempQuiet ==
  ASSUME Inv, NEW p \in Proc, loc[p].fault \in {"copy", "map"}, NEW q \in Proc, NEW x \in UserVA
  PROVE  pt[q][x].frame # pt[p][PFTEMP].frame
  <1>1. x \in VA /\ PFTEMP \in VA /\ PFTEMP \notin UserVA /\ PFTEMP # UTEMP /\ UTEMP \notin UserVA /\ PFTEMP \notin SharedVA
    BY Layout
  <1>2. "W" \in pt[p][PFTEMP].bits
    BY FaultPages
  <1>3. \A r \in Proc : loc[r].pc \in {"sp_unmap", "map_self"} => loc[r].va \in UserVA
    BY DEF Inv, MakerInv, MakerOK, PlaceOK, Making, ForkMaking, SpawnMaking
  <1>4. ~Excused(p, PFTEMP, q, x)
    BY <1>1, <1>3 DEF Excused
  <1> QED
    BY <1>1, <1>2, <1>4 DEF Inv, Exclusive

\* The fault handler: the page at fva is replaced by one with the same contents.
LEMMA FaultHidden ==
  ASSUME Inv, Inv', NEW p \in Proc, StepCases(p),
         (Free # {} /\ FaultAlloc(p)) \/ FaultCopy(p) \/ FaultMap(p) \/ FaultUnmap(p)
  PROVE  UNCHANGED <<Life, Cells>>
  <1>1. env[p] = "LIVE" /\ UNCHANGED env /\ loc[p].fault # "none"
    BY DEF FaultAlloc, FaultCopy, FaultMap, FaultUnmap, AtFault
  <1>2. loc'[p].child = loc[p].child /\ loc'[p].pc = loc[p].pc /\ loc'[p].va = loc[p].va
    BY LocTyped DEF Inv, LocFields, FaultAlloc, FaultCopy, FaultMap, FaultUnmap
  <1>3. pt \in [Proc -> [VA -> Pte \cup {NoPte}]] /\ mem \in [Frame -> Value]
    BY DEF Inv, TypeOK
  <1>4. loc[p].child # NoProc => loc[p].child \in Proc \ {p}
    BY Child DEF Inv, MakerInv, MakerOK
  <1>5. PFTEMP \in VA /\ PFTEMP \notin UserVA /\ UserVA \subseteq VA
    BY Layout
  <1>6. \A x \in UserVA : Mapped(p, x)
    BY <1>1 DEF Inv, PageInv, LifeOK
  <1>7. ASSUME \A q \in Proc, x \in UserVA : pt'[q][x] = pt[q][x],
               \A q \in Proc, x \in UserVA : Mapped(q, x) => mem'[pt[q][x].frame] = mem[pt[q][x].frame]
        PROVE  UNCHANGED <<Life, Cells>>
    <2>1. ASSUME loc[p].child # NoProc, NEW x \in UserVA
          PROVE  pt'[loc[p].child][x] = pt[loc[p].child][x] /\ (EarlyBy(p, x)' <=> EarlyBy(p, x))
      BY <1>2, <1>4, <1>7, <2>1, SMTT(30) DEF EarlyBy
    <2> QED
      BY <1>1, <1>2, <1>6, <1>7, <2>1, Hidden
  <1>8. CASE Free # {} /\ FaultAlloc(p)
    <2>1. pt' = [pt EXCEPT ![p][PFTEMP] = [frame |-> NewFrame, bits |-> {"W"}]] /\ mem' = [mem EXCEPT ![NewFrame] = Zero]
      BY <1>8 DEF FaultAlloc, PageAlloc
    <2>2. \A q \in Proc, x \in UserVA : pt'[q][x] = pt[q][x]
      BY <1>3, <1>5, <2>1
    <2> QED
      BY <1>5, <1>7, <1>8, <2>1, <2>2, AllocQuiet
  <1>9. CASE FaultCopy(p)
    <2>1. /\ UNCHANGED pt /\ loc[p].fault = "copy"
          /\ mem' = [mem EXCEPT ![pt[p][PFTEMP].frame] = mem[pt[p][loc[p].fva].frame]]
      BY <1>9 DEF FaultCopy, AtFault
    <2>2. \A q \in Proc, x \in UserVA : Mapped(q, x) =>
              pt[q][x].frame \in Frame /\ pt[q][x].frame # pt[p][PFTEMP].frame
      BY <1>5, <2>1, PftempQuiet, PteTyped DEF Inv
    <2>3. pt[p][PFTEMP].frame \in Frame
      BY <2>1, FaultPages
    <2> QED
      BY <1>3, <1>7, <2>1, <2>2, <2>3
  <1>10. CASE FaultUnmap(p)
    <2>1. UNCHANGED mem /\ pt' = [pt EXCEPT ![p][PFTEMP] = NoPte]
      BY <1>10 DEF FaultUnmap
    <2>2. \A q \in Proc, x \in UserVA : pt'[q][x] = pt[q][x]
      BY <1>3, <1>5, <2>1
    <2> QED
      BY <1>7, <2>1, <2>2
  <1>11. CASE FaultMap(p)
    <2>1. UNCHANGED mem /\ loc[p].fault = "map"
      BY <1>11 DEF FaultMap, AtFault
    <2>2. PICK z \in UserVA : z = loc[p].fva
      BY <2>1, FaultPages
    <2>3. pt' = [pt EXCEPT ![p][z] = [frame |-> pt[p][PFTEMP].frame, bits |-> {"W"}]]
      BY <1>11, <2>2 DEF FaultMap
    <2>4. /\ \A q \in Proc, x \in UserVA : q # p \/ x # z => pt'[q][x] = pt[q][x]
          /\ pt'[p][z].frame = pt[p][PFTEMP].frame
      BY <1>3, <1>5, <2>3
    <2>5. mem[pt[p][PFTEMP].frame] = mem[pt[p][z].frame] /\ "W" \notin pt[p][z].bits
      BY <2>1, <2>2 DEF Inv, FaultInv, FaultOK
    <2>6. \A q \in Proc : pt[q][z].frame # pt[p][PFTEMP].frame
      BY <2>1, PftempQuiet
    <2>7. ASSUME loc[p].child # NoProc, NEW x \in UserVA
          PROVE  pt'[loc[p].child][x] = pt[loc[p].child][x] /\ (EarlyBy(p, x)' <=> EarlyBy(p, x))
      <3>1. PICK c \in Proc \ {p} : c = loc[p].child
        BY <1>4, <2>7
      <3>2. pt'[c][x] = pt[c][x]
        BY <2>4, <3>1
      <3>3. CASE x = z
        <4>1. ~EarlyBy(p, x)
          BY <2>5, <3>3 DEF EarlyBy
        <4>2. ~EarlyBy(p, x)'
          BY <1>2, <2>4, <2>6, <3>1, <3>2, <3>3 DEF EarlyBy
        <4> QED
          BY <3>1, <3>2, <4>1, <4>2
      <3>4. CASE x # z
        <4>1. pt'[p][x] = pt[p][x]
          BY <2>4, <3>4
        <4> QED
          BY <1>2, <3>1, <3>2, <4>1 DEF EarlyBy
      <3> QED
        BY <3>3, <3>4
    <2>8. \A x \in UserVA : mem'[pt'[p][x].frame] = mem[pt[p][x].frame]
      BY <2>1, <2>4, <2>5
    <2> QED
      BY <1>1, <1>2, <2>1, <2>7, <2>8, Hidden
  <1> QED
    BY <1>8, <1>9, <1>10, <1>11

LEMMA SameLife ==
  ASSUME \A d \in Proc : Life'[d] = Life[d]
  PROVE  Life' = Life
  BY DEF Life

LEMMA OneLife ==
  ASSUME NEW c \in Proc, NEW v, Life'[c] = v, \A d \in Proc : d # c => Life'[d] = Life[d]
  PROVE  Life' = [Life EXCEPT ![c] = v]
  <1>1. Life = [d \in Proc |-> Life[d]] /\ Life' = [d \in Proc |-> Life'[d]]
    BY DEF Life
  <1>2. [Life EXCEPT ![c] = v] = [d \in Proc |-> IF d = c THEN v ELSE Life[d]]
    BY <1>1
  <1> QED
    BY <1>1, <1>2

\* A process without a life has no memory.
LEMMA DeadView ==
  Inv => \A c \in Proc : Life[c] \in {"NONE", "DEAD"} => \A x \in UserVA : Cells[c][x] = NoValue
  BY Views, ViewValues DEF NoView

LEMMA DeadViewNext ==
  Inv' => \A c \in Proc : Life'[c] \in {"NONE", "DEAD"} => \A x \in UserVA : Cells'[c][x] = NoValue
  <1>1. Inv' => (\A c \in Proc : Life[c] \in {"NONE", "DEAD"} => \A x \in UserVA : Cells[c][x] = NoValue)'
    BY DeadView, PTL
  <1> QED
    BY <1>1

\* What is seen is a value.
LEMMA SeenValue ==
  ASSUME Inv, NEW c \in Proc, NEW x \in UserVA, Mapped(c, x)
  PROVE  mem[pt[c][x].frame] \in Value /\ mem[pt[c][x].frame] # NoValue
  <1>1. pt[c][x].frame \in Frame
    BY Layout, PteTyped DEF Inv
  <1> QED
    BY <1>1, ValueAssumption DEF Inv, TypeOK

\* A step of p that leaves the user pages and what they hold alone.
LEMMA Quiet ==
  ASSUME Inv, Inv', NEW p \in Proc, StepCases(p), env[p] = "LIVE", UNCHANGED env,
         loc'[p].child = loc[p].child,
         \A q \in Proc, x \in UserVA : pt'[q][x] = pt[q][x],
         \A q \in Proc, x \in UserVA : Mapped(q, x) => mem'[pt[q][x].frame] = mem[pt[q][x].frame],
         \/ loc[p].pc # "map_self" /\ loc'[p].pc # "map_self"
         \/ loc'[p].pc = loc[p].pc /\ loc'[p].va = loc[p].va
  PROVE  UNCHANGED <<Life, Cells>>
  <1>1. loc[p].child # NoProc => loc[p].child \in Proc
    BY Child DEF Inv, MakerInv, MakerOK
  <1>2. ASSUME loc[p].child # NoProc, NEW x \in UserVA
        PROVE  pt'[loc[p].child][x] = pt[loc[p].child][x] /\ (EarlyBy(p, x)' <=> EarlyBy(p, x))
    BY <1>1, <1>2, SMTT(30) DEF EarlyBy
  <1>3. \A x \in UserVA : mem'[pt'[p][x].frame] = mem[pt[p][x].frame]
    BY DEF Inv, PageInv, LifeOK
  <1> QED
    BY <1>2, <1>3, Hidden

\* A step that neither allocates nor writes.
LEMMA QuietCalls ==
  ASSUME Inv, Inv', NEW p \in Proc, StepCases(p),
         \/ Fork(p) \/ Spawn(p) \/ SetUpcall(p) \/ SpawnUnmap(p)
         \/ \E va \in UserVA, v \in Value : env[p] = "LIVE" /\ StoreFault(p, va, v)
  PROVE  UNCHANGED <<Life, Cells>>
  <1>1. pt \in [Proc -> [VA -> Pte \cup {NoPte}]] /\ loc \in [Proc -> LocFields]
    BY LocTyped DEF Inv, TypeOK
  <1>2. env[p] = "LIVE" /\ UNCHANGED <<env, mem>>
    BY DEF Fork, Spawn, SetUpcall, SpawnUnmap, StoreFault, At
  <1>3. \A q \in Proc, x \in UserVA : pt'[q][x] = pt[q][x]
    <2>1. pt' = pt \/ pt' = [pt EXCEPT ![p][UTEMP] = NoPte]
      BY DEF Fork, Spawn, SetUpcall, SpawnUnmap, StoreFault
    <2> QED
      BY <1>1, <2>1, Layout
  <1>4. CASE SpawnUnmap(p)
    <2>1. loc[p].pc = "sp_unmap" /\ loc[p] \in LocFields
      BY <1>1, <1>4 DEF SpawnUnmap, At
    <2>2. \E v : loc'[p] = [loc[p] EXCEPT !.pc = "sp_fill", !.va = v] \/ loc'[p] = [loc[p] EXCEPT !.pc = "sp_share", !.va = v]
      BY <1>1, <1>4 DEF SpawnUnmap
    <2>3. loc'[p].child = loc[p].child /\ loc'[p].pc # "map_self"
      BY <2>1, <2>2 DEF LocFields
    <2> QED
      BY <1>2, <1>3, <2>1, <2>3, Quiet
  <1>5. CASE ~SpawnUnmap(p)
    <2>1. \/ /\ loc[p].pc \in {"user", "upcall"}
             /\ \E pc \in {"exofork", "handler", "sp_exofork", "status"} : loc' = [loc EXCEPT ![p].pc = pc]
          \/ \E va, v : loc' = [loc EXCEPT ![p].fault = "alloc", ![p].fva = va, ![p].fval = v]
      BY <1>5, ZenonT(60) DEF Fork, Spawn, SetUpcall, StoreFault, At
    <2>2. /\ loc'[p].child = loc[p].child /\ loc'[p].va = loc[p].va
          /\ \/ loc[p].pc # "map_self" /\ loc'[p].pc # "map_self"
             \/ loc'[p].pc = loc[p].pc
      <3>1. CASE \E va, v : loc' = [loc EXCEPT ![p].fault = "alloc", ![p].fva = va, ![p].fval = v]
        <4>1. PICK va, v : loc' = [loc EXCEPT ![p].fault = "alloc", ![p].fva = va, ![p].fval = v]
          BY <3>1
        <4> QED
          BY <1>1, <4>1 DEF LocFields
      <3>2. CASE /\ loc[p].pc \in {"user", "upcall"}
                 /\ \E pc \in {"exofork", "handler", "sp_exofork", "status"} : loc' = [loc EXCEPT ![p].pc = pc]
        <4>1. PICK pc \in {"exofork", "handler", "sp_exofork", "status"} : loc' = [loc EXCEPT ![p].pc = pc]
          BY <3>2
        <4>2. loc'[p] = [loc[p] EXCEPT !.pc = pc] /\ loc[p] \in LocFields
          BY <1>1, <4>1
        <4> QED
          BY <3>2, <4>2 DEF LocFields
      <3> QED
        BY <2>1, <3>1, <3>2
    <2> QED
      BY <1>2, <1>3, <2>2, Quiet
  <1> QED
    BY <1>4, <1>5

\* A step that allocates a page which is not seen yet.
LEMMA QuietAllocs ==
  ASSUME Inv, Inv', NEW p \in Proc, StepCases(p), Free # {},
         \/ SetHandler(p) \/ AllocXstack(p)
         \/ (SpawnStack(p) \/ SpawnFill(p)) /\ UNCHANGED env
  PROVE  UNCHANGED <<Life, Cells>>
  <1>1. pt \in [Proc -> [VA -> Pte \cup {NoPte}]] /\ loc \in [Proc -> LocFields] /\ env \in [Proc -> {"NONE", "NEW", "LIVE", "DEAD"}]
    BY LocTyped DEF Inv, TypeOK
  <1>2. env[p] = "LIVE" /\ loc[p].pc # "map_self" /\ UNCHANGED env
    BY DEF SetHandler, AllocXstack, SpawnStack, SpawnFill, At
  <1>3. PICK v : mem' = [mem EXCEPT ![NewFrame] = v]
    BY DEF SetHandler, AllocXstack, SpawnStack, SpawnFill, PageAlloc
  <1>4. \A q \in Proc, x \in UserVA : Mapped(q, x) => mem'[pt[q][x].frame] = mem[pt[q][x].frame]
    BY <1>3, AllocQuiet, Layout
  <1>5. ASSUME SpawnFill(p), NEW e PROVE ~SpawnFail(p, e)
    <2>1. loc[p].pc \in Making
      BY <1>5 DEF SpawnFill, At, Making, SpawnMaking
    <2>2. loc[p].child \in Proc /\ env[loc[p].child] = "NEW"
      BY <2>1, Child
    <2> QED
      BY <1>1, <1>2, <2>2 DEF SpawnFail
  <1>6. \E q \in Proc, va \in {UTEMP, UXSTACK} : \E pc \in {"exofork", "upcall", "sp_map"} :
           /\ pt' = [pt EXCEPT ![q][va] = [frame |-> NewFrame, bits |-> {"W"}]]
           /\ loc' = [loc EXCEPT ![p].pc = pc]
    <2>1. AllocXstack(p) => loc[p].child \in Proc
      BY Child DEF AllocXstack, At, Making, ForkMaking
    <2> QED
      BY <1>5, <2>1 DEF SetHandler, AllocXstack, SpawnStack, SpawnFill, PageAlloc
  <1>7. PICK pc \in {"exofork", "upcall", "sp_map"} : loc' = [loc EXCEPT ![p].pc = pc]
    BY <1>6
  <1>8. loc'[p].child = loc[p].child /\ loc'[p].pc # "map_self"
    BY <1>1, <1>7 DEF LocFields
  <1>9. \A q \in Proc, x \in UserVA : pt'[q][x] = pt[q][x]
    BY <1>1, <1>6, Layout
  <1> QED
    BY <1>2, <1>4, <1>8, <1>9, Quiet

\* A write that is done is seen by the writer, and by all who share the page.
LEMMA WriteRefined ==
  ASSUME Inv, Inv', NEW p \in Proc, StepCases(p), env[p] = "LIVE", UNCHANGED <<env, pt>>, loc[p].fault # "unmap",
         \A q \in Proc : loc'[q].pc = loc[q].pc /\ loc'[q].va = loc[q].va /\ loc'[q].child = loc[q].child,
         NEW z \in UserVA, NEW v \in Value, "W" \in pt[p][z].bits, v # mem[pt[p][z].frame],
         mem' = [mem EXCEPT ![pt[p][z].frame] = v]
  PROVE  Promise!Write(p, z, v)
  <1>1. \A q \in Proc, y \in UserVA : Visible(q, y)' <=> Visible(q, y)
    BY DEF Visible, Mapped, Made, Early
  <1>2. UNCHANGED Life
    BY DEF Life, Made
  <1>3. \A q \in Proc, y \in UserVA : Cells'[q][y] = IF Visible(q, y) THEN mem'[pt[q][y].frame] ELSE NoValue
    BY <1>1 DEF Cells
  <1>4. \A q \in Proc, y \in UserVA : Visible(q, y) => Mapped(q, y) /\ pt[q][y].frame \in Frame /\ Cells[q][y] # NoValue
    BY Layout, PteTyped, SeenValue, ViewValues DEF Visible, Inv
  <1>5. Visible(p, z) /\ pt[p][z].frame \in Frame
    <2>1. Mapped(p, z)
      BY DEF Inv, PageInv, LifeOK
    <2> QED
      BY <1>4, <2>1 DEF Visible
  <1>6. ASSUME NEW q \in Proc, NEW y \in UserVA, q # p \/ y # z, Visible(q, y), pt[q][y].frame = pt[p][z].frame
        PROVE  y = z /\ z \in SharedVA
    <2>1. y \in VA /\ z \in VA /\ z # UTEMP /\ y # UTEMP /\ z # PFTEMP
      BY Layout
    <2>2. CASE loc[p].pc # "map_self"
      BY <1>6, <2>1, <2>2, NoReason
    <2>3. CASE loc[p].pc = "map_self"
      <3>1. Excused(p, z, q, y)
        BY <1>6, <2>1 DEF Inv, Exclusive
      <3>2. CASE q = loc[p].child /\ y = z /\ z = loc[p].va
        <4>1. Early(q, y)
          BY <1>6, <2>3, <3>2 DEF Early
        <4>2. env[q] = "NEW"
          BY <2>3, <3>2, Child DEF Making, ForkMaking
        <4> QED
          BY <1>6, <4>1, <4>2, SMTT(30) DEF Visible
      <3> QED
        BY <2>1, <3>1, <3>2 DEF Excused
    <2> QED
      BY <2>2, <2>3
  <1>7. ASSUME NEW q \in Proc, z \in SharedVA, Visible(q, z) PROVE pt[q][z].frame = pt[p][z].frame
    BY <1>4, <1>5, <1>7 DEF Inv, PageInv, SharedSame
  <1>8. mem'[pt[p][z].frame] = v /\ \A f \in Frame : f # pt[p][z].frame => mem'[f] = mem[f]
    BY <1>5 DEF Inv, TypeOK
  <1>9. \A q \in Proc : z \in SharedVA => (Visible(q, z) <=> Cells[q][z] # NoValue)
    BY <1>4, ViewValues
  <1>10. \A q \in Proc, y \in UserVA :
            Cells'[q][y] = IF y = z /\ (q = p \/ (z \in SharedVA /\ Cells[q][z] # NoValue)) THEN v ELSE Cells[q][y]
    <2>1. ASSUME NEW q \in Proc, NEW y \in UserVA
          PROVE  Cells'[q][y] = IF y = z /\ (q = p \/ (z \in SharedVA /\ Cells[q][z] # NoValue)) THEN v ELSE Cells[q][y]
      <3>1. CASE ~Visible(q, y)
        BY <1>3, <1>5, <1>9, <3>1, ViewValues
      <3>2. CASE Visible(q, y) /\ pt[q][y].frame = pt[p][z].frame
        BY <1>3, <1>6, <1>8, <1>9, <3>2
      <3>3. CASE Visible(q, y) /\ pt[q][y].frame # pt[p][z].frame
        <4>1. Cells'[q][y] = Cells[q][y]
          BY <1>3, <1>4, <1>8, <3>3, ViewValues
        <4>2. ~(y = z /\ (q = p \/ (z \in SharedVA /\ Cells[q][z] # NoValue)))
          BY <1>7, <3>3
        <4> QED
          BY <4>1, <4>2
      <3> QED
        BY <3>1, <3>2, <3>3
    <2> QED
      BY <2>1
  <1>11. Cells' = [q \in Proc |-> IF q = p \/ (z \in SharedVA /\ Cells[q][z] # NoValue)
                                    THEN [Cells[q] EXCEPT ![z] = v] ELSE Cells[q]]
    <2>1. ASSUME NEW q \in Proc
          PROVE  Cells'[q] = IF q = p \/ (z \in SharedVA /\ Cells[q][z] # NoValue)
                               THEN [Cells[q] EXCEPT ![z] = v] ELSE Cells[q]
      <3> DEFINE Sees == q = p \/ (z \in SharedVA /\ Cells[q][z] # NoValue)
      <3>1. \A y \in UserVA : Cells'[q][y] = IF y = z /\ Sees THEN v ELSE Cells[q][y]
        BY <1>10
      <3> HIDE DEF Sees
      <3>2. CASE Sees
        <4>1. [Cells[q] EXCEPT ![z] = v] = [y \in UserVA |-> IF y = z THEN v ELSE Cells[q][y]]
          BY Rows
        <4>2. [y \in UserVA |-> Cells'[q][y]] = [y \in UserVA |-> IF y = z THEN v ELSE Cells[q][y]]
          BY <3>1, <3>2
        <4>3. Cells'[q] = [Cells[q] EXCEPT ![z] = v]
          BY <4>1, <4>2, Rows
        <4> QED
          BY <3>2, <4>3 DEF Sees
      <3>3. CASE ~Sees
        <4>1. [y \in UserVA |-> Cells'[q][y]] = [y \in UserVA |-> Cells[q][y]]
          BY <3>1, <3>3
        <4>2. Cells'[q] = Cells[q]
          BY <4>1, Rows
        <4> QED
          BY <3>3, <4>2 DEF Sees
      <3> QED
        BY <3>2, <3>3
    <2> QED
      BY <2>1, Rows
  <1>12. Life[p] = "LIVE" /\ Cells[p][z] \notin {NoValue, v}
    BY <1>4, <1>5, Views, ViewValues DEF RunningView
  <1> QED
    BY <1>2, <1>11, <1>12 DEF Promise!Write

\* Processes that end are seen no more, and nobody else notices.
LEMMA Ends ==
  ASSUME Inv, Inv', NEW p \in Proc, StepCases(p), env[p] = "LIVE", loc'[p].child = NoProc,
         NEW E \in SUBSET Proc, loc[p].child \in Proc => loc[p].child \in E,
         \A q \in E : Life[q] \in {"NEW", "LIVE"} /\ Life'[q] = "DEAD",
         \A q \in Proc \ E : env'[q] = env[q],
         p \notin E => \A x \in UserVA : pt'[p][x] = pt[p][x],
         \A q \in Proc, x \in UserVA : Mapped(q, x) => mem'[pt[q][x].frame] = mem[pt[q][x].frame]
  PROVE  Promise!End(E)
  <1>1. \A q \in E, x \in UserVA : Cells'[q][x] = NoValue
    BY DeadViewNext
  <1>2. ASSUME NEW q \in Proc \ E, q # p
        PROVE  Life'[q] = Life[q] /\ \A x \in UserVA : Cells'[q][x] = Cells[q][x]
    <2>1. q # loc[p].child /\ q # loc'[p].child /\ env'[q] = env[q]
      BY FirstAssumption
    <2> QED
      BY <1>2, <2>1, ViewOfOthers
  <1>3. ASSUME p \notin E PROVE Life'[p] = Life[p] /\ \A x \in UserVA : Cells'[p][x] = Cells[p][x]
    <2>1. env'[p] = "LIVE" /\ \A x \in UserVA : mem'[pt'[p][x].frame] = mem[pt[p][x].frame]
      BY <1>3 DEF Inv, PageInv, LifeOK
    <2> QED
      BY <2>1, Views, ViewsNext DEF RunningView
  <1>4. Life' = [q \in Proc |-> IF q \in E THEN "DEAD" ELSE Life[q]]
    <2>1. Life' = [q \in Proc |-> Life'[q]]
      BY DEF Life
    <2>2. \A q \in Proc : Life'[q] = IF q \in E THEN "DEAD" ELSE Life[q]
      BY <1>2, <1>3
    <2> QED
      BY <2>1, <2>2
  <1>5. Cells' = [q \in Proc |-> IF q \in E THEN Promise!Nobody ELSE Cells[q]]
    <2>1. ASSUME NEW q \in E PROVE Cells'[q] = Promise!Nobody
      <3>1. [x \in UserVA |-> Cells'[q][x]] = [x \in UserVA |-> NoValue]
        BY <1>1
      <3> QED
        BY <3>1, Rows DEF Promise!Nobody
    <2>2. ASSUME NEW q \in Proc \ E PROVE Cells'[q] = Cells[q]
      <3>1. [x \in UserVA |-> Cells'[q][x]] = [x \in UserVA |-> Cells[q][x]]
        BY <1>2, <1>3
      <3> QED
        BY <3>1, Rows
    <2> QED
      BY <2>1, <2>2, Rows
  <1> QED
    BY <1>4, <1>5 DEF Promise!End

\* A child that is being made lives on only while its maker does.
LEMMA Orphan ==
  ASSUME Inv, Inv', NEW p \in Proc, StepCases(p), NEW c \in Proc, loc[p].child = c, loc'[p].child = NoProc,
         env'[c] = "NEW"
  PROVE  Life'[c] = "DEAD"
  <1>1. \A q \in Proc : q # p => loc'[q].child # c
    BY OnlyActor, FirstAssumption DEF Inv, MakerInv, MakerOK
  <1>2. ~Made(c)'
    BY <1>1, FirstAssumption DEF Made
  <1> QED
    BY <1>2 DEF Life

LEMMA DeathRefined ==
  ASSUME Inv, Inv', NEW p \in Proc, StepCases(p),
         \/ Dies(p)
         \/ Free = {} /\ SpawnStack(p)
         \/ \E utemp : SpawnFill(p) /\ SpawnFail(p, utemp)
  PROVE  \E E \in SUBSET Proc : Promise!End(E)
  <1>1. /\ pt \in [Proc -> [VA -> Pte \cup {NoPte}]] /\ loc \in [Proc -> LocFields]
        /\ env \in [Proc -> {"NONE", "NEW", "LIVE", "DEAD"}]
    BY LocTyped DEF Inv, TypeOK
  <1>2. env[p] = "LIVE" /\ loc' = [loc EXCEPT ![p] = User]
    BY DEF Dies, SpawnStack, SpawnFill, SpawnFail, At
  <1>3. loc'[p].child = NoProc
    BY <1>1, <1>2 DEF User
  <1>4. \A q \in Proc, x \in UserVA : Mapped(q, x) => mem'[pt[q][x].frame] = mem[pt[q][x].frame]
    <2>1. UNCHANGED mem \/ (Free # {} /\ mem' = [mem EXCEPT ![NewFrame] = Zero])
        \/ (Free # {} /\ mem' = [mem EXCEPT ![NewFrame] = FileValue[loc[p].va]])
      BY DEF Dies, SpawnStack, SpawnFill
    <2> QED
      BY <2>1, AllocQuiet, Layout
  <1>5. ASSUME NEW c \in Proc, c = loc[p].child PROVE Life[c] = "NEW" /\ c # p /\ env[c] = "NEW"
    <2>1. loc[p].pc \in Making
      BY <1>5, FirstAssumption DEF Inv, MakerInv, MakerOK
    <2> QED
      BY <1>5, <2>1, Child, Views, FirstAssumption DEF ChildView
  <1>6. CASE Dies(p)
    <2> DEFINE E == {q \in Proc : q = p \/ q = loc[p].child}
    <2>1. Life[p] = "LIVE" /\ Life'[p] = "DEAD"
      BY <1>1, <1>2, <1>6, Views, ViewValues DEF Dies, RunningView, Life
    <2>2. ASSUME NEW c \in Proc, c = loc[p].child PROVE Life[c] = "NEW" /\ Life'[c] = "DEAD"
      <3>1. env'[c] = "NEW"
        BY <1>1, <1>5, <1>6, <2>2 DEF Dies
      <3> QED
        BY <1>3, <1>5, <2>2, <3>1, Orphan
    <2>3. E \in SUBSET Proc /\ p \in E /\ (loc[p].child \in Proc => loc[p].child \in E)
      OBVIOUS
    <2>4. \A q \in E : Life[q] \in {"NEW", "LIVE"} /\ Life'[q] = "DEAD"
      BY <2>1, <2>2
    <2>5. \A q \in Proc \ E : env'[q] = env[q]
      BY <1>1, <1>6 DEF Dies
    <2> HIDE DEF E
    <2>6. Promise!End(E)
      BY <1>2, <1>3, <1>4, <2>3, <2>4, <2>5, Ends
    <2> QED
      BY <2>3, <2>6
  <1>7. CASE ~Dies(p)
    <2>1. loc[p].pc \in Making
      BY <1>7 DEF SpawnStack, SpawnFill, At, Making, SpawnMaking
    <2>2. PICK c \in Proc \ {p} : c = loc[p].child
      BY <2>1, Child
    <2>3. \A q \in Proc \ {c} : env'[q] = env[q]
      BY <1>1, <1>7, <2>2 DEF SpawnStack, SpawnFill, SpawnFail
    <2>4. Life'[c] = "DEAD"
      <3>1. CASE SpawnStack(p)
        <4>1. env'[c] = "NEW"
          BY <1>5, <2>2, <3>1 DEF SpawnStack
        <4> QED
          BY <1>3, <2>2, <4>1, Orphan
      <3>2. CASE ~SpawnStack(p)
        <4>1. env'[c] = "DEAD"
          BY <1>1, <1>7, <2>2, <3>2 DEF SpawnFail
        <4> QED
          BY <4>1 DEF Life
      <3> QED
        BY <3>1, <3>2
    <2>5. \A x \in UserVA : pt'[p][x] = pt[p][x]
      BY <1>1, <1>7, <2>2, Layout DEF SpawnStack, SpawnFail
    <2>6. Promise!End({c})
      <3> DEFINE E == {c}
      <3>1. E \in SUBSET Proc /\ p \notin E /\ loc[p].child \in E
        BY <2>2
      <3>2. \A q \in E : Life[q] \in {"NEW", "LIVE"} /\ Life'[q] = "DEAD"
        BY <1>5, <2>2, <2>4
      <3>3. \A q \in Proc \ E : env'[q] = env[q]
        BY <2>3
      <3> HIDE DEF E
      <3>4. Promise!End(E)
        BY <1>2, <1>3, <1>4, <2>5, <3>1, <3>2, <3>3, Ends
      <3> QED
        BY <3>4 DEF E
    <2> QED
      BY <2>6
  <1> QED
    BY <1>6, <1>7

\* sys_exofork: a new process without memory.
LEMMA CreateRefined ==
  ASSUME Inv, Inv', NEW p \in Proc, StepCases(p), NEW c \in Proc, Exofork(p, c) \/ SpawnExofork(p, c)
  PROVE  Promise!Create(c)
  <1>1. loc \in [Proc -> LocFields] /\ env \in [Proc -> {"NONE", "NEW", "LIVE", "DEAD"}]
    BY LocTyped DEF Inv, TypeOK
  <1>2. /\ env[p] = "LIVE" /\ env[c] = "NONE" /\ loc[p].pc \in {"exofork", "sp_exofork"}
        /\ env' = [env EXCEPT ![c] = "NEW"] /\ UNCHANGED <<pt, mem>>
    BY DEF Exofork, SpawnExofork, At
  <1>3. loc'[p].child = c
    BY <1>1 DEF Exofork, SpawnExofork, LocFields
  <1>4. loc[p].child = NoProc
    BY <1>2 DEF Inv, MakerInv, MakerOK, Making, ForkMaking, SpawnMaking
  <1>5. Life[c] = "NONE" /\ \A x \in UserVA : Cells[c][x] = NoValue
    BY <1>2, Views, ViewValues DEF NoView
  <1>6. Life'[c] = "NEW" /\ \A x \in UserVA : Cells'[c][x] = NoValue
    <2>1. \A x \in UserVA : ~Mapped(c, x)
      BY <1>2, Layout DEF Inv, PageInv, LifeOK
    <2> QED
      BY <1>2, <1>3, <2>1, ViewsNext, FirstAssumption DEF ChildView, Mapped
  <1>7. Life'[p] = Life[p] /\ \A x \in UserVA : Cells'[p][x] = Cells[p][x]
    BY <1>1, <1>2, Views, ViewsNext DEF RunningView
  <1>8. ASSUME NEW q \in Proc, q # p, q # c PROVE Life'[q] = Life[q] /\ \A x \in UserVA : Cells'[q][x] = Cells[q][x]
    <2>1. q # loc[p].child /\ q # loc'[p].child /\ env'[q] = env[q]
      BY <1>1, <1>2, <1>3, <1>4, <1>8, FirstAssumption
    <2> QED
      BY <1>2, <1>8, <2>1, ViewOfOthers
  <1>9. \A q \in Proc, x \in UserVA : Cells'[q][x] = Cells[q][x]
    BY <1>5, <1>6, <1>7, <1>8
  <1>10. Life' = [Life EXCEPT ![c] = "NEW"]
    BY <1>6, <1>7, <1>8, OneLife, <1>2
  <1> QED
    BY <1>5, <1>9, <1>10, SameCells DEF Promise!Create

\* sys_env_set_status: the child has all its pages and starts.
LEMMA StartRefined ==
  ASSUME Inv, Inv', NEW p \in Proc, StepCases(p), StartChild(p)
  PROVE  \E c \in Proc : Promise!Start(c)
  <1>1. loc \in [Proc -> LocFields] /\ env \in [Proc -> {"NONE", "NEW", "LIVE", "DEAD"}]
    BY LocTyped DEF Inv, TypeOK
  <1>2. env[p] = "LIVE" /\ loc[p].pc \in {"status", "sp_status"} /\ loc[p].pc \in Making
    BY DEF StartChild, At, Making, ForkMaking, SpawnMaking
  <1>3. PICK c \in Proc \ {p} : c = loc[p].child
    BY <1>2, Child
  <1>4. env' = [env EXCEPT ![c] = "LIVE"] /\ UNCHANGED <<pt, mem>>
    BY <1>3 DEF StartChild
  <1>5. loc'[p].child = NoProc
    BY <1>1 DEF StartChild, User
  <1>6. \A x \in UserVA : Mapped(c, x) /\ ~EarlyBy(p, x)
    <2>1. \A x \in UserVA : Given(p, x)
      BY <1>2 DEF Given
    <2> QED
      BY <1>2, <1>3, <2>1 DEF Inv, PageInv, GivenOK, EarlyBy
  <1>7. Life[c] = "NEW" /\ \A x \in UserVA : Cells[c][x] = mem[pt[c][x].frame]
    BY <1>3, <1>6, Views, FirstAssumption DEF ChildView
  <1>8. \A x \in UserVA : Cells[c][x] # NoValue
    BY <1>6, <1>7, SeenValue
  <1>9. Life'[c] = "LIVE" /\ \A x \in UserVA : Cells'[c][x] = Cells[c][x]
    BY <1>1, <1>4, <1>7, ViewsNext DEF RunningView
  <1>10. Life'[p] = Life[p] /\ \A x \in UserVA : Cells'[p][x] = Cells[p][x]
    BY <1>1, <1>2, <1>3, <1>4, Views, ViewsNext DEF RunningView
  <1>11. ASSUME NEW q \in Proc, q # p, q # c PROVE Life'[q] = Life[q] /\ \A x \in UserVA : Cells'[q][x] = Cells[q][x]
    <2>1. q # loc[p].child /\ q # loc'[p].child /\ env'[q] = env[q]
      BY <1>1, <1>3, <1>4, <1>5, <1>11, FirstAssumption
    <2> QED
      BY <1>4, <1>11, <2>1, ViewOfOthers
  <1>12. \A q \in Proc, x \in UserVA : Cells'[q][x] = Cells[q][x]
    BY <1>9, <1>10, <1>11
  <1>13. Life' = [Life EXCEPT ![c] = "LIVE"]
    BY <1>9, <1>10, <1>11, OneLife, <1>3
  <1>14. Promise!Start(c)
    BY <1>7, <1>8, <1>12, <1>13, SameCells DEF Promise!Start
  <1> QED
    BY <1>14

\* The steps that give the child a page: duppage in two system calls, of
\* which the one that takes the right to write from the parent makes the page
\* the child's, copy_shared_pages, and map_segment or init_stack.
LEMMA GiveRefined ==
  ASSUME Inv, Inv', NEW p \in Proc, StepCases(p), DupChild(p) \/ DupSelf(p) \/ SpawnShare(p) \/ SpawnMap(p)
  PROVE  \/ UNCHANGED <<Life, Cells>>
         \/ \E c \in Proc, x \in UserVA : Promise!Inherit(p, c, x) \/ Promise!Load(c, x)
  <1>1. /\ pt \in [Proc -> [VA -> Pte \cup {NoPte}]] /\ loc \in [Proc -> LocFields]
    BY LocTyped, SMTT(30) DEF Inv, TypeOK
  <1>2. /\ env[p] = "LIVE" /\ UNCHANGED <<env, mem>> /\ loc[p].pc \in Making
        /\ DupChild(p) => loc[p].pc = "map_child"
        /\ DupSelf(p) => loc[p].pc = "map_self"
        /\ SpawnShare(p) => loc[p].pc = "sp_share"
        /\ SpawnMap(p) => loc[p].pc = "sp_map"
    BY DEF DupChild, DupSelf, SpawnShare, SpawnMap, At, Making, ForkMaking, SpawnMaking
  <1>3. PICK c \in Proc \ {p} : c = loc[p].child
    BY <1>2, Child
  <1>4. PICK x \in UserVA : x = loc[p].va
    BY <1>2, Child
  <1>5. UserVA \subseteq VA /\ SharedVA \subseteq UserVA /\ UserVA \subseteq Nat /\ UTEMP \notin UserVA
    BY Layout
  <1>6. /\ DupChild(p) \/ DupSelf(p) \/ SpawnShare(p) \/ SpawnMap(p)
        /\ loc'[p].child = c
        /\ DupChild(p) => (loc'[p].pc = "map_self" /\ loc'[p].va = x) \/ loc'[p].pc \in {"map_child", "xstack"}
        /\ DupSelf(p) => loc'[p].pc \in {"map_child", "xstack"}
        /\ SpawnShare(p) => loc'[p].pc \in {"sp_status", "sp_share"}
        /\ SpawnMap(p) => loc'[p].pc = "sp_unmap"
    <2>1. /\ NextPage(p).child = c /\ NextPage(p).pc \in {"map_child", "xstack"}
      BY <1>2, <1>3, NextPageCases
    <2>2. CASE DupChild(p)
      <3>1. loc' = [loc EXCEPT ![p].pc = "map_self"] \/ loc' = [loc EXCEPT ![p] = NextPage(p)]
        BY <2>2, DupChildCases
      <3> QED
        BY <1>1, <1>2, <1>3, <1>4, <2>1, <2>2, <3>1 DEF LocFields
    <2>3. CASE DupSelf(p)
      BY <1>1, <1>2, <1>3, <2>1, <2>3 DEF DupSelf
    <2>4. CASE SpawnShare(p)
      <3>1. \/ loc'[p] = [loc[p] EXCEPT !.pc = "sp_status"]
            \/ loc'[p] = [loc[p] EXCEPT !.va = x + 1]
        BY <1>1, <1>4, <2>4 DEF SpawnShare
      <3> QED
        BY <1>1, <1>2, <1>3, <2>4, <3>1 DEF LocFields
    <2>5. CASE SpawnMap(p)
      BY <1>1, <1>2, <1>3, <2>5 DEF SpawnMap, LocFields
    <2> QED
      BY <2>2, <2>3, <2>4, <2>5, <1>2
  <1>7. \A y \in UserVA : y # x => (EarlyBy(p, y)' <=> EarlyBy(p, y))
    BY <1>2, <1>4, <1>6 DEF EarlyBy
  <1>8. /\ \A y \in UserVA : y # x => pt'[c][y] = pt[c][y]
        /\ \A y \in UserVA : pt'[p][y].frame = pt[p][y].frame
        /\ DupChild(p) => pt'[c][x].frame = pt[p][x].frame /\ pt'[p][x] = pt[p][x]
        /\ DupSelf(p) => pt'[c][x] = pt[c][x]
        /\ SpawnShare(p) /\ x \in SharedVA => pt'[c][x] = pt[p][x]
        /\ SpawnShare(p) /\ x \notin SharedVA => pt'[c][x] = pt[c][x]
        /\ SpawnMap(p) => pt'[c][x] = pt[p][UTEMP]
    <2>1. CASE DupChild(p)
      <3>1. \E e : pt' = [pt EXCEPT ![c][x] = e] /\ e.frame = pt[p][x].frame
        <4>1. DEFINE e == [frame |-> pt[p][x].frame, bits |-> {"COW"}]
        <4>2. e.frame = pt[p][x].frame
          OBVIOUS
        <4>3. pt' = [pt EXCEPT ![c][x] = e] \/ pt' = [pt EXCEPT ![c][x] = pt[p][x]]
          BY <1>3, <1>4, <2>1, DupChildCases
        <4> QED
          BY <4>2, <4>3
      <3>2. PICK e : pt' = [pt EXCEPT ![c][x] = e] /\ e.frame = pt[p][x].frame
        BY <3>1
      <3>3. /\ pt'[c][x] = e /\ pt'[p] = pt[p]
            /\ \A y \in UserVA : y # x => pt'[c][y] = pt[c][y]
        BY <1>1, <1>5, <3>2
      <3> QED
        BY <1>2, <2>1, <3>2, <3>3
    <2>2. CASE DupSelf(p)
      <3> DEFINE e == [frame |-> pt[p][x].frame, bits |-> {"COW"}]
      <3>1. e.frame = pt[p][x].frame /\ pt' = [pt EXCEPT ![p][x] = e]
        BY <1>4, <2>2, DupSelfCases
      <3> HIDE DEF e
      <3>2. pt'[p][x] = e /\ pt'[c] = pt[c] /\ \A y \in UserVA : y # x => pt'[p][y] = pt[p][y]
        BY <1>1, <1>5, <3>1
      <3> QED
        BY <1>2, <2>2, <3>1, <3>2
    <2>3. CASE SpawnShare(p)
      <3>1. \/ x \in SharedVA /\ pt' = [pt EXCEPT ![c][x] = pt[p][x]]
            \/ x \notin SharedVA /\ pt' = pt
        BY <1>3, <1>4, <2>3, SpawnShareCases
      <3> QED
        BY <1>1, <1>2, <1>5, <2>3, <3>1
    <2>4. CASE SpawnMap(p)
      <3>1. pt' = [pt EXCEPT ![c][x] = pt[p][UTEMP]]
        BY <1>3, <1>4, <2>4 DEF SpawnMap
      <3> QED
        BY <1>1, <1>2, <1>5, <2>4, <3>1
    <2> QED
      BY <1>6, <2>1, <2>2, <2>3, <2>4
  <1>9. UNCHANGED Life /\ \A d \in Proc, y \in UserVA : d # c \/ y # x => Cells'[d][y] = Cells[d][y]
    <2>1. \A y \in UserVA : y # x => pt'[c][y] = pt[c][y] /\ (EarlyBy(p, y)' <=> EarlyBy(p, y))
      BY <1>7, <1>8
    <2>2. env[p] = "LIVE" /\ UNCHANGED <<env, mem>> /\ loc[p].child = c /\ loc'[p].child = c
      BY <1>2, <1>3, <1>6
    <2>3. \A y \in UserVA : pt'[p][y].frame = pt[p][y].frame
      BY <1>8
    <2> HIDE <1>2, <1>6, <1>7, <1>8
    <2> QED
      BY <2>1, <2>2, <2>3, ChildCell
  <1>10. /\ Life[p] = "LIVE" /\ Life[c] = "NEW"
         /\ Cells[p][x] = mem[pt[p][x].frame] /\ Cells[p][x] # NoValue
         /\ Cells[c][x] = IF Mapped(c, x) /\ ~EarlyBy(p, x) THEN mem[pt[c][x].frame] ELSE NoValue
    BY <1>2, <1>3, Views, FirstAssumption DEF RunningView, ChildView
  <1>11. Cells'[c][x] = IF pt'[c][x] # NoPte /\ ~EarlyBy(p, x)' THEN mem[pt'[c][x].frame] ELSE NoValue
    BY <1>2, <1>3, <1>6, ViewsNext, FirstAssumption DEF ChildView, Mapped
  <1>12. Mapped(c, x) <=> Given(p, x)
    BY <1>2, <1>3 DEF Inv, PageInv, GivenOK
  <1>13. Mapped(p, x) /\ pt[p][x].frame # NoFrame
    <2>1. Mapped(p, x)
      BY <1>2 DEF Inv, PageInv, LifeOK
    <2> QED
      BY <1>5, <2>1, PteTyped, FrameAssumption DEF Inv
  <1>14. Cells'[c][x] = Cells[p][x] /\ Cells[c][x] = NoValue => Promise!Inherit(p, c, x)
    BY <1>9, <1>10, OneCell DEF Promise!Inherit
  <1>15. Cells'[c][x] = Cells[c][x] => UNCHANGED <<Life, Cells>>
    BY <1>9, SameCells
  <1>16. CASE DupChild(p)
    <2>1. Cells[c][x] = NoValue
      BY <1>2, <1>4, <1>5, <1>10, <1>12, <1>16 DEF Given
    <2>2. pt'[c][x] # NoPte
      BY <1>8, <1>13, <1>16, PteTyped
    <2>3. Cells'[c][x] = NoValue \/ Cells'[c][x] = Cells[p][x]
      BY <1>8, <1>10, <1>11, <1>16, <2>2
    <2> QED
      BY <1>14, <1>15, <2>1, <2>3
  <1>17. CASE DupSelf(p)
    <2>1. Mapped(c, x)
      BY <1>2, <1>4, <1>5, <1>12, <1>17 DEF Given
    <2>2. ~EarlyBy(p, x)'
      BY <1>6, <1>17 DEF EarlyBy
    <2>3. Cells'[c][x] = mem[pt[c][x].frame]
      BY <1>8, <1>11, <1>17, <2>1, <2>2 DEF Mapped
    <2>4. EarlyBy(p, x) => pt[c][x].frame = pt[p][x].frame
      BY <1>3 DEF EarlyBy
    <2> QED
      BY <1>10, <1>14, <1>15, <2>1, <2>3, <2>4
  <1>18. CASE SpawnShare(p)
    <2>1. ~EarlyBy(p, x) /\ ~EarlyBy(p, x)'
      BY <1>2, <1>6, <1>18 DEF EarlyBy
    <2>2. CASE x \in SharedVA
      <3>1. Cells[c][x] = NoValue
        BY <1>2, <1>4, <1>5, <1>10, <1>12, <1>18, <2>2 DEF Given
      <3> QED
        BY <1>8, <1>10, <1>11, <1>13, <1>14, <1>18, <2>1, <2>2, <3>1 DEF Mapped
    <2>3. CASE x \notin SharedVA
      BY <1>8, <1>10, <1>11, <1>15, <1>18, <2>1, <2>3 DEF Mapped
    <2> QED
      BY <2>2, <2>3
  <1>19. CASE SpawnMap(p)
    <2>1. x \in Segment \cup {Stack} /\ x \notin SharedVA
      BY <1>2, <1>4, <1>19, Layout DEF Inv, MakerInv, MakerOK, PlaceOK
    <2>2. Cells[c][x] = NoValue
      BY <1>2, <1>4, <1>5, <1>10, <1>12, <1>19 DEF Given
    <2>3. /\ pt[p][UTEMP] # NoPte
          /\ mem[pt[p][UTEMP].frame] = IF x = Stack THEN ArgValue ELSE FileValue[x]
      BY <1>2, <1>4, <1>19 DEF Inv, PreparedInv, Mapped
    <2>4. ImageValue[x] = IF x = Stack THEN ArgValue ELSE FileValue[x]
      BY <2>1, Layout DEF ImageValue
    <2>5. ~EarlyBy(p, x)'
      BY <1>6, <1>19 DEF EarlyBy
    <2>6. Cells'[c][x] = ImageValue[x]
      BY <1>8, <1>11, <1>19, <2>3, <2>4, <2>5
    <2>7. Promise!Load(c, x)
      BY <1>9, <1>10, <2>1, <2>2, <2>6, OneCell DEF Promise!Load
    <2> QED
      BY <2>7
  <1> QED
    BY <1>6, <1>16, <1>17, <1>18, <1>19

\* Every step of the model is a step of PrivateMemory, or is not seen.
LEMMA StepRefined ==
  ASSUME Inv, Inv', NEW p \in Proc, StepCases(p)
  PROVE  Promise!Next \/ UNCHANGED <<Life, Cells>>
  <1>1. ASSUME NEW z \in UserVA, NEW v \in Value, Writes(p, z, v), StoreDone(p, z, v) PROVE Promise!Write(p, z, v)
    BY <1>1, WriteRefined DEF Writes, StoreDone
  <1>2. CASE WriteAgain(p)
    <2>1. PICK z \in UserVA : z = loc[p].fva
      BY <1>2, FaultPages DEF WriteAgain, AtFault
    <2>2. PICK v \in Value : v = loc[p].fval
      BY LocTyped DEF Inv, LocFields
    <2>3. /\ env[p] = "LIVE" /\ UNCHANGED <<env, pt>> /\ loc[p].fault = "again"
          /\ mem' = [mem EXCEPT ![pt[p][z].frame] = v]
      BY <1>2, <2>1, <2>2, SMTT(30) DEF WriteAgain, AtFault
    <2>4. "W" \in pt[p][z].bits /\ v # mem[pt[p][z].frame]
      BY <2>1, <2>2, <2>3 DEF Inv, FaultInv, FaultOK
    <2>5. \A q \in Proc : loc'[q].pc = loc[q].pc /\ loc'[q].va = loc[q].va /\ loc'[q].child = loc[q].child
      BY <1>2, LocTyped DEF WriteAgain, Inv, LocFields
    <2>6. Promise!Write(p, z, v)
      BY <2>3, <2>4, <2>5, WriteRefined
    <2> QED
      BY <2>6 DEF Promise!Next
  <1>3. CASE Panic
    BY <1>3 DEF Panic, Life, Cells, Visible, Mapped, Made, Early
  <1>4. CASE SpawnFill(p)
    <2>1. CASE \E e : SpawnFail(p, e)
      BY <1>4, <2>1, DeathRefined DEF Promise!Next
    <2>2. CASE ~ \E e : SpawnFail(p, e)
      BY <1>4, <2>2, QuietAllocs DEF SpawnFill
    <2> QED
      BY <2>1, <2>2
  <1>5. CASE SpawnStack(p)
    <2>1. CASE Free = {}
      BY <1>5, <2>1, DeathRefined DEF Promise!Next
    <2>2. CASE Free # {}
      BY <1>5, <2>2, QuietAllocs DEF SpawnStack
    <2> QED
      BY <2>1, <2>2
  <1>6. CASE Dies(p)
    BY <1>6, DeathRefined DEF Promise!Next
  <1>7. CASE StartChild(p)
    BY <1>7, StartRefined DEF Promise!Next
  <1>8. CASE DupChild(p) \/ DupSelf(p) \/ SpawnShare(p) \/ SpawnMap(p)
    BY <1>8, GiveRefined DEF Promise!Next
  <1>9. CASE \E c \in Proc : Exofork(p, c) \/ SpawnExofork(p, c)
    BY <1>9, CreateRefined DEF Promise!Next
  <1>10. CASE (Free # {} /\ FaultAlloc(p)) \/ FaultCopy(p) \/ FaultMap(p) \/ FaultUnmap(p)
    BY <1>10, FaultHidden
  <1>11. CASE Free # {} /\ (SetHandler(p) \/ AllocXstack(p))
    BY <1>11, QuietAllocs
  <1>12. CASE Fork(p) \/ Spawn(p) \/ SetUpcall(p) \/ SpawnUnmap(p)
    BY <1>12, QuietCalls
  <1>13. CASE \E z \in UserVA, v \in Value : Writes(p, z, v)
    <2>1. PICK z \in UserVA, v \in Value : Writes(p, z, v)
      BY <1>13
    <2>2. CASE StoreFault(p, z, v)
      BY <2>1, <2>2, QuietCalls DEF Writes
    <2>3. CASE StoreDone(p, z, v)
      BY <1>1, <2>1, <2>3 DEF Promise!Next
    <2> QED
      BY <2>1, <2>2, <2>3 DEF Writes
  <1> QED
    BY <1>2, <1>3, <1>4, <1>5, <1>6, <1>7, <1>8, <1>9, <1>10, <1>11, <1>12, <1>13 DEF StepCases

\* At the start there is the first process, with its pages.
LEMMA InitRefined ==
  ASSUME Init, Inv
  PROVE  Promise!Init
  <1>1. /\ env = [p \in Proc |-> IF p = First THEN "LIVE" ELSE "NONE"]
        /\ mem = [f \in Frame |-> Zero] /\ loc = [p \in Proc |-> User]
    BY DEF Init
  <1>2. Life = [p \in Proc |-> IF p = First THEN "LIVE" ELSE "NONE"]
    BY <1>1 DEF Life
  <1>3. ASSUME NEW x \in UserVA PROVE Cells[First][x] = Zero
    <2>1. pt[First][x].frame \in Frame
      BY <1>1, FirstAssumption, PteTyped, Layout DEF Inv, PageInv, LifeOK
    <2> QED
      BY <1>1, <2>1, FirstAssumption, Views DEF RunningView
  <1>4. ASSUME NEW p \in Proc, p # First, NEW x \in UserVA PROVE Cells[p][x] = NoValue
    BY <1>1, <1>4, Views DEF NoView
  <1> DEFINE first == [x \in UserVA |-> Zero]
  <1>5. first \in [UserVA -> Value]
    BY ValueAssumption
  <1>6. Cells = [p \in Proc |-> IF p = First THEN first ELSE Promise!Nobody]
    <2>1. Cells[First] = first
      <3>1. [x \in UserVA |-> Cells[First][x]] = first
        BY <1>3
      <3> QED
        BY <3>1, Rows, FirstAssumption
    <2>2. ASSUME NEW p \in Proc, p # First PROVE Cells[p] = Promise!Nobody
      <3>1. [x \in UserVA |-> Cells[p][x]] = [x \in UserVA |-> NoValue]
        BY <1>4, <2>2
      <3> QED
        BY <3>1, Rows DEF Promise!Nobody
    <2> HIDE DEF first
    <2> QED
      BY <2>1, <2>2, Rows
  <1> QED
    BY <1>2, <1>5, <1>6 DEF Promise!Init

\* fork and spawn, made of system calls between which any process may run,
\* write and fault, keep the promise of PrivateMemory.
THEOREM ImplementsPrivateMemory == Spec => MemoryAsPromised
  <1>1. Init => Promise!Init
    BY InitInv, InitRefined
  <1>2. Inv /\ Inv' /\ [Next]_vars => [Promise!Next]_(Promise!vars)
    <2> SUFFICES ASSUME Inv, Inv', [Next]_vars PROVE Promise!Next \/ UNCHANGED <<Life, Cells>>
      BY DEF Promise!vars
    <2>1. CASE Next
      <3>1. PICK p \in Proc : StepCases(p)
        BY <2>1, Cases
      <3> QED
        BY <3>1, StepRefined
    <2>2. CASE UNCHANGED vars
      BY <2>2 DEF vars, Life, Cells, Visible, Mapped, Made, Early
    <2> QED
      BY <2>1, <2>2
  <1> QED
    BY <1>1, <1>2, Invariance, PTL DEF Spec, MemoryAsPromised, Promise!Spec

=============================================================================
