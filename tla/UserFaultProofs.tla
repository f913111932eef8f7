--------------------------- MODULE UserFaultProofs ---------------------------
(***************************************************************************)
(* Proofs about UserFault, for any size of pages and any words: an upcall  *)
(* brings back exactly what its fault interrupted, however deep the faults *)
(* are nested, and no frame leaves the exception stack.                    *)
(***************************************************************************)
EXTENDS UserFault, SequenceTheorems, TLAPS

-----------------------------------------------------------------------------
(* The inductive invariant.                                                *)

Regs == [eax : Int, edx : Int, esp : Int, eip : Int]
Memory == [StackAddr -> Int]
Contexts == {Context(r, m) : r \in Regs, m \in Memory}

TypeInv ==
    /\ reg \in Regs /\ mem \in Memory
    /\ cow \subseteq Cow /\ alive \in BOOLEAN

\* The registers of level k: of the program (0), of the upcall of fault 1, ...
R(k) == IF k = Len(saved) THEN reg ELSE saved[k + 1].reg

\* The stack of the program, or the part of the exception stack above esp.
StackFrom(esp) == esp .. (IF esp <= USTACKTOP THEN USTACKTOP ELSE UXSTACKTOP) - 1

InUpcall == {Entry, Call, Back, Prepare, StoreEip, Handler, HandlerLocal}

\* The upcall, with the registers r, of a fault that interrupted s: how far
\* its stack reaches below the frame at u, and what it still needs there.
Depth(eip) ==
    CASE eip \in {Entry, Prepare, StoreEip, Restore} -> 0
      [] eip \in {Call, Back} -> 1
      [] eip = Handler -> 2
      [] eip = HandlerLocal -> 3
FrameHolds(r, s, m, u) ==
    /\ m[u + Eax] = s.eax /\ m[u + Edx] = s.edx
    /\ m[u + Eip] = s.eip
    /\ m[u + Esp] = IF r.eip \in {StoreEip, Restore} THEN s.esp - 1 ELSE s.esp
LevelOK(r, s, m) ==
    LET u == TrapFrameAt(s.esp) IN
      /\ r.eip \in InUpcall \cup {Restore, Ret}
      /\ r.eip # Ret => r.esp = u - Depth(r.eip) /\ FrameHolds(r, s, m, u)
      /\ r.eip \in {Handler, HandlerLocal} => m[u - 2] = Back
      /\ r.eip = StoreEip => r.eax = s.eip /\ r.edx = s.esp
      /\ r.eip \in {Restore, Ret} => m[s.esp - 1] = s.eip
      /\ r.eip = Ret => r.eax = s.eax /\ r.edx = s.edx /\ r.esp = s.esp - 1

ProgramOK == R(0).eip \in Program /\ R(0).esp \in USTACKTOP - MaxUser .. USTACKTOP

LevelsOK == \A k \in 1 .. Len(saved) : LevelOK(R(k), saved[k].reg, mem)

\* Nothing interrupts the upcall when it has left its frame behind.
InnerOK == \A k \in 1 .. Len(saved) : k # Len(saved) => R(k).eip \in InUpcall

\* What was interrupted is still there.
ContextsOK == \A k \in 1 .. Len(saved) : saved[k] = Context(saved[k].reg, mem)

\* Frames lie one below the other, in the page of the exception stack.
NestingOK ==
    /\ \A k \in 1 .. Len(saved) : TrapFrameAt(saved[k].reg.esp) >= 2 * PGSIZE
    /\ \A k \in 1 .. Len(saved) : k # 1 => OnExceptionStack(saved[k].reg.esp)
    /\ \A j, k \in 1 .. Len(saved) :
         j # 1 /\ j <= k => saved[k].reg.esp <= saved[j].reg.esp

\* A push below the exception stack faults, and that fault is the last.
BottomOK == Len(saved) > 0 /\ reg.eip \in InUpcall => reg.esp >= 2 * PGSIZE

Shape == saved \in Seq(Contexts)

Inv == ProgramOK /\ LevelsOK /\ InnerOK /\ ContextsOK /\ NestingOK /\ BottomOK
UInv == TypeInv /\ Shape /\ Inv

-----------------------------------------------------------------------------
(* Addresses and pages.                                                    *)

LEMMA Sizes == /\ PGSIZE \in Nat /\ PGSIZE >= 6 /\ MaxUser \in Nat /\ MaxUser < PGSIZE
               /\ USTACKTOP = PGSIZE /\ UXSTACKTOP = PGSIZE + PGSIZE + PGSIZE
               /\ 2 * PGSIZE = PGSIZE + PGSIZE
  BY PageSizeAssumption, StackAssumption DEF USTACKTOP, UXSTACKTOP

\* The quotient by the size of a page.
LEMMA Quotient ==
  ASSUME NEW a \in Int
  PROVE  /\ PageOf(a) \in Int
         /\ PGSIZE * PageOf(a) <= a /\ a < PGSIZE * PageOf(a) + PGSIZE
  BY PageSizeAssumption DEF PageOf

LEMMA PageIs ==
  ASSUME NEW a \in Int, NEW q \in Int, PGSIZE * q <= a, a < PGSIZE * q + PGSIZE
  PROVE  PageOf(a) = q
<1> DEFINE p == PageOf(a)
<1>1. p \in Int /\ PGSIZE * p <= a /\ a < PGSIZE * p + PGSIZE
  BY Quotient
<1> HIDE DEF p
<1>2. PGSIZE * (p - q) < PGSIZE /\ PGSIZE * (q - p) < PGSIZE
  BY <1>1, PageSizeAssumption
<1>3. \A d \in Int : PGSIZE * d < PGSIZE => d < 1
  BY PageSizeAssumption
<1>4. p - q < 1 /\ q - p < 1
  BY <1>1, <1>2, <1>3
<1> QED
  BY <1>1, <1>4 DEF p

LEMMA PageNumbers ==
  ASSUME NEW a \in Int
  PROVE  /\ PageOf(a) = 1 <=> PGSIZE <= a /\ a < 2 * PGSIZE
         /\ PageOf(a) = 2 <=> 2 * PGSIZE <= a /\ a < UXSTACKTOP
         /\ PageOf(a) = 0 <=> 0 <= a /\ a < PGSIZE
<1>1. PageOf(a) \in Int /\ PGSIZE * PageOf(a) <= a /\ a < PGSIZE * PageOf(a) + PGSIZE
  BY Quotient
<1>2. PGSIZE * 0 = 0 /\ PGSIZE * 1 = PGSIZE /\ PGSIZE * 2 = 2 * PGSIZE
  BY PageSizeAssumption
<1>3. /\ PageOf(a) = 1 => PGSIZE <= a /\ a < 2 * PGSIZE
      /\ PageOf(a) = 2 => 2 * PGSIZE <= a /\ a < UXSTACKTOP
      /\ PageOf(a) = 0 => 0 <= a /\ a < PGSIZE
  BY <1>1, <1>2, Sizes
<1>4. PGSIZE <= a /\ a < 2 * PGSIZE => PageOf(a) = 1
  BY <1>2, Sizes, PageIs
<1>5. 2 * PGSIZE <= a /\ a < UXSTACKTOP => PageOf(a) = 2
  BY <1>2, Sizes, PageIs
<1>6. 0 <= a /\ a < PGSIZE => PageOf(a) = 0
  BY <1>2, Sizes, PageIs
<1> QED
  BY <1>3, <1>4, <1>5, <1>6

LEMMA RoundUpAbove ==
  ASSUME NEW a \in Int
  PROVE  RoundUp(a) \in Int /\ RoundUp(a) >= a
<1> DEFINE b == a + PGSIZE - 1
<1>1. b \in Int
  BY PageSizeAssumption
<1>2. PageOf(b) \in Int /\ b < PGSIZE * PageOf(b) + PGSIZE
  BY <1>1, Quotient
<1>3. RoundUp(a) = PGSIZE * PageOf(b)
  BY <1>1, <1>2, PageSizeAssumption DEF RoundUp, PageOf
<1> QED
  BY <1>2, <1>3, PageSizeAssumption

\* user_mem_check looks at the page of the first address in any case.
LEMMA FirstPageChecked ==
  ASSUME NEW ok, NEW va \in Int, NEW len \in Nat \ {0}, UserMemCheck(ok, va, len)
  PROVE  ok[PageOf(va)]
<1>1. RoundUp(va + len) \in Int /\ RoundUp(va + len) >= va + len
  BY RoundUpAbove
<1>2. va \in Tested(va, len)
  BY <1>1 DEF Tested
<1> QED
  BY <1>2 DEF UserMemCheck

LEMMA FrameAt ==
  ASSUME NEW esp \in Int
  PROVE  /\ OnExceptionStack(esp) <=> 2 * PGSIZE <= esp /\ esp < UXSTACKTOP
         /\ OnExceptionStack(esp) => TrapFrameAt(esp) = esp - 6
         /\ ~OnExceptionStack(esp) => TrapFrameAt(esp) = UXSTACKTOP - 5
         /\ TrapFrameAt(esp) \in Int
  BY Sizes DEF OnExceptionStack, TrapFrameAt, SizeofUTrapframe

-----------------------------------------------------------------------------
(* The stack of contexts.                                                  *)

LEMMA ContextIs ==
  ASSUME NEW r, NEW m
  PROVE  /\ Context(r, m).reg = r
         /\ Context(r, m).words = [a \in StackFrom(r.esp) |-> m[a]]
  BY DEF Context, StackFrom

LEMMA SavedShape ==
  ASSUME Shape
  PROVE  /\ Len(saved) \in Nat /\ DOMAIN saved = 1 .. Len(saved)
         /\ \A k \in 1 .. Len(saved) : saved[k] \in Contexts /\ saved[k].reg \in Regs
<1>1. Len(saved) \in Nat /\ DOMAIN saved = 1 .. Len(saved)
      /\ \A k \in 1 .. Len(saved) : saved[k] \in Contexts
  BY LenProperties, ElementOfSeq DEF Shape
<1>2. ASSUME NEW c \in Contexts PROVE c.reg \in Regs
  <2>1. PICK r \in Regs, m \in Memory : c = Context(r, m)
    BY DEF Contexts
  <2> QED
    BY <2>1, ContextIs
<1> QED
  BY <1>1, <1>2

\* Where fault k interrupted, and where its frame is.
LEMMA Where ==
  ASSUME UInv, NEW k \in 1 .. Len(saved)
  PROVE  /\ saved[k].reg.esp \in Int /\ TrapFrameAt(saved[k].reg.esp) \in Int
         /\ TrapFrameAt(saved[k].reg.esp) >= 2 * PGSIZE
         /\ k = 1 => /\ saved[k].reg.esp \in USTACKTOP - MaxUser .. USTACKTOP
                     /\ TrapFrameAt(saved[k].reg.esp) = UXSTACKTOP - 5
         /\ k # 1 => /\ 2 * PGSIZE <= saved[k].reg.esp /\ saved[k].reg.esp < UXSTACKTOP
                     /\ TrapFrameAt(saved[k].reg.esp) = saved[k].reg.esp - 6
<1> DEFINE s == saved[k].reg.esp
<1>1. s \in Int /\ Len(saved) \in Nat
  BY SavedShape DEF UInv, Regs
<1>2. TrapFrameAt(s) \in Int /\ TrapFrameAt(s) >= 2 * PGSIZE
  BY <1>1, FrameAt DEF UInv, Inv, NestingOK
<1>3. CASE k = 1
  <2>1. R(0) = saved[k].reg
    BY <1>1, <1>3 DEF R
  <2>2. s \in USTACKTOP - MaxUser .. USTACKTOP
    BY <2>1 DEF UInv, Inv, ProgramOK
  <2> HIDE DEF s
  <2>3. ~(2 * PGSIZE <= s)
    BY <1>1, <2>2, Sizes
  <2>4. TrapFrameAt(s) = UXSTACKTOP - 5
    BY <1>1, <2>3, FrameAt
  <2> QED
    BY <1>1, <1>2, <1>3, <2>2, <2>4 DEF s
<1>4. CASE k # 1
  <2>1. OnExceptionStack(s)
    BY <1>4 DEF UInv, Inv, NestingOK
  <2> QED
    BY <1>1, <1>2, <1>4, <2>1, FrameAt
<1> QED
  BY <1>3, <1>4

\* Memory m has what the interrupted contexts need.
Kept(m) == \A k \in 1 .. Len(saved) : \A a \in StackFrom(saved[k].reg.esp) : m[a] = mem[a]

\* The words from the last frame down, and in the exception stack up to
\* what that fault interrupted, belong to no interrupted context; nor does
\* the word below the program's stack.
LEMMA Spare ==
  ASSUME UInv, NEW a \in Int,
         \/ a >= 2 * PGSIZE /\ (Len(saved) > 1 => a < saved[Len(saved)].reg.esp)
         \/ Len(saved) = 1 /\ a = saved[1].reg.esp - 1,
         NEW k \in 1 .. Len(saved)
  PROVE  a \notin StackFrom(saved[k].reg.esp)
<1>0. Len(saved) \in Nat
  BY SavedShape DEF UInv
<1>1. CASE k = 1
  <2>1. saved[1].reg.esp \in USTACKTOP - MaxUser .. USTACKTOP
    BY <1>1, Where
  <2> QED
    BY <1>1, <2>1, Sizes DEF StackFrom
<1>2. CASE k # 1
  <2>1. saved[Len(saved)].reg.esp <= saved[k].reg.esp
    BY <1>0, <1>2 DEF UInv, Inv, NestingOK
  <2>2. saved[Len(saved)].reg.esp \in Int /\ saved[k].reg.esp \in Int
    BY <1>0, Where
  <2> QED
    BY <1>0, <1>2, <2>1, <2>2, Sizes DEF StackFrom
<1> QED
  BY <1>1, <1>2

\* What an upcall needs is on its stack.
LEMMA LevelKept ==
  ASSUME NEW r \in Regs, NEW s \in Regs, NEW m, LevelOK(r, s, mem), r.eip \in InUpcall,
         TrapFrameAt(s.esp) + 5 <= UXSTACKTOP,
         \A a \in r.esp .. UXSTACKTOP - 1 : m[a] = mem[a]
  PROVE  LevelOK(r, s, m)
<1> DEFINE u == TrapFrameAt(s.esp)
<1>3. u \in Int /\ u + 5 <= UXSTACKTOP /\ r.esp \in Int
  BY FrameAt DEF Regs
<1>5. r.esp = u - Depth(r.eip) /\ r.eip # Ret /\ r.eip # Restore
  BY DEF LevelOK, InUpcall, Entry, Call, Back, Prepare, StoreEip, Handler, HandlerLocal, Ret, Restore
<1>6. /\ Depth(r.eip) \in 0 .. 3
      /\ r.eip \in {Handler, HandlerLocal} => Depth(r.eip) >= 2
  BY DEF Depth, InUpcall, Entry, Call, Back, Prepare, StoreEip, Handler, HandlerLocal, Restore
<1> HIDE DEF u
<1>7. /\ m[u + Eax] = mem[u + Eax] /\ m[u + Edx] = mem[u + Edx]
      /\ m[u + Eip] = mem[u + Eip] /\ m[u + Esp] = mem[u + Esp]
  BY <1>3, <1>5, <1>6, Sizes DEF Eax, Edx, Eip, Esp
<1>8. r.eip \in {Handler, HandlerLocal} => m[u - 2] = mem[u - 2]
  BY <1>3, <1>5, <1>6, Sizes
<1>9. /\ TrapFrameAt(s.esp) = u
      /\ r.eip \in InUpcall \cup {Restore, Ret}
      /\ FrameHolds(r, s, m, u)
  BY <1>5, <1>7 DEF LevelOK, FrameHolds, u
<1> QED
  BY <1>5, <1>8, <1>9 DEF LevelOK

\* For an inner fault that is part of the context that the next one
\* interrupted.
LEMMA InnerLevel ==
  ASSUME UInv, NEW m, Kept(m), NEW k \in 1 .. Len(saved), k # Len(saved)
  PROVE  LevelOK(saved[k + 1].reg, saved[k].reg, m)
<1>1. Len(saved) \in Nat
  BY SavedShape DEF UInv
<1>2. k + 1 \in 1 .. Len(saved) /\ k + 1 # 1
  BY <1>1, SMTT(30)
<1> DEFINE r == saved[k + 1].reg
           s == saved[k].reg
<1>3. R(k) = r /\ r \in Regs /\ s \in Regs
  BY <1>2, SavedShape DEF R, UInv
<1>4. LevelOK(r, s, mem) /\ r.eip \in InUpcall
  BY <1>3 DEF UInv, Inv, LevelsOK, InnerOK
<1>5. r.esp \in Int /\ 2 * PGSIZE <= r.esp
  BY <1>2, Where
<1>6. \/ TrapFrameAt(s.esp) = UXSTACKTOP - 5
      \/ s.esp \in Int /\ s.esp < UXSTACKTOP /\ TrapFrameAt(s.esp) = s.esp - 6
  BY Where
<1>7. \A a \in r.esp .. UXSTACKTOP - 1 : m[a] = mem[a]
  BY <1>2, <1>5, Sizes DEF Kept, StackFrom
<1> HIDE DEF r, s
<1>8. TrapFrameAt(s.esp) + 5 <= UXSTACKTOP
  BY <1>6, Sizes
<1> QED
  BY <1>3, <1>4, <1>7, <1>8, LevelKept, SMTT(30) DEF r, s

LEMMA InStack ==
  ASSUME UInv, NEW k \in 1 .. Len(saved)
  PROVE  StackFrom(saved[k].reg.esp) \subseteq StackAddr
<1>1. /\ saved[k].reg.esp \in Int
      /\ saved[k].reg.esp <= USTACKTOP => saved[k].reg.esp >= 0
  BY Where, Sizes
<1>2. USTACKTOP \in Nat /\ UXSTACKTOP \in Nat /\ USTACKTOP <= UXSTACKTOP
  BY Sizes
<1> QED
  BY <1>1, <1>2 DEF StackFrom, StackAddr

LEMMA ContextKept ==
  ASSUME UInv, NEW m, Kept(m), NEW k \in 1 .. Len(saved)
  PROVE  saved[k] = Context(saved[k].reg, m)
<1>1. saved[k] = Context(saved[k].reg, mem)
  BY DEF UInv, Inv, ContextsOK
<1>2. [a \in StackFrom(saved[k].reg.esp) |-> m[a]] = [a \in StackFrom(saved[k].reg.esp) |-> mem[a]]
  BY DEF Kept
<1>3. \A r, w : Context(r, w) = [reg |-> r, words |-> [a \in StackFrom(r.esp) |-> w[a]]]
  BY DEF Context, StackFrom
<1> QED
  BY <1>1, <1>2, <1>3

\* A step that interrupts nothing and ends no interruption.
LEMMA SameLevels ==
  ASSUME UInv, saved' = saved, reg' \in Regs, mem' \in Memory, cow' \subseteq Cow,
         alive' \in BOOLEAN, Kept(mem'),
         Len(saved) = 0 => /\ reg'.eip \in Program
                           /\ reg'.esp \in USTACKTOP - MaxUser .. USTACKTOP,
         Len(saved) > 0 => /\ LevelOK(reg', saved[Len(saved)].reg, mem')
                           /\ reg'.eip \in InUpcall => reg'.esp >= 2 * PGSIZE
  PROVE  UInv'
<1>0. Len(saved) \in Nat
  BY SavedShape DEF UInv
<1>1. TypeInv' /\ Shape'
  BY DEF TypeInv, UInv, Shape
<1>2. ProgramOK'
  BY <1>0 DEF UInv, Inv, ProgramOK, R
<1>3. LevelsOK'
  <2> SUFFICES ASSUME NEW k \in 1 .. Len(saved)
               PROVE  LevelOK(IF k = Len(saved) THEN reg' ELSE saved[k + 1].reg, saved[k].reg, mem')
    BY DEF LevelsOK, R
  <2>1. CASE k = Len(saved)
    BY <2>1, <1>0
  <2>2. CASE k # Len(saved)
    BY <2>2, InnerLevel
  <2> QED
    BY <2>1, <2>2
<1>4. InnerOK'
  BY DEF UInv, Inv, InnerOK, R
<1>5. ContextsOK'
  BY ContextKept DEF ContextsOK
<1>6. NestingOK'
  BY DEF UInv, Inv, NestingOK
<1>7. BottomOK'
  BY DEF BottomOK
<1> QED
  BY <1>1, <1>2, <1>3, <1>4, <1>5, <1>6, <1>7 DEF UInv, Inv

\* A word written where nothing interrupted has its stack.
LEMMA SpareWrite ==
  ASSUME UInv, NEW a \in Int, NEW w \in Int, a \in StackAddr,
         Len(saved) > 0 =>
           \/ a >= 2 * PGSIZE /\ (Len(saved) > 1 => a < saved[Len(saved)].reg.esp)
           \/ Len(saved) = 1 /\ a = saved[1].reg.esp - 1
  PROVE  /\ [mem EXCEPT ![a] = w] \in Memory
         /\ Kept([mem EXCEPT ![a] = w])
<1>1. mem \in Memory
  BY DEF UInv, TypeInv
<1>2. ASSUME NEW k \in 1 .. Len(saved), NEW b \in StackFrom(saved[k].reg.esp)
      PROVE  [mem EXCEPT ![a] = w][b] = mem[b]
  <2>1. Len(saved) > 0
    BY SavedShape DEF UInv
  <2>2. a # b
    BY <2>1, Spare
  <2>3. b \in StackAddr
    BY InStack
  <2> QED
    BY <1>1, <2>2, <2>3 DEF Memory
<1> QED
  BY <1>1, <1>2 DEF Kept, Memory

LEMMA SameMemory ==
  ASSUME UInv
  PROVE  mem \in Memory /\ Kept(mem)
  BY DEF UInv, TypeInv, Kept

-----------------------------------------------------------------------------
(* The kernel's handler.                                                   *)

\* At level n the registers are those of the program or of an upcall.
LEMMA Running ==
  ASSUME UInv
  PROVE  /\ Len(saved) \in Nat /\ reg \in Regs /\ mem \in Memory
         /\ Len(saved) = 0 => /\ reg.eip \in Program
                              /\ reg.esp \in USTACKTOP - MaxUser .. USTACKTOP
         /\ Len(saved) > 0 => /\ Len(saved) \in 1 .. Len(saved)
                              /\ LevelOK(reg, saved[Len(saved)].reg, mem)
                              /\ reg.eip \in InUpcall \cup {Restore, Ret}
                              /\ reg.eip \notin Program
                              /\ reg.eip \in InUpcall => reg.esp >= 2 * PGSIZE
<1>1. Len(saved) \in Nat /\ reg \in Regs /\ mem \in Memory /\ R(Len(saved)) = reg
  BY SavedShape DEF UInv, TypeInv, R
<1>2. ASSUME Len(saved) = 0
      PROVE  reg.eip \in Program /\ reg.esp \in USTACKTOP - MaxUser .. USTACKTOP
  BY <1>1, <1>2 DEF UInv, Inv, ProgramOK
<1>3. ASSUME Len(saved) > 0
      PROVE  LevelOK(reg, saved[Len(saved)].reg, mem)
  BY <1>1, <1>3 DEF UInv, Inv, LevelsOK
<1>4. ASSUME Len(saved) > 0
      PROVE  reg.eip \in InUpcall \cup {Restore, Ret} /\ reg.eip \notin Program
  BY <1>3, <1>4 DEF LevelOK, Program, InUpcall, Entry, Call, Back, Prepare, StoreEip, Handler,
                    HandlerLocal, Ret, Restore
<1>5. Len(saved) > 0 /\ reg.eip \in InUpcall => reg.esp >= 2 * PGSIZE
  BY DEF UInv, Inv, BottomOK
<1> QED
  BY <1>1, <1>2, <1>3, <1>4, <1>5

LEMMA Depths ==
  ASSUME NEW eip \in InUpcall \cup {Restore}
  PROVE  /\ Depth(eip) \in 0 .. 3
         /\ eip \in {Entry, Prepare, StoreEip, Restore} => Depth(eip) = 0
         /\ eip \in {Call, Back} => Depth(eip) = 1
         /\ eip = Handler => Depth(eip) = 2
         /\ eip = HandlerLocal => Depth(eip) = 3
  BY DEF Depth, InUpcall, Entry, Call, Back, Prepare, StoreEip, Handler, HandlerLocal, Restore

\* Before the upcall is over its stack ends in the exception stack, below
\* what the fault interrupted.
LEMMA InFrame ==
  ASSUME UInv, Len(saved) > 0, reg.eip \in InUpcall \cup {Restore}
  PROVE  LET s == saved[Len(saved)].reg
             u == TrapFrameAt(s.esp)
         IN /\ u \in Int /\ s.esp \in Int /\ s \in Regs /\ 2 * PGSIZE <= u /\ u + 5 <= UXSTACKTOP
            /\ reg.esp = u - Depth(reg.eip) /\ reg.esp \in Int
            /\ Len(saved) # 1 => u < s.esp /\ s.esp < UXSTACKTOP /\ u = s.esp - 6
            /\ Len(saved) = 1 => s.esp \in USTACKTOP - MaxUser .. USTACKTOP
            /\ FrameHolds(reg, s, mem, u)
<1> DEFINE n == Len(saved)
           s == saved[n].reg
           u == TrapFrameAt(s.esp)
<1>1. n \in 1 .. n /\ reg \in Regs /\ LevelOK(reg, s, mem)
  BY Running
<1>2. s \in Regs
  BY <1>1, SavedShape DEF UInv
<1>3. reg.eip # Ret
  BY DEF InUpcall, Entry, Call, Back, Prepare, StoreEip, Handler, HandlerLocal, Ret, Restore
<1>4. reg.esp = u - Depth(reg.eip) /\ FrameHolds(reg, s, mem, u)
  BY <1>1, <1>3 DEF LevelOK
<1>5. /\ s.esp \in Int /\ u \in Int /\ u >= 2 * PGSIZE
      /\ n = 1 => s.esp \in USTACKTOP - MaxUser .. USTACKTOP /\ u = UXSTACKTOP - 5
      /\ n # 1 => 2 * PGSIZE <= s.esp /\ s.esp < UXSTACKTOP /\ u = s.esp - 6
  BY <1>1, Where
<1>6. reg.esp \in Int
  BY <1>1 DEF Regs
<1> HIDE DEF n, s, u
<1>7. u + 5 <= UXSTACKTOP /\ (n # 1 => u < s.esp)
  BY <1>5, Sizes
<1> QED
  BY <1>2, <1>4, <1>5, <1>6, <1>7, Sizes DEF n, s, u

FrameStep == Len(saved') > Len(saved) => \A a \in StackAddr : mem'[a] # mem[a] => PageOf(a) = 2
ResumeStep == Len(saved') < Len(saved) => Context(reg', mem') = Last(saved)

LEMMA NoFault ==
  ASSUME UInv, saved' = saved
  PROVE  FrameStep /\ ResumeStep
<1>1. PICK n \in Nat : n = Len(saved)
  BY Running
<1>2. ~(n > n) /\ ~(n < n)
  OBVIOUS
<1> QED
  BY <1>1, <1>2 DEF FrameStep, ResumeStep

\* Where the frame of a fault comes to be if the kernel finds room for it.
LEMMA FrameRoom ==
  ASSUME UInv, reg.eip \notin {Restore, Ret},
         UserMemCheck([n \in 0 .. 4 |-> n = 2 \/ n \in Cow \ cow], TrapFrameAt(reg.esp), SizeofUTrapframe)
  PROVE  /\ reg.esp \in Int /\ TrapFrameAt(reg.esp) \in Int
         /\ 2 * PGSIZE <= TrapFrameAt(reg.esp) /\ TrapFrameAt(reg.esp) + 5 <= UXSTACKTOP
         /\ Len(saved) = 0 => reg.esp <= USTACKTOP
         /\ Len(saved) > 0 => OnExceptionStack(reg.esp) /\ TrapFrameAt(reg.esp) = reg.esp - 6
<1> DEFINE e == reg.esp
           utf == TrapFrameAt(e)
           ok == [n \in 0 .. 4 |-> n = 2 \/ n \in Cow \ cow]
<1>1. e \in Int /\ utf \in Int
  BY Running, FrameAt DEF Regs
<1>2. ok[PageOf(utf)]
  BY <1>1, FirstPageChecked DEF SizeofUTrapframe
<1>3. CASE Len(saved) = 0
  <2>1. e \in USTACKTOP - MaxUser .. USTACKTOP
    BY <1>3, Running
  <2>2. ~OnExceptionStack(e)
    BY <1>1, <2>1, FrameAt, Sizes
  <2>3. utf = UXSTACKTOP - 5
    BY <1>1, <2>2, FrameAt
  <2> QED
    BY <1>1, <1>3, <2>1, <2>3, Sizes
<1>4. CASE Len(saved) > 0
  <2>1. reg.eip \in InUpcall
    BY <1>4, Running
  <2>2. e >= 2 * PGSIZE
    BY <1>4, <2>1, Running
  <2>3. e < UXSTACKTOP
    BY <1>1, <1>4, <2>1, InFrame, Depths, Sizes, SMTT(30)
  <2>4. OnExceptionStack(e) /\ utf = e - 6
    BY <1>1, <2>2, <2>3, FrameAt
  <2>5. PGSIZE <= utf /\ utf < UXSTACKTOP
    BY <1>1, <2>2, <2>3, <2>4, Sizes
  <2>6. PageOf(utf) = 1 \/ PageOf(utf) = 2
    <3> HIDE DEF utf
    <3> QED BY <1>1, <2>5, PageNumbers, Sizes
  <2>7. PageOf(utf) # 1
    <3> SUFFICES ASSUME PageOf(utf) = 1 PROVE FALSE
      OBVIOUS
    <3>1. ok[1]
      BY <1>2
    <3>2. 1 \in 0 .. 4 /\ 1 # 2 /\ 1 \notin Cow
      BY DEF Cow
    <3> QED
      BY <3>1, <3>2, Zenon
  <2>8. 2 * PGSIZE <= utf
    <3> HIDE DEF utf
    <3> QED BY <1>1, <2>6, <2>7, PageNumbers
  <2> QED
    BY <1>1, <1>4, <2>3, <2>4, <2>8, Sizes
<1> QED
  BY <1>3, <1>4, Running

\* The frame that the kernel pushes is the first level of a new upcall, and
\* takes nothing from those that wait.
LEMMA Fault ==
  ASSUME UInv, NEW va \in Int, PageFaultHandler(va), reg.eip \notin {Restore, Ret}
  PROVE  UInv' /\ FrameStep /\ ResumeStep
<1> DEFINE utf == TrapFrameAt(reg.esp)
           ok == [k \in 0 .. 4 |-> k = 2 \/ k \in Cow \ cow]
<1>0. PICK n \in Nat : n = Len(saved)
  BY Running
<1>1. /\ n = Len(saved) /\ n \in Nat /\ reg \in Regs /\ mem \in Memory /\ cow \subseteq Cow /\ alive \in BOOLEAN
      /\ n > 0 => reg.eip \in InUpcall
  BY <1>0, Running DEF UInv, TypeInv
<1>2. CASE ~UserMemCheck(ok, utf, SizeofUTrapframe)
  <2>1. alive' = FALSE /\ reg' = reg /\ mem' = mem /\ cow' = cow /\ saved' = saved
    BY <1>2 DEF PageFaultHandler
  <2>2. UInv'
    BY <1>1, <2>1, Running, SameLevels, SameMemory
  <2> QED
    BY <2>1, <2>2, NoFault
<1>3. CASE UserMemCheck(ok, utf, SizeofUTrapframe)
  <2>1. /\ mem' = [a \in StackAddr |->
                     CASE a = utf + FaultVa -> va
                       [] a = utf + Eax -> reg.eax
                       [] a = utf + Edx -> reg.edx
                       [] a = utf + Eip -> reg.eip
                       [] a = utf + Esp -> reg.esp
                       [] OTHER -> mem[a]]
        /\ reg' = [reg EXCEPT !.esp = utf, !.eip = Entry]
        /\ saved' = Append(saved, Context(reg, mem))
        /\ cow' = cow /\ alive' = alive
    BY <1>3 DEF PageFaultHandler
  <2>2. /\ reg.esp \in Int /\ utf \in Int /\ 2 * PGSIZE <= utf /\ utf + 5 <= UXSTACKTOP
        /\ n = 0 => reg.esp <= USTACKTOP
        /\ n > 0 => OnExceptionStack(reg.esp) /\ utf = reg.esp - 6
    BY <1>0, <1>3, FrameRoom
  <2> HIDE DEF utf, ok
  <2>3. reg' \in Regs /\ reg'.esp = utf /\ reg'.eip = Entry
    <3>1. reg' = [reg EXCEPT !.esp = utf, !.eip = Entry]
      BY <2>1
    <3>2. Entry \in Int /\ utf \in Int /\ reg \in Regs
      BY <1>1, <2>2 DEF Entry
    <3> QED
      BY <3>1, <3>2 DEF Regs
  <2>4. /\ mem'[utf + Eax] = reg.eax /\ mem'[utf + Edx] = reg.edx
        /\ mem'[utf + Eip] = reg.eip /\ mem'[utf + Esp] = reg.esp
    <3>1. FaultVa = 0 /\ Eax = 1 /\ Edx = 2 /\ Eip = 3 /\ Esp = 4
      BY DEF FaultVa, Eax, Edx, Eip, Esp
    <3>2. \A d \in 0 .. 4 : utf + d \in StackAddr
      BY <2>2, Sizes DEF StackAddr
    <3>3. \A d, e \in 0 .. 4 : utf + d = utf + e <=> d = e
      BY <2>2
    <3> QED
      BY <2>1, <3>1, <3>2, <3>3
  <2>5. ASSUME NEW a \in StackAddr, a < utf \/ a > utf + 4
        PROVE  mem'[a] = mem[a]
    <3>1. FaultVa = 0 /\ Eax = 1 /\ Edx = 2 /\ Eip = 3 /\ Esp = 4
      BY DEF FaultVa, Eax, Edx, Eip, Esp
    <3>2. \A d \in 0 .. 4 : a # utf + d
      BY <2>2, <2>5, Sizes DEF StackAddr
    <3> QED
      BY <2>1, <3>1, <3>2
  <2>6. mem' \in Memory
    BY <1>1, <2>1 DEF Memory, Regs
  <2>7. Kept(mem')
    <3> SUFFICES ASSUME NEW k \in 1 .. n, NEW a \in StackFrom(saved[k].reg.esp)
                 PROVE  mem'[a] = mem[a]
      BY <1>0 DEF Kept
    <3>1. a \in StackAddr /\ a \in Int
      BY <1>0, InStack, Sizes DEF StackAddr
    <3>2. n > 0 /\ reg.eip \in InUpcall
      BY <1>1
    <3>3. /\ reg.esp <= TrapFrameAt(saved[n].reg.esp)
          /\ TrapFrameAt(saved[n].reg.esp) \in Int /\ saved[n].reg.esp \in Int
          /\ n > 1 => TrapFrameAt(saved[n].reg.esp) < saved[n].reg.esp
      BY <1>0, <3>2, InFrame, Depths, SMTT(30)
    <3>4. ASSUME utf <= a, a <= utf + 4 PROVE FALSE
      <4>1. a >= 2 * PGSIZE /\ (n > 1 => a < saved[n].reg.esp)
        BY <2>2, <3>1, <3>2, <3>3, <3>4, Sizes
      <4> QED
        BY <1>0, <3>1, <4>1, Spare
    <3> QED
      BY <2>2, <2>5, <3>1, <3>4
  <2>8. \A a \in StackFrom(reg.esp) : a \in StackAddr => mem'[a] = mem[a]
    BY <2>2, <2>5, FrameAt, Sizes DEF StackFrom, StackAddr
  <2>9. /\ Len(saved') = n + 1 /\ saved' \in Seq(Contexts)
        /\ \A k \in 1 .. n : saved'[k] = saved[k]
        /\ saved'[n + 1] = Context(reg, mem)
    <3>1. Context(reg, mem) \in Contexts /\ saved \in Seq(Contexts)
      BY <1>1 DEF Contexts, UInv, Shape
    <3> QED
      BY <1>0, <2>1, <3>1, AppendProperties
  <2>10. saved'[n + 1].reg = reg /\ saved'[n + 1] = Context(reg, mem')
    <3>1. StackFrom(reg.esp) \subseteq StackAddr
      <4>1. reg.esp >= 0
        <5>1. n = 0 => reg.esp \in USTACKTOP - MaxUser .. USTACKTOP
          BY <1>0, Running
        <5>2. n > 0 => reg.esp >= 2 * PGSIZE
          BY <1>1, Running
        <5> QED
          BY <1>1, <2>2, <5>1, <5>2, Sizes
      <4> QED
        BY <2>2, <4>1, Sizes DEF StackFrom, StackAddr
    <3>2. [a \in StackFrom(reg.esp) |-> mem'[a]] = [a \in StackFrom(reg.esp) |-> mem[a]]
      BY <2>8, <3>1
    <3>3. \A w : Context(reg, w) = [reg |-> reg, words |-> [a \in StackFrom(reg.esp) |-> w[a]]]
      BY DEF Context, StackFrom
    <3> QED
      BY <2>9, <3>2, <3>3, ContextIs
  <2>11. TypeInv' /\ Shape'
    BY <1>1, <2>1, <2>3, <2>6, <2>9 DEF TypeInv, Shape
  <2>12. /\ \A k \in 0 .. n + 1 : R(k)' = IF k = n + 1 THEN reg' ELSE saved'[k + 1].reg
         /\ \A k \in 0 .. n - 1 : R(k)' = saved[k + 1].reg
         /\ R(n)' = reg /\ R(n + 1)' = reg'
    BY <1>1, <2>9, <2>10 DEF R
  <2>13. ProgramOK'
    <3>1. R(0)' = R(0)
      BY <1>1, <2>12 DEF R
    <3> QED
      BY <3>1 DEF UInv, Inv, ProgramOK
  <2>14. LevelsOK'
    <3> SUFFICES ASSUME NEW k \in 1 .. n + 1
                 PROVE  LevelOK(R(k)', saved'[k].reg, mem')
      BY <2>9 DEF LevelsOK
    <3>1. CASE k = n + 1
      <4>1. TrapFrameAt(reg.esp) = utf
        BY DEF utf
      <4>2. Depth(Entry) = 0 /\ Entry \in InUpcall
            /\ Entry \notin {StoreEip, Restore, Ret, Handler, HandlerLocal}
        <5>1. Entry \in InUpcall /\ Entry \notin {StoreEip, Restore, Ret, Handler, HandlerLocal}
          BY DEF InUpcall, Entry, StoreEip, Restore, Ret, Handler, HandlerLocal
        <5> QED
          BY <5>1, Depths
      <4>3. reg'.esp = utf - Depth(reg'.eip) /\ FrameHolds(reg', reg, mem', utf)
        BY <2>2, <2>3, <2>4, <4>2 DEF FrameHolds
      <4>4. LevelOK(reg', reg, mem')
        BY <2>3, <4>1, <4>2, <4>3 DEF LevelOK
      <4> QED
        BY <3>1, <4>4, <2>10, <2>12
    <3>2. CASE k = n
      <4>1. n > 0 /\ reg.eip \in InUpcall /\ saved[n].reg \in Regs /\ LevelOK(reg, saved[n].reg, mem)
        BY <1>1, <3>2, Running, SavedShape DEF UInv
      <4>2. TrapFrameAt(saved[n].reg.esp) + 5 <= UXSTACKTOP
        BY <1>0, <4>1, InFrame
      <4>3. \A a \in reg.esp .. UXSTACKTOP - 1 : mem'[a] = mem[a]
        BY <2>2, <2>5, <4>1, FrameAt, Sizes DEF StackAddr
      <4>4. LevelOK(reg, saved[n].reg, mem')
        BY <1>1, <4>1, <4>2, <4>3, LevelKept
      <4> QED
        BY <3>2, <4>4, <2>9, <2>12
    <3>3. CASE k # n + 1 /\ k # n
      <4>1. k \in 1 .. n /\ k \in 0 .. n - 1
        BY <1>1, <3>3
      <4>2. LevelOK(saved[k + 1].reg, saved[k].reg, mem')
        BY <1>0, <2>7, <3>3, <4>1, InnerLevel
      <4> QED
        BY <4>1, <4>2, <2>9, <2>12
    <3> QED
      BY <3>1, <3>2, <3>3
  <2>15. InnerOK'
    <3> SUFFICES ASSUME NEW k \in 1 .. n + 1, k # n + 1
                 PROVE  (R(k)').eip \in InUpcall
      BY <2>9 DEF InnerOK
    <3>1. CASE k = n
      BY <1>1, <2>12, <3>1
    <3>2. CASE k # n
      <4>1. k \in 1 .. n /\ k \in 0 .. n - 1
        BY <1>1, <3>2
      <4>2. R(k) = saved[k + 1].reg
        BY <1>0, <3>2 DEF R
      <4> QED
        BY <1>0, <2>12, <3>2, <4>1, <4>2 DEF UInv, Inv, InnerOK
    <3> QED
      BY <3>1, <3>2
  <2>16. ContextsOK'
    <3> SUFFICES ASSUME NEW k \in 1 .. n + 1
                 PROVE  saved'[k] = Context(saved'[k].reg, mem')
      BY <2>9 DEF ContextsOK
    <3>1. CASE k = n + 1
      BY <2>10, <3>1
    <3>2. CASE k # n + 1
      BY <1>1, <2>7, <2>9, <3>2, ContextKept
    <3> QED
      BY <3>1, <3>2
  <2>17. NestingOK'
    <3>1. ASSUME NEW k \in 1 .. n + 1
          PROVE  /\ TrapFrameAt(saved'[k].reg.esp) >= 2 * PGSIZE
                 /\ k # 1 => OnExceptionStack(saved'[k].reg.esp)
      <4>1. CASE k = n + 1
        BY <1>1, <2>2, <2>10, <4>1 DEF utf
      <4>2. CASE k # n + 1
        BY <1>1, <2>9, <4>2 DEF UInv, Inv, NestingOK
      <4> QED
        BY <4>1, <4>2
    <3>2. ASSUME NEW j \in 1 .. n + 1, NEW k \in 1 .. n + 1, j # 1, j <= k
          PROVE  saved'[k].reg.esp <= saved'[j].reg.esp
      <4>1. CASE j = n + 1
        BY <1>1, <2>2, <2>10, <3>2, <4>1
      <4>2. CASE k = n + 1 /\ j # n + 1
        <5>1. n \in 1 .. n /\ j \in 1 .. n /\ j <= n /\ n > 0 /\ n # 1
          BY <1>1, <3>2, <4>2
        <5>2. reg.esp <= saved[n].reg.esp
          <6>1. Depth(reg.eip) \in 0 .. 3
            BY <1>1, <5>1, Depths
          <6> QED
            BY <1>0, <1>1, <5>1, <6>1, InFrame, SMTT(30)
        <5>3. saved[n].reg.esp <= saved[j].reg.esp
          BY <1>0, <3>2, <5>1 DEF UInv, Inv, NestingOK
        <5>4. saved[n].reg.esp \in Int /\ saved[j].reg.esp \in Int
          BY <1>0, <5>1, Where
        <5> QED
          BY <2>2, <2>9, <2>10, <4>2, <5>1, <5>2, <5>3, <5>4, SMTT(30)
      <4>3. CASE k # n + 1 /\ j # n + 1
        BY <1>1, <2>9, <3>2, <4>3 DEF UInv, Inv, NestingOK
      <4> QED
        BY <4>1, <4>2, <4>3
    <3> QED
      BY <2>9, <3>1, <3>2 DEF NestingOK
  <2>18. BottomOK'
    BY <2>2, <2>3 DEF BottomOK
  <2>19. FrameStep
    <3> SUFFICES ASSUME NEW a \in StackAddr, mem'[a] # mem[a]
                 PROVE  PageOf(a) = 2
      BY DEF FrameStep
    <3>1. a \in Int /\ utf <= a /\ a <= utf + 4
      BY <2>2, <2>5, Sizes DEF StackAddr
    <3> QED
      BY <2>2, <3>1, PageNumbers, Sizes
  <2>20. ResumeStep
    BY <1>1, <2>9 DEF ResumeStep
  <2> QED
    BY <2>11, <2>13, <2>14, <2>15, <2>16, <2>17, <2>18, <2>19, <2>20 DEF UInv, Inv
<1> QED
  BY <1>2, <1>3

-----------------------------------------------------------------------------
(* The program.                                                            *)

LEMMA DepthValues ==
  /\ Depth(Entry) = 0 /\ Depth(Call) = 1 /\ Depth(Back) = 1 /\ Depth(Prepare) = 0
  /\ Depth(StoreEip) = 0 /\ Depth(Restore) = 0 /\ Depth(Handler) = 2 /\ Depth(HandlerLocal) = 3
  BY Depths DEF InUpcall

Steps == UInv' /\ FrameStep /\ ResumeStep

LEMMA ProgramStep ==
  ASSUME UInv, reg.eip \in Program, saved' = saved, reg' \in Regs, mem' \in Memory,
         cow' \subseteq Cow, alive' \in BOOLEAN,
         reg'.eip \in Program, reg'.esp \in USTACKTOP - MaxUser .. USTACKTOP
  PROVE  Steps
<1>1. Len(saved) = 0
  BY Running
<1>2. Kept(mem')
  BY <1>1 DEF Kept
<1> QED
  BY <1>1, <1>2, SameLevels, NoFault DEF Steps

LEMMA UserSteps == ASSUME UInv, User PROVE Steps
<1>1. /\ reg \in Regs /\ mem \in Memory /\ cow \subseteq Cow /\ alive \in BOOLEAN
  BY DEF UInv, TypeInv
<1>2. reg.eip \in Program
  BY DEF User, UserCompute, UserPush, UserPop, UserTouch, Fork, InProgram
<1>3. Len(saved) = 0 /\ reg.esp \in USTACKTOP - MaxUser .. USTACKTOP /\ reg.esp \in Int
  BY <1>1, <1>2, Running DEF Regs
<1>4. Program \subseteq Int /\ Word \subseteq Int
  BY WordAssumption DEF Program
<1>5. reg.eip \notin {Restore, Ret}
  BY <1>2 DEF Program, Restore, Ret
<1>6. ASSUME NEW x \in Word, NEW y \in Word, NEW eip \in Program, UserCompute(x, y, eip)
      PROVE  Steps
  <2>1. reg' \in Regs /\ reg'.eip = eip /\ reg'.esp = reg.esp
    BY <1>1, <1>4, <1>6 DEF UserCompute, Load, Regs
  <2> QED
    BY <1>1, <1>2, <1>3, <1>6, <2>1, ProgramStep DEF UserCompute, Load
<1>7. ASSUME NEW w \in Word, UserPush(w)
      PROVE  Steps
  <2>1. reg.esp > USTACKTOP - MaxUser
        /\ Store(reg.esp - 1, w, [reg EXCEPT !.esp = @ - 1, !.eip = reg.eip])
    BY <1>7 DEF UserPush, Push
  <2>2. CASE Writable(reg.esp - 1)
    <3>1. /\ mem' = [mem EXCEPT ![reg.esp - 1] = w] /\ cow' = cow /\ alive' = alive /\ saved' = saved
          /\ reg' = [reg EXCEPT !.esp = @ - 1, !.eip = reg.eip]
      BY <2>1, <2>2 DEF Store
    <3>2. reg' \in Regs /\ reg'.eip = reg.eip /\ reg'.esp = reg.esp - 1
      <4>1. PICK x \in Int : x = reg.esp - 1
        BY <1>3
      <4>2. PICK y \in Int : y = reg.eip
        BY <1>1 DEF Regs
      <4>3. reg' = [reg EXCEPT !.esp = x, !.eip = y]
        BY <3>1, <4>1, <4>2
      <4> QED
        BY <1>1, <4>1, <4>2, <4>3 DEF Regs
    <3>3. mem' \in Memory
      BY <1>1, <1>4, <3>1 DEF Memory
    <3>4. reg'.esp \in USTACKTOP - MaxUser .. USTACKTOP
      BY <1>3, <2>1, <3>2, Sizes
    <3> QED
      BY <1>1, <1>2, <3>1, <3>2, <3>3, <3>4, ProgramStep
  <2>3. CASE ~Writable(reg.esp - 1)
    BY <1>3, <1>5, <2>1, <2>3, Fault DEF Store, Steps
  <2> QED
    BY <2>2, <2>3
<1>8. ASSUME UserPop
      PROVE  Steps
  <2>1. reg.esp < USTACKTOP /\ reg' = [reg EXCEPT !.esp = @ + 1, !.eax = mem[reg.esp]]
        /\ mem' = mem /\ cow' = cow /\ alive' = alive /\ saved' = saved
    BY <1>8 DEF UserPop, Load
  <2>2. reg.esp \in StackAddr
    BY <1>3, <2>1, Sizes DEF StackAddr
  <2>3. mem[reg.esp] \in Int
    BY <1>1, <2>2 DEF Memory
  <2>4. reg' \in Regs /\ reg'.eip = reg.eip /\ reg'.esp = reg.esp + 1
    <3>1. PICK x \in Int : x = reg.esp + 1
      BY <1>3
    <3>2. PICK y \in Int : y = mem[reg.esp]
      BY <2>3
    <3>3. reg' = [reg EXCEPT !.esp = x, !.eax = y]
      BY <2>1, <3>1, <3>2
    <3> QED
      BY <1>1, <3>1, <3>3 DEF Regs
  <2>5. reg'.esp \in USTACKTOP - MaxUser .. USTACKTOP
    BY <1>3, <2>1, <2>4, Sizes
  <2> QED
    BY <1>1, <1>2, <2>1, <2>4, <2>5, ProgramStep
<1>9. ASSUME UserTouch
      PROVE  Steps
  BY <1>5, <1>9, Fault, Sizes DEF UserTouch, Touch, UserData, Steps
<1>10. ASSUME Fork
       PROVE  Steps
  BY <1>1, <1>2, <1>3, <1>10, ProgramStep DEF Fork
<1> QED
  BY <1>6, <1>7, <1>8, <1>9, <1>10 DEF User

-----------------------------------------------------------------------------
(* The upcall and the C handler.                                           *)

\* Moving to another place of the upcall, or in the handler, with the frame
\* as it is.
LEMMA Moves ==
  ASSUME UInv, Len(saved) > 0, saved' = saved, alive' = alive, cow' \subseteq Cow, mem' = mem,
         reg.eip \in InUpcall \ {StoreEip}, reg' \in Regs, reg'.eip \in {Back, Prepare, Handler},
         reg'.eip = Handler => reg.eip \in {Handler, HandlerLocal},
         reg'.esp = reg.esp + Depth(reg.eip) - Depth(reg'.eip), reg'.esp >= 2 * PGSIZE
  PROVE  Steps
<1> DEFINE s == saved[Len(saved)].reg
           u == TrapFrameAt(s.esp)
<1>1. /\ u \in Int /\ reg.esp = u - Depth(reg.eip) /\ FrameHolds(reg, s, mem, u)
      /\ LevelOK(reg, s, mem) /\ alive \in BOOLEAN
  BY InFrame, Running DEF UInv, TypeInv
<1>2. reg'.eip \in InUpcall /\ reg'.eip \notin {StoreEip, Restore, Ret, HandlerLocal}
      /\ reg.eip \notin {StoreEip, Restore}
  BY DEF InUpcall, Entry, Call, Back, Prepare, StoreEip, Handler, HandlerLocal, Ret, Restore
<1>3. Depth(reg.eip) \in 0 .. 3 /\ Depth(reg'.eip) \in 0 .. 3
  BY <1>2, Depths
<1>4. TrapFrameAt(s.esp) = u
  OBVIOUS
<1> HIDE DEF s, u
<1>5. reg'.esp = u - Depth(reg'.eip) /\ FrameHolds(reg', s, mem, u)
  BY <1>1, <1>2, <1>3 DEF FrameHolds
<1>6. reg'.eip = Handler => mem[u - 2] = Back
  BY <1>1, <1>4 DEF LevelOK
<1>7. LevelOK(reg', s, mem')
  BY <1>2, <1>4, <1>5, <1>6 DEF LevelOK
<1> QED
  BY <1>1, <1>7, SameLevels, SameMemory, NoFault DEF Steps, s

\* A push of the upcall or the handler.
LEMMA Pushes ==
  ASSUME UInv, NEW w \in Int, NEW eip, Push(w, eip),
         \/ reg.eip = Entry /\ eip = Call
         \/ reg.eip = Call /\ eip = Handler /\ w = Back
         \/ reg.eip = Handler /\ eip = HandlerLocal
  PROVE  Steps
<1> DEFINE s == saved[Len(saved)].reg
           u == TrapFrameAt(s.esp)
           a == reg.esp - 1
<1>1. /\ reg.eip \in InUpcall /\ reg.eip \notin {StoreEip, Restore, Ret} /\ reg.eip \notin Program
      /\ eip \in InUpcall /\ eip \notin {StoreEip, Restore, Ret} /\ eip \in Int
  BY DEF InUpcall, Entry, Call, Back, Prepare, StoreEip, Handler, HandlerLocal, Ret, Restore, Program
<1>2. Len(saved) > 0
  BY <1>1, Running
<1>3. /\ u \in Int /\ reg.esp \in Int /\ 2 * PGSIZE <= u /\ u + 5 <= UXSTACKTOP
      /\ Len(saved) # 1 => s.esp \in Int /\ u < s.esp
      /\ reg.esp = u - Depth(reg.eip) /\ FrameHolds(reg, s, mem, u)
      /\ LevelOK(reg, s, mem) /\ reg.esp >= 2 * PGSIZE
  BY <1>1, <1>2, InFrame, Running
<1>4. reg \in Regs /\ mem \in Memory /\ cow \subseteq Cow /\ alive \in BOOLEAN /\ Len(saved) \in Nat
  BY Running DEF UInv, TypeInv
<1>5. Store(a, w, [reg EXCEPT !.esp = @ - 1, !.eip = eip])
  BY DEF Push
<1>6. Depth(eip) = Depth(reg.eip) + 1 /\ Depth(reg.eip) \in 0 .. 3
  <2>1. CASE reg.eip = Entry /\ eip = Call
    BY <2>1, DepthValues
  <2>2. CASE reg.eip = Call /\ eip = Handler
    BY <2>2, DepthValues
  <2>3. CASE reg.eip = Handler /\ eip = HandlerLocal
    BY <2>3, DepthValues
  <2> QED
    BY <2>1, <2>2, <2>3
<1>7. CASE ~Writable(a)
  BY <1>1, <1>3, <1>5, <1>7, Fault DEF Store, Steps
<1>8. CASE Writable(a)
  <2>1. /\ mem' = [mem EXCEPT ![a] = w] /\ cow' = cow /\ alive' = alive /\ saved' = saved
        /\ reg' = [reg EXCEPT !.esp = @ - 1, !.eip = eip]
    BY <1>5, <1>8 DEF Store
  <2>2. reg' \in Regs /\ reg'.eip = eip /\ reg'.esp = reg.esp - 1
    <3>1. PICK x \in Int : x = reg.esp - 1
      BY <1>3
    <3>2. reg' = [reg EXCEPT !.esp = x, !.eip = eip]
      BY <2>1, <3>1
    <3> QED
      BY <1>1, <1>4, <3>1, <3>2 DEF Regs
  <2>3. PageOf(a) # 1
    BY <1>8 DEF Writable
  <2>4. TrapFrameAt(s.esp) = u
    OBVIOUS
  <2> HIDE DEF s, u
  <2>5. a \in Int /\ a >= 2 * PGSIZE /\ a < u /\ a \in StackAddr
    <3>1. a \in Int /\ a < u /\ (PGSIZE <= a)
      BY <1>3, <1>6, Sizes
    <3>2. a >= 2 * PGSIZE
      <4> HIDE DEF a
      <4> QED BY <2>3, <3>1, PageNumbers, Sizes
    <3> QED
      BY <1>3, <3>1, <3>2, Sizes DEF StackAddr
  <2>6. Len(saved) > 1 => a < s.esp
    <3>0. Len(saved) > 1 => Len(saved) # 1
      <4>1. PICK n \in Nat : n = Len(saved)
        BY <1>4
      <4>2. n > 1 => n # 1
        OBVIOUS
      <4> QED
        BY <4>1, <4>2
    <3>1. Len(saved) > 1 => u < s.esp /\ s.esp \in Int
      BY <1>3, <3>0 DEF s, u
    <3> QED
      BY <1>3, <2>5, <3>1
  <2>7. mem' \in Memory /\ Kept(mem')
    BY <1>4, <2>1, <2>5, <2>6, SpareWrite DEF s
  <2>8. \A b \in StackAddr : b # a => mem'[b] = mem[b]
    BY <1>4, <2>1 DEF Memory
  <2>9. mem'[a] = w
    BY <1>4, <2>1, <2>5 DEF Memory
  <2> HIDE DEF a
  <2>10. /\ mem'[u + Eax] = mem[u + Eax] /\ mem'[u + Edx] = mem[u + Edx]
         /\ mem'[u + Eip] = mem[u + Eip] /\ mem'[u + Esp] = mem[u + Esp]
    BY <1>3, <2>5, <2>8, Sizes DEF Eax, Edx, Eip, Esp, StackAddr
  <2>11. FrameHolds(reg', s, mem', u) /\ reg'.esp = u - Depth(eip)
    <3>1. eip \notin {StoreEip, Restore} /\ reg.eip \notin {StoreEip, Restore}
      BY <1>1
    <3>2. FrameHolds(reg', s, mem', u)
      BY <1>3, <2>2, <2>10, <3>1 DEF FrameHolds
    <3>3. Depth(eip) \in Int
      BY <1>6
    <3> QED
      BY <1>3, <1>6, <2>2, <3>2, <3>3
  <2>12. eip \in {Handler, HandlerLocal} => mem'[u - 2] = Back
    <3>1. CASE reg.eip = Call
      BY <1>1, <1>3, <2>9, <3>1, Depths DEF a, Call, Entry, Handler, HandlerLocal
    <3>2. CASE reg.eip = Handler
      <4>1. mem[u - 2] = Back
        BY <1>3, <2>4, <3>2 DEF LevelOK
      <4>2. a = u - 3
        <5>1. Depth(reg.eip) = 2
          BY <1>1, <3>2, Depths
        <5> QED
          BY <1>3, <5>1 DEF a
      <4> QED
        BY <1>3, <2>5, <2>8, <4>1, <4>2, Sizes DEF StackAddr
    <3>3. CASE reg.eip = Entry
      BY <3>3 DEF Call, Entry, Handler, HandlerLocal
    <3> QED
      BY <3>1, <3>2, <3>3
  <2>13. LevelOK(reg', s, mem')
    BY <1>1, <2>2, <2>4, <2>11, <2>12 DEF LevelOK
  <2>14. reg'.esp >= 2 * PGSIZE
    BY <2>2, <2>5 DEF a
  <2> QED
    BY <1>2, <1>4, <2>1, <2>2, <2>7, <2>13, <2>14, SameLevels, NoFault DEF Steps, s
<1> QED
  BY <1>7, <1>8

LEMMA Distinct ==
  /\ InUpcall = {Entry, Call, Back, Prepare, StoreEip, Handler, HandlerLocal}
  /\ Entry = 1 /\ Call = 2 /\ Back = 3 /\ Prepare = 4 /\ StoreEip = 5 /\ Restore = 6 /\ Ret = 7
  /\ Handler = 8 /\ HandlerLocal = 9 /\ Program = {100, 101}
  BY DEF InUpcall, Entry, Call, Back, Prepare, StoreEip, Handler, HandlerLocal, Ret, Restore, Program


LEMMA HandlerSteps == ASSUME UInv, InHandler PROVE Steps
<1>1. /\ reg \in Regs /\ mem \in Memory /\ cow \subseteq Cow
  BY DEF UInv, TypeInv
<1>2. reg.eip \in {Handler, HandlerLocal} /\ reg.eip \in InUpcall \ {StoreEip}
      /\ reg.eip \notin {Restore, Ret} /\ reg.eip \notin Program
  <2>1. reg.eip \in {Handler, HandlerLocal}
    BY DEF InHandler, HandlerPush, HandlerPop, HandlerTouch, HandlerResolve, HandlerReturn, At
  <2> QED
    BY <2>1, Distinct
<1>3. Len(saved) > 0 /\ reg.esp \in Int /\ reg.esp >= 2 * PGSIZE
  BY <1>1, <1>2, Running DEF Regs
<1>4. ASSUME HandlerPush PROVE Steps
  <2>1. PICK w \in Word : Push(w, HandlerLocal)
    BY <1>4 DEF HandlerPush
  <2>2. reg.eip = Handler /\ w \in Int
    BY <1>4, WordAssumption DEF HandlerPush, At
  <2> QED
    BY <2>1, <2>2, Pushes
<1>5. ASSUME HandlerPop PROVE Steps
  <2>1. /\ reg.eip = HandlerLocal /\ reg' = [reg EXCEPT !.esp = @ + 1, !.eip = Handler]
        /\ mem' = mem /\ cow' = cow /\ alive' = alive /\ saved' = saved
    BY <1>5 DEF HandlerPop, At, Load
  <2>2. PICK x \in Int : x = reg.esp + 1
    BY <1>3
  <2>3. Handler \in Int /\ reg' = [reg EXCEPT !.esp = x, !.eip = Handler]
    BY <2>1, <2>2, Distinct
  <2>4. reg' \in Regs /\ reg'.eip = Handler /\ reg'.esp = reg.esp + 1
    BY <1>1, <2>2, <2>3 DEF Regs
  <2>5. reg'.esp = reg.esp + Depth(reg.eip) - Depth(reg'.eip)
    BY <1>3, <2>1, <2>4, DepthValues
  <2>6. reg'.esp >= 2 * PGSIZE
    BY <1>3, <2>4, Sizes
  <2> QED
    BY <1>1, <1>2, <1>3, <2>1, <2>4, <2>5, <2>6, Moves
<1>6. ASSUME HandlerTouch PROVE Steps
  BY <1>2, <1>6, Fault, Sizes DEF HandlerTouch, Touch, HandlerData, Steps
<1>7. ASSUME HandlerResolve PROVE Steps
  <2>1. /\ reg.eip = Handler /\ cow' \subseteq cow
        /\ \E w \in Word : reg' = [reg EXCEPT !.eax = w, !.edx = w]
        /\ mem' = mem /\ alive' = alive /\ saved' = saved
    BY <1>7 DEF HandlerResolve, At
  <2>2. PICK w \in Word : reg' = [reg EXCEPT !.eax = w, !.edx = w]
    BY <2>1
  <2>3. reg' \in Regs /\ reg'.eip = Handler /\ reg'.esp = reg.esp
    <3>1. PICK x \in Int : x = w
      BY WordAssumption
    <3>2. reg' = [reg EXCEPT !.eax = x, !.edx = x]
      BY <2>2, <3>1
    <3> QED
      BY <1>1, <2>1, <3>2 DEF Regs
  <2>4. reg'.esp = reg.esp + Depth(reg.eip) - Depth(reg'.eip)
    BY <1>3, <2>1, <2>3, DepthValues
  <2> QED
    BY <1>1, <1>2, <1>3, <2>1, <2>3, <2>4, Moves
<1>8. ASSUME HandlerReturn PROVE Steps
  <2>1. /\ reg.eip = Handler /\ reg' = [reg EXCEPT !.eip = mem[reg.esp], !.esp = @ + 1]
        /\ mem' = mem /\ cow' = cow /\ alive' = alive /\ saved' = saved
    BY <1>8 DEF HandlerReturn, At, Load
  <2> DEFINE s == saved[Len(saved)].reg
             u == TrapFrameAt(s.esp)
  <2>2. u \in Int /\ reg.esp = u - 2
    BY <1>2, <1>3, <2>1, InFrame, DepthValues
  <2>3. mem[u - 2] = Back
    BY <1>3, <2>1, Running DEF LevelOK
  <2>4. mem[reg.esp] = Back /\ Back \in Int
    BY <2>2, <2>3, Distinct
  <2>5. PICK x \in Int : x = reg.esp + 1
    BY <1>3
  <2>6. reg' \in Regs /\ reg'.eip = Back /\ reg'.esp = reg.esp + 1
    BY <1>1, <2>1, <2>4, <2>5 DEF Regs
  <2>7. reg'.esp = reg.esp + Depth(reg.eip) - Depth(reg'.eip)
    BY <1>3, <2>1, <2>6, DepthValues
  <2>8. reg'.esp >= 2 * PGSIZE
    BY <1>3, <2>6, Sizes
  <2>9. Back # Handler
    BY Distinct
  <2> QED
    BY <1>1, <1>2, <1>3, <2>1, <2>6, <2>7, <2>8, <2>9, Moves
<1> QED
  BY <1>4, <1>5, <1>6, <1>7, <1>8 DEF InHandler

\* movl 0x30(%esp), %edx and its neighbours: from Prepare to StoreEip.
LEMMA PrepareStep == ASSUME UInv, LoadTrapState PROVE Steps
<1> DEFINE s == saved[Len(saved)].reg
           u == TrapFrameAt(s.esp)
           a == reg.esp + Esp
<1>1. /\ reg \in Regs /\ mem \in Memory /\ cow \subseteq Cow /\ alive \in BOOLEAN
  BY DEF UInv, TypeInv
<1>2. /\ reg.eip = Prepare /\ cow' = cow /\ alive' = alive /\ saved' = saved
      /\ reg' = [reg EXCEPT !.eax = mem[reg.esp + Eip], !.edx = mem[reg.esp + Esp], !.eip = StoreEip]
      /\ mem' = [mem EXCEPT ![a] = mem[a] - 1]
  BY DEF LoadTrapState, At
<1>3. Prepare \in InUpcall /\ Prepare \notin {StoreEip, Restore, Ret} /\ Prepare \notin Program
      /\ StoreEip \in InUpcall /\ StoreEip \notin {Ret, Restore, Handler, HandlerLocal} /\ StoreEip \in Int
  BY Distinct
<1>4. Len(saved) > 0 /\ Len(saved) \in Nat
  BY <1>2, <1>3, Running
<1>5. /\ u \in Int /\ s.esp \in Int /\ 2 * PGSIZE <= u /\ u + 5 <= UXSTACKTOP
      /\ Len(saved) # 1 => u = s.esp - 6
      /\ reg.esp = u /\ FrameHolds(reg, s, mem, u) /\ reg.esp >= 2 * PGSIZE
  BY <1>2, <1>3, <1>4, InFrame, DepthValues
<1>6. TrapFrameAt(s.esp) = u
  OBVIOUS
<1>7. Len(saved) > 1 => u = s.esp - 6
  <2>1. PICK n \in Nat : n = Len(saved)
    BY <1>4
  <2>2. n > 1 => n # 1
    OBVIOUS
  <2> QED
    BY <1>5, <2>1, <2>2
<1> HIDE DEF s, u
<1>8. a = u + 4 /\ a \in StackAddr /\ a >= 2 * PGSIZE /\ (Len(saved) > 1 => a < s.esp)
  BY <1>5, <1>7, Sizes DEF Esp, StackAddr
<1> HIDE DEF a
<1>9. PICK w \in Int : w = mem[a] - 1
  BY <1>1, <1>8 DEF Memory
<1>10. mem' \in Memory /\ Kept(mem') /\ a \in Int
  <2>1. a \in Int
    BY <1>5, <1>8
  <2> QED
    BY <1>2, <1>8, <1>9, <2>1, SpareWrite DEF s
<1>11. \A b \in StackAddr : mem'[b] = IF b = a THEN mem[a] - 1 ELSE mem[b]
  BY <1>1, <1>2 DEF Memory
<1>12. /\ mem[u + Eax] = s.eax /\ mem[u + Edx] = s.edx /\ mem[u + Eip] = s.eip /\ mem[u + Esp] = s.esp
  BY <1>2, <1>3, <1>5 DEF FrameHolds
<1>13. /\ mem'[u + Eax] = s.eax /\ mem'[u + Edx] = s.edx /\ mem'[u + Eip] = s.eip
       /\ mem'[u + Esp] = s.esp - 1
  BY <1>5, <1>8, <1>11, <1>12, Sizes DEF Eax, Edx, Eip, Esp, StackAddr
<1>14. reg' \in Regs /\ reg'.eip = StoreEip /\ reg'.esp = u /\ reg'.eax = s.eip /\ reg'.edx = s.esp
  <2>1. PICK x \in Int : x = mem[u + Eip]
    BY <1>1, <1>5, Sizes DEF Memory, StackAddr, Eip
  <2>2. PICK y \in Int : y = mem[u + Esp]
    BY <1>1, <1>5, Sizes DEF Memory, StackAddr, Esp
  <2>3. reg' = [reg EXCEPT !.eax = x, !.edx = y, !.eip = StoreEip]
    BY <1>2, <1>5, <2>1, <2>2
  <2> QED
    BY <1>1, <1>3, <1>5, <1>12, <2>1, <2>2, <2>3 DEF Regs
<1>15. FrameHolds(reg', s, mem', u)
  BY <1>13, <1>14 DEF FrameHolds
<1>16. LevelOK(reg', s, mem')
  BY <1>3, <1>5, <1>6, <1>14, <1>15, DepthValues DEF LevelOK
<1> QED
  BY <1>1, <1>2, <1>4, <1>5, <1>10, <1>14, <1>16, SameLevels, NoFault DEF Steps, s

\* movl %eax, -4(%edx): the eip goes below what was interrupted, where it
\* may fault if that is the program.
LEMMA StoreStep == ASSUME UInv, StoreReturn PROVE Steps
<1> DEFINE s == saved[Len(saved)].reg
           u == TrapFrameAt(s.esp)
           a == reg.edx - 1
<1>1. /\ reg \in Regs /\ mem \in Memory /\ cow \subseteq Cow /\ alive \in BOOLEAN
  BY DEF UInv, TypeInv
<1>2. reg.eip = StoreEip /\ Store(a, reg.eax, [reg EXCEPT !.eip = Restore])
  BY DEF StoreReturn, At
<1>3. /\ StoreEip \in InUpcall /\ StoreEip \notin {Restore, Ret} /\ StoreEip \notin Program
      /\ Restore \notin InUpcall /\ Restore \notin {Ret, StoreEip, Handler, HandlerLocal} /\ Restore \in Int
  BY Distinct
<1>4. Len(saved) > 0 /\ Len(saved) \in Nat
  BY <1>2, <1>3, Running
<1>5. /\ u \in Int /\ s.esp \in Int /\ 2 * PGSIZE <= u /\ u + 5 <= UXSTACKTOP
      /\ Len(saved) # 1 => u = s.esp - 6 /\ s.esp < UXSTACKTOP
      /\ Len(saved) = 1 => s.esp \in USTACKTOP - MaxUser .. USTACKTOP
      /\ reg.esp = u /\ FrameHolds(reg, s, mem, u) /\ reg.esp >= 2 * PGSIZE
  BY <1>2, <1>3, <1>4, InFrame, DepthValues
<1>6. reg.eax = s.eip /\ reg.edx = s.esp /\ a \in Int
  <2>1. LevelOK(reg, s, mem)
    BY <1>4, Running
  <2>2. reg.eax = s.eip /\ reg.edx = s.esp
    BY <1>2, <2>1 DEF LevelOK
  <2> QED
    BY <1>5, <2>2
<1>7. CASE ~Writable(a)
  BY <1>2, <1>3, <1>6, <1>7, Fault DEF Store, Steps
<1>8. CASE Writable(a)
  <2>1. /\ mem' = [mem EXCEPT ![a] = reg.eax] /\ cow' = cow /\ alive' = alive /\ saved' = saved
        /\ reg' = [reg EXCEPT !.eip = Restore]
    BY <1>2, <1>8 DEF Store
  <2>2. Len(saved) = 1 \/ Len(saved) > 1
    <3>1. PICK n \in Nat : n = Len(saved)
      BY <1>4
    <3>2. n > 0 => n = 1 \/ n > 1
      OBVIOUS
    <3> QED
      BY <1>4, <3>1, <3>2
  <2>3. TrapFrameAt(s.esp) = u
    OBVIOUS
  <2>4. Len(saved) = 1 => saved[1].reg.esp = s.esp
    OBVIOUS
  <2> HIDE DEF s, u
  <2>5. a \in StackAddr /\ (a < u \/ a > u + 4)
    <3>1. CASE Len(saved) # 1
      BY <1>5, <1>6, <3>1, Sizes DEF StackAddr
    <3>2. CASE Len(saved) = 1
      BY <1>5, <1>6, <3>2, Sizes DEF StackAddr
    <3> QED
      BY <3>1, <3>2
  <2>6. \/ a >= 2 * PGSIZE /\ (Len(saved) > 1 => a < s.esp)
        \/ Len(saved) = 1 /\ a = saved[1].reg.esp - 1
    <3>1. CASE Len(saved) # 1
      BY <1>5, <1>6, <3>1, Sizes
    <3>2. CASE Len(saved) = 1
      BY <1>6, <2>4, <3>2
    <3> QED
      BY <3>1, <3>2
  <2> HIDE DEF a
  <2>7. PICK w \in Int : w = reg.eax
    BY <1>1 DEF Regs
  <2>8. mem' \in Memory /\ Kept(mem')
    BY <1>6, <2>1, <2>5, <2>6, <2>7, SpareWrite DEF s
  <2>9. \A b \in StackAddr : mem'[b] = IF b = a THEN s.eip ELSE mem[b]
    BY <1>1, <1>6, <2>1 DEF Memory
  <2>10. /\ mem'[u + Eax] = mem[u + Eax] /\ mem'[u + Edx] = mem[u + Edx]
         /\ mem'[u + Eip] = mem[u + Eip] /\ mem'[u + Esp] = mem[u + Esp]
    BY <1>5, <1>6, <2>5, <2>9, Sizes DEF Eax, Edx, Eip, Esp, StackAddr
  <2>11. mem'[s.esp - 1] = s.eip
    BY <1>6, <2>5, <2>9 DEF a
  <2>12. reg' \in Regs /\ reg'.eip = Restore /\ reg'.esp = u
    BY <1>1, <1>3, <1>5, <2>1 DEF Regs
  <2>13. FrameHolds(reg', s, mem', u)
    BY <1>2, <1>5, <2>10, <2>12 DEF FrameHolds
  <2>14. LevelOK(reg', s, mem')
    BY <1>3, <1>5, <2>3, <2>11, <2>12, <2>13, DepthValues DEF LevelOK
  <2> QED
    BY <1>1, <1>3, <1>4, <2>1, <2>8, <2>12, <2>14, SameLevels, NoFault DEF Steps, s
<1> QED
  BY <1>7, <1>8

\* popal; popfl; popl %esp
LEMMA RestoreStep == ASSUME UInv, RestoreState PROVE Steps
<1> DEFINE s == saved[Len(saved)].reg
           u == TrapFrameAt(s.esp)
<1>1. /\ reg \in Regs /\ mem \in Memory /\ cow \subseteq Cow /\ alive \in BOOLEAN
  BY DEF UInv, TypeInv
<1>2. /\ reg.eip = Restore /\ cow' = cow /\ alive' = alive /\ saved' = saved /\ mem' = mem
      /\ reg' = [eax |-> mem[reg.esp + Eax], edx |-> mem[reg.esp + Edx],
                 esp |-> mem[reg.esp + Esp], eip |-> Ret]
  BY DEF RestoreState, At, Load
<1>3. /\ Restore \notin Program /\ Restore \notin InUpcall
      /\ Ret \notin InUpcall /\ Ret \notin {StoreEip, Restore, Handler, HandlerLocal} /\ Ret \in Int
  BY Distinct
<1>4. Len(saved) > 0
  BY <1>2, <1>3, Running
<1>5. /\ s \in Regs /\ reg.esp = u /\ FrameHolds(reg, s, mem, u) /\ u \in Int /\ s.esp \in Int
  BY <1>2, <1>4, InFrame, DepthValues
<1>6. /\ mem[reg.esp + Eax] = s.eax /\ mem[reg.esp + Edx] = s.edx /\ mem[reg.esp + Esp] = s.esp - 1
  BY <1>2, <1>5 DEF FrameHolds
<1>7. mem[s.esp - 1] = s.eip
  BY <1>2, <1>4, Running DEF LevelOK
<1> HIDE DEF s, u
<1>8. /\ reg' \in Regs /\ reg'.eip = Ret /\ reg'.eax = s.eax /\ reg'.edx = s.edx
      /\ reg'.esp = s.esp - 1
  BY <1>2, <1>3, <1>5, <1>6 DEF Regs
<1>9. LevelOK(reg', s, mem')
  BY <1>2, <1>3, <1>7, <1>8 DEF LevelOK
<1> QED
  BY <1>1, <1>2, <1>3, <1>4, <1>8, <1>9, SameMemory, SameLevels, NoFault DEF Steps, s

\* ret: back to what the last fault interrupted.
LEMMA ReturnStep == ASSUME UInv, Return PROVE Steps
<1>0. PICK n \in Nat : n = Len(saved)
  BY Running
<1>1. /\ reg \in Regs /\ mem \in Memory /\ cow \subseteq Cow /\ alive \in BOOLEAN /\ saved \in Seq(Contexts)
  BY DEF UInv, TypeInv, Shape
<1>2. /\ reg.eip = Ret /\ cow' = cow /\ alive' = alive /\ saved' = Front(saved) /\ mem' = mem
      /\ reg' = [reg EXCEPT !.eip = mem[reg.esp], !.esp = @ + 1]
  BY DEF Return, At
<1>3. Ret \notin Program
  BY Distinct
<1>4. n > 0 /\ n - 1 \in Nat /\ n \in 1 .. n /\ LevelOK(reg, saved[n].reg, mem)
  BY <1>0, <1>2, <1>3, Running
<1>5. /\ reg.eax = saved[n].reg.eax /\ reg.edx = saved[n].reg.edx /\ reg.esp = saved[n].reg.esp - 1
      /\ mem[saved[n].reg.esp - 1] = saved[n].reg.eip
  BY <1>2, <1>4 DEF LevelOK
<1>6. saved[n].reg \in Regs
  BY <1>0, <1>4, SavedShape DEF UInv
<1>7. reg' = saved[n].reg
  <2>1. PICK s \in Regs : s = saved[n].reg
    BY <1>6
  <2>2. reg' = [reg EXCEPT !.eip = s.eip, !.esp = s.esp]
    <3>1. reg.esp + 1 = s.esp /\ mem[reg.esp] = s.eip
      BY <1>1, <1>5, <2>1 DEF Regs
    <3> QED
      BY <1>2, <3>1
  <2> QED
    BY <1>1, <1>5, <2>1, <2>2 DEF Regs
<1>8. /\ Len(saved') = n - 1 /\ saved' \in Seq(Contexts)
      /\ \A k \in 1 .. n - 1 : saved'[k] = saved[k]
  <2>1. saved' = SubSeq(saved, 1, n - 1)
    BY <1>0, <1>2 DEF Front
  <2> QED
    BY <1>0, <1>1, <1>4, <2>1, SubSeqProperties
<1>9. \A k \in 0 .. n - 1 : R(k)' = saved[k + 1].reg /\ R(k) = saved[k + 1].reg
  BY <1>0, <1>7, <1>8 DEF R
<1>10. TypeInv' /\ Shape'
  BY <1>1, <1>2, <1>6, <1>7, <1>8 DEF TypeInv, Shape
<1>11. ProgramOK'
  BY <1>0, <1>4, <1>9 DEF UInv, Inv, ProgramOK
<1>12. LevelsOK'
  <2> SUFFICES ASSUME NEW k \in 1 .. n - 1
               PROVE  LevelOK(R(k)', saved'[k].reg, mem')
    BY <1>8 DEF LevelsOK
  <2>1. LevelOK(R(k), saved[k].reg, mem)
    BY <1>0 DEF UInv, Inv, LevelsOK
  <2> QED
    BY <1>2, <1>8, <1>9, <2>1
<1>13. InnerOK'
  <2> SUFFICES ASSUME NEW k \in 1 .. n - 1
               PROVE  (R(k)').eip \in InUpcall
    BY <1>8 DEF InnerOK
  <2>1. R(k).eip \in InUpcall
    BY <1>0 DEF UInv, Inv, InnerOK
  <2> QED
    BY <1>9, <2>1
<1>14. ContextsOK'
  BY <1>0, <1>2, <1>8 DEF UInv, Inv, ContextsOK
<1>15. NestingOK'
  <2>1. ASSUME NEW k \in 1 .. n - 1
        PROVE  /\ TrapFrameAt(saved'[k].reg.esp) >= 2 * PGSIZE
               /\ k # 1 => OnExceptionStack(saved'[k].reg.esp)
    BY <1>0, <1>8 DEF UInv, Inv, NestingOK
  <2>2. ASSUME NEW j \in 1 .. n - 1, NEW k \in 1 .. n - 1, j # 1, j <= k
        PROVE  saved'[k].reg.esp <= saved'[j].reg.esp
    BY <1>0, <1>8, <2>2 DEF UInv, Inv, NestingOK
  <2> QED
    BY <1>8, <2>1, <2>2 DEF NestingOK
<1>16. BottomOK'
  <2> SUFFICES ASSUME n - 1 > 0 PROVE reg'.esp >= 2 * PGSIZE
    BY <1>8 DEF BottomOK
  <2> QED
    BY <1>0, <1>7, Where
<1>17. FrameStep
  BY <1>0, <1>8 DEF FrameStep
<1>18. ResumeStep
  <2>1. saved[n] = Context(saved[n].reg, mem)
    BY <1>0, <1>4 DEF UInv, Inv, ContextsOK
  <2> QED
    BY <1>0, <1>2, <1>7, <2>1 DEF ResumeStep, Last
<1> QED
  BY <1>10, <1>11, <1>12, <1>13, <1>14, <1>15, <1>16, <1>17, <1>18 DEF UInv, Inv, Steps

LEMMA UpcallSteps == ASSUME UInv, Upcall PROVE Steps
<1>1. reg \in Regs /\ cow \subseteq Cow
  BY DEF UInv, TypeInv
<1>2. ASSUME PushArgument PROVE Steps
  <2>1. reg.eip = Entry /\ reg.esp \in Int /\ Push(reg.esp, Call)
    BY <1>1, <1>2 DEF PushArgument, At, Regs
  <2>2. PICK w \in Int : w = reg.esp
    BY <2>1
  <2> QED
    BY <2>1, <2>2, Pushes
<1>3. ASSUME CallHandler PROVE Steps
  BY <1>3, Pushes, Distinct DEF CallHandler, At
<1>4. ASSUME PopArgument PROVE Steps
  <2>1. /\ reg.eip = Back /\ reg' = [reg EXCEPT !.esp = @ + 1, !.eip = Prepare]
        /\ mem' = mem /\ cow' = cow /\ alive' = alive /\ saved' = saved
    BY <1>4 DEF PopArgument, At, Load
  <2>2. Back \in InUpcall \ {StoreEip} /\ Back \notin Program /\ Prepare \in Int /\ Prepare # Handler
    BY Distinct
  <2>3. Len(saved) > 0 /\ reg.esp \in Int /\ reg.esp >= 2 * PGSIZE
    BY <1>1, <2>1, <2>2, Running DEF Regs
  <2>4. PICK x \in Int : x = reg.esp + 1
    BY <2>3
  <2>5. reg' = [reg EXCEPT !.esp = x, !.eip = Prepare]
    BY <2>1, <2>4
  <2>6. reg' \in Regs /\ reg'.eip = Prepare /\ reg'.esp = reg.esp + 1
    BY <1>1, <2>2, <2>4, <2>5 DEF Regs
  <2>7. reg'.esp = reg.esp + Depth(reg.eip) - Depth(reg'.eip)
    BY <2>1, <2>3, <2>6, DepthValues
  <2>8. reg'.esp >= 2 * PGSIZE
    BY <2>3, <2>6, Sizes
  <2> QED
    BY <1>1, <2>1, <2>2, <2>3, <2>6, <2>7, <2>8, Moves
<1> QED
  BY <1>2, <1>3, <1>4, PrepareStep, StoreStep, RestoreStep, ReturnStep DEF Upcall

-----------------------------------------------------------------------------
(* The theorems.                                                           *)

LEMMA InitUInv == Init => UInv
<1> SUFFICES ASSUME Init PROVE UInv
  OBVIOUS
<1>1. PICK w \in Word, eip \in Program :
        reg = [eax |-> w, edx |-> w, esp |-> USTACKTOP, eip |-> eip]
  BY DEF Init
<1>2. mem = [a \in StackAddr |-> 0] /\ cow = Cow /\ alive = TRUE /\ saved = <<>>
  BY DEF Init
<1>3. w \in Int /\ eip \in Int /\ USTACKTOP \in Int
  BY WordAssumption, Sizes DEF Program
<1>4. reg \in Regs /\ reg.eip \in Program /\ reg.esp = USTACKTOP
  BY <1>1, <1>3 DEF Regs
<1>5. TypeInv /\ Shape
  BY <1>2, <1>4 DEF TypeInv, Shape, Memory
<1>6. Len(saved) = 0
  BY <1>2
<1>7. ProgramOK
  BY <1>4, <1>6, Sizes DEF ProgramOK, R
<1>8. LevelsOK /\ InnerOK /\ ContextsOK /\ NestingOK /\ BottomOK
  BY <1>6 DEF LevelsOK, InnerOK, ContextsOK, NestingOK, BottomOK
<1> QED
  BY <1>5, <1>7, <1>8 DEF UInv, Inv

LEMMA NextSteps == UInv /\ [Next]_vars => Steps
<1> SUFFICES ASSUME UInv, [Next]_vars PROVE Steps
  OBVIOUS
<1>1. CASE Next
  BY <1>1, UserSteps, HandlerSteps, UpcallSteps DEF Next
<1>2. CASE UNCHANGED vars
  <2>1. UInv'
    BY <1>2 DEF vars, UInv, TypeInv, Shape, Inv, ProgramOK, LevelsOK, InnerOK, ContextsOK,
                NestingOK, BottomOK, R
  <2> QED
    BY <1>2, <2>1, NoFault DEF vars, Steps
<1> QED
  BY <1>1, <1>2

\* At every moment the frame of each fault that is being handled holds what
\* its upcall still has to bring back, and all that was interrupted is where
\* it was, however many faults within faults there are.
THEOREM Invariance == Spec => []UInv
<1>1. UInv /\ [Next]_vars => UInv'
  BY NextSteps DEF Steps
<1> QED
  BY <1>1, InitUInv, PTL DEF Spec

\* lib/pfentry.S: the upcall returns with all registers and the stack of
\* what the fault interrupted, be it the program, the handler, or the upcall
\* itself, which faults when it stores the eip on the program's stack.
THEOREM ReturnsAsInterrupted == Spec => ResumesAsInterrupted
<1>1. UInv /\ [Next]_vars => [Len(saved') < Len(saved) => Context(reg', mem') = Last(saved)]_vars
  BY NextSteps DEF Steps, ResumeStep
<1> QED
  BY <1>1, Invariance, PTL DEF Spec, ResumesAsInterrupted

\* kern/trap.c: page_fault_handler writes no frame outside the page of the
\* exception stack, although user_mem_check looks at the page of its first
\* byte only.
THEOREM FramesStayInPage == Spec => FramesInPage
<1>1. UInv /\ [Next]_vars =>
        [Len(saved') > Len(saved) =>
           \A a \in StackAddr : mem'[a] # mem[a] => PageOf(a) = 2]_vars
  BY NextSteps DEF Steps, FrameStep
<1> QED
  BY <1>1, Invariance, PTL DEF Spec, FramesInPage

\* Every variable keeps its type.
THEOREM TypesKept == Spec => []TypeOK
<1>1. UInv => TypeOK
  <2> SUFFICES ASSUME UInv PROVE TypeOK
    OBVIOUS
  <2>1. DOMAIN mem = StackAddr /\ cow \subseteq Cow /\ alive \in BOOLEAN /\ reg \in Regs
    BY DEF UInv, TypeInv, Memory
  <2>2. reg.eip \in Program \cup 1 .. 9
    BY Running, Distinct
  <2>3. reg.esp \in 0 .. UXSTACKTOP
    <3>1. CASE Len(saved) = 0
      BY <3>1, Running, Sizes
    <3>2. CASE Len(saved) > 0 /\ reg.eip = Ret
      <4>1. LevelOK(reg, saved[Len(saved)].reg, mem) /\ Len(saved) \in 1 .. Len(saved)
        BY <3>2, Running
      <4>2. reg.esp = saved[Len(saved)].reg.esp - 1
        BY <3>2, <4>1 DEF LevelOK
      <4>3. /\ saved[Len(saved)].reg.esp \in Int
            /\ \/ saved[Len(saved)].reg.esp \in USTACKTOP - MaxUser .. USTACKTOP
               \/ /\ 2 * PGSIZE <= saved[Len(saved)].reg.esp
                  /\ saved[Len(saved)].reg.esp < UXSTACKTOP
        BY <4>1, Where
      <4> QED
        BY <4>2, <4>3, Sizes
    <3>3. CASE Len(saved) > 0 /\ reg.eip # Ret
      <4>1. reg.eip \in InUpcall \cup {Restore}
        BY <3>3, Running
      <4>2. PICK u \in Int : /\ 2 * PGSIZE <= u /\ u + 5 <= UXSTACKTOP
                             /\ reg.esp = u - Depth(reg.eip)
        BY <3>3, <4>1, InFrame
      <4>3. Depth(reg.eip) \in 0 .. 3
        BY <4>1, Depths
      <4> QED
        BY <4>2, <4>3, Sizes
    <3> QED
      BY <3>1, <3>2, <3>3, Running
  <2> QED
    BY <2>1, <2>2, <2>3 DEF TypeOK
<1> QED
  BY <1>1, Invariance, PTL

-----------------------------------------------------------------------------
(* user_mem_check for ranges that start with a page.                       *)

LEMMA Multiples ==
  ASSUME NEW a \in Int
  PROVE  /\ a % PGSIZE \in 0 .. PGSIZE - 1
         /\ a = PGSIZE * PageOf(a) + (a % PGSIZE)
  BY PageSizeAssumption DEF PageOf

LEMMA MultipleIs ==
  ASSUME NEW q \in Int
  PROVE  PGSIZE * q \in Int /\ PageOf(PGSIZE * q) = q /\ (PGSIZE * q) % PGSIZE = 0
<1>1. PGSIZE * q \in Int
  BY PageSizeAssumption
<1>2. PageOf(PGSIZE * q) = q
  BY <1>1, PageIs, PageSizeAssumption
<1>3. (PGSIZE * q) % PGSIZE = 0
  <2>1. PICK x \in Int : x = PGSIZE * q
    BY <1>1
  <2>2. x % PGSIZE \in 0 .. PGSIZE - 1 /\ x = x + (x % PGSIZE)
    BY <1>2, <2>1, Multiples
  <2>3. x % PGSIZE = 0
    BY <2>2, PageSizeAssumption
  <2> QED
    BY <2>1, <2>3
<1> QED
  BY <1>1, <1>2, <1>3

\* A multiple of PGSIZE below another is below it by a page.
LEMMA Apart ==
  ASSUME NEW p \in Int, NEW q \in Int, PGSIZE * p < PGSIZE * q
  PROVE  PGSIZE * p + PGSIZE <= PGSIZE * q
<1>1. p < q
  <2>1. q - p \in Int /\ PGSIZE * (q - p) > 0
    BY PageSizeAssumption
  <2>2. \A d \in Int : PGSIZE * d > 0 => d > 0
    BY PageSizeAssumption
  <2> QED
    BY <2>1, <2>2
<1>2. PGSIZE * (q - p - 1) >= 0
  BY <1>1, PageSizeAssumption
<1> QED
  BY <1>2, PageSizeAssumption

LEMMA RoundUpIs ==
  ASSUME NEW a \in Int
  PROVE  \E q \in Int : RoundUp(a) = PGSIZE * q /\ RoundUp(a) >= a /\ RoundUp(a) < a + PGSIZE
<1> DEFINE b == a + PGSIZE - 1
<1>1. b \in Int
  BY PageSizeAssumption
<1>2. PageOf(b) \in Int /\ PGSIZE * PageOf(b) <= b /\ b < PGSIZE * PageOf(b) + PGSIZE
  BY <1>1, Quotient
<1>3. RoundUp(a) = PGSIZE * PageOf(b)
  BY <1>1, <1>2, PageSizeAssumption DEF RoundUp, PageOf
<1>4. PICK c \in Int : c = PGSIZE * PageOf(b)
  BY <1>2, PageSizeAssumption
<1>5. c >= a /\ c < a + PGSIZE
  BY <1>2, <1>4, PageSizeAssumption
<1> HIDE DEF b
<1> QED
  BY <1>2, <1>3, <1>4, <1>5

\* kern/pmap.c: where va is a multiple of PGSIZE user_mem_check lets a range
\* through just if all of its pages may be used, whatever its length.  (It
\* does not for other addresses: the run user_mem.)
THEOREM AlignedIsExact ==
  ASSUME NEW ok, NEW va \in Int, NEW len \in Nat, va % PGSIZE = 0
  PROVE  UserMemCheck(ok, va, len) <=> Usable(ok, va, len)
<1>00. ASSUME NEW x \in Int, x % PGSIZE = 0
       PROVE  \E q \in Int : x = PGSIZE * q
  <2>1. PageOf(x) \in Int /\ x = PGSIZE * PageOf(x) + 0
    BY <1>00, Multiples, Quotient
  <2>2. PGSIZE * PageOf(x) \in Int
    BY <2>1, PageSizeAssumption
  <2> QED
    BY <2>1, <2>2
<1>0. PICK v \in Int : va = PGSIZE * v
  BY <1>00
<1>1. ASSUME Usable(ok, va, len), NEW a \in Tested(va, len)
      PROVE  ok[PageOf(a)]
  <2>1. PICK r \in Int : RoundUp(va + len) = PGSIZE * r /\ RoundUp(va + len) < va + len + PGSIZE
    BY RoundUpIs
  <2>2. a \in Int /\ va <= a /\ a < PGSIZE * r /\ a % PGSIZE = 0
    BY <2>1, PageSizeAssumption DEF Tested
  <2>3. PICK q \in Int : a = PGSIZE * q
    BY <1>00, <2>2
  <2>4. PGSIZE * q + PGSIZE <= PGSIZE * r
    BY <2>2, <2>3, Apart
  <2>5. a < va + len
    BY <2>1, <2>2, <2>3, <2>4, PageSizeAssumption
  <2> QED
    BY <1>1, <2>2, <2>5 DEF Usable
<1>2. ASSUME UserMemCheck(ok, va, len), NEW a \in va .. va + len - 1
      PROVE  ok[PageOf(a)]
  <2> DEFINE q == PageOf(a)
             b == PGSIZE * q
  <2>1. q \in Int /\ b \in Int /\ b <= a /\ a < b + PGSIZE
    BY Quotient, PageSizeAssumption
  <2>2. b % PGSIZE = 0 /\ PageOf(b) = q
    BY <2>1, MultipleIs
  <2>3. va <= b
    <3>1. ~(b < va)
      <4> HIDE DEF q
      <4> SUFFICES ASSUME b < va PROVE FALSE
        OBVIOUS
      <4>1. b + PGSIZE <= va
        BY <1>0, <2>1, Apart
      <4> QED
        BY <2>1, <4>1, PageSizeAssumption
    <3> QED
      BY <2>1, <3>1
  <2>4. b = va \/ b >= va + PGSIZE
    <3> HIDE DEF q
    <3>1. va < b => va + PGSIZE <= b
      BY <1>0, <2>1, Apart
    <3> QED
      BY <2>1, <2>3, <3>1
  <2>5. RoundUp(va + PGSIZE) = va + PGSIZE
    <3>1. va + PGSIZE = PGSIZE * (v + 1) /\ va + PGSIZE \in Int /\ v + 1 \in Int
      BY <1>0, PageSizeAssumption
    <3>2. PICK r \in Int : /\ RoundUp(va + PGSIZE) = PGSIZE * r
                           /\ RoundUp(va + PGSIZE) >= va + PGSIZE
                           /\ RoundUp(va + PGSIZE) < va + PGSIZE + PGSIZE
      BY <3>1, RoundUpIs
    <3>3. ~(PGSIZE * (v + 1) < PGSIZE * r)
      <4> SUFFICES ASSUME PGSIZE * (v + 1) < PGSIZE * r PROVE FALSE
        OBVIOUS
      <4>1. PGSIZE * (v + 1) + PGSIZE <= PGSIZE * r
        BY <3>1, Apart
      <4> QED
        BY <3>1, <3>2, <4>1, PageSizeAssumption
    <3>4. PGSIZE * r \in Int
      BY PageSizeAssumption
    <3> QED
      BY <3>1, <3>2, <3>3, <3>4
  <2>6. RoundUp(va + len) \in Int /\ b < RoundUp(va + len)
    BY <2>1, RoundUpAbove
  <2>7. b \in Tested(va, len)
    <3> HIDE DEF b
    <3> QED BY <2>1, <2>2, <2>3, <2>4, <2>5, <2>6, PageSizeAssumption DEF Tested
  <2> QED
    BY <1>2, <2>2, <2>7 DEF UserMemCheck
<1> QED
  BY <1>1, <1>2 DEF UserMemCheck, Usable

=============================================================================
