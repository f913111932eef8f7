------------------------------ MODULE CowFork ------------------------------
(***************************************************************************)
(* How processes of JOS get their memory, in src/solutions/fed/lab5: fork  *)
(* with copy-on-write (lib/fork.c), the page fault handler that copies     *)
(* (pgfault, set up in lib/pgfault.c), and spawn (lib/spawn.c), all of     *)
(* them user code that calls sys_page_alloc, sys_page_map, sys_page_unmap. *)
(*                                                                         *)
(* One step is one system call, or one write to memory.  Any process may   *)
(* run between two of them.  While fork or spawn is on its way, its own    *)
(* calls push words on the stack of the caller, whose pages it is copying. *)
(*                                                                         *)
(* An address is a page: UTEMP and PFTEMP, where pages are prepared, the   *)
(* pages from UTEXT to USTACKTOP that fork copies, and the page of the     *)
(* exception stack above.  A frame is free when no process maps it (Pmap). *)
(***************************************************************************)
EXTENDS Integers, FiniteSetsExt, Functions

CONSTANTS
    Proc, First,    \* processes, and the one that runs at the start
    Frame,          \* physical pages, page tables not counted
    USTACKTOP,      \* the page after the user stack
    SharedVA,       \* pages mapped PTE_SHARE, such as those of descriptors
    Segment,        \* pages of the image that spawn reads from a file
    Value, Zero,    \* contents of a page
    FileValue,      \* what the file holds for each page of Segment
    ArgValue,       \* the stack page that init_stack builds
    NoFrame, NoProc, NoValue

UTEMP == 0
PFTEMP == 1
UTEXT == 2
UserVA == UTEXT .. USTACKTOP - 1
Stack == USTACKTOP - 1
UXSTACK == USTACKTOP + 1
VA == {UTEMP, PFTEMP, UXSTACK} \cup UserVA

ASSUME FirstAssumption == First \in Proc /\ NoProc \notin Proc
ASSUME LayoutAssumption == USTACKTOP \in Nat /\ USTACKTOP > UTEXT
ASSUME SharedAssumption == SharedVA \subseteq UserVA \ {Stack}
ASSUME SegmentAssumption == Segment = UserVA \ (SharedVA \cup {Stack})
ASSUME ValueAssumption ==
    NoValue \notin Value /\ Zero \in Value /\ ArgValue \in Value /\ FileValue \in [Segment -> Value]
ASSUME FrameAssumption == NoFrame \notin Frame /\ Injection(UserVA, Frame) # {}

VARIABLES
    env,      \* NONE, NEW (made by sys_exofork, not started), LIVE or DEAD
    pt,       \* page tables
    mem,      \* the contents of the frames
    upcall,   \* whether env_pgfault_upcall is set, and the handler with it
    loc,      \* locals and program counter of each process
    panic     \* a user panic has entered the kernel monitor

vars == <<env, pt, mem, upcall, loc, panic>>

Bit == {"W", "COW", "SHARE"}
Avail == {"COW", "SHARE"}
Pte == [frame : Frame, bits : SUBSET Bit]
NoPte == [frame |-> NoFrame, bits |-> {}]

\* pc, va, child: the place in fork or spawn, the page and the child at hand
\* fault:         where pgfault is, or "none"
\* fva, fval:     the write that faulted
ForkPc == {"handler", "exofork", "map_child", "map_self", "xstack", "upcall", "status"}
SpawnPc == {"sp_exofork", "sp_stack", "sp_fill", "sp_map", "sp_unmap", "sp_share", "sp_status"}
User == [pc |-> "user", va |-> UTEXT, child |-> NoProc,
         fault |-> "none", fva |-> Stack, fval |-> Zero]

Mapped(p, va) == pt[p][va] # NoPte
Free == {f \in Frame : \A p \in Proc, va \in VA : pt[p][va].frame # f}
\* All frames are alike: it does not matter which one page_alloc takes.
NewFrame == CHOOSE f \in Free : TRUE

\* Code of p outside its page fault handler.
At(p, pc) == ~panic /\ env[p] = "LIVE" /\ loc[p].fault = "none" /\ loc[p].pc = pc
AtFault(p, step) == ~panic /\ env[p] = "LIVE" /\ loc[p].fault = step

Panic ==
    /\ panic' = TRUE
    /\ UNCHANGED <<env, pt, mem, upcall, loc>>

\* sys_page_alloc by p for address va of q; the caller panics without memory.
PageAlloc(q, va) ==
    /\ pt' = [pt EXCEPT ![q][va] = [frame |-> NewFrame, bits |-> {"W"}]]
    /\ mem' = [mem EXCEPT ![NewFrame] = Zero]

-----------------------------------------------------------------------------
(* User code.                                                              *)

\* A write that changes a page; of a copy-on-write page, a page fault.
\* Without handler or exception stack the kernel destroys the process.
Store(p, va, v) ==
    /\ v # mem[pt[p][va].frame]
    /\ IF "W" \in pt[p][va].bits
         THEN /\ mem' = [mem EXCEPT ![pt[p][va].frame] = v]
              /\ UNCHANGED <<env, pt, upcall, loc, panic>>
       ELSE IF upcall[p] /\ "W" \in pt[p][UXSTACK].bits
         THEN /\ loc' = [loc EXCEPT ![p].fault = "alloc", ![p].fva = va, ![p].fval = v]
              /\ UNCHANGED <<env, pt, mem, upcall, panic>>
         ELSE /\ env' = [env EXCEPT ![p] = "DEAD"]
              /\ pt' = [pt EXCEPT ![p] = [x \in VA |-> NoPte]]
              /\ upcall' = [upcall EXCEPT ![p] = FALSE]
              /\ loc' = [loc EXCEPT ![p] = User]
              /\ UNCHANGED <<mem, panic>>

Write(p, va, v) ==
    /\ At(p, "user")
    /\ va \in UserVA
    /\ Store(p, va, v)

\* fork and spawn call functions, and so write to their own stack.
PushStack(p, v) ==
    /\ \E pc \in ForkPc \cup SpawnPc : At(p, pc)
    /\ Store(p, Stack, v)

Exit(p) ==
    /\ ~panic /\ env[p] = "LIVE"
    /\ env' = [env EXCEPT ![p] = "DEAD"]
    /\ pt' = [pt EXCEPT ![p] = [va \in VA |-> NoPte]]
    /\ upcall' = [upcall EXCEPT ![p] = FALSE]
    /\ loc' = [loc EXCEPT ![p] = User]
    /\ UNCHANGED <<mem, panic>>

-----------------------------------------------------------------------------
(* pgfault, on the exception stack.                                        *)

FaultAlloc(p) ==
    /\ AtFault(p, "alloc")
    /\ IF Free = {} THEN Panic
       ELSE /\ PageAlloc(p, PFTEMP)
            /\ loc' = [loc EXCEPT ![p].fault = "copy"]
            /\ UNCHANGED <<env, upcall, panic>>

FaultCopy(p) ==
    /\ AtFault(p, "copy")
    /\ mem' = [mem EXCEPT ![pt[p][PFTEMP].frame] = mem[pt[p][loc[p].fva].frame]]
    /\ loc' = [loc EXCEPT ![p].fault = "map"]
    /\ UNCHANGED <<env, pt, upcall, panic>>

FaultMap(p) ==
    /\ AtFault(p, "map")
    /\ pt' = [pt EXCEPT ![p][loc[p].fva] = [frame |-> pt[p][PFTEMP].frame, bits |-> {"W"}]]
    /\ loc' = [loc EXCEPT ![p].fault = "unmap"]
    /\ UNCHANGED <<env, mem, upcall, panic>>

FaultUnmap(p) ==
    /\ AtFault(p, "unmap")
    /\ pt' = [pt EXCEPT ![p][PFTEMP] = NoPte]
    /\ loc' = [loc EXCEPT ![p].fault = "again"]
    /\ UNCHANGED <<env, mem, upcall, panic>>

\* The faulting instruction is executed again.
WriteAgain(p) ==
    /\ AtFault(p, "again")
    /\ mem' = [mem EXCEPT ![pt[p][loc[p].fva].frame] = loc[p].fval]
    /\ loc' = [loc EXCEPT ![p].fault = "none", ![p].fva = Stack, ![p].fval = Zero]
    /\ UNCHANGED <<env, pt, upcall, panic>>

-----------------------------------------------------------------------------
(* fork.                                                                   *)

Fork(p) ==
    /\ At(p, "user")
    /\ loc' = [loc EXCEPT ![p].pc = IF upcall[p] THEN "exofork" ELSE "handler"]
    /\ UNCHANGED <<env, pt, mem, upcall, panic>>

\* set_pgfault_handler, the first time.
SetHandler(p) ==
    /\ At(p, "handler")
    /\ IF Free = {} THEN Panic
       ELSE /\ PageAlloc(p, UXSTACK)
            /\ upcall' = [upcall EXCEPT ![p] = TRUE]
            /\ loc' = [loc EXCEPT ![p].pc = "exofork"]
            /\ UNCHANGED <<env, panic>>

Exofork(p, c) ==
    /\ At(p, "exofork")
    /\ env[c] = "NONE"
    /\ env' = [env EXCEPT ![c] = "NEW"]
    /\ loc' = [loc EXCEPT ![p].pc = "map_child", ![p].child = c, ![p].va = UTEXT]
    /\ UNCHANGED <<pt, mem, upcall, panic>>

NextPageBeyond(p) ==                        \* mutant: one page past the stack
    IF loc[p].va = USTACKTOP
      THEN [loc[p] EXCEPT !.pc = "xstack", !.va = UTEXT]
      ELSE [loc[p] EXCEPT !.pc = "map_child", !.va = @ + 1]
NextPageNoXstack(p) ==                      \* mutant: the child gets no exception stack
    IF loc[p].va = Stack
      THEN [loc[p] EXCEPT !.pc = "upcall", !.va = UTEXT]
      ELSE [loc[p] EXCEPT !.pc = "map_child", !.va = @ + 1]
\* The locals of p when the loop is done with a page.
NextPage(p) ==
    IF loc[p].va = Stack
      THEN [loc[p] EXCEPT !.pc = "xstack", !.va = UTEXT]
      ELSE [loc[p] EXCEPT !.pc = "map_child", !.va = @ + 1]

IsCowAny(bits) == bits \cap {"W", "COW"} # {}   \* mutant: shared pages too
IsCow(bits) == "SHARE" \notin bits /\ bits \cap {"W", "COW"} # {}
CowBits(bits) == {"COW"} \cup (bits \cap Avail)

\* The body of the loop up to duppage's first or only sys_page_map.
DupChild(p) ==
    LET va == loc[p].va
        pte == pt[p][va]
    IN  /\ At(p, "map_child")
        /\ IF ~Mapped(p, va)
             THEN pt' = pt /\ loc' = [loc EXCEPT ![p] = NextPage(p)]
           ELSE IF IsCow(pte.bits)
             THEN /\ pt' = [pt EXCEPT ![loc[p].child][va] = [pte EXCEPT !.bits = CowBits(@)]]
                  /\ loc' = [loc EXCEPT ![p].pc = "map_self"]
             ELSE /\ pt' = [pt EXCEPT ![loc[p].child][va] = pte]
                  /\ loc' = [loc EXCEPT ![p] = NextPage(p)]
        /\ UNCHANGED <<env, mem, upcall, panic>>

DupSelfNever(p) ==                          \* mutant: the parent may still write
    /\ At(p, "map_self")
    /\ loc' = [loc EXCEPT ![p] = NextPage(p)]
    /\ UNCHANGED <<env, pt, mem, upcall, panic>>
DupSelf(p) ==
    /\ At(p, "map_self")
    /\ pt' = [pt EXCEPT ![p][loc[p].va].bits = CowBits(@)]
    /\ loc' = [loc EXCEPT ![p] = NextPage(p)]
    /\ UNCHANGED <<env, mem, upcall, panic>>

AllocXstack(p) ==
    /\ At(p, "xstack")
    /\ IF Free = {} THEN Panic
       ELSE /\ PageAlloc(loc[p].child, UXSTACK)
            /\ loc' = [loc EXCEPT ![p].pc = "upcall"]
            /\ UNCHANGED <<env, upcall, panic>>

SetUpcall(p) ==
    /\ At(p, "upcall")
    /\ upcall' = [upcall EXCEPT ![loc[p].child] = TRUE]
    /\ loc' = [loc EXCEPT ![p].pc = "status"]
    /\ UNCHANGED <<env, pt, mem, panic>>

StartChild(p) ==
    /\ At(p, "status") \/ At(p, "sp_status")
    /\ env' = [env EXCEPT ![loc[p].child] = "LIVE"]
    /\ loc' = [loc EXCEPT ![p] = User]
    /\ UNCHANGED <<pt, mem, upcall, panic>>

-----------------------------------------------------------------------------
(* spawn.  The pages of the image are built at UTEMP, first the stack.     *)

Spawn(p) ==
    /\ At(p, "user")
    /\ loc' = [loc EXCEPT ![p].pc = "sp_exofork"]
    /\ UNCHANGED <<env, pt, mem, upcall, panic>>

SpawnExofork(p, c) ==
    /\ At(p, "sp_exofork")
    /\ env[c] = "NONE"
    /\ env' = [env EXCEPT ![c] = "NEW"]
    /\ loc' = [loc EXCEPT ![p].pc = "sp_stack", ![p].child = c, ![p].va = Stack]
    /\ UNCHANGED <<pt, mem, upcall, panic>>

\* init_stack gives up without memory, and spawn returns: the child stays.
SpawnStack(p) ==
    /\ At(p, "sp_stack")
    /\ IF Free = {}
         THEN /\ loc' = [loc EXCEPT ![p] = User]
              /\ UNCHANGED <<env, pt, mem, upcall, panic>>
         ELSE /\ pt' = [pt EXCEPT ![p][UTEMP] = [frame |-> NewFrame, bits |-> {"W"}]]
              /\ mem' = [mem EXCEPT ![NewFrame] = ArgValue]
              /\ loc' = [loc EXCEPT ![p].pc = "sp_map"]
              /\ UNCHANGED <<env, upcall, panic>>

\* map_segment: sys_page_alloc and readn.  Without memory, or when the file
\* cannot be read, the child is destroyed; UTEMP stays mapped in the latter
\* case.
SpawnFail(p, utemp) ==
    LET c == loc[p].child
    IN  /\ env' = [env EXCEPT ![c] = "DEAD"]
        /\ pt' = [pt EXCEPT ![c] = [va \in VA |-> NoPte], ![p][UTEMP] = utemp]
        /\ loc' = [loc EXCEPT ![p] = User]
        /\ UNCHANGED <<upcall, panic>>

SpawnFill(p) ==
    /\ At(p, "sp_fill")
    /\ IF Free = {} THEN SpawnFail(p, pt[p][UTEMP]) /\ UNCHANGED mem
       ELSE \/ /\ pt' = [pt EXCEPT ![p][UTEMP] = [frame |-> NewFrame, bits |-> {"W"}]]
               /\ mem' = [mem EXCEPT ![NewFrame] = FileValue[loc[p].va]]
               /\ loc' = [loc EXCEPT ![p].pc = "sp_map"]
               /\ UNCHANGED <<env, upcall, panic>>
            \/ /\ SpawnFail(p, [frame |-> NewFrame, bits |-> {"W"}])
               /\ mem' = [mem EXCEPT ![NewFrame] = Zero]

SpawnMap(p) ==
    /\ At(p, "sp_map")
    /\ pt' = [pt EXCEPT ![loc[p].child][loc[p].va] = pt[p][UTEMP]]
    /\ loc' = [loc EXCEPT ![p].pc = "sp_unmap"]
    /\ UNCHANGED <<env, mem, upcall, panic>>

\* The page after va of the image, or the shared pages when there is none.
Rest(va) == {x \in Segment : va = Stack \/ x > va}

SpawnUnmap(p) ==
    /\ At(p, "sp_unmap")
    /\ pt' = [pt EXCEPT ![p][UTEMP] = NoPte]
    /\ loc' = [loc EXCEPT ![p] =
                 IF Rest(@.va) # {} THEN [@ EXCEPT !.pc = "sp_fill", !.va = Min(Rest(loc[p].va))]
                 ELSE [@ EXCEPT !.pc = "sp_share", !.va = UTEXT]]
    /\ UNCHANGED <<env, mem, upcall, panic>>

\* copy_shared_pages, one page.
SpawnShare(p) ==
    /\ At(p, "sp_share")
    /\ LET va == loc[p].va IN
         /\ pt' = IF "SHARE" \in pt[p][va].bits
                    THEN [pt EXCEPT ![loc[p].child][va] = pt[p][va]] ELSE pt
         /\ loc' = [loc EXCEPT ![p] = IF va = Stack THEN [@ EXCEPT !.pc = "sp_status"]
                                      ELSE [@ EXCEPT !.va = va + 1]]
    /\ UNCHANGED <<env, mem, upcall, panic>>

-----------------------------------------------------------------------------
Init ==
    /\ env = [p \in Proc |-> IF p = First THEN "LIVE" ELSE "NONE"]
    /\ LET frame == CHOOSE g \in Injection(UserVA, Frame) : TRUE IN
         pt = [p \in Proc |-> [va \in VA |->
                    IF p = First /\ va \in UserVA
                      THEN [frame |-> frame[va],
                            bits |-> IF va \in SharedVA THEN {"W", "SHARE"} ELSE {"W"}]
                      ELSE NoPte]]
    /\ mem = [f \in Frame |-> Zero]
    /\ upcall = [p \in Proc |-> FALSE]
    /\ loc = [p \in Proc |-> User]
    /\ panic = FALSE

Fault(p) == FaultAlloc(p) \/ FaultCopy(p) \/ FaultMap(p) \/ FaultUnmap(p) \/ WriteAgain(p)
ForkStep(p) ==
    \/ Fork(p) \/ SetHandler(p) \/ (\E c \in Proc : Exofork(p, c))
    \/ DupChild(p) \/ DupSelf(p)
    \/ AllocXstack(p) \/ SetUpcall(p) \/ StartChild(p)
SpawnStep(p) ==
    \/ Spawn(p) \/ (\E c \in Proc : SpawnExofork(p, c)) \/ SpawnStack(p)
    \/ SpawnFill(p) \/ SpawnMap(p) \/ SpawnUnmap(p) \/ SpawnShare(p)

Next == \E p \in Proc :
    \/ Fault(p) \/ ForkStep(p) \/ SpawnStep(p) \/ Exit(p)
    \/ \E v \in Value : PushStack(p, v) \/ \E va \in UserVA : Write(p, va, v)

Spec == Init /\ [][Next]_vars

-----------------------------------------------------------------------------
(* Properties.                                                             *)

TypeOK ==
    /\ env \in [Proc -> {"NONE", "NEW", "LIVE", "DEAD"}]
    /\ pt \in [Proc -> [VA -> Pte \cup {NoPte}]]
    /\ mem \in [Frame -> Value]
    /\ upcall \in [Proc -> BOOLEAN]
    /\ loc \in [Proc -> [pc : {"user"} \cup ForkPc \cup SpawnPc, va : VA,
                        child : Proc \cup {NoProc}, fva : UserVA, fval : Value,
                        fault : {"none", "alloc", "copy", "map", "unmap", "again"}]]
    /\ panic \in BOOLEAN

\* A page that somebody may write is mapped nowhere else, unless it is
\* shared, on its way from UTEMP or PFTEMP to its place, or about to be
\* frozen by a fork that has given it to the child already.
SoleWriter ==
    \A p \in Proc, va \in VA : "W" \in pt[p][va].bits =>
      \A q \in Proc, wa \in VA : (pt[q][wa].frame = pt[p][va].frame /\ <<q, wa>> # <<p, va>>) =>
        \/ va = wa /\ "SHARE" \in pt[p][va].bits \cap pt[q][wa].bits
        \/ p = q /\ PFTEMP \in {va, wa} /\ loc[p].fault = "unmap" /\ loc[p].fva \in {va, wa}
        \/ UTEMP \in {va, wa} /\ "NEW" \in {env[p], env[q]}
        \/ va = wa /\ env[q] = "NEW" /\ "W" \notin pt[q][wa].bits
             /\ (env[p] = "LIVE" => loc[p].pc = "map_self" /\ loc[p].va = va /\ loc[p].child = q)

\* Whoever runs on a copy-on-write page, its stack for one, can take the
\* fault of its next write: the handler is set and the exception stack is
\* there, and its own.
CanFault ==
    \A p \in Proc : (env[p] = "LIVE" /\ \E va \in VA : "COW" \in pt[p][va].bits) =>
        upcall[p] /\ "W" \in pt[p][UXSTACK].bits

\* Each process sees its own memory, as PrivateMemory has it.  A forked
\* child has a page once its parent can no longer write it; a child that
\* nobody is making any more will never run.
Made(c) == \E p \in Proc : env[p] = "LIVE" /\ loc[p].child = c
Early(c, va) ==
    \E p \in Proc : /\ loc[p].child = c /\ loc[p].pc = "map_self" /\ loc[p].va = va
                    /\ pt[p][va].frame = pt[c][va].frame /\ "W" \in pt[p][va].bits
Visible(c, va) == Mapped(c, va) /\ (env[c] = "NEW" => Made(c) /\ ~Early(c, va))
Life == [c \in Proc |-> IF env[c] = "NEW" /\ ~Made(c) THEN "DEAD" ELSE env[c]]
Cells == [c \in Proc |-> [va \in UserVA |-> IF Visible(c, va) THEN mem[pt[c][va].frame] ELSE NoValue]]
ImageValue == [va \in UserVA |-> IF va \in Segment THEN FileValue[va] ELSE ArgValue]
Promise == INSTANCE PrivateMemory WITH
    Procs <- Proc, Founder <- First, Pages <- UserVA, SharedPages <- SharedVA, Values <- Value, Absent <- NoValue,
    Image <- ImageValue, life <- Life, cell <- Cells
MemoryAsPromised == Promise!Spec

=============================================================================
