------------------------------ MODULE UserFault ------------------------------
(***************************************************************************)
(* Page faults handled in user mode (src/solutions/fed/lab5): the kernel's *)
(* page_fault_handler (kern/trap.c) builds a UTrapframe on the exception   *)
(* stack and goes to _pgfault_upcall (lib/pfentry.S), which calls the C    *)
(* handler and returns to the instruction that faulted.  The handler runs  *)
(* on the exception stack and may fault itself.                            *)
(*                                                                         *)
(* An address is a word, PGSIZE words a page: page 0 is the user stack, 1  *)
(* the invalid page above it, 2 the exception stack; 3 and 4 are data of   *)
(* the program and of the handler, of which only the faults matter.  The   *)
(* registers are eax, edx, esp and eip; UTrapframe has one word for each   *)
(* and one for utf_fault_va.  One step is one instruction, or a few that   *)
(* cannot fault.                                                           *)
(***************************************************************************)
EXTENDS UserMem, Sequences, SequencesExt

CONSTANTS
    Word,           \* what the program keeps in registers and on its stack
    MaxUser         \* words it pushes on its stack

USTACKTOP == PGSIZE
UXSTACKTOP == 3 * PGSIZE
UserData == 3 * PGSIZE
HandlerData == 4 * PGSIZE
StackAddr == 0 .. UXSTACKTOP - 1

\* Instructions, by their addresses: of the program, of the upcall, of the
\* handler (with and without a local variable on the stack).
Program == {100, 101}
Entry == 1
Call == 2
Back == 3
Prepare == 4
StoreEip == 5
Restore == 6
Ret == 7
Handler == 8
HandlerLocal == 9

ASSUME WordAssumption == Word \subseteq Nat /\ Word # {}
\* A frame with its word for the eip is smaller than a page: pushed from the
\* bottom of the exception stack it ends up in the invalid page below.
ASSUME StackAssumption == MaxUser \in Nat /\ MaxUser < PGSIZE /\ 6 <= PGSIZE

VARIABLES
    reg,      \* the registers
    mem,      \* the stacks
    cow,      \* pages that fault when written: of the stack and of data
    alive,
    saved     \* history: the contexts that faults have interrupted

vars == <<reg, mem, cow, alive, saved>>

Cow == {0, 3, 4}

\* Offsets in struct UTrapframe, and its size.
FaultVa == 0
Eax == 1
Edx == 2
Eip == 3
Esp == 4
SizeofUTrapframe == 5

\* What a context can rely on: its registers, and its stack from esp up.
Context(r, m) ==
    [reg |-> r,
     words |-> [a \in r.esp .. (IF r.esp <= USTACKTOP THEN USTACKTOP ELSE UXSTACKTOP) - 1 |-> m[a]]]

OnExceptionStack(esp) == UXSTACKTOP - PGSIZE <= esp /\ esp < UXSTACKTOP

TrapFrameAtNoScratch(esp) ==                    \* mutant: no word for the eip
    IF OnExceptionStack(esp) THEN esp - SizeofUTrapframe
    ELSE UXSTACKTOP - SizeofUTrapframe
TrapFrameAt(esp) ==
    IF OnExceptionStack(esp) THEN esp - 1 - SizeofUTrapframe
    ELSE UXSTACKTOP - SizeofUTrapframe

Writable(a) == PageOf(a) # 1 /\ PageOf(a) \notin cow

\* The kernel, on a write to va that is not allowed.
PageFaultHandler(va) ==
    LET utf == TrapFrameAt(reg.esp) IN
      IF UserMemCheck([n \in 0 .. 4 |-> n = 2 \/ n \in Cow \ cow], utf, SizeofUTrapframe)
        THEN /\ mem' = [a \in StackAddr |->
                          CASE a = utf + FaultVa -> va
                            [] a = utf + Eax -> reg.eax
                            [] a = utf + Edx -> reg.edx
                            [] a = utf + Eip -> reg.eip
                            [] a = utf + Esp -> reg.esp
                            [] OTHER -> mem[a]]
             /\ reg' = [reg EXCEPT !.esp = utf, !.eip = Entry]
             /\ saved' = Append(saved, Context(reg, mem))
             /\ UNCHANGED <<cow, alive>>
        ELSE /\ alive' = FALSE
             /\ UNCHANGED <<reg, mem, cow, saved>>

\* An instruction that writes w to address a and leaves the registers r.
Store(a, w, r) ==
    IF Writable(a)
      THEN /\ mem' = [mem EXCEPT ![a] = w]
           /\ reg' = r
           /\ UNCHANGED <<cow, alive, saved>>
      ELSE PageFaultHandler(a)

Push(w, eip) == Store(reg.esp - 1, w, [reg EXCEPT !.esp = @ - 1, !.eip = eip])

\* An instruction that changes nothing but registers.
Load(r) == reg' = r /\ UNCHANGED <<mem, cow, alive, saved>>

At(eip) == alive /\ reg.eip = eip

-----------------------------------------------------------------------------
(* The program.                                                            *)

InProgram == alive /\ reg.eip \in Program

UserCompute(x, y, eip) ==
    /\ InProgram /\ eip \in Program
    /\ Load([reg EXCEPT !.eax = x, !.edx = y, !.eip = eip])

UserPush(w) ==
    /\ InProgram
    /\ reg.esp > USTACKTOP - MaxUser
    /\ Push(w, reg.eip)

UserPop ==
    /\ InProgram
    /\ reg.esp < USTACKTOP
    /\ Load([reg EXCEPT !.esp = @ + 1, !.eax = mem[reg.esp]])

\* A write to data; fork makes pages copy-on-write again.
Touch(a) ==
    /\ PageOf(a) \in cow
    /\ PageFaultHandler(a)

UserTouch == InProgram /\ Touch(UserData)

Fork ==
    /\ InProgram
    /\ cow' = Cow
    /\ UNCHANGED <<reg, mem, alive, saved>>

-----------------------------------------------------------------------------
(* The C handler.  It finds the frame by its argument, above the return    *)
(* address, and makes the page writable.                                   *)

HandlerPush == At(Handler) /\ \E w \in Word : Push(w, HandlerLocal)
HandlerPop == At(HandlerLocal) /\ Load([reg EXCEPT !.esp = @ + 1, !.eip = Handler])
HandlerTouch == At(Handler) /\ Touch(HandlerData)

HandlerResolve ==
    /\ At(Handler)
    /\ LET va == mem[mem[reg.esp + 1] + FaultVa] IN
         cow' = cow \ {PageOf(va)}
    /\ \E w \in Word : reg' = [reg EXCEPT !.eax = w, !.edx = w]
    /\ UNCHANGED <<mem, alive, saved>>

HandlerReturn ==
    /\ At(Handler)
    /\ PageOf(mem[mem[reg.esp + 1] + FaultVa]) \notin cow
    /\ Load([reg EXCEPT !.eip = mem[reg.esp], !.esp = @ + 1])

-----------------------------------------------------------------------------
(* _pgfault_upcall.                                                        *)

PushArgument == At(Entry) /\ Push(reg.esp, Call)
CallHandler == At(Call) /\ Push(Back, Handler)
PopArgument == At(Back) /\ Load([reg EXCEPT !.esp = @ + 1, !.eip = Prepare])

\* movl 0x28(%esp), %eax; movl 0x30(%esp), %edx; subl $4, 0x30(%esp)
LoadTrapState ==
    /\ At(Prepare)
    /\ reg' = [reg EXCEPT !.eax = mem[reg.esp + Eip], !.edx = mem[reg.esp + Esp], !.eip = StoreEip]
    /\ mem' = [mem EXCEPT ![reg.esp + Esp] = @ - 1]
    /\ UNCHANGED <<cow, alive, saved>>

\* movl %eax, -4(%edx)
StoreReturn == At(StoreEip) /\ Store(reg.edx - 1, reg.eax, [reg EXCEPT !.eip = Restore])

\* popal; popfl; popl %esp
RestoreState ==
    /\ At(Restore)
    /\ Load([eax |-> mem[reg.esp + Eax], edx |-> mem[reg.esp + Edx],
             esp |-> mem[reg.esp + Esp], eip |-> Ret])

Return ==
    /\ At(Ret)
    /\ reg' = [reg EXCEPT !.eip = mem[reg.esp], !.esp = @ + 1]
    /\ saved' = Front(saved)
    /\ UNCHANGED <<mem, cow, alive>>

-----------------------------------------------------------------------------
Init ==
    /\ \E w \in Word, eip \in Program :
         reg = [eax |-> w, edx |-> w, esp |-> USTACKTOP, eip |-> eip]
    /\ mem = [a \in StackAddr |-> 0]
    /\ cow = Cow
    /\ alive = TRUE
    /\ saved = <<>>

User ==
    \/ \E x, y \in Word, eip \in Program : UserCompute(x, y, eip)
    \/ \E w \in Word : UserPush(w)
    \/ UserPop \/ UserTouch \/ Fork
InHandler == HandlerPush \/ HandlerPop \/ HandlerTouch \/ HandlerResolve \/ HandlerReturn
Upcall ==
    \/ PushArgument \/ CallHandler \/ PopArgument
    \/ LoadTrapState \/ StoreReturn \/ RestoreState \/ Return

Next == User \/ InHandler \/ Upcall

Spec == Init /\ [][Next]_vars

-----------------------------------------------------------------------------
(* Properties.                                                             *)

TypeOK ==
    /\ reg.eip \in Program \cup 1 .. 9 /\ reg.esp \in 0 .. UXSTACKTOP
    /\ DOMAIN mem = StackAddr
    /\ cow \subseteq Cow /\ alive \in BOOLEAN

\* The return of the upcall brings back what the fault interrupted: every
\* register, and all that the interrupted code had on its stack, be it the
\* program or a handler with its own frame waiting above it.
ResumesAsInterrupted ==
    [][Len(saved') < Len(saved) => Context(reg', mem') = Last(saved)]_vars

\* The kernel writes a trap frame only into the page of the exception
\* stack; when there is no room left, the environment is destroyed.
FramesInPage ==
    [][Len(saved') > Len(saved) =>
         \A a \in StackAddr : mem'[a] # mem[a] => PageOf(a) = 2]_vars

=============================================================================
