-------------------------------- MODULE Shell --------------------------------
(***************************************************************************)
(* The shell of src/solutions/fed/lab5 (user/sh.c) and the processes of a  *)
(* command line a | b | c: umain forks one process for the line, runcmd    *)
(* forks another for what is to the right of a pipe, and both spawn a      *)
(* program, close their descriptors and wait (lib/wait.c).  A process is   *)
(* waited for by looking at its slot of envs[], which may be taken again.  *)
(*                                                                         *)
(* fork, spawn, dup and close are one step each, pipes have no more state  *)
(* than the number of bytes in them (what goes on inside is in Pipe and    *)
(* CowFork), and redirection of files is left out.  The programs write,    *)
(* read to the end of the file, or stop when they like.                    *)
(***************************************************************************)
EXTENDS Integers, FiniteSetsExt

CONSTANTS
    NENV,           \* slots of envs[]; 1 is the shell's
    MaxCommands,    \* on all the command lines
    MaxBytes,       \* that a program writes
    PIPEBUFSIZ,
    EmptyLeft       \* may the command to the left of a bar be empty

ASSUME BoundsAssumption ==
    /\ {NENV, MaxCommands, MaxBytes, PIPEBUFSIZ} \subseteq Nat \ {0}
    /\ EmptyLeft \in BOOLEAN

VARIABLES
    env,        \* the processes
    gen,        \* generation of each slot: with the slot, the envid
    bytes,      \* in each pipe
    commands    \* that are still to be typed

vars == <<env, gen, bytes, commands>>

Slot == 1 .. NENV
PipeNo == 1 .. MaxCommands
Fdnum == 0 .. 3
None == <<"none", 0>>
Console == <<"cons", 0>>
R(n) == <<"r", n>>
W(n) == <<"w", n>>

Id(s) == <<s, gen[s]>>
NoId == <<0, 0>>
Closed == [fd \in Fdnum |-> None]
Process == [pc |-> "free", fds |-> Closed, stages |-> 0, child |-> NoId, pipe_child |-> NoId,
            todo |-> 0]

Live(s) == env[s].pc # "free"
Open(end) == \E s \in Slot, fd \in Fdnum : env[s].fds[fd] = end
Room == \E s \in Slot : ~Live(s)
NewSlot == Min({s \in Slot : ~Live(s)})
NewPipe == Min({n \in PipeNo : ~Open(R(n)) /\ ~Open(W(n))})

At(s, pc) == env[s].pc = pc
Goto(s, pc) == env' = [env EXCEPT ![s].pc = pc]
\* s goes on as p, and a new process starts as q.
Create(s, p, q) ==
    /\ env' = [env EXCEPT ![s] = p, ![NewSlot] = q]
    /\ gen' = [gen EXCEPT ![NewSlot] = @ + 1]
NewId == <<NewSlot, gen[NewSlot] + 1>>

CloseFd(s, fd, pc) ==
    /\ env' = [env EXCEPT ![s].fds[fd] = None, ![s].pc = pc]
    /\ UNCHANGED <<gen, bytes, commands>>
\* dup and close, of which only the latter matters to others.
MoveFd(s, from, to, pc) ==
    /\ env' = [env EXCEPT ![s].fds[to] = env[s].fds[from], ![s].fds[from] = None, ![s].pc = pc]
    /\ UNCHANGED <<gen, bytes, commands>>

\* wait returns when nobody of that id is there any more.
WaitOver(id) == \A s \in Slot : Live(s) => Id(s) # id

-----------------------------------------------------------------------------
(* umain.                                                                  *)

ReadLine(s) ==
    /\ At(s, "prompt") /\ Room
    /\ \E n \in 1 .. commands :
         /\ commands' = commands - n
         /\ Create(s, [env[s] EXCEPT !.pc = "wait_line", !.child = NewId],
                   [Process EXCEPT !.pc = "parse", !.fds = env[s].fds, !.stages = n])
    /\ UNCHANGED bytes

LineDone(s) ==
    /\ At(s, "wait_line") /\ WaitOver(env[s].child)
    /\ Goto(s, "prompt")
    /\ UNCHANGED <<gen, bytes, commands>>

-----------------------------------------------------------------------------
(* runcmd.  p[0] and p[1] are descriptors 2 and 3, as 0 and 1 are open.    *)

ParsePipe(s) ==
    /\ At(s, "parse")
    /\ IF env[s].stages = 1 THEN Goto(s, "spawn") /\ UNCHANGED bytes
       ELSE /\ env' = [env EXCEPT ![s].fds[2] = R(NewPipe), ![s].fds[3] = W(NewPipe),
                                  ![s].pc = "fork"]
            /\ bytes' = [bytes EXCEPT ![NewPipe] = 0]
    /\ UNCHANGED <<gen, commands>>

ForkRight(s) ==
    /\ At(s, "fork") /\ Room
    /\ Create(s, [env[s] EXCEPT !.pc = "left", !.pipe_child = NewId],
              [Process EXCEPT !.pc = "right", !.fds = env[s].fds, !.stages = env[s].stages - 1])
    /\ UNCHANGED <<bytes, commands>>

\* Syntax errors, files that cannot be opened, and no room for a pipe or a process.
GiveUp(s) ==
    /\ At(s, "parse") \/ At(s, "fork")
    /\ Goto(s, "exit")
    /\ UNCHANGED <<gen, bytes, commands>>

RightMove(s) == At(s, "right") /\ MoveFd(s, 2, 0, "right_close")
RightKeeps(s) == At(s, "right_close") /\ CloseFd(s, 2, "parse")   \* mutant: p[1] stays open
RightClose(s) == At(s, "right_close") /\ CloseFd(s, 3, "parse")

LeftMove(s) == At(s, "left") /\ MoveFd(s, 3, 1, "left_close")
LeftClose(s) == At(s, "left_close") /\ CloseFd(s, 2, "spawn")

\* A command of no words.  With "| b" nobody waits for b.
EmptyCommand(s) ==
    /\ At(s, "spawn") /\ (env[s].pipe_child = NoId \/ EmptyLeft)
    /\ Goto(s, "exit")
    /\ UNCHANGED <<gen, bytes, commands>>

Spawn(s) ==
    /\ At(s, "spawn") /\ Room
    /\ Create(s, [env[s] EXCEPT !.pc = "close_all", !.child = NewId],
              [Process EXCEPT !.pc = "run", !.fds = env[s].fds, !.todo = MaxBytes])
    /\ UNCHANGED <<bytes, commands>>

SpawnFails(s) ==
    /\ At(s, "spawn")
    /\ Goto(s, "close_all")
    /\ UNCHANGED <<gen, bytes, commands>>

CloseAll(s) ==
    /\ At(s, "close_all")
    /\ env' = [env EXCEPT ![s].fds = Closed,
                          ![s].pc = IF env[s].child = NoId THEN "wait_pipe" ELSE "wait"]
    /\ UNCHANGED <<gen, bytes, commands>>

WaitProgram(s) ==
    /\ At(s, "wait") /\ WaitOver(env[s].child)
    /\ Goto(s, "wait_pipe")
    /\ UNCHANGED <<gen, bytes, commands>>

WaitPipeNot(s) ==                               \* mutant: the right side is not waited for
    /\ At(s, "wait_pipe")
    /\ Goto(s, "exit")
    /\ UNCHANGED <<gen, bytes, commands>>
WaitPipe(s) ==
    /\ At(s, "wait_pipe")
    /\ WaitOver(env[s].pipe_child)
    /\ Goto(s, "exit")
    /\ UNCHANGED <<gen, bytes, commands>>

-----------------------------------------------------------------------------
(* The programs.                                                           *)

\* A write to a pipe that nobody reads fails, and the program ends.
Write(s, n) ==
    /\ At(s, "run") /\ env[s].fds[1] = W(n) /\ env[s].todo > 0
    /\ IF ~Open(R(n)) THEN Goto(s, "exit") /\ UNCHANGED bytes
       ELSE /\ bytes[n] < PIPEBUFSIZ
            /\ bytes' = [bytes EXCEPT ![n] = @ + 1]
            /\ env' = [env EXCEPT ![s].todo = @ - 1]
    /\ UNCHANGED <<gen, commands>>

\* The end of the file ends the program.
Read(s, n) ==
    /\ At(s, "run") /\ env[s].fds[0] = R(n)
    /\ IF bytes[n] > 0 THEN bytes' = [bytes EXCEPT ![n] = @ - 1] /\ UNCHANGED env
       ELSE ~Open(W(n)) /\ Goto(s, "exit") /\ UNCHANGED bytes
    /\ UNCHANGED <<gen, commands>>

\* Without input it ends when it has written all.
Finish(s) ==
    /\ At(s, "run") /\ env[s].fds[0] = Console
    /\ env[s].todo = 0 \/ env[s].fds[1] = Console
    /\ Goto(s, "exit")
    /\ UNCHANGED <<gen, bytes, commands>>

Quit(s) ==
    /\ At(s, "run")
    /\ Goto(s, "exit")
    /\ UNCHANGED <<gen, bytes, commands>>

Exit(s) ==
    /\ At(s, "exit")
    /\ env' = [env EXCEPT ![s] = Process]
    /\ UNCHANGED <<gen, bytes, commands>>

-----------------------------------------------------------------------------
Init ==
    /\ env = [s \in Slot |->
                IF s = 1 THEN [Process EXCEPT !.pc = "prompt", !.fds[0] = Console, !.fds[1] = Console]
                ELSE Process]
    /\ gen = [s \in Slot |-> 0]
    /\ bytes = [n \in PipeNo |-> 0]
    /\ commands = MaxCommands

RunCmd(s) ==
    \/ ParsePipe(s) \/ ForkRight(s) \/ GiveUp(s) \/ EmptyCommand(s)
    \/ RightMove(s) \/ RightClose(s) \/ LeftMove(s) \/ LeftClose(s)
    \/ Spawn(s) \/ SpawnFails(s) \/ CloseAll(s) \/ WaitProgram(s) \/ WaitPipe(s)
Program(s) == (\E n \in PipeNo : Write(s, n) \/ Read(s, n)) \/ Finish(s)
Step(s) == LineDone(s) \/ RunCmd(s) \/ Program(s) \/ Exit(s)

Next == \E s \in Slot : ReadLine(s) \/ Quit(s) \/ Step(s)

\* The scheduler gives every process its turn; a program may stop early,
\* but need not.
Spec == Init /\ [][Next]_vars /\ \A s \in Slot : WF_vars(Step(s))

-----------------------------------------------------------------------------
(* Properties.                                                             *)

\* umain's wait ends: every reader of a pipe gets its end of file once the
\* writers have ended, every writer learns that its reader has gone, nobody
\* keeps an end that he has no use for, and no wait outlives who it is for,
\* although his slot may be taken again.
PromptReturns == At(1, "wait_line") ~> At(1, "prompt")

\* runcmd's "Do not return until the shell command is finished" (user/sh.c):
\* at the prompt no process of an earlier line is left, to the right of a
\* bar neither, unless the left side was empty (EmptyLeft).
PromptMeansDone == At(1, "prompt") => \A s \in Slot \ {1} : ~Live(s)

=============================================================================
