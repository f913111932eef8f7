----------------------------- MODULE ShellProofs -----------------------------
(***************************************************************************)
(* Proofs about Shell for every number of slots, commands and bytes, where *)
(* no command to the left of a bar is empty (EmptyLeft is FALSE).          *)
(***************************************************************************)
EXTENDS Shell, WellFoundedInduction, TLAPS

-----------------------------------------------------------------------------
(* The inductive invariant.                                                *)

Umain == {"prompt", "wait_line"}
\* Where a process still has to wait for what is to its right ...
Forked == {"left", "left_close", "spawn", "close_all", "wait", "wait_pipe"}
\* ... and for its program.
Spawned == {"close_all", "wait"}

\* p is waiting for the process id or will wait for it before it exits.
Awaits(p, id) ==
    \/ env[p].pc = "wait_line" /\ env[p].child = id
    \/ env[p].pc \in Forked /\ env[p].pipe_child = id
    \/ env[p].pc \in Spawned /\ env[p].child = id

Fields == {"pc", "fds", "stages", "child", "pipe_child", "todo"}
ShapeOK ==
    /\ env = [s \in Slot |-> env[s]]
    /\ \A s \in Slot : /\ env[s] = [f \in Fields |-> env[s][f]]
                       /\ env[s].stages \in 0 .. MaxCommands
    /\ gen \in [Slot -> Nat]
    /\ commands \in 0 .. MaxCommands

\* Slot 1 is umain's, and nobody else gets there.
OneShell == \A s \in Slot : s = 1 <=> env[s].pc \in Umain

\* A process of runcmd has a command, and one more if it is to fork.
StagesLeft(s) ==
    /\ env[s].pc \in {"parse", "right", "right_close"} \cup Forked => env[s].stages >= 1
    /\ env[s].pc = "fork" => env[s].stages >= 2

\* Everybody is waited for, by the shell or by a process with more commands.
Awaited(s) == \E p \in Slot : /\ Awaits(p, Id(s))
                              /\ p = 1 \/ env[p].stages > env[s].stages

ShellInv ==
    /\ ShapeOK
    /\ OneShell
    /\ \A s \in Slot : StagesLeft(s)
    /\ \A s \in Slot \ {1} : Live(s) => Awaited(s)
    /\ PromptMeansDone

-----------------------------------------------------------------------------
(* Facts about numbers and slots.                                          *)

\* The least-number principle, for sets.
LEMMA Least ==
  ASSUME NEW S, S \subseteq Nat, S # {}
  PROVE  \E x \in S : \A y \in S : x <= y
  <1> DEFINE Below == OpToRel(<, Nat)
  <1>1. IsWellFoundedOn(Below, Nat)
    BY NatLessThanWellFounded
  <1>2. \A x, y \in S : y < x => <<y, x>> \in Below
    BY DEF OpToRel
  <1> HIDE DEF Below
  <1>3. PICK x \in S : \A y \in S : <<y, x>> \notin Below
    BY <1>1, WFMin
  <1>4. \A y \in S : ~(y < x)
    BY <1>2, <1>3
  <1>5. \A y \in S : y \in Nat
    OBVIOUS
  <1> QED
    BY <1>3, <1>4, <1>5

\* Where there is room, the new process gets a slot that nobody has.
LEMMA NewSlotIsFree == ASSUME Room PROVE NewSlot \in Slot /\ ~Live(NewSlot)
  <1> DEFINE S == {s \in Slot : ~Live(s)}
  <1>1. S \subseteq Nat /\ S # {}
    BY DEF Room, Slot
  <1>2. NewSlot = Min(S)
    BY DEF NewSlot
  <1> HIDE DEF S
  <1>3. Min(S) \in S
    BY <1>1, Least DEF Min
  <1> QED
    BY <1>2, <1>3 DEF S

LEMMA ShellIsASlot == 1 \in Slot
  BY BoundsAssumption DEF Slot

-----------------------------------------------------------------------------
(* One step of one process that creates no other.                          *)

\* Nothing changes but s, and of s neither whom it made nor its commands.
Moves(s) ==
    /\ ShapeOK'
    /\ UNCHANGED gen
    /\ \A t \in Slot \ {s} : env'[t] = env[t]
    /\ env'[s].stages = env[s].stages
    /\ env'[s].child = env[s].child /\ env'[s].pipe_child = env[s].pipe_child

\* Whoever else the process s waits for is still waited for after the step.
KeepsWaiting(s) ==
    \A t \in Slot \ {s} : Live(t) /\ Awaits(s, Id(t)) => Awaits(s, Id(t))'

\* At the prompt nobody but the shell makes a step.
LEMMA ShellWaits ==
  ASSUME ShellInv, NEW s \in Slot \ {1}, Live(s)
  PROVE  env[1].pc = "wait_line"
  BY ShellIsASlot DEF ShellInv, OneShell, Umain, PromptMeansDone, At

\* A process other than the shell goes on, or ends with nobody to wait for.
LEMMA MoveInv ==
  ASSUME ShellInv, NEW s \in Slot \ {1}, Live(s),
         ShapeOK', UNCHANGED gen, \A t \in Slot \ {s} : env'[t] = env[t],
         env'[s].pc = "free" \/ env'[s].stages = env[s].stages,
         env'[s].pc \notin Umain, StagesLeft(s)', KeepsWaiting(s)
  PROVE  ShellInv'
  <1>1. env[1].pc = "wait_line" /\ env'[1] = env[1]
    BY ShellWaits, ShellIsASlot
  <1>2. PromptMeansDone'
    BY <1>1 DEF PromptMeansDone, At
  <1>3. OneShell'
    BY ShellIsASlot DEF ShellInv, OneShell
  <1>4. \A t \in Slot : StagesLeft(t)'
    BY DEF ShellInv, StagesLeft
  <1>5. ASSUME NEW t \in Slot \ {1}, Live(t)' PROVE Awaited(t)'
    <2>1. Live(t) /\ Id(t)' = Id(t) /\ env'[t].stages = env[t].stages
      BY <1>5 DEF Live, Id
    <2>2. PICK p \in Slot : Awaits(p, Id(t)) /\ (p = 1 \/ env[p].stages > env[t].stages)
      BY <2>1, <1>5 DEF ShellInv, Awaited
    <2>3. p = s => t # s
      BY <2>2 DEF ShellInv, ShapeOK
    <2>4. Awaits(p, Id(t))'
      <3>1. CASE p = s
        BY <2>1, <2>2, <2>3, <3>1 DEF KeepsWaiting
      <3>2. CASE p # s
        BY <2>1, <2>2, <3>2 DEF Awaits
      <3> QED
        BY <3>1, <3>2
    <2>5. p = 1 \/ env'[p].stages > env'[t].stages
      <3>1. CASE p = s
        BY <2>1, <2>2, <2>4, <3>1 DEF Awaits, Forked, Spawned
      <3>2. CASE p # s
        BY <2>1, <2>2, <3>2
      <3> QED
        BY <3>1, <3>2
    <2> QED
      BY <2>4, <2>5 DEF Awaited
  <1> QED
    BY <1>2, <1>3, <1>4, <1>5 DEF ShellInv

-----------------------------------------------------------------------------
(* One step that creates a process.                                        *)

\* s goes on and waits for a child at the slot n, which was free.
LEMMA CreateInv ==
  ASSUME ShellInv, NEW s \in Slot, Live(s), NEW n \in Slot, ~Live(n),
         ShapeOK', \A t \in Slot \ {s, n} : env'[t] = env[t],
         \A t \in Slot \ {n} : gen'[t] = gen[t],
         s = 1 => env[s].pc = "prompt" /\ env'[s].pc = "wait_line",
         s # 1 => /\ env'[s].pc \notin Umain \cup {"free"}
                  /\ env'[s].stages = env[s].stages
                  /\ env'[s].stages > env'[n].stages
                  /\ KeepsWaiting(s),
         StagesLeft(s)', StagesLeft(n)', env'[n].pc \in {"parse", "right", "run"},
         Awaits(s, Id(n))'
  PROVE  ShellInv'
  <1>1. n # 1 /\ n # s
    BY DEF ShellInv, OneShell, Live, Umain
  <1>2. s # 1 => env'[1] = env[1]
    BY <1>1, ShellIsASlot
  <1>3. env'[1].pc = "wait_line"
    BY <1>2, ShellWaits
  <1>4. PromptMeansDone'
    BY <1>3 DEF PromptMeansDone, At
  <1>5. OneShell'
    BY <1>1, <1>3 DEF ShellInv, OneShell, Umain
  <1>6. \A t \in Slot : StagesLeft(t)'
    BY DEF ShellInv, StagesLeft
  <1>7. ASSUME NEW t \in Slot \ {1}, Live(t)' PROVE Awaited(t)'
    <2>1. CASE t = n
      BY <2>1 DEF Awaited
    <2>2. CASE t # n
      <3>1. t # s => Live(t)
        BY <2>2, <1>7 DEF Live
      <3>2. Live(t) /\ Id(t)' = Id(t)
        BY <2>2, <3>1 DEF Id
      <3>3. s # 1 /\ env'[t].stages = env[t].stages
        BY <2>2, <3>2, <1>7 DEF ShellInv, PromptMeansDone, At
      <3>4. PICK p \in Slot : Awaits(p, Id(t)) /\ (p = 1 \/ env[p].stages > env[t].stages)
        BY <3>2, <1>7 DEF ShellInv, Awaited
      <3>5. p # n /\ (p = s => t # s)
        BY <3>3, <3>4 DEF Awaits, Live, Forked, Spawned, ShellInv, ShapeOK
      <3>6. Awaits(p, Id(t))'
        <4>1. CASE p = s
          BY <3>2, <3>3, <3>4, <3>5, <4>1 DEF KeepsWaiting
        <4>2. CASE p # s
          BY <3>2, <3>4, <3>5, <4>2 DEF Awaits
        <4> QED
          BY <4>1, <4>2
      <3>7. p = 1 \/ env'[p].stages > env'[t].stages
        BY <3>3, <3>4, <3>5
      <3> QED
        BY <3>6, <3>7 DEF Awaited
    <2> QED
      BY <2>1, <2>2
  <1> QED
    BY <1>4, <1>5, <1>6, <1>7 DEF ShellInv

-----------------------------------------------------------------------------
(* What the assignments of the actions come to.                            *)

\* s becomes r, of the same commands, the same child and the same right side.
LEMMA UpdateMoves ==
  ASSUME ShapeOK, NEW s \in Slot, NEW r, r = [f \in Fields |-> r[f]],
         r.stages = env[s].stages, r.child = env[s].child, r.pipe_child = env[s].pipe_child,
         env' = [env EXCEPT ![s] = r], UNCHANGED <<gen, commands>>
  PROVE  Moves(s) /\ env'[s] = r
  <1>1. env'[s] = r /\ \A t \in Slot \ {s} : env'[t] = env[t]
    BY DEF ShapeOK
  <1>2. ShapeOK'
    BY <1>1 DEF ShapeOK
  <1> QED
    BY <1>1, <1>2 DEF Moves

LEMMA GotoMoves ==
  ASSUME ShapeOK, NEW s \in Slot, NEW x, Goto(s, x), UNCHANGED <<gen, commands>>
  PROVE  Moves(s) /\ env'[s].pc = x
  <1> DEFINE r == [env[s] EXCEPT !.pc = x]
  <1>1. /\ r = [f \in Fields |-> r[f]] /\ r.pc = x /\ r.stages = env[s].stages
        /\ r.child = env[s].child /\ r.pipe_child = env[s].pipe_child
    BY DEF ShapeOK, Fields
  <1>2. env' = [env EXCEPT ![s] = r]
    BY DEF Goto
  <1> HIDE DEF r
  <1> QED
    BY <1>1, <1>2, UpdateMoves

\* dup, close and open change the descriptors: all of them ...
SetFds(s, fds, x) == env' = [env EXCEPT ![s] = [env[s] EXCEPT !.fds = fds, !.pc = x]]

\* ... or the descriptors a and b.
SetTwoFds(s, a, v, b, w, x) ==
    env' = [env EXCEPT ![s].fds[a] = v, ![s].fds[b] = w, ![s].pc = x]

LEMMA SetFdsMoves ==
  ASSUME ShapeOK, NEW s \in Slot, NEW fds, NEW x, SetFds(s, fds, x),
         UNCHANGED <<gen, commands>>
  PROVE  Moves(s) /\ env'[s].pc = x
  <1> DEFINE r == [env[s] EXCEPT !.fds = fds, !.pc = x]
  <1>1. /\ r = [f \in Fields |-> r[f]] /\ r.pc = x /\ r.stages = env[s].stages
        /\ r.child = env[s].child /\ r.pipe_child = env[s].pipe_child
    BY ZenonT(60) DEF ShapeOK, Fields
  <1>2. env' = [env EXCEPT ![s] = r]
    BY DEF SetFds
  <1> HIDE DEF r
  <1> QED
    BY <1>1, <1>2, UpdateMoves

LEMMA SetTwoFdsMoves ==
  ASSUME ShapeOK, NEW s \in Slot, NEW a, NEW v, NEW b, NEW w, NEW x,
         SetTwoFds(s, a, v, b, w, x), UNCHANGED <<gen, commands>>
  PROVE  Moves(s) /\ env'[s].pc = x
  <1> DEFINE f1 == [env[s].fds EXCEPT ![a] = v]
             e1 == [env EXCEPT ![s] = [env[s] EXCEPT !.fds = f1]]
             f2 == [f1 EXCEPT ![b] = w]
             e2 == [e1 EXCEPT ![s] = [e1[s] EXCEPT !.fds = f2]]
  <1>1. e1 = [env EXCEPT ![s].fds[a] = v]
    OBVIOUS
  <1>2. e1[s] = [env[s] EXCEPT !.fds = f1] /\ e1[s].fds = f1
    BY DEF ShapeOK, Fields
  <1>3. e2 = [e1 EXCEPT ![s].fds[b] = w]
    BY <1>2
  <1>4. e2 = [env EXCEPT ![s] = [env[s] EXCEPT !.fds = f2]]
    BY <1>2 DEF ShapeOK, Fields
  <1>5. env' = [e2 EXCEPT ![s].pc = x]
    BY <1>1, <1>3 DEF SetTwoFds
  <1> HIDE DEF f1, f2, e1, e2
  <1>6. SetFds(s, f2, x)
    BY <1>4, <1>5 DEF ShapeOK, Fields, SetFds
  <1> QED
    BY <1>6, SetFdsMoves

LEMMA CloseFdMoves ==
  ASSUME ShapeOK, NEW s \in Slot, NEW fd, NEW x, CloseFd(s, fd, x)
  PROVE  Moves(s) /\ env'[s].pc = x
  <1> DEFINE fds == [env[s].fds EXCEPT ![fd] = None]
  <1>1. SetFds(s, fds, x)
    BY DEF CloseFd, SetFds, ShapeOK, Fields
  <1> HIDE DEF fds
  <1> QED
    BY <1>1, SetFdsMoves DEF CloseFd

LEMMA MoveFdMoves ==
  ASSUME ShapeOK, NEW s \in Slot, NEW from, NEW to, NEW x, MoveFd(s, from, to, x)
  PROVE  Moves(s) /\ env'[s].pc = x
  <1>1. SetTwoFds(s, to, env[s].fds[from], from, None, x) /\ UNCHANGED <<gen, commands>>
    BY DEF MoveFd, SetTwoFds
  <1> QED
    BY <1>1, SetTwoFdsMoves

-----------------------------------------------------------------------------
(* The actions that create no process.                                     *)

\* A process leaves a wait only when the one it waits for has ended.
LEMMA GoesOn ==
  ASSUME ShellInv, NEW s \in Slot, env[s].pc \notin Umain \cup {"free"},
         Moves(s), env'[s].pc \notin Umain,
         \/ env[s].pc \notin Forked \/ env'[s].pc \in Forked
         \/ env[s].pipe_child = NoId \/ WaitOver(env[s].pipe_child),
         \/ env[s].pc \notin Spawned \/ env'[s].pc \in Spawned
         \/ env[s].child = NoId \/ WaitOver(env[s].child),
         StagesLeft(s)'
  PROVE  ShellInv'
  <1>1. s # 1 /\ Live(s)
    BY DEF ShellInv, OneShell, Live
  <1>2. \A t \in Slot : Id(t)' = Id(t) /\ Id(t) # NoId /\ (Live(t) => ~WaitOver(Id(t)))
    <2>1. \A t \in Slot : t # 0
      BY DEF Slot
    <2> QED
      BY <2>1 DEF Moves, Id, NoId, WaitOver
  <1>3. KeepsWaiting(s)
    <2> SUFFICES ASSUME NEW t \in Slot, Live(t), Awaits(s, Id(t))
                 PROVE  Awaits(s, Id(t))'
      BY DEF KeepsWaiting
    <2>1. CASE env[s].pc \in Forked /\ env[s].pipe_child = Id(t)
      <3>1. env'[s].pc \in Forked /\ env'[s].pipe_child = Id(t)'
        BY <1>2, <2>1 DEF Moves
      <3> QED
        BY <3>1 DEF Awaits
    <2>2. CASE env[s].pc \in Spawned /\ env[s].child = Id(t)
      <3>1. env'[s].pc \in Spawned /\ env'[s].child = Id(t)'
        BY <1>2, <2>2 DEF Moves
      <3> QED
        BY <3>1 DEF Awaits
    <2> QED
      BY <2>1, <2>2 DEF Awaits, Umain
  <1> QED
    BY <1>1, <1>3, MoveInv DEF Moves

LEMMA LineDoneInv == ASSUME ShellInv, NEW s \in Slot, LineDone(s) PROVE ShellInv'
  <1>1. s = 1 /\ At(1, "wait_line") /\ WaitOver(env[1].child)
    BY DEF LineDone, At, ShellInv, OneShell, Umain
  <1>2. Moves(s) /\ env'[s].pc = "prompt"
    BY GotoMoves DEF LineDone, ShellInv
  <1>3. \A t \in Slot \ {1} : ~Live(t)
    <2> SUFFICES ASSUME NEW u \in Slot \ {1}, Live(u) PROVE FALSE
      OBVIOUS
    <2> DEFINE Others == {t \in Slot \ {1} : Live(t)}
               More == {MaxCommands - env[t].stages : t \in Others}
    <2>1. More \subseteq Nat /\ More # {}
      <3>1. \A t \in Slot : MaxCommands - env[t].stages \in Nat
        BY BoundsAssumption DEF ShellInv, ShapeOK
      <3> QED
        BY <3>1
    <2>2. PICK m \in More : \A k \in More : m <= k
      <3> HIDE DEF More
      <3> QED
        BY <2>1, Least
    <2>3. PICK t \in Others : m = MaxCommands - env[t].stages
      BY <2>2
    <2>4. PICK p \in Slot : Awaits(p, Id(t)) /\ (p = 1 \/ env[p].stages > env[t].stages)
      BY <2>3 DEF ShellInv, Awaited
    <2>5. p # 1
      BY <1>1, <2>3, <2>4 DEF Awaits, At, WaitOver, Forked, Spawned
    <2>6. p \in Others
      BY <2>4, <2>5 DEF Awaits, Live, Forked, Spawned
    <2>7. m <= MaxCommands - env[p].stages
      BY <2>2, <2>6
    <2>8. env[p].stages \in Nat /\ env[t].stages \in Nat /\ MaxCommands \in Nat
      BY <2>3, BoundsAssumption DEF ShellInv, ShapeOK
    <2> QED
      BY <2>3, <2>4, <2>5, <2>7, <2>8
  <1>4. OneShell' /\ (\A t \in Slot : StagesLeft(t)')
    BY <1>1, <1>2 DEF Moves, ShellInv, OneShell, StagesLeft, Umain, Forked
  <1>5. \A t \in Slot \ {1} : ~Live(t)'
    BY <1>1, <1>2, <1>3 DEF Moves, Live
  <1> QED
    BY <1>2, <1>4, <1>5 DEF ShellInv, Moves, PromptMeansDone

LEMMA ParsePipeInv == ASSUME ShellInv, NEW s \in Slot, ParsePipe(s) PROVE ShellInv'
  <1>1. env[s].pc = "parse" /\ env[s].stages \in Nat /\ env[s].stages >= 1
    BY DEF ParsePipe, At, ShellInv, StagesLeft, ShapeOK
  <1>2. /\ Moves(s)
        /\ \/ env'[s].pc = "spawn"
           \/ env'[s].pc = "fork" /\ env[s].stages # 1
    <2>1. CASE env[s].stages = 1
      BY <2>1, GotoMoves DEF ParsePipe, ShellInv
    <2>2. CASE env[s].stages # 1
      <3>1. SetTwoFds(s, 2, R(NewPipe), 3, W(NewPipe), "fork")
        BY <2>2 DEF ParsePipe, SetTwoFds
      <3>2. UNCHANGED <<gen, commands>>
        BY DEF ParsePipe
      <3> QED
        BY <2>2, <3>1, <3>2, SetTwoFdsMoves DEF ShellInv
    <2> QED
      BY <2>1, <2>2
  <1>3. StagesLeft(s)'
    BY <1>1, <1>2 DEF Moves, StagesLeft, Forked
  <1> QED
    BY <1>1, <1>2, <1>3, GoesOn DEF Umain, Forked, Spawned

LEMMA GiveUpInv == ASSUME ShellInv, NEW s \in Slot, GiveUp(s) PROVE ShellInv'
  <1>1. env[s].pc \in {"parse", "fork"} /\ Moves(s) /\ env'[s].pc = "exit"
    BY GotoMoves DEF GiveUp, At, ShellInv
  <1> QED
    BY <1>1, GoesOn DEF Umain, Forked, Spawned, StagesLeft

LEMMA RightInv ==
  ASSUME ShellInv, NEW s \in Slot, RightMove(s) \/ RightClose(s)
  PROVE  ShellInv'
  <1>1. /\ Moves(s)
        /\ \/ env[s].pc = "right" /\ env'[s].pc = "right_close"
           \/ env[s].pc = "right_close" /\ env'[s].pc = "parse"
    BY MoveFdMoves, CloseFdMoves DEF RightMove, RightClose, At, ShellInv
  <1>2. StagesLeft(s)'
    BY <1>1 DEF Moves, StagesLeft, ShellInv, Forked
  <1> QED
    BY <1>1, <1>2, GoesOn DEF Umain, Forked, Spawned

LEMMA LeftInv ==
  ASSUME ShellInv, NEW s \in Slot, LeftMove(s) \/ LeftClose(s)
  PROVE  ShellInv'
  <1>1. /\ Moves(s)
        /\ \/ env[s].pc = "left" /\ env'[s].pc = "left_close"
           \/ env[s].pc = "left_close" /\ env'[s].pc = "spawn"
    BY MoveFdMoves, CloseFdMoves DEF LeftMove, LeftClose, At, ShellInv
  <1>2. StagesLeft(s)'
    BY <1>1 DEF Moves, StagesLeft, ShellInv, Forked
  <1> QED
    BY <1>1, <1>2, GoesOn DEF Umain, Forked, Spawned

\* Here the left side must not be empty: the process leaves without a wait.
LEMMA EmptyCommandInv ==
  ASSUME ~EmptyLeft, ShellInv, NEW s \in Slot, EmptyCommand(s)
  PROVE  ShellInv'
  <1>1. env[s].pipe_child = NoId
    BY Zenon DEF EmptyCommand
  <1>2. env[s].pc = "spawn" /\ Moves(s) /\ env'[s].pc = "exit"
    BY GotoMoves DEF EmptyCommand, At, ShellInv
  <1> QED
    BY <1>1, <1>2, GoesOn DEF Umain, Forked, Spawned, StagesLeft

LEMMA SpawnFailsInv == ASSUME ShellInv, NEW s \in Slot, SpawnFails(s) PROVE ShellInv'
  <1>1. env[s].pc = "spawn" /\ Moves(s) /\ env'[s].pc = "close_all"
    BY GotoMoves DEF SpawnFails, At, ShellInv
  <1>2. StagesLeft(s)'
    BY <1>1 DEF Moves, StagesLeft, ShellInv, Forked
  <1> QED
    BY <1>1, <1>2, GoesOn DEF Umain, Forked, Spawned

LEMMA CloseAllInv == ASSUME ShellInv, NEW s \in Slot, CloseAll(s) PROVE ShellInv'
  <1> DEFINE x == IF env[s].child = NoId THEN "wait_pipe" ELSE "wait"
  <1>1. env[s].pc = "close_all"
    BY DEF CloseAll, At
  <1>2. SetFds(s, Closed, x) /\ UNCHANGED <<gen, commands>>
    BY DEF CloseAll, SetFds, ShellInv, ShapeOK, Fields
  <1>3. Moves(s) /\ env'[s].pc = x
    <2> HIDE DEF x
    <2> QED
      BY <1>2, SetFdsMoves DEF ShellInv
  <1>4. StagesLeft(s)'
    BY <1>1, <1>3 DEF Moves, StagesLeft, ShellInv, Forked
  <1> QED
    BY <1>1, <1>3, <1>4, GoesOn DEF Umain, Forked, Spawned

LEMMA WaitInv ==
  ASSUME ShellInv, NEW s \in Slot, WaitProgram(s) \/ WaitPipe(s)
  PROVE  ShellInv'
  <1>1. /\ Moves(s)
        /\ \/ env[s].pc = "wait" /\ env'[s].pc = "wait_pipe" /\ WaitOver(env[s].child)
           \/ env[s].pc = "wait_pipe" /\ env'[s].pc = "exit" /\ WaitOver(env[s].pipe_child)
    BY GotoMoves DEF WaitProgram, WaitPipe, At, ShellInv
  <1>2. StagesLeft(s)'
    BY <1>1 DEF Moves, StagesLeft, ShellInv, Forked
  <1> QED
    BY <1>1, <1>2, GoesOn DEF Umain, Forked, Spawned

\* A program waits for nobody.
LEMMA ProgramInv ==
  ASSUME ShellInv, NEW s \in Slot, Program(s) \/ Quit(s)
  PROVE  ShellInv'
  <1>1. env[s].pc = "run" /\ UNCHANGED <<gen, commands>>
    BY DEF Program, Quit, Write, Read, Finish, At
  <1>2. Moves(s) /\ env'[s].pc \in {"run", "exit"}
    <2>1. CASE Goto(s, "exit")
      BY <1>1, <2>1, GotoMoves DEF ShellInv
    <2>2. CASE env' = [env EXCEPT ![s].todo = @ - 1]
      <3> DEFINE r == [env[s] EXCEPT !.todo = env[s].todo - 1]
      <3>1. env' = [env EXCEPT ![s] = r]
        BY <2>2
      <3>2. /\ r = [f \in Fields |-> r[f]] /\ r.pc = env[s].pc /\ r.stages = env[s].stages
            /\ r.child = env[s].child /\ r.pipe_child = env[s].pipe_child
        BY DEF ShellInv, ShapeOK, Fields
      <3> HIDE DEF r
      <3> QED
        BY <1>1, <3>1, <3>2, UpdateMoves DEF ShellInv
    <2>3. CASE UNCHANGED env
      BY <1>1, <2>3 DEF Moves, ShellInv, ShapeOK
    <2> QED
      BY <2>1, <2>2, <2>3 DEF Program, Quit, Write, Read, Finish
  <1>3. StagesLeft(s)'
    BY <1>2 DEF StagesLeft, Forked
  <1> QED
    BY <1>1, <1>2, <1>3, GoesOn DEF Umain, Forked, Spawned

LEMMA ExitInv == ASSUME ShellInv, NEW s \in Slot, Exit(s) PROVE ShellInv'
  <1>1. env[s].pc = "exit" /\ UNCHANGED <<gen, commands>>
    BY DEF Exit, At
  <1>2. s # 1 /\ Live(s) /\ (\A t \in Slot : ~Awaits(s, Id(t)))
    BY <1>1 DEF ShellInv, OneShell, Umain, Live, Awaits, Forked, Spawned
  <1>3. env'[s] = Process /\ \A t \in Slot \ {s} : env'[t] = env[t]
    BY DEF Exit, ShellInv, ShapeOK
  <1>4. Process = [f \in Fields |-> Process[f]] /\ Process.stages = 0 /\ Process.pc = "free"
    BY DEF Process, Fields
  <1>5. ShapeOK'
    BY <1>1, <1>3, <1>4, BoundsAssumption, SMTT(30) DEF Exit, ShellInv, ShapeOK
  <1>6. StagesLeft(s)' /\ env'[s].pc \notin Umain
    BY <1>3, <1>4 DEF StagesLeft, Forked, Umain
  <1> QED
    BY <1>1, <1>2, <1>3, <1>4, <1>5, <1>6, MoveInv DEF KeepsWaiting

-----------------------------------------------------------------------------
(* The actions that create a process: the line's, the one to the right of  *)
(* a bar, and the program.                                                 *)

\* s becomes p, and q is created in the free slot n.
LEMMA CreateShape ==
  ASSUME ShapeOK, Room, NEW s \in Slot, Live(s), NEW p, NEW q, NEW n, n = NewSlot,
         p = [f \in Fields |-> p[f]], q = [f \in Fields |-> q[f]],
         p.stages \in 0 .. MaxCommands, q.stages \in 0 .. MaxCommands,
         commands' \in 0 .. MaxCommands, Create(s, p, q)
  PROVE  /\ ShapeOK' /\ n \in Slot /\ ~Live(n) /\ n # s
         /\ env'[s] = p /\ env'[n] = q
         /\ \A t \in Slot \ {s, n} : env'[t] = env[t]
         /\ \A t \in Slot \ {n} : gen'[t] = gen[t]
         /\ Id(n)' = NewId
  <1>1. n \in Slot /\ ~Live(n) /\ n # s
    BY NewSlotIsFree
  <1>2. env' = [env EXCEPT ![s] = p, ![n] = q] /\ gen' = [gen EXCEPT ![n] = gen[n] + 1]
    BY DEF Create
  <1>3. /\ env'[s] = p /\ env'[n] = q
        /\ \A t \in Slot \ {s, n} : env'[t] = env[t]
        /\ env' = [t \in Slot |-> env'[t]]
    BY <1>1, <1>2 DEF ShapeOK
  <1>4. /\ gen' \in [Slot -> Nat] /\ gen'[n] = gen[n] + 1
        /\ \A t \in Slot \ {n} : gen'[t] = gen[t]
    BY <1>1, <1>2 DEF ShapeOK
  <1>5. ShapeOK'
    BY <1>3, <1>4 DEF ShapeOK
  <1>6. Id(n)' = NewId
    BY <1>4 DEF Id, NewId
  <1> QED
    BY <1>1, <1>3, <1>4, <1>5, <1>6

LEMMA ReadLineInv == ASSUME ShellInv, NEW s \in Slot, ReadLine(s) PROVE ShellInv'
  <1>0. s = 1 /\ env[s].pc = "prompt" /\ Live(s) /\ Room
    BY DEF ReadLine, At, Live, ShellInv, OneShell, Umain
  <1>1. PICK k \in 1 .. commands :
            /\ commands' = commands - k
            /\ Create(s, [env[s] EXCEPT !.pc = "wait_line", !.child = NewId],
                      [Process EXCEPT !.pc = "parse", !.fds = env[s].fds, !.stages = k])
    BY DEF ReadLine
  <1> DEFINE p == [env[s] EXCEPT !.pc = "wait_line", !.child = NewId]
             q == [Process EXCEPT !.pc = "parse", !.fds = env[s].fds, !.stages = k]
  <1>2. /\ p = [f \in Fields |-> p[f]] /\ p.pc = "wait_line" /\ p.child = NewId
        /\ p.stages = env[s].stages
    BY ZenonT(60) DEF ShellInv, ShapeOK, Fields
  <1>3. q = [f \in Fields |-> q[f]] /\ q.pc = "parse" /\ q.stages = k
    BY DEF Process, Fields
  <1>4. /\ Create(s, p, q) /\ commands' \in 0 .. MaxCommands
        /\ k \in 0 .. MaxCommands /\ k >= 1 /\ env[s].stages \in 0 .. MaxCommands
    BY <1>1, BoundsAssumption DEF ShellInv, ShapeOK
  <1>5. PICK n : n = NewSlot
    OBVIOUS
  <1> HIDE DEF p, q
  <1>6. /\ ShapeOK' /\ n \in Slot /\ ~Live(n) /\ n # s
        /\ env'[s] = p /\ env'[n] = q
        /\ \A t \in Slot \ {s, n} : env'[t] = env[t]
        /\ \A t \in Slot \ {n} : gen'[t] = gen[t]
        /\ Id(n)' = NewId
    BY <1>0, <1>2, <1>3, <1>4, <1>5, CreateShape DEF ShellInv
  <1>7. Awaits(s, Id(n))' /\ StagesLeft(s)' /\ StagesLeft(n)'
    BY <1>2, <1>3, <1>4, <1>6 DEF Awaits, StagesLeft, Forked
  <1> QED
    BY <1>0, <1>2, <1>3, <1>6, <1>7, CreateInv

LEMMA ForkRightInv == ASSUME ShellInv, NEW s \in Slot, ForkRight(s) PROVE ShellInv'
  <1>0. env[s].pc = "fork" /\ s # 1 /\ Live(s) /\ Room
    BY DEF ForkRight, At, Live, ShellInv, OneShell, Umain
  <1> DEFINE p == [env[s] EXCEPT !.pc = "left", !.pipe_child = NewId]
             q == [Process EXCEPT !.pc = "right", !.fds = env[s].fds,
                                  !.stages = env[s].stages - 1]
  <1>1. Create(s, p, q) /\ commands' \in 0 .. MaxCommands
    BY DEF ForkRight, ShellInv, ShapeOK
  <1>2. /\ p = [f \in Fields |-> p[f]] /\ p.pc = "left" /\ p.pipe_child = NewId
        /\ p.stages = env[s].stages
    BY DEF ShellInv, ShapeOK, Fields
  <1>3. q = [f \in Fields |-> q[f]] /\ q.pc = "right" /\ q.stages = env[s].stages - 1
    BY DEF Process, Fields
  <1>4. /\ env[s].stages \in 0 .. MaxCommands /\ env[s].stages - 1 \in 0 .. MaxCommands
        /\ env[s].stages - 1 >= 1
    BY <1>0, BoundsAssumption DEF ShellInv, ShapeOK, StagesLeft
  <1>5. PICK n : n = NewSlot
    OBVIOUS
  <1> HIDE DEF p, q
  <1>6. /\ ShapeOK' /\ n \in Slot /\ ~Live(n) /\ n # s
        /\ env'[s] = p /\ env'[n] = q
        /\ \A t \in Slot \ {s, n} : env'[t] = env[t]
        /\ \A t \in Slot \ {n} : gen'[t] = gen[t]
        /\ Id(n)' = NewId
    BY <1>0, <1>1, <1>2, <1>3, <1>4, <1>5, CreateShape DEF ShellInv
  <1>7. Awaits(s, Id(n))' /\ StagesLeft(s)' /\ StagesLeft(n)'
    BY <1>2, <1>3, <1>4, <1>6 DEF Awaits, StagesLeft, Forked
  <1>8. KeepsWaiting(s) /\ env'[s].pc \notin Umain \cup {"free"}
    BY <1>0, <1>2, <1>6 DEF KeepsWaiting, Awaits, Forked, Spawned, Umain
  <1> QED
    BY <1>0, <1>2, <1>3, <1>4, <1>6, <1>7, <1>8, CreateInv

LEMMA SpawnInv == ASSUME ShellInv, NEW s \in Slot, Spawn(s) PROVE ShellInv'
  <1>0. env[s].pc = "spawn" /\ s # 1 /\ Live(s) /\ Room
    BY DEF Spawn, At, Live, ShellInv, OneShell, Umain
  <1> DEFINE p == [env[s] EXCEPT !.pc = "close_all", !.child = NewId]
             q == [Process EXCEPT !.pc = "run", !.fds = env[s].fds, !.todo = MaxBytes]
  <1>1. Create(s, p, q) /\ commands' \in 0 .. MaxCommands
    BY DEF Spawn, ShellInv, ShapeOK
  <1>2. /\ p = [f \in Fields |-> p[f]] /\ p.pc = "close_all" /\ p.child = NewId
        /\ p.stages = env[s].stages /\ p.pipe_child = env[s].pipe_child
    BY ZenonT(60) DEF ShellInv, ShapeOK, Fields
  <1>3. q = [f \in Fields |-> q[f]] /\ q.pc = "run" /\ q.stages = 0
    BY DEF Process, Fields
  <1>4. /\ env[s].stages \in 0 .. MaxCommands /\ 0 \in 0 .. MaxCommands
        /\ env[s].stages >= 1
    BY <1>0, BoundsAssumption DEF ShellInv, ShapeOK, StagesLeft, Forked
  <1>5. PICK n : n = NewSlot
    OBVIOUS
  <1> HIDE DEF p, q
  <1>6. /\ ShapeOK' /\ n \in Slot /\ ~Live(n) /\ n # s
        /\ env'[s] = p /\ env'[n] = q
        /\ \A t \in Slot \ {s, n} : env'[t] = env[t]
        /\ \A t \in Slot \ {n} : gen'[t] = gen[t]
        /\ Id(n)' = NewId
    BY <1>0, <1>1, <1>2, <1>3, <1>4, <1>5, CreateShape DEF ShellInv
  <1>7. Awaits(s, Id(n))' /\ StagesLeft(s)' /\ StagesLeft(n)'
    BY <1>2, <1>3, <1>4, <1>6 DEF Awaits, StagesLeft, Forked, Spawned
  <1>8. KeepsWaiting(s) /\ env'[s].pc \notin Umain \cup {"free"}
    <2>1. \A t \in Slot : Live(t) => Id(t)' = Id(t)
      BY <1>6 DEF Id
    <2>2. \A t \in Slot : Awaits(s, Id(t)) => env[s].pipe_child = Id(t)
      BY <1>0 DEF Awaits, Forked, Spawned
    <2> QED
      BY <1>2, <1>6, <2>1, <2>2 DEF KeepsWaiting, Awaits, Forked, Umain
  <1> QED
    BY <1>0, <1>2, <1>3, <1>4, <1>6, <1>7, <1>8, CreateInv

-----------------------------------------------------------------------------
(* The theorem.                                                            *)

LEMMA ShellInit == Init => ShellInv
  <1> SUFFICES ASSUME Init PROVE ShellInv
    OBVIOUS
  <1> DEFINE first == [Process EXCEPT !.pc = "prompt", !.fds[0] = Console, !.fds[1] = Console]
  <1>1. /\ first = [f \in Fields |-> first[f]] /\ first.pc = "prompt" /\ first.stages = 0
        /\ Process = [f \in Fields |-> Process[f]] /\ Process.pc = "free" /\ Process.stages = 0
    BY DEF Process, Fields
  <1>2. \A s \in Slot : env[s] = IF s = 1 THEN first ELSE Process
    BY DEF Init
  <1> HIDE DEF first
  <1>3. ShapeOK
    <2>1. env = [s \in Slot |-> env[s]] /\ gen \in [Slot -> Nat]
      BY DEF Init
    <2>2. \A s \in Slot : env[s] = [f \in Fields |-> env[s][f]] /\ env[s].stages = 0
      BY <1>1, <1>2
    <2>3. 0 \in 0 .. MaxCommands /\ commands \in 0 .. MaxCommands
      BY BoundsAssumption DEF Init
    <2> QED
      BY <2>1, <2>2, <2>3 DEF ShapeOK
  <1>4. OneShell /\ (\A s \in Slot : StagesLeft(s)) /\ \A s \in Slot \ {1} : ~Live(s)
    BY <1>1, <1>2 DEF OneShell, Umain, StagesLeft, Forked, Live
  <1> QED
    BY <1>3, <1>4 DEF ShellInv, PromptMeansDone

LEMMA ShellNext == ASSUME ~EmptyLeft, ShellInv, [Next]_vars PROVE ShellInv'
  <1>1. CASE UNCHANGED vars
    BY <1>1 DEF vars, ShellInv, ShapeOK, OneShell, StagesLeft, Live, Awaited, Awaits, Id,
                PromptMeansDone, At
  <1>2. ASSUME NEW s \in Slot, ReadLine(s) \/ Quit(s) \/ Step(s) PROVE ShellInv'
    <2>1. CASE ReadLine(s)
      BY <2>1, ReadLineInv
    <2>2. CASE Quit(s) \/ Program(s)
      BY <2>2, ProgramInv
    <2>3. CASE LineDone(s)
      BY <2>3, LineDoneInv
    <2>4. CASE Exit(s)
      BY <2>4, ExitInv
    <2>5. CASE RunCmd(s)
      <3>1. CASE EmptyCommand(s)
        BY <3>1, EmptyCommandInv
      <3>2. CASE ParsePipe(s) \/ ForkRight(s) \/ GiveUp(s) \/ Spawn(s) \/ SpawnFails(s)
        BY <3>2, ParsePipeInv, ForkRightInv, GiveUpInv, SpawnInv, SpawnFailsInv
      <3>3. CASE RightMove(s) \/ RightClose(s) \/ LeftMove(s) \/ LeftClose(s)
        BY <3>3, RightInv, LeftInv
      <3>4. CASE CloseAll(s) \/ WaitProgram(s) \/ WaitPipe(s)
        BY <3>4, CloseAllInv, WaitInv
      <3> QED
        BY <2>5, <3>1, <3>2, <3>3, <3>4 DEF RunCmd
    <2> QED
      BY <1>2, <2>1, <2>2, <2>3, <2>4, <2>5 DEF Step
  <1> QED
    BY <1>1, <1>2 DEF Next

\* Every process of a command line is waited for by the shell, or by one
\* with more of the line to do, in every reachable state (user/sh.c).
THEOREM Invariance == ASSUME ~EmptyLeft PROVE Spec => []ShellInv
  <1>1. ShellInv /\ [Next]_vars => ShellInv'
    BY ShellNext
  <1> QED
    BY <1>1, ShellInit, PTL DEF Spec

\* user/sh.c: "Do not return until the shell command is finished", for any
\* number of slots, commands and bytes, as long as no left side is empty.
THEOREM LineIsFinished == ASSUME ~EmptyLeft PROVE Spec => []PromptMeansDone
  <1>1. ShellInv => PromptMeansDone
    BY DEF ShellInv
  <1> QED
    BY <1>1, Invariance, PTL

=============================================================================
