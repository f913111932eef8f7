----------------------------- MODULE MCUserFault -----------------------------
(***************************************************************************)
(* A program with two words of its own, and room for two faults within     *)
(* faults on the exception stack.                                          *)
(***************************************************************************)
EXTENDS UserFault

\* Nobody reads the words below the stack pointers; the upcall has one word
\* below that of the program.
UserEsp == IF saved = <<>> THEN reg.esp ELSE saved[1].reg.esp - 1
Live(a) == IF a < USTACKTOP THEN a >= UserEsp ELSE a >= reg.esp
MCView == <<reg, cow, alive, saved, [a \in StackAddr |-> IF Live(a) THEN mem[a] ELSE 0]>>

=============================================================================
