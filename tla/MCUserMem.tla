------------------------------ MODULE MCUserMem ------------------------------
(***************************************************************************)
(* A system call with a buffer, such as sys_cputs: which ranges of a small *)
(* address space user_mem_check lets through.                              *)
(***************************************************************************)
EXTENDS UserMem

CONSTANTS Pages, MaxLen

VARIABLES ok, va, len, answer

Init ==
    /\ ok \in [0 .. Pages -> BOOLEAN]
    /\ va \in 0 .. Pages * PGSIZE - 1
    /\ len \in 0 .. MaxLen
    /\ va + len <= Pages * PGSIZE
    /\ answer = "none"

Call ==
    /\ answer = "none"
    /\ answer' = IF UserMemCheck(ok, va, len) THEN "ok" ELSE "E_FAULT"
    /\ UNCHANGED <<ok, va, len>>

Spec == Init /\ [][Call]_<<ok, va, len, answer>>

\* kern/pmap.c:595 has it that 'va' and 'len' need not be page-aligned, and
\* that every page is tested that contains any of the range.
EveryPageTested == answer = "ok" => Usable(ok, va, len)

=============================================================================
