------------------------------- MODULE UserMem -------------------------------
(***************************************************************************)
(* user_mem_check of kern/pmap.c (src/solutions/fed/lab5): whether a range *)
(* of addresses may be used by an environment, looked up page by page.     *)
(* ok[n] says that page n has the permissions asked for.                   *)
(***************************************************************************)
EXTENDS Integers

CONSTANT PGSIZE
ASSUME PageSizeAssumption == PGSIZE \in Nat \ {0}

PageOf(va) == va \div PGSIZE
RoundUp(a) == ((a + PGSIZE - 1) \div PGSIZE) * PGSIZE

\* The values of va in the loop: the first address, and then the multiples
\* of PGSIZE from ROUNDUP(va + PGSIZE) on.
Tested(va, len) ==
    {a \in va .. RoundUp(va + len) - 1 :
        a = va \/ (a >= RoundUp(va + PGSIZE) /\ a % PGSIZE = 0)}

UserMemCheckLast(ok, va, len) ==                \* mutant: the end of the range only
    ok[PageOf(va + len - 1)]
UserMemCheck(ok, va, len) == \A a \in Tested(va, len) : ok[PageOf(a)]

\* What its comment promises.
Usable(ok, va, len) == \A a \in va .. va + len - 1 : ok[PageOf(a)]

=============================================================================
