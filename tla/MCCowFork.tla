------------------------------ MODULE MCCowFork ------------------------------
(***************************************************************************)
(* Three processes over three pages: one shared, one of data, the stack.   *)
(***************************************************************************)
EXTENDS CowFork, TLC

CONSTANTS p1, p2, p3

MCShared == {2}
MCSegment == {3}
MCFile == [va \in {3} |-> 1]

\* The frames are alike, and the contents of free ones do not matter: a
\* state is told by who shares which frame, and what is in it.  A frame is
\* named by one place where it is mapped.
Place(f) == CHOOSE x \in Proc \X VA : pt[x[1]][x[2]].frame = f
Sharing == [p \in Proc, va \in VA |->
    IF Mapped(p, va)
      THEN <<Place(pt[p][va].frame), pt[p][va].bits, mem[pt[p][va].frame]>>
      ELSE <<>>]
MCSymmetry == Permutations(Proc \ {First})

MCView == <<env, Sharing, upcall, loc, panic>>

=============================================================================
