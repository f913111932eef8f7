---------------------------- MODULE PrivateMemory ----------------------------
(***************************************************************************)
(* What fork and spawn promise: every process has a memory of its own,     *)
(* except for the pages marked as shared, which all descendants of the     *)
(* process that made them see.  A forked child starts with a copy of each  *)
(* page of its parent, a spawned one with the image of its program; the    *)
(* copy of a page is taken at one instant, those of two pages at two.      *)
(***************************************************************************)
CONSTANTS Procs, Founder, Pages, SharedPages, Values, Image, Absent

VARIABLES life, cell      \* cell[p][x]: what p reads from page x

vars == <<life, cell>>

Nobody == [x \in Pages |-> Absent]

\* Everyone who has a shared page sees what is written to it.
Write(p, x, v) ==
    /\ life[p] = "LIVE" /\ cell[p][x] \notin {Absent, v}
    /\ UNCHANGED life
    /\ cell' = [q \in Procs |->
                  IF q = p \/ (x \in SharedPages /\ cell[q][x] # Absent)
                    THEN [cell[q] EXCEPT ![x] = v] ELSE cell[q]]

Create(c) ==
    /\ life[c] = "NONE"
    /\ life' = [life EXCEPT ![c] = "NEW"]
    /\ UNCHANGED cell

Inherit(p, c, x) ==
    /\ life[p] = "LIVE" /\ life[c] = "NEW"
    /\ cell[c][x] = Absent /\ cell[p][x] # Absent
    /\ UNCHANGED life
    /\ cell' = [cell EXCEPT ![c][x] = cell[p][x]]

Load(c, x) ==
    /\ life[c] = "NEW" /\ cell[c][x] = Absent
    /\ x \notin SharedPages
    /\ UNCHANGED life
    /\ cell' = [cell EXCEPT ![c][x] = Image[x]]

\* A process starts with all its pages.
Start(c) ==
    /\ life[c] = "NEW" /\ \A x \in Pages : cell[c][x] # Absent
    /\ life' = [life EXCEPT ![c] = "LIVE"]
    /\ UNCHANGED cell

\* A process ends, and with it the one it is making.
End(ending) ==
    /\ \A p \in ending : life[p] \in {"NEW", "LIVE"}
    /\ life' = [p \in Procs |-> IF p \in ending THEN "DEAD" ELSE life[p]]
    /\ cell' = [p \in Procs |-> IF p \in ending THEN Nobody ELSE cell[p]]

Init ==
    /\ life = [p \in Procs |-> IF p = Founder THEN "LIVE" ELSE "NONE"]
    /\ \E first \in [Pages -> Values] :
         cell = [p \in Procs |-> IF p = Founder THEN first ELSE Nobody]

Next ==
    \/ \E ending \in SUBSET Procs : End(ending)
    \/ \E p \in Procs, x \in Pages, v \in Values : Write(p, x, v)
    \/ \E p, c \in Procs, x \in Pages : Inherit(p, c, x)
    \/ \E c \in Procs : Create(c) \/ Start(c)
    \/ \E c \in Procs, x \in Pages : Load(c, x)

Spec == Init /\ [][Next]_vars

=============================================================================
