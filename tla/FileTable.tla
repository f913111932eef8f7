----------------------------- MODULE FileTable -----------------------------
(***************************************************************************)
(* What the file server promises its clients: each has descriptors that    *)
(* name open files; an open file has an offset, shared by all descriptors  *)
(* that fork has copied, which moves by what is read; two opens never      *)
(* share.  There are no messages, pages or ids here; FileServer implements *)
(* this module (see MCFileServer).                                         *)
(***************************************************************************)
EXTENDS Naturals

CONSTANTS Clients, Numbers, OpenFiles, Files, None

VARIABLES
    handle,   \* handle[c][n]: the open file of descriptor n of c, or None
    open      \* open[i]: the file and the offset of open file i, or None

vars == <<handle, open>>

Shared(h, i) == \E c \in Clients, n \in Numbers : h[c][n] = i

Init == /\ handle = [c \in Clients |-> [n \in Numbers |-> None]]
        /\ open = [i \in OpenFiles |-> None]

Open(c, n, i, f) ==
    /\ handle[c][n] = None /\ ~Shared(handle, i)
    /\ handle' = [handle EXCEPT ![c][n] = i]
    /\ open' = [open EXCEPT ![i] = [file |-> f, offset |-> 0]]

Read(i) ==
    /\ Shared(handle, i)
    /\ open' = [open EXCEPT ![i].offset = @ + 1]
    /\ UNCHANGED handle

\* An open file is gone with its last descriptor.
Forget == open' = [i \in OpenFiles |-> IF Shared(handle', i) THEN open[i] ELSE None]

Close(c, n) == handle' = [handle EXCEPT ![c][n] = None] /\ Forget

Exit(c) == handle' = [handle EXCEPT ![c] = [n \in Numbers |-> None]] /\ Forget

Fork(c, d) == handle' = [handle EXCEPT ![d] = handle[c]] /\ Forget

Next ==
    \/ \E i \in OpenFiles : Read(i)
    \/ \E c \in Clients, n \in Numbers :
           Close(c, n) \/ \E i \in OpenFiles, f \in Files : Open(c, n, i, f)
    \/ \E c \in Clients : Exit(c) \/ \E d \in Clients \ {c} : Fork(c, d)

Spec == Init /\ [][Next]_vars

=============================================================================
