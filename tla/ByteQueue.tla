----------------------------- MODULE ByteQueue -----------------------------
(***************************************************************************)
(* What a pipe promises its two ends: bytes come out in the order they     *)
(* went in, each once, with at most Size of them in between.  There are no *)
(* positions, no ring buffer and no processes here; Pipe implements this   *)
(* module (see MCPipe).                                                    *)
(***************************************************************************)
EXTENDS Naturals, Sequences

CONSTANTS Size, Nothing

VARIABLES
    queue,   \* the bytes in the pipe
    sent,    \* how many were put in; the n-th byte put in is n
    last     \* the byte taken out last, or Nothing

vars == <<queue, sent, last>>

Init == queue = <<>> /\ sent = 0 /\ last = Nothing

Put == /\ Len(queue) < Size
       /\ queue' = Append(queue, sent)
       /\ sent' = sent + 1
       /\ UNCHANGED last

Take == /\ queue # <<>>
        /\ last' = Head(queue)
        /\ queue' = Tail(queue)
        /\ UNCHANGED sent

Spec == Init /\ [][Put \/ Take]_vars

=============================================================================
