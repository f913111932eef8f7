------------------------------- MODULE MCPipe -------------------------------
(* Pipe for TLC, and its refinement of ByteQueue.                          *)
EXTENDS Pipe

\* The bytes in the ring buffer, oldest first.
Bytes == [k \in 1 .. p_wpos - p_rpos |-> p_buf[(p_rpos + k - 1) % PIPEBUFSIZ]]

Queue == INSTANCE ByteQueue WITH
    Size <- PIPEBUFSIZ, Nothing <- Nothing, queue <- Bytes, sent <- p_wpos, last <- got

\* The bytes that devpipe_read delivers are those devpipe_write was given,
\* in order, none lost and none twice.
BytesInOrder == Queue!Spec

=============================================================================
