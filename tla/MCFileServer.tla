---------------------------- MODULE MCFileServer ----------------------------
(* FileServer for TLC, and its refinement of FileTable.                    *)
EXTENDS FileServer

Mapped(i) == \E c \in Client, n \in FdNum : fds[c][n] = i

\* An entry of opentab is an open file while a client maps its page.
OpenFile == [i \in Entry |-> IF Mapped(i)
                THEN [file |-> opentab[i].file, offset |-> page[i].offset] ELSE Nothing]

Table == INSTANCE FileTable WITH
    Clients <- Client, Numbers <- FdNum, OpenFiles <- Entry, Files <- File, None <- Nothing,
    handle <- fds, open <- OpenFile

\* Clients see open files with one offset each, whatever the server does
\* with its entries and pages.
FilesAsPromised == Table!Spec

=============================================================================
