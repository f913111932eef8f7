----------------------------- MODULE FileServer -----------------------------
(***************************************************************************)
(* The file server of the JOS system in src/solutions/fed/lab5 and its     *)
(* clients: requests and replies over IPC (lib/ipc.c, the two IPC system   *)
(* calls of kern/syscall.c), the client library (lib/file.c) and the       *)
(* server loop with its table of open files (fs/serv.c).                   *)
(*                                                                         *)
(* One step is one system call, or the work of a process between two       *)
(* calls.  The server frees an entry of opentab when the reference count   *)
(* of its Fd page says that no client maps the page any more, so the model *)
(* keeps those mappings.  The contents of files are left out: a read moves *)
(* the offset by one, up to FileSize.  File names are File; paths, the     *)
(* disk and its block cache are behind a file_open that finds the file or  *)
(* does not.                                                               *)
(***************************************************************************)
EXTENDS Integers, FiniteSets

CONSTANTS
    Client,     \* processes that use files
    First,      \* the one that runs first
    FdNum,      \* file descriptors of a process
    File,
    FileSize,   \* bytes in a file
    MAXOPEN,    \* entries of opentab
    IdMod,      \* ids wrap here (2^32 in the code), a multiple of MAXOPEN
    FS,         \* the server
    Nothing     \* no page, no process, no entry

ASSUME FirstAssumption == First \in Client
ASSUME ServerAssumption == FS \notin Client
ASSUME FdNumAssumption == FdNum \subseteq Nat
ASSUME FiniteAssumption == IsFiniteSet(Client) /\ IsFiniteSet(FdNum)
ASSUME SizeAssumption == FileSize \in Nat
ASSUME MaxOpenAssumption == MAXOPEN \in Nat \ {0}
ASSUME IdModAssumption == IdMod \in Nat /\ IdMod % MAXOPEN = 0 /\ IdMod > MAXOPEN

VARIABLES
    ipc,      \* env_ipc_* of each process
    env,      \* NONE, LIVE or DEAD
    fds,      \* fds[c][n]: the entry whose Fd page c maps at fd n, or Nothing
    buf,      \* fsipcbuf of each client: the arguments of its request
    fsreq,    \* the client whose fsipcbuf the server maps at fsreq
    opentab,  \* o_fileid and o_file of each entry
    page,     \* the contents of the Fd page of an entry, or Nothing
    cl,       \* where each client is
    srv       \* where the server is, and its locals

vars == <<ipc, env, fds, buf, fsreq, opentab, page, cl, srv>>
table == <<opentab, page>>

Entry == 0 .. MAXOPEN - 1
ASSUME NothingAssumption ==
    /\ Nothing \notin Client \cup FdNum \cup Entry \cup {FS}
    /\ Nothing \notin [id : 0 .. IdMod - 1, offset : 0 .. FileSize]
Type == {"open", "read", "stat", "flush"}
Answers == {"done", "error"}     \* r >= 0 and r < 0

\* dstva: where a received page goes: a descriptor, FS for fsreq, or Nothing
\* (UTOP) for no page.
IpcNone == [recving |-> FALSE, from |-> Nothing, value |-> Nothing, perm |-> FALSE,
            dstva |-> Nothing]

\* call, n: the library call and its descriptor; stale: the id in the
\* request is that of a closed file
ClientUser == [pc |-> "user", call |-> "none", n |-> 0, stale |-> FALSE]

\* req, whom: the request; r: the answer; pg: the entry whose page goes with it
ServerRecv == [pc |-> "recv", req |-> Nothing, whom |-> Nothing, r |-> "done", pg |-> Nothing]

\* pageref of the Fd page of entry i.
PageRef(i) ==
    (IF page[i] = Nothing THEN 0 ELSE 1)
    + Cardinality({q \in Client \X FdNum : fds[q[1]][q[2]] = i})

-----------------------------------------------------------------------------
(* sys_ipc_try_send: what it does to the receiver's fields, given that it  *)
(* is receiving.  env_ipc_perm is set only when a page is mapped.          *)

Receive(from, value, withPage, to) ==
    [to EXCEPT !.recving = FALSE, !.from = from, !.value = value,
               !.perm = IF withPage THEN TRUE ELSE @]

\* ipc_recv has read env_ipc_value and env_ipc_from, which nobody reads again
\* before the next send, nor env_ipc_dstva before the next receive: the model
\* forgets them.  env_ipc_perm stays.
Consumed(p) == [ipc EXCEPT ![p].from = Nothing, ![p].value = Nothing, ![p].dstva = Nothing]

-----------------------------------------------------------------------------
(* Clients: lib/file.c.                                                    *)

Ready(c) == env[c] = "LIVE" /\ cl[c].pc = "user"

Calling(type, n) == [pc |-> "send", call |-> type, n |-> n, stale |-> FALSE]

\* fd_alloc: the lowest descriptor that is not mapped.
FdAlloc(c) == {n \in FdNum : fds[c][n] = Nothing /\ \A m \in FdNum : m < n => fds[c][m] # Nothing}

\* BOUND: no id comes round to a value it has had.
IdsLeft == \A i \in Entry : opentab[i].id + Cardinality(Client) * MAXOPEN < IdMod

Open(c, f) ==
    /\ Ready(c)
    /\ IdsLeft
    /\ \E n \in FdAlloc(c) : cl' = [cl EXCEPT ![c] = Calling("open", n)]
    /\ buf' = [buf EXCEPT ![c] = [file |-> f]]
    /\ UNCHANGED <<ipc, env, fds, fsreq, table, srv>>

\* read, fstat, and close, which flushes first.
FdCall(c, n, type) ==
    /\ Ready(c)
    /\ fds[c][n] # Nothing
    /\ cl' = [cl EXCEPT ![c] = Calling(type, n)]
    /\ buf' = [buf EXCEPT ![c] = [id |-> page[fds[c][n]].id]]
    /\ UNCHANGED <<ipc, env, fds, fsreq, table, srv>>

\* A request with a copy of a closed Fd page (user/testfile.c).
StaleRead(c) ==
    /\ Ready(c)
    /\ \E i \in Entry :
           /\ PageRef(i) = 1 /\ srv.pg # i
           /\ buf' = [buf EXCEPT ![c] = [id |-> opentab[i].id]]
    /\ cl' = [cl EXCEPT ![c] = [Calling("read", 0) EXCEPT !.stale = TRUE]]
    /\ UNCHANGED <<ipc, env, fds, fsreq, table, srv>>

SendKeepsRecving(c) ==                     \* mutant: env_ipc_recving is kept
    /\ cl[c].pc = "send"
    /\ ipc[FS].recving
    /\ ipc' = [ipc EXCEPT ![FS] = [Receive(c, cl[c].call, TRUE, @) EXCEPT !.recving = TRUE]]
    /\ fsreq' = c
    /\ cl' = [cl EXCEPT ![c].pc = "recv"]
    /\ UNCHANGED <<env, fds, buf, table, srv>>

\* ipc_send of the request and the page fsipcbuf; it tries again as long as
\* the server is not receiving.
Send(c) ==
    /\ cl[c].pc = "send"
    /\ ipc[FS].recving
    /\ ipc' = [ipc EXCEPT ![FS] = Receive(c, cl[c].call, TRUE, @)]
    /\ fsreq' = c
    /\ cl' = [cl EXCEPT ![c].pc = "recv"]
    /\ UNCHANGED <<env, fds, buf, table, srv>>

Recv(c) ==
    /\ cl[c].pc = "recv"
    /\ ipc' = [ipc EXCEPT ![c].recving = TRUE,
                          ![c].dstva = IF cl[c].call = "open" THEN cl[c].n ELSE Nothing]
    /\ cl' = [cl EXCEPT ![c].pc = "wait"]
    /\ UNCHANGED <<env, fds, buf, fsreq, table, srv>>

\* The call returns, and fsipcbuf is free for the next request; close now
\* unmaps the Fd page.
Return(c) ==
    /\ cl[c].pc = "wait"
    /\ ~ipc[c].recving
    /\ fds' = IF cl[c].call = "flush" THEN [fds EXCEPT ![c][cl[c].n] = Nothing] ELSE fds
    /\ cl' = [cl EXCEPT ![c] = ClientUser]
    /\ buf' = [buf EXCEPT ![c] = Nothing]
    /\ ipc' = Consumed(c)
    /\ UNCHANGED <<env, fsreq, table, srv>>

\* fork shares the Fd pages, which are mapped PTE_SHARE, with the child.
Fork(c, d) ==
    /\ Ready(c)
    /\ env[d] = "NONE"
    /\ env' = [env EXCEPT ![d] = "LIVE"]
    /\ fds' = [fds EXCEPT ![d] = fds[c]]
    /\ UNCHANGED <<ipc, buf, fsreq, table, cl, srv>>

\* env_free; a request page that the server maps stays.
EnvFree(c) ==
    /\ env[c] = "LIVE"
    /\ env' = [env EXCEPT ![c] = "DEAD"]
    /\ fds' = [fds EXCEPT ![c] = [n \in FdNum |-> Nothing]]
    /\ ipc' = [ipc EXCEPT ![c] = IpcNone]
    /\ cl' = [cl EXCEPT ![c] = ClientUser]
    /\ UNCHANGED <<buf, fsreq, table, srv>>

-----------------------------------------------------------------------------
(* The server: fs/serv.c.                                                  *)

ServeRecv ==
    /\ srv.pc = "recv"
    /\ ipc' = [ipc EXCEPT ![FS].recving = TRUE, ![FS].dstva = FS]
    /\ srv' = [srv EXCEPT !.pc = "wait"]
    /\ UNCHANGED <<env, fds, buf, fsreq, table, cl>>

\* ipc_recv returns; a request without a page is left hanging.
ServeGot ==
    /\ srv.pc = "wait"
    /\ ~ipc[FS].recving
    /\ srv' = IF ipc[FS].perm
              THEN [ServerRecv EXCEPT !.pc = "serve", !.req = ipc[FS].value,
                                      !.whom = ipc[FS].from]
              ELSE ServerRecv
    /\ ipc' = Consumed(FS)
    /\ UNCHANGED <<env, fds, buf, fsreq, table, cl>>

Serves(types) == srv.pc = "serve" /\ fsreq # Nothing /\ srv.req \in types

Answer(r, pg) == srv' = [srv EXCEPT !.pc = "reply", !.r = r, !.pg = pg]

\* The request page is not there: bc_pgfault panics, and the server is gone.
ServeFault ==
    /\ srv.pc = "serve" /\ fsreq = Nothing /\ srv.req # "flush"
    /\ srv' = [srv EXCEPT !.pc = "panic"]
    /\ UNCHANGED <<ipc, env, fds, buf, fsreq, table, cl>>

OpenfileAllocLoose ==                      \* mutant: an entry one client maps
    {i \in Entry : PageRef(i) <= 2 /\ \A j \in Entry : j < i => PageRef(j) > 2}

\* The entry openfile_alloc takes: the first that no client maps.
OpenfileAlloc == {i \in Entry : PageRef(i) <= 1 /\ \A j \in Entry : j < i => PageRef(j) > 1}

NextIdPlusOne(i) == (opentab[i].id + 1) % IdMod   \* mutant

NextId(i) == (opentab[i].id + MAXOPEN) % IdMod

ServeOpenKeepsPage ==                      \* mutant: the Fd page is not cleared
    /\ Serves({"open"})
    /\ \E i \in OpenfileAlloc :
           /\ opentab' = [opentab EXCEPT ![i] = [id |-> NextId(i), file |-> buf[fsreq].file]]
           /\ page' = [page EXCEPT ![i] = [id |-> NextId(i),
                           offset |-> IF @ = Nothing THEN 0 ELSE @.offset]]
           /\ Answer("done", i)
    /\ UNCHANGED <<ipc, env, fds, buf, fsreq, cl>>

\* serve_open: no free entry, or no memory for a new Fd page; no such file,
\* or an unsupported mode, found after the entry has got its new id; or
\* success.
ServeOpen ==
    /\ Serves({"open"})
    /\ \/ /\ \A i \in OpenfileAlloc : page[i] = Nothing
          /\ Answer("error", Nothing)
          /\ UNCHANGED table
       \/ \E i \in OpenfileAlloc :
              /\ opentab' = [opentab EXCEPT ![i].id = NextId(i)]
              /\ page' = [page EXCEPT ![i] = [id |-> 0, offset |-> 0]]
              /\ Answer("error", Nothing)
       \/ \E i \in OpenfileAlloc :
              /\ opentab' = [opentab EXCEPT ![i] = [id |-> NextId(i), file |-> buf[fsreq].file]]
              /\ page' = [page EXCEPT ![i] = [id |-> NextId(i), offset |-> 0]]
              /\ Answer("done", i)
    /\ UNCHANGED <<ipc, env, fds, buf, fsreq, cl>>

LookupNoRef(id) == {i \in Entry : i = id % MAXOPEN /\ opentab[i].id = id}   \* mutant

\* openfile_lookup of the id in the request.
Lookup(id) == {i \in Entry : i = id % MAXOPEN /\ PageRef(i) # 1 /\ opentab[i].id = id}

\* serve_read and serve_stat; only the first moves the offset.
ServeFile ==
    /\ Serves({"read", "stat"})
    /\ \/ /\ Lookup(buf[fsreq].id) = {}
          /\ Answer("error", Nothing)
          /\ UNCHANGED page
       \/ \E i \in Lookup(buf[fsreq].id) :
              LET r == IF page[i].offset < FileSize /\ srv.req = "read" THEN 1 ELSE 0
              IN  /\ page' = [page EXCEPT ![i].offset = @ + r]
                  /\ Answer("done", Nothing)
    /\ UNCHANGED <<ipc, env, fds, buf, fsreq, opentab, cl>>

\* serve_flush does not look at its argument.
ServeFlush ==
    /\ srv.pc = "serve" /\ srv.req = "flush"
    /\ Answer("done", Nothing)
    /\ UNCHANGED <<ipc, env, fds, buf, fsreq, table, cl>>

ServeReplyOnce ==                          \* mutant: no second attempt
    /\ srv.pc = "reply"
    /\ srv' = [srv EXCEPT !.pc = "unmap"]
    /\ IF ipc[srv.whom].recving
       THEN /\ ipc' = [ipc EXCEPT ![srv.whom] = Receive(FS, srv.r, srv.pg # Nothing, @)]
            /\ fds' = IF srv.pg = Nothing THEN fds
                      ELSE [fds EXCEPT ![srv.whom][ipc[srv.whom].dstva] = srv.pg]
       ELSE UNCHANGED <<ipc, fds>>
    /\ UNCHANGED <<env, buf, fsreq, table, cl>>

\* ipc_send of the reply: it waits until the client is receiving.
ServeReply ==
    /\ srv.pc = "reply"
    /\ env[srv.whom] = "LIVE" /\ ipc[srv.whom].recving
    /\ ipc' = [ipc EXCEPT ![srv.whom] = Receive(FS, srv.r, srv.pg # Nothing, @)]
    /\ fds' = IF srv.pg = Nothing THEN fds
              ELSE [fds EXCEPT ![srv.whom][ipc[srv.whom].dstva] = srv.pg]
    /\ srv' = [srv EXCEPT !.pc = "unmap"]
    /\ UNCHANGED <<env, buf, fsreq, table, cl>>

\* ipc_send panics if the client does not exist any more.
ServePanic ==
    /\ srv.pc = "reply"
    /\ env[srv.whom] # "LIVE"
    /\ srv' = [srv EXCEPT !.pc = "panic"]
    /\ UNCHANGED <<ipc, env, fds, buf, fsreq, table, cl>>

ServeUnmap ==
    /\ srv.pc = "unmap"
    /\ fsreq' = Nothing
    /\ srv' = ServerRecv
    /\ UNCHANGED <<ipc, env, fds, buf, table, cl>>

-----------------------------------------------------------------------------
(* The specification.  Init is what serve_init leaves.                     *)

Init ==
    /\ ipc = [p \in Client \cup {FS} |-> IpcNone]
    /\ env = [c \in Client |-> IF c = First THEN "LIVE" ELSE "NONE"]
    /\ fds = [c \in Client |-> [n \in FdNum |-> Nothing]]
    /\ buf = [c \in Client |-> Nothing]
    /\ fsreq = Nothing
    /\ opentab = [i \in Entry |-> [id |-> i, file |-> Nothing]]
    /\ page = [i \in Entry |-> Nothing]
    /\ cl = [c \in Client |-> ClientUser]
    /\ srv = ServerRecv

Server ==
    \/ ServeRecv \/ ServeGot
    \/ ServeOpen \/ ServeFile \/ ServeFlush
    \/ ServeReply \/ ServeUnmap

ClientCall(c) ==
    \/ \E f \in File : Open(c, f)
    \/ \E n \in FdNum, type \in {"read", "stat", "flush"} : FdCall(c, n, type)
    \/ StaleRead(c)
    \/ \E d \in Client : Fork(c, d)

ClientStep(c) == Send(c) \/ Recv(c) \/ Return(c)

\* A process ends between two calls: exit has closed its files before, a
\* fault or its parent has not.
Exit(c) == Ready(c) /\ EnvFree(c)

Next == Server \/ \E c \in Client : ClientCall(c) \/ ClientStep(c) \/ Exit(c)

\* What the kernel lets any process do: send a request without a page, and
\* be destroyed in the middle of a call.
SendNoPage(c, type) ==
    /\ Ready(c)
    /\ ipc[FS].recving
    /\ ipc' = [ipc EXCEPT ![FS] = Receive(c, type, FALSE, @)]
    /\ cl' = [cl EXCEPT ![c] = [Calling("flush", 0) EXCEPT !.pc = "recv"]]
    /\ UNCHANGED <<env, fds, buf, fsreq, table, srv>>

NextAny ==
    \/ Server \/ ServeFault \/ ServePanic
    \/ \E c \in Client :
           \/ ClientCall(c) \/ ClientStep(c) \/ EnvFree(c)
           \/ \E type \in Type : SendNoPage(c, type)

Spec == Init /\ [][Next]_vars

SpecAny == Init /\ [][NextAny]_vars

\* Processes go on between their calls.
Fairness ==
    /\ WF_vars(Server)
    /\ \A c \in Client : WF_vars(Recv(c)) /\ WF_vars(Return(c))
    /\ WF_vars(\E c \in Client : Send(c))

FairSpec == Spec /\ Fairness

-----------------------------------------------------------------------------
(* Properties.                                                             *)

\* Types, and the id of an entry names the entry, as openfile_lookup needs.
TypeOK ==
    /\ ipc \in [Client \cup {FS} ->
                   [recving : BOOLEAN, from : Client \cup {FS, Nothing},
                    value : Type \cup Answers \cup {Nothing}, perm : BOOLEAN,
                    dstva : FdNum \cup {FS, Nothing}]]
    /\ env \in [Client -> {"NONE", "LIVE", "DEAD"}]
    /\ fds \in [Client -> [FdNum -> Entry \cup {Nothing}]]
    /\ fsreq \in Client \cup {Nothing}
    /\ opentab \in [Entry -> [id : 0 .. IdMod - 1, file : File \cup {Nothing}]]
    /\ \A i \in Entry : opentab[i].id % MAXOPEN = i
    /\ \A i \in Entry : page[i] \in [id : 0 .. IdMod - 1, offset : 0 .. FileSize] \cup {Nothing}
    /\ \A c \in Client : cl[c].pc \in {"user", "send", "recv", "wait"}
    /\ srv.pc \in {"recv", "wait", "serve", "reply", "unmap", "panic"}

\* A closed file stays closed: a request with the id of a file that no
\* process has open any more is refused, also when its entry is taken again
\* before the server looks.
StaleRefused == srv.pc = "reply" /\ cl[srv.whom].stale => srv.r = "error"

\* serv.c: "All requests must contain an argument page": the server acts on
\* a request only while its page is mapped at fsreq.
RequestHasPage == srv.pc = "serve" => fsreq # Nothing

\* One request at a time: the page at fsreq is that of the process the
\* server is going to answer, and no other process waits for an answer.
Unanswered(c) == cl[c].pc = "recv" \/ (cl[c].pc = "wait" /\ ipc[c].recving)

ServesWhoAsked ==
    /\ srv.pc \in {"serve", "reply"} => fsreq = srv.whom /\ Unanswered(srv.whom)
    /\ \A c, d \in Client : Unanswered(c) /\ Unanswered(d) => c = d

\* An entry of opentab belongs to the descriptors that map its Fd page for
\* as long as any does: the id in the page stays that of the entry, so that
\* no request on an open descriptor is refused or reaches another file.
OpenIdsValid ==
    \A c \in Client, n \in FdNum :
        fds[c][n] # Nothing => /\ page[fds[c][n]] # Nothing
                               /\ page[fds[c][n]].id = opentab[fds[c][n]].id
                               /\ fds[c][n] \in Lookup(page[fds[c][n]].id)

\* A request that the server has taken is answered.
Answered == \A c \in Client : cl[c].pc \in {"recv", "wait"} ~> cl[c].pc = "user"

=============================================================================
