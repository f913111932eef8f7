-------------------------- MODULE FileServerProofs --------------------------
(***************************************************************************)
(* Proofs about the file server: FileServer for any number of clients,     *)
(* descriptors and entries of opentab, with its refinement of FileTable,   *)
(* and, from "FsImage: the inductive invariant" on, the files that the     *)
(* server reads, for disks, blocks and files of any size.                  *)
(***************************************************************************)
EXTENDS MCFileServer, FsImage, TLAPS, FiniteSetTheorems, SequenceTheorems, WellFoundedInduction

-----------------------------------------------------------------------------
(* The inductive invariant.                                                *)

\* What an environment keeps about its messages.
IpcFields ==
    [recving : BOOLEAN, from : Client \cup {FS, Nothing},
     value : Type \cup Answers \cup {Nothing}, perm : BOOLEAN, dstva : FdNum \cup {FS, Nothing}]

\* A client whose request the server has not answered yet.
Asking(c) == cl[c].pc = "send" \/ Unanswered(c)

\* A request to open a file that has not had its entry yet.
Opening(c) ==
    /\ Asking(c) /\ cl[c].call = "open"
    /\ ~(srv.pc = "reply" /\ srv.whom = c)

LocalTypeOK ==
    /\ cl \in [Client -> [pc : {"user", "send", "recv", "wait"}, call : Type \cup {"none"},
                          n : FdNum \cup {0}, stale : BOOLEAN]]
    /\ srv \in [pc : {"recv", "wait", "serve", "reply", "unmap"}, req : Type \cup {Nothing},
                whom : Client \cup {Nothing}, r : Answers, pg : Entry \cup {Nothing}]
    /\ page \in [Entry -> [id : 0 .. IdMod - 1, offset : 0 .. FileSize] \cup {Nothing}]
    /\ buf \in [Client -> [file : File] \cup [id : 0 .. IdMod - 1] \cup {Nothing}]

\* A client that is not running does nothing; one in a call has its request
\* in fsipcbuf, and the descriptor it opens stays free until the answer.
ClientOK(c) ==
    /\ env[c] # "LIVE" => cl[c].pc = "user" /\ \A n \in FdNum : fds[c][n] = Nothing
    /\ ipc[c].recving => cl[c].pc = "wait"
    /\ cl[c].pc # "user" => cl[c].call \in Type
    /\ cl[c].stale => cl[c].call = "read"
    /\ Asking(c) /\ cl[c].call = "open" =>
           /\ buf[c] \in [file : File]
           /\ cl[c].n \in FdNum /\ fds[c][cl[c].n] = Nothing
           /\ cl[c].pc = "wait" => ipc[c].dstva = cl[c].n
    /\ Asking(c) /\ cl[c].call # "open" => buf[c] \in [id : 0 .. IdMod - 1]
ClientInv == \A c \in Client : ClientOK(c)

\* Who is being served, at each place of the server's loop.
ServedClient == IF srv.pc = "wait" THEN ipc[FS].from ELSE srv.whom
Busy == srv.pc \in {"serve", "reply"} \/ (srv.pc = "wait" /\ ~ipc[FS].recving)

ServerInv ==
    /\ srv.pc # "wait" => ~ipc[FS].recving
    /\ Busy => /\ ServedClient \in Client /\ Unanswered(ServedClient)
               /\ fsreq = ServedClient
               /\ \A c \in Client : Unanswered(c) => c = ServedClient
    /\ ~Busy => \A c \in Client : ~Unanswered(c)
    /\ srv.pc = "wait" /\ Busy => ipc[FS].perm /\ ipc[FS].value = cl[ipc[FS].from].call
    /\ srv.pc = "serve" => srv.req = cl[srv.whom].call

\* The page of an entry and the entry agree while clients map it.
PagesMatch ==
    \A c \in Client, n \in FdNum : fds[c][n] # Nothing =>
        /\ page[fds[c][n]] # Nothing
        /\ page[fds[c][n]].id = opentab[fds[c][n]].id

\* An id in a request is that of an entry that has had its page.
RequestPages ==
    \A c \in Client : Asking(c) /\ cl[c].call # "open" => page[buf[c].id % MAXOPEN] # Nothing

\* An entry on its way to its first client is nobody else's.
TakenEntry ==
    srv.pc = "reply" /\ srv.pg # Nothing =>
        /\ cl[srv.whom].call = "open"
        /\ ~Mapped(srv.pg)
        /\ page[srv.pg] = [id |-> opentab[srv.pg].id, offset |-> 0]
        /\ opentab[srv.pg].file \in File

TableInv == PagesMatch /\ RequestPages /\ TakenEntry

\* BOUND: there are ids left for every open that is under way.
IdInv ==
    \A i \in Entry : opentab[i].id + Cardinality({c \in Client : Opening(c)}) * MAXOPEN < IdMod

\* A stale id was the last one of an entry that nobody has open since, or
\* the entry has had another one since.
Outdated(id) ==
    LET i == id % MAXOPEN
    IN  \/ opentab[i].id > id
        \/ opentab[i].id = id /\ page[i] # Nothing /\ ~Mapped(i)
           /\ ~(srv.pc = "reply" /\ srv.pg = i)

StaleInv ==
    /\ \A c \in Client : Asking(c) /\ cl[c].stale => Outdated(buf[c].id)
    /\ StaleRefused

Inv == TypeOK /\ LocalTypeOK /\ ClientInv /\ ServerInv /\ TableInv /\ IdInv /\ StaleInv

-----------------------------------------------------------------------------
(* Facts about the constants, and about page counts.                       *)

LEMMA Split ==
  \A x \in Nat : /\ x = (x \div MAXOPEN) * MAXOPEN + (x % MAXOPEN)
                 /\ x \div MAXOPEN \in Nat /\ x % MAXOPEN \in 0 .. MAXOPEN - 1
  BY MaxOpenAssumption, SMT

LEMMA Remainder ==
  ASSUME NEW q \in Nat, NEW r \in Entry
  PROVE  (q * MAXOPEN + r) % MAXOPEN = r
  BY MaxOpenAssumption, SMT DEF Entry

\* The next id of an entry is again an id of that entry.
LEMMA NextIdOfEntry ==
  ASSUME NEW x \in Nat, x + MAXOPEN < IdMod
  PROVE  (x + MAXOPEN) % IdMod = x + MAXOPEN /\ (x + MAXOPEN) % MAXOPEN = x % MAXOPEN
  <1> DEFINE q == x \div MAXOPEN
             r == x % MAXOPEN
  <1>1. q \in Nat /\ r \in Entry /\ x = q * MAXOPEN + r
    BY Split DEF Entry
  <1> HIDE DEF q, r
  <1>2. x + MAXOPEN = (q + 1) * MAXOPEN + r
    BY <1>1, MaxOpenAssumption, SMT DEF Entry
  <1>3. q + 1 \in Nat
    BY <1>1
  <1>4. (x + MAXOPEN) % MAXOPEN = r
    BY <1>1, <1>2, <1>3, Remainder
  <1>5. (x + MAXOPEN) % IdMod = x + MAXOPEN
    BY MaxOpenAssumption, IdModAssumption, SMT
  <1> QED
    BY <1>4, <1>5 DEF r

\* An entry's own number is its first id.
LEMMA EntryIsId == \A i \in Entry : i % MAXOPEN = i /\ i \in 0 .. IdMod - 1
  BY MaxOpenAssumption, IdModAssumption, SMT DEF Entry

\* Every set of clients is finite, and has at most all of them.
LEMMA ClientSets ==
  ASSUME NEW S \in SUBSET Client
  PROVE  /\ IsFiniteSet(S) /\ Cardinality(S) \in Nat
         /\ Cardinality(Client) \in Nat /\ Cardinality(S) <= Cardinality(Client)
  BY FiniteAssumption, FS_Subset, FS_CardinalityType

LEMMA Times ==
  ASSUME NEW j \in Nat, NEW k \in Nat, j <= k
  PROVE  j * MAXOPEN \in Nat /\ k * MAXOPEN \in Nat /\ j * MAXOPEN <= k * MAXOPEN
  BY MaxOpenAssumption, SMT

\* How pageref tells whether a client maps the page of an entry: the server
\* itself maps it once.
LEMMA PageRefTells ==
  ASSUME NEW i \in Entry
  PROVE  /\ page[i] # Nothing => (PageRef(i) = 1 <=> ~Mapped(i)) /\ (PageRef(i) <= 1 <=> ~Mapped(i))
         /\ page[i] = Nothing /\ PageRef(i) = 1 => Mapped(i)
  <1> DEFINE S == {q \in Client \X FdNum : fds[q[1]][q[2]] = i}
  <1>1. IsFiniteSet(S)
    BY FiniteAssumption, FS_Product, FS_Subset
  <1>2. Cardinality(S) \in Nat /\ (Cardinality(S) = 0 <=> S = {})
    BY <1>1, FS_CardinalityType, FS_EmptySet
  <1>3. S = {} <=> ~Mapped(i)
    <2>1. ASSUME NEW q \in S PROVE Mapped(i)
      BY DEF Mapped
    <2>2. ASSUME NEW c \in Client, NEW n \in FdNum, fds[c][n] = i PROVE <<c, n>> \in S
      BY <2>2
    <2> QED
      BY <2>1, <2>2 DEF Mapped
  <1> QED
    BY <1>2, <1>3 DEF PageRef

\* While it looks for the answer, the server changes nothing but its table.
LEMMA Answering ==
  ASSUME LocalTypeOK, ServeOpen \/ ServeFile \/ ServeFlush
  PROVE  /\ srv.pc = "serve" /\ srv'.pc = "reply" /\ srv'.whom = srv.whom
         /\ UNCHANGED <<ipc, env, fds, buf, fsreq, cl>>
  BY DEF ServeOpen, ServeFile, ServeFlush, Serves, Answer, LocalTypeOK

-----------------------------------------------------------------------------
(* Every step keeps the invariant, one lemma for each part.                *)

\* The message fields of an environment keep their types when one or two of
\* them are set.
LEMMA IpcTyped == TypeOK => ipc \in [Client \cup {FS} -> IpcFields]
  BY DEF TypeOK, IpcFields

LEMMA ReceiveTyped ==
  ASSUME NEW to \in IpcFields, NEW from \in Client \cup {FS}, NEW value \in Type \cup Answers,
         NEW withPage \in BOOLEAN
  PROVE  Receive(from, value, withPage, to) \in IpcFields
  BY DEF Receive, IpcFields

LEMMA RecvTyped ==
  ASSUME NEW to \in IpcFields, NEW dstva \in FdNum \cup {FS, Nothing}
  PROVE  [to EXCEPT !.recving = TRUE, !.dstva = dstva] \in IpcFields
  BY DEF IpcFields

LEMMA ConsumedIpcTyped ==
  ASSUME TypeOK, NEW p \in Client \cup {FS}
  PROVE  Consumed(p) \in [Client \cup {FS} -> IpcFields]
  <1>1. Consumed(p) = [ipc EXCEPT ![p] = [ipc[p] EXCEPT !.from = Nothing, !.value = Nothing,
                                                       !.dstva = Nothing]]
    BY IpcTyped DEF Consumed, IpcFields
  <1>2. [ipc[p] EXCEPT !.from = Nothing, !.value = Nothing, !.dstva = Nothing] \in IpcFields
    BY IpcTyped, ZenonT(60) DEF IpcFields
  <1> QED
    BY <1>1, <1>2, IpcTyped

\* There is an id left for the entry that an open takes.
LEMMA ServeOpenId ==
  ASSUME Inv, ServeOpen, NEW i \in Entry
  PROVE  /\ opentab[i].id \in Nat /\ opentab[i].id % MAXOPEN = i
         /\ NextId(i) = opentab[i].id + MAXOPEN
         /\ NextId(i) \in 0 .. IdMod - 1 /\ NextId(i) % MAXOPEN = i
  <1> DEFINE S == {c \in Client : Opening(c)}
  <1>1. opentab[i].id \in Nat /\ opentab[i].id % MAXOPEN = i
    BY DEF Inv, TypeOK
  <1>2. srv.whom \in S
    BY DEF Inv, ServeOpen, Serves, ServerInv, Busy, ServedClient, Opening, Asking
  <1>3. Cardinality(S) \in Nat /\ Cardinality(S) # 0
    BY <1>2, ClientSets, FS_EmptySet
  <1>4. MAXOPEN \in Nat /\ MAXOPEN <= Cardinality(S) * MAXOPEN
    BY <1>3, Times, MaxOpenAssumption
  <1>5. opentab[i].id + Cardinality(S) * MAXOPEN < IdMod
    BY DEF Inv, IdInv
  <1>6. opentab[i].id + MAXOPEN < IdMod /\ Cardinality(S) * MAXOPEN \in Nat
    BY <1>1, <1>3, <1>4, <1>5, IdModAssumption, Times
  <1>7. (opentab[i].id + MAXOPEN) % IdMod = opentab[i].id + MAXOPEN
        /\ (opentab[i].id + MAXOPEN) % MAXOPEN = i
    BY <1>1, <1>6, NextIdOfEntry
  <1>8. NextId(i) = opentab[i].id + MAXOPEN
    BY <1>7 DEF NextId
  <1> QED
    BY <1>1, <1>4, <1>6, <1>7, <1>8, IdModAssumption

\* What serve_open does: nothing, or it takes an entry that no client maps,
\* whose file is the one asked for if the answer is a descriptor.
LEMMA ServeOpenCases ==
  ASSUME Inv, ServeOpen
  PROVE  \/ UNCHANGED table /\ srv' = [srv EXCEPT !.pc = "reply", !.r = "error", !.pg = Nothing]
         \/ \E i \in Entry, file \in File \cup {Nothing}, id \in 0 .. IdMod - 1 :
                /\ ~Mapped(i)
                /\ opentab' = [opentab EXCEPT ![i] = [id |-> NextId(i), file |-> file]]
                /\ page' = [page EXCEPT ![i] = [id |-> id, offset |-> 0]]
                /\ \/ srv' = [srv EXCEPT !.pc = "reply", !.r = "error", !.pg = Nothing]
                   \/ /\ srv' = [srv EXCEPT !.pc = "reply", !.r = "done", !.pg = i]
                      /\ id = NextId(i) /\ file \in File
  <1>1. buf[fsreq].file \in File
    BY DEF Inv, ServeOpen, Serves, ServerInv, Busy, ServedClient, ClientInv, ClientOK, Asking
  <1>2. ASSUME NEW i \in OpenfileAlloc
        PROVE  i \in Entry /\ ~Mapped(i) /\ NextId(i) \in 0 .. IdMod - 1
    <2>1. i \in Entry /\ PageRef(i) <= 1
      BY DEF OpenfileAlloc
    <2>2. page[i] = Nothing => ~Mapped(i)
      BY <2>1, NothingAssumption DEF Inv, TableInv, PagesMatch, RequestPages, TakenEntry, Mapped
    <2> QED
      BY <2>1, <2>2, PageRefTells, ServeOpenId
  <1>3. CASE \E i \in OpenfileAlloc : opentab' = [opentab EXCEPT ![i].id = NextId(i)]
               /\ page' = [page EXCEPT ![i] = [id |-> 0, offset |-> 0]] /\ Answer("error", Nothing)
    <2>1. PICK i \in OpenfileAlloc : opentab' = [opentab EXCEPT ![i].id = NextId(i)]
               /\ page' = [page EXCEPT ![i] = [id |-> 0, offset |-> 0]] /\ Answer("error", Nothing)
      BY <1>3
    <2>2. i \in Entry /\ opentab \in [Entry -> [id : 0 .. IdMod - 1, file : File \cup {Nothing}]]
      BY <1>2 DEF Inv, TypeOK
    <2>3. [opentab[i] EXCEPT !.id = NextId(i)] = [id |-> NextId(i), file |-> opentab[i].file]
      BY <2>2
    <2>4. opentab' = [opentab EXCEPT ![i] = [id |-> NextId(i), file |-> opentab[i].file]]
      BY <2>1, <2>2, <2>3
    <2>5. 0 \in 0 .. IdMod - 1 /\ opentab[i].file \in File \cup {Nothing} /\ ~Mapped(i)
      BY <1>2, <2>2, IdModAssumption, MaxOpenAssumption
    <2> QED
      BY <2>1, <2>2, <2>4, <2>5 DEF Answer
  <1> QED
    BY <1>1, <1>2, <1>3 DEF ServeOpen, Answer

\* What serve_read and serve_stat do: nothing, or they move an offset.
LEMMA ServeFileCases ==
  ASSUME Inv, ServeFile
  PROVE  \/ UNCHANGED page /\ Lookup(buf[fsreq].id) = {}
            /\ srv' = [srv EXCEPT !.pc = "reply", !.r = "error", !.pg = Nothing]
         \/ \E i \in Lookup(buf[fsreq].id), r \in {0, 1} :
                /\ page[i] # Nothing /\ Mapped(i)
                /\ page[i].offset + r <= FileSize
                /\ page' = [page EXCEPT ![i].offset = @ + r]
                /\ srv' = [srv EXCEPT !.pc = "reply", !.r = "done", !.pg = Nothing]
  <1>1. CASE Lookup(buf[fsreq].id) = {} /\ Answer("error", Nothing) /\ UNCHANGED page
    BY <1>1 DEF Answer
  <1>2. ASSUME NEW i \in Lookup(buf[fsreq].id), Answer("done", Nothing),
               page' = [page EXCEPT ![i].offset
                          = @ + (IF page[i].offset < FileSize /\ srv.req = "read" THEN 1 ELSE 0)]
        PROVE  \E r \in {0, 1} :
                /\ page[i] # Nothing /\ Mapped(i)
                /\ page[i].offset + r <= FileSize
                /\ page' = [page EXCEPT ![i].offset = @ + r]
                /\ srv' = [srv EXCEPT !.pc = "reply", !.r = "done", !.pg = Nothing]
    <2> DEFINE r == IF page[i].offset < FileSize /\ srv.req = "read" THEN 1 ELSE 0
    <2>1. i \in Entry /\ i = buf[fsreq].id % MAXOPEN /\ PageRef(i) # 1
      BY <1>2 DEF Lookup
    <2>2. page[i] # Nothing
      BY <2>1 DEF Inv, ServeFile, Serves, ServerInv, Busy, ServedClient, TableInv, PagesMatch, RequestPages, TakenEntry, Asking
    <2>3. Mapped(i)
      BY <2>1, <2>2, PageRefTells
    <2>4. page[i].offset + r <= FileSize
      BY <2>1, <2>2, SizeAssumption DEF Inv, LocalTypeOK
    <2> QED
      BY <1>2, <2>2, <2>3, <2>4 DEF Answer
  <1> QED
    BY <1>1, <1>2 DEF ServeFile

LEMMA NextTypeOK ==
  ASSUME Inv, [Next]_vars
  PROVE  TypeOK'
  <1> USE DEF Inv
  <1>1. ASSUME NEW c \in Client, NEW f \in File, Open(c, f) PROVE TypeOK'
    BY <1>1 DEF Open, Ready, Calling, TypeOK, LocalTypeOK, table
  <1>2. ASSUME NEW c \in Client, NEW n \in FdNum, NEW type \in {"read", "stat", "flush"}, FdCall(c, n, type)
        PROVE  TypeOK'
    BY <1>2 DEF FdCall, Ready, Calling, TypeOK, LocalTypeOK, table
  <1>3. ASSUME NEW c \in Client, StaleRead(c) PROVE TypeOK'
    BY <1>3 DEF StaleRead, Ready, Calling, TypeOK, LocalTypeOK, table
  <1>4. ASSUME NEW c \in Client, NEW d \in Client, Fork(c, d) PROVE TypeOK'
    BY <1>4 DEF Fork, Ready, TypeOK, table
  <1>5. ASSUME NEW c \in Client, Send(c) PROVE TypeOK'
    <2>1. cl[c].call \in Type
      BY <1>5 DEF Send, ClientInv, ClientOK
    <2>2. Receive(c, cl[c].call, TRUE, ipc[FS]) \in IpcFields
      BY <2>1, IpcTyped, ReceiveTyped
    <2>3. ipc' \in [Client \cup {FS} -> IpcFields]
      BY <1>5, <2>2, IpcTyped DEF Send
    <2>4. \A d \in Client : cl'[d].pc \in {"user", "send", "recv", "wait"}
      BY <1>5 DEF Send, LocalTypeOK
    <2> QED
      BY <1>5, <2>3, <2>4 DEF Send, IpcFields, TypeOK, table
  <1>6. ASSUME NEW c \in Client, Recv(c) PROVE TypeOK'
    <2>1. cl[c].call = "open" => cl[c].n \in FdNum
      BY <1>6 DEF Recv, ClientInv, ClientOK, Asking, Unanswered
    <2> DEFINE dstva == IF cl[c].call = "open" THEN cl[c].n ELSE Nothing
    <2>2. [ipc[c] EXCEPT !.recving = TRUE, !.dstva = dstva] \in IpcFields
      BY <2>1, IpcTyped, RecvTyped
    <2>3. ipc' = [ipc EXCEPT ![c] = [ipc[c] EXCEPT !.recving = TRUE, !.dstva = dstva]]
      BY <1>6, IpcTyped DEF Recv, IpcFields
    <2>4. ipc' \in [Client \cup {FS} -> IpcFields]
      BY <2>2, <2>3, IpcTyped
    <2>5. \A d \in Client : cl'[d].pc \in {"user", "send", "recv", "wait"}
      BY <1>6 DEF Recv, LocalTypeOK
    <2> QED
      BY <1>6, <2>4, <2>5 DEF Recv, IpcFields, TypeOK, table
  <1>7. ASSUME NEW c \in Client, Return(c) PROVE TypeOK'
    <2>1. ipc' \in [Client \cup {FS} -> IpcFields]
      BY <1>7, ConsumedIpcTyped DEF Return
    <2>2. fds' \in [Client -> [FdNum -> Entry \cup {Nothing}]]
      BY <1>7 DEF Return, TypeOK
    <2> QED
      BY <1>7, <2>1, <2>2 DEF Return, ClientUser, IpcFields, TypeOK, table
  <1>8. ASSUME NEW c \in Client, Exit(c) PROVE TypeOK'
    BY <1>8 DEF Exit, Ready, EnvFree, ClientUser, IpcNone, TypeOK, table
  <1>9. CASE ServeRecv
    <2>1. ipc' = [ipc EXCEPT ![FS] = [ipc[FS] EXCEPT !.recving = TRUE, !.dstva = FS]]
      BY <1>9, IpcTyped DEF ServeRecv, IpcFields
    <2>2. ipc' \in [Client \cup {FS} -> IpcFields]
      BY <2>1, IpcTyped, RecvTyped
    <2> QED
      BY <1>9, <2>2 DEF ServeRecv, IpcFields, TypeOK, LocalTypeOK, table
  <1>10. CASE ServeGot
    <2>1. ipc' \in [Client \cup {FS} -> IpcFields]
      BY <1>10, ConsumedIpcTyped DEF ServeGot
    <2> QED
      BY <1>10, <2>1 DEF ServeGot, ServerRecv, IpcFields, TypeOK, table
  <1>11. CASE ServeOpen
    <2>1. CASE UNCHANGED table
      BY <1>11, <2>1 DEF ServeOpen, Answer, TypeOK, LocalTypeOK, table
    <2>2. ASSUME NEW i \in Entry, NEW file \in File \cup {Nothing}, NEW id \in 0 .. IdMod - 1,
                 opentab' = [opentab EXCEPT ![i] = [id |-> NextId(i), file |-> file]],
                 page' = [page EXCEPT ![i] = [id |-> id, offset |-> 0]]
          PROVE  TypeOK'
      <3>1. NextId(i) \in 0 .. IdMod - 1 /\ NextId(i) % MAXOPEN = i
        BY <1>11, ServeOpenId
      <3>2. opentab' \in [Entry -> [id : 0 .. IdMod - 1, file : File \cup {Nothing}]]
        BY <2>2, <3>1 DEF TypeOK
      <3>3. \A j \in Entry : opentab'[j].id % MAXOPEN = j
        BY <2>2, <3>1 DEF TypeOK
      <3>4. \A j \in Entry : page'[j] \in [id : 0 .. IdMod - 1, offset : 0 .. FileSize] \cup {Nothing}
        BY <2>2, SizeAssumption DEF LocalTypeOK
      <3> QED
        BY <1>11, <3>2, <3>3, <3>4 DEF ServeOpen, Answer, TypeOK, LocalTypeOK
    <2> QED
      BY <1>11, <2>1, <2>2, ServeOpenCases
  <1>12. CASE ServeFile
    <2>1. CASE UNCHANGED page
      BY <1>12, <2>1 DEF ServeFile, Answer, TypeOK, LocalTypeOK
    <2>2. ASSUME NEW i \in Entry, NEW r \in {0, 1}, page[i] # Nothing, page[i].offset + r <= FileSize,
                 page' = [page EXCEPT ![i].offset = @ + r]
          PROVE  TypeOK'
      <3>1. page[i] \in [id : 0 .. IdMod - 1, offset : 0 .. FileSize]
        BY <2>2 DEF LocalTypeOK
      <3>2. page[i].offset + r \in 0 .. FileSize
        BY <2>2, <3>1, SizeAssumption
      <3>3. [page[i] EXCEPT !.offset = @ + r] \in [id : 0 .. IdMod - 1, offset : 0 .. FileSize]
        BY <3>1, <3>2
      <3>4. \A j \in Entry : page'[j] \in [id : 0 .. IdMod - 1, offset : 0 .. FileSize] \cup {Nothing}
        BY <2>2, <3>3 DEF LocalTypeOK
      <3> QED
        BY <1>12, <3>4 DEF ServeFile, Answer, TypeOK, LocalTypeOK
    <2>3. \A i \in Lookup(buf[fsreq].id) : i \in Entry
      BY DEF Lookup
    <2> QED
      BY <1>12, <2>1, <2>2, <2>3, ServeFileCases
  <1>13. CASE ServeFlush
    BY <1>13 DEF ServeFlush, Answer, TypeOK, LocalTypeOK, table
  <1>14. CASE ServeReply
    <2>1. srv.whom \in Client /\ srv.r \in Answers
      BY <1>14 DEF ServeReply, ServerInv, Busy, ServedClient, LocalTypeOK
    <2>2. Receive(FS, srv.r, srv.pg # Nothing, ipc[srv.whom]) \in IpcFields
      BY <2>1, IpcTyped, ReceiveTyped
    <2>3. ipc' \in [Client \cup {FS} -> IpcFields]
      BY <1>14, <2>1, <2>2, IpcTyped DEF ServeReply
    <2>4. fds' \in [Client -> [FdNum -> Entry \cup {Nothing}]]
      BY <1>14, <2>1 DEF ServeReply, TypeOK, LocalTypeOK
    <2> QED
      BY <1>14, <2>3, <2>4 DEF ServeReply, IpcFields, TypeOK, LocalTypeOK, table
  <1>15. CASE ServeUnmap
    BY <1>15 DEF ServeUnmap, ServerRecv, TypeOK, table
  <1>16. CASE UNCHANGED vars
    BY <1>16 DEF vars, table, TypeOK
  <1> QED
    BY <1>1, <1>2, <1>3, <1>4, <1>5, <1>6, <1>7, <1>8, <1>9, <1>10, <1>11, <1>12, <1>13, <1>14, <1>15, <1>16
    DEF Next, Server, ClientCall, ClientStep

LEMMA NextLocalTypeOK ==
  ASSUME Inv, [Next]_vars
  PROVE  LocalTypeOK'
  <1> USE DEF Inv, Type
  <1>1. ASSUME NEW c \in Client, NEW f \in File, Open(c, f) PROVE LocalTypeOK'
    BY <1>1 DEF Open, Ready, Calling, FdAlloc, LocalTypeOK, table
  <1>2. ASSUME NEW c \in Client, NEW n \in FdNum, NEW type \in {"read", "stat", "flush"}, FdCall(c, n, type)
        PROVE  LocalTypeOK'
    <2>1. page[fds[c][n]].id \in 0 .. IdMod - 1
      BY <1>2, NothingAssumption DEF FdCall, TypeOK, TableInv, PagesMatch, RequestPages, TakenEntry
    <2> QED
      BY <1>2, <2>1 DEF FdCall, Ready, Calling, LocalTypeOK, table
  <1>3. ASSUME NEW c \in Client, StaleRead(c) PROVE LocalTypeOK'
    <2>1. \A i \in Entry : opentab[i].id \in 0 .. IdMod - 1
      BY DEF TypeOK
    <2>2. [Calling("read", 0) EXCEPT !.stale = TRUE]
              \in [pc : {"user", "send", "recv", "wait"}, call : Type \cup {"none"},
                   n : FdNum \cup {0}, stale : BOOLEAN]
      BY DEF Calling
    <2>3. cl' \in [Client -> [pc : {"user", "send", "recv", "wait"}, call : Type \cup {"none"},
                              n : FdNum \cup {0}, stale : BOOLEAN]]
      BY <1>3, <2>2 DEF StaleRead, LocalTypeOK
    <2>4. buf' \in [Client -> [file : File] \cup [id : 0 .. IdMod - 1] \cup {Nothing}]
      BY <1>3, <2>1 DEF StaleRead, LocalTypeOK
    <2> QED
      BY <1>3, <2>3, <2>4 DEF StaleRead, LocalTypeOK, table
  <1>4. ASSUME NEW c \in Client, NEW d \in Client, Fork(c, d) PROVE LocalTypeOK'
    BY <1>4 DEF Fork, LocalTypeOK, table
  <1>5. ASSUME NEW c \in Client, Send(c) PROVE LocalTypeOK'
    <2>1. [cl[c] EXCEPT !.pc = "recv"] \in [pc : {"user", "send", "recv", "wait"}, call : Type \cup {"none"},
                                           n : FdNum \cup {0}, stale : BOOLEAN]
      BY DEF LocalTypeOK
    <2> QED
      BY <1>5, <2>1 DEF Send, LocalTypeOK, table
  <1>6. ASSUME NEW c \in Client, Recv(c) PROVE LocalTypeOK'
    <2>1. [cl[c] EXCEPT !.pc = "wait"] \in [pc : {"user", "send", "recv", "wait"}, call : Type \cup {"none"},
                                           n : FdNum \cup {0}, stale : BOOLEAN]
      BY DEF LocalTypeOK
    <2> QED
      BY <1>6, <2>1 DEF Recv, LocalTypeOK, table
  <1>7. ASSUME NEW c \in Client, Return(c) PROVE LocalTypeOK'
    BY <1>7 DEF Return, ClientUser, LocalTypeOK, table
  <1>8. ASSUME NEW c \in Client, Exit(c) PROVE LocalTypeOK'
    BY <1>8 DEF Exit, EnvFree, ClientUser, LocalTypeOK, table
  <1>9. CASE ServeRecv
    BY <1>9 DEF ServeRecv, LocalTypeOK, table
  <1>10. CASE ServeGot
    <2>1. ipc[FS].from \in Client /\ ipc[FS].value \in Type
      BY <1>10 DEF ServeGot, ServerInv, Busy, ServedClient, Unanswered, ClientInv, ClientOK
    <2>2. srv' \in [pc : {"recv", "wait", "serve", "reply", "unmap"}, req : Type \cup {Nothing},
                    whom : Client \cup {Nothing}, r : Answers, pg : Entry \cup {Nothing}]
      BY <1>10, <2>1 DEF ServeGot, ServerRecv, Answers
    <2> QED
      BY <1>10, <2>2 DEF ServeGot, LocalTypeOK, table
  <1>11. CASE ServeOpen
    <2>1. srv' \in [pc : {"recv", "wait", "serve", "reply", "unmap"}, req : Type \cup {Nothing},
                    whom : Client \cup {Nothing}, r : Answers, pg : Entry \cup {Nothing}]
      BY <1>11, ServeOpenCases, ZenonT(60) DEF LocalTypeOK, Answers
    <2>2. page' \in [Entry -> [id : 0 .. IdMod - 1, offset : 0 .. FileSize] \cup {Nothing}]
      <3>1. ASSUME NEW id \in 0 .. IdMod - 1
            PROVE  [id |-> id, offset |-> 0] \in [id : 0 .. IdMod - 1, offset : 0 .. FileSize]
        BY SizeAssumption
      <3>2. CASE UNCHANGED table
        BY <3>2 DEF LocalTypeOK, table
      <3>3. CASE \E i \in Entry, id \in 0 .. IdMod - 1 : page' = [page EXCEPT ![i] = [id |-> id, offset |-> 0]]
        BY <3>1, <3>3 DEF LocalTypeOK
      <3> QED
        BY <1>11, <3>2, <3>3, ServeOpenCases
    <2> QED
      BY <1>11, <2>1, <2>2 DEF ServeOpen, LocalTypeOK
  <1>12. CASE ServeFile
    <2>1. srv' \in [pc : {"recv", "wait", "serve", "reply", "unmap"}, req : Type \cup {Nothing},
                    whom : Client \cup {Nothing}, r : Answers, pg : Entry \cup {Nothing}]
      BY <1>12, ServeFileCases, ZenonT(60) DEF LocalTypeOK, Answers
    <2>2. page' \in [Entry -> [id : 0 .. IdMod - 1, offset : 0 .. FileSize] \cup {Nothing}]
      <3>1. ASSUME NEW i \in Entry, NEW r \in {0, 1}, page[i] # Nothing, page[i].offset + r <= FileSize
            PROVE  [page[i] EXCEPT !.offset = @ + r] \in [id : 0 .. IdMod - 1, offset : 0 .. FileSize]
        BY <3>1, SizeAssumption DEF LocalTypeOK
      <3>2. \A i \in Lookup(buf[fsreq].id) : i \in Entry
        BY DEF Lookup
      <3>3. CASE \E i \in Lookup(buf[fsreq].id), r \in {0, 1} :
                     /\ page[i] # Nothing /\ page[i].offset + r <= FileSize
                     /\ page' = [page EXCEPT ![i].offset = @ + r]
        <4>1. PICK i \in Entry, r \in {0, 1} :
                     /\ page[i] # Nothing /\ page[i].offset + r <= FileSize
                     /\ page' = [page EXCEPT ![i].offset = @ + r]
          BY <3>2, <3>3
        <4>2. page' = [page EXCEPT ![i] = [page[i] EXCEPT !.offset = @ + r]]
          BY <4>1
        <4> QED
          BY <3>1, <4>1, <4>2 DEF LocalTypeOK
      <3> QED
        BY <1>12, <3>3, ServeFileCases DEF LocalTypeOK
    <2> QED
      BY <1>12, <2>1, <2>2 DEF ServeFile, LocalTypeOK
  <1>13. CASE ServeFlush
    BY <1>13 DEF ServeFlush, Answer, Answers, LocalTypeOK, table
  <1>14. CASE ServeReply
    BY <1>14 DEF ServeReply, LocalTypeOK, table
  <1>15. CASE ServeUnmap
    BY <1>15 DEF ServeUnmap, ServerRecv, Answers, LocalTypeOK, table
  <1>16. CASE UNCHANGED vars
    BY <1>16 DEF vars, table, LocalTypeOK
  <1> QED
    BY <1>1, <1>2, <1>3, <1>4, <1>5, <1>6, <1>7, <1>8, <1>9, <1>10, <1>11, <1>12, <1>13, <1>14, <1>15, <1>16
    DEF Next, Server, ClientCall, ClientStep

LEMMA NextClientInv ==
  ASSUME Inv, [Next]_vars
  PROVE  ClientInv'
  <1> USE NothingAssumption, ServerAssumption DEF Inv, ClientInv, Asking, Unanswered, Type
  <1>1. ASSUME NEW c \in Client, NEW f \in File, Open(c, f) PROVE ClientInv'
    <2>1. PICK n \in FdAlloc(c) : cl' = [cl EXCEPT ![c] = Calling("open", n)]
      BY <1>1 DEF Open
    <2>2. n \in FdNum /\ fds[c][n] = Nothing
      BY DEF FdAlloc
    <2>3. /\ cl'[c] = [pc |-> "send", call |-> "open", n |-> n, stale |-> FALSE]
          /\ buf'[c] = [file |-> f] /\ env[c] = "LIVE" /\ ~ipc[c].recving
          /\ UNCHANGED <<env, fds, ipc>>
      BY <1>1, <2>1 DEF Open, Ready, Calling, ClientOK, LocalTypeOK
    <2>5. ClientOK(c)'
      BY <2>2, <2>3 DEF ClientOK
    <2>4. \A d \in Client \ {c} : ClientOK(d)'
      BY <1>1, <2>1 DEF Open, ClientOK, TypeOK, LocalTypeOK
    <2> QED
      BY <2>4, <2>5
  <1>2. ASSUME NEW c \in Client, NEW n \in FdNum, NEW type \in {"read", "stat", "flush"}, FdCall(c, n, type)
        PROVE  ClientInv'
    <2>1. page[fds[c][n]].id \in 0 .. IdMod - 1
      BY <1>2 DEF FdCall, TypeOK, TableInv, PagesMatch, RequestPages, TakenEntry
    <2>2. /\ cl'[c] = [pc |-> "send", call |-> type, n |-> n, stale |-> FALSE]
          /\ buf'[c] = [id |-> page[fds[c][n]].id] /\ env[c] = "LIVE" /\ ~ipc[c].recving
          /\ UNCHANGED <<env, fds, ipc>>
      BY <1>2 DEF FdCall, Ready, Calling, ClientOK, LocalTypeOK
    <2>3. ClientOK(c)'
      BY <2>1, <2>2 DEF ClientOK
    <2>4. \A d \in Client \ {c} : ClientOK(d)'
      BY <1>2 DEF FdCall, ClientOK, TypeOK, LocalTypeOK
    <2> QED
      BY <2>3, <2>4
  <1>3. ASSUME NEW c \in Client, StaleRead(c) PROVE ClientInv'
    <2>1. PICK id \in 0 .. IdMod - 1 : buf' = [buf EXCEPT ![c] = [id |-> id]]
      BY <1>3 DEF StaleRead, TypeOK
    <2>2. /\ cl'[c].pc = "send" /\ cl'[c].call = "read"
          /\ buf' = [buf EXCEPT ![c] = [id |-> id]]
          /\ buf'[c] = [id |-> id] /\ env[c] = "LIVE" /\ ~ipc[c].recving
          /\ UNCHANGED <<env, fds, ipc>>
      BY <1>3, <2>1 DEF StaleRead, Ready, Calling, ClientOK, LocalTypeOK
    <2>3. ClientOK(c)'
      BY <2>1, <2>2 DEF ClientOK
    <2>4. \A d \in Client \ {c} : ClientOK(d)'
      BY <1>3, <2>1, <2>2 DEF StaleRead, ClientOK, TypeOK, LocalTypeOK
    <2> QED
      BY <2>3, <2>4
  <1>4. ASSUME NEW c \in Client, NEW d \in Client, Fork(c, d) PROVE ClientInv'
    BY <1>4 DEF Fork, Ready, ClientOK, TypeOK, LocalTypeOK
  <1>5. ASSUME NEW c \in Client, Send(c) PROVE ClientInv'
    BY <1>5 DEF Send, Receive, ClientOK, TypeOK, LocalTypeOK
  <1>6. ASSUME NEW c \in Client, Recv(c) PROVE ClientInv'
    BY <1>6 DEF Recv, ClientOK, TypeOK, LocalTypeOK
  <1>7. ASSUME NEW c \in Client, Return(c) PROVE ClientInv'
    BY <1>7 DEF Return, ClientUser, Consumed, ClientOK, TypeOK, LocalTypeOK
  <1>8. ASSUME NEW c \in Client, Exit(c) PROVE ClientInv'
    BY <1>8 DEF Exit, Ready, EnvFree, ClientUser, IpcNone, ClientOK, TypeOK, LocalTypeOK
  <1>9. CASE ServeRecv
    BY <1>9 DEF ServeRecv, ClientOK, TypeOK
  <1>10. CASE ServeGot
    BY <1>10 DEF ServeGot, Consumed, ClientOK, TypeOK
  <1>11. CASE ServeOpen
    BY <1>11 DEF ServeOpen, ClientOK
  <1>12. CASE ServeFile
    BY <1>12 DEF ServeFile, ClientOK
  <1>13. CASE ServeFlush
    BY <1>13 DEF ServeFlush, ClientOK
  <1>14. CASE ServeReply
    <2>1. PICK c \in Client : c = srv.whom /\ Unanswered(c)
      BY <1>14 DEF ServeReply, ServerInv, Busy, ServedClient
    <2>2. ClientOK(c)'
      BY <1>14, <2>1 DEF ServeReply, Receive, ClientOK, TypeOK, LocalTypeOK
    <2>3. \A d \in Client \ {c} : ClientOK(d)'
      BY <1>14, <2>1 DEF ServeReply, ClientOK, TypeOK, LocalTypeOK
    <2> QED
      BY <2>1, <2>2, <2>3
  <1>15. CASE ServeUnmap
    BY <1>15 DEF ServeUnmap, ClientOK
  <1>16. CASE UNCHANGED vars
    BY <1>16, SMTT(30) DEF vars, ClientOK
  <1> QED
    BY <1>1, <1>2, <1>3, <1>4, <1>5, <1>6, <1>7, <1>8, <1>9, <1>10, <1>11, <1>12, <1>13, <1>14, <1>15, <1>16
    DEF Next, Server, ClientCall, ClientStep

LEMMA NextServerInv ==
  ASSUME Inv, [Next]_vars
  PROVE  ServerInv'
  <1> USE ServerAssumption DEF Inv, ServerInv, Busy, ServedClient, Unanswered
  <1>1. ASSUME NEW c \in Client, NEW f \in File, Open(c, f) PROVE ServerInv'
    BY <1>1 DEF Open, Ready, Calling, ClientInv, ClientOK, TypeOK, LocalTypeOK
  <1>2. ASSUME NEW c \in Client, NEW n \in FdNum, NEW type \in {"read", "stat", "flush"}, FdCall(c, n, type)
        PROVE  ServerInv'
    BY <1>2 DEF FdCall, Ready, Calling, ClientInv, ClientOK, TypeOK, LocalTypeOK
  <1>3. ASSUME NEW c \in Client, StaleRead(c) PROVE ServerInv'
    BY <1>3 DEF StaleRead, Ready, Calling, ClientInv, ClientOK, TypeOK, LocalTypeOK
  <1>4. ASSUME NEW c \in Client, NEW d \in Client, Fork(c, d) PROVE ServerInv'
    BY <1>4 DEF Fork
  <1>5. ASSUME NEW c \in Client, Send(c) PROVE ServerInv'
    BY <1>5, SMTT(30) DEF Send, Receive, ClientInv, ClientOK, TypeOK, LocalTypeOK
  <1>6. ASSUME NEW c \in Client, Recv(c) PROVE ServerInv'
    BY <1>6, SMTT(30) DEF Recv, ClientInv, ClientOK, TypeOK, LocalTypeOK
  <1>7. ASSUME NEW c \in Client, Return(c) PROVE ServerInv'
    BY <1>7 DEF Return, ClientUser, Consumed, ClientInv, ClientOK, TypeOK, LocalTypeOK
  <1>8. ASSUME NEW c \in Client, Exit(c) PROVE ServerInv'
    BY <1>8 DEF Exit, Ready, EnvFree, ClientUser, IpcNone, ClientInv, ClientOK, TypeOK, LocalTypeOK
  <1>9. CASE ServeRecv
    BY <1>9 DEF ServeRecv, TypeOK, LocalTypeOK
  <1>10. CASE ServeGot
    BY <1>10 DEF ServeGot, ServerRecv, Consumed, TypeOK
  <1>11. CASE ServeOpen
    BY <1>11, Answering
  <1>12. CASE ServeFile
    BY <1>12, Answering
  <1>13. CASE ServeFlush
    BY <1>13, Answering
  <1>14. CASE ServeReply
    <2>1. PICK c \in Client : c = srv.whom /\ Unanswered(c)
      BY <1>14 DEF ServeReply
    <2>2. ~Unanswered(c)'
      BY <1>14, <2>1 DEF ServeReply, Receive, ClientInv, ClientOK, TypeOK
    <2>3. \A d \in Client \ {c} : ~Unanswered(d)'
      BY <1>14, <2>1 DEF ServeReply, TypeOK
    <2>4. srv'.pc = "unmap" /\ ~ipc'[FS].recving
      BY <1>14, <2>1 DEF ServeReply, TypeOK, LocalTypeOK
    <2> QED
      BY <2>2, <2>3, <2>4
  <1>15. CASE ServeUnmap
    BY <1>15 DEF ServeUnmap, ServerRecv, TypeOK
  <1>16. CASE UNCHANGED vars
    BY <1>16 DEF vars
  <1> QED
    BY <1>1, <1>2, <1>3, <1>4, <1>5, <1>6, <1>7, <1>8, <1>9, <1>10, <1>11, <1>12, <1>13, <1>14, <1>15, <1>16
    DEF Next, Server, ClientCall, ClientStep

\* A client inside a call keeps its request until the answer comes.
LEMMA RequestKept ==
  ASSUME Inv, NEW c \in Client, Send(c) \/ Recv(c) \/ Return(c) \/ Exit(c)
  PROVE  /\ \A d \in Client : Asking(d)' =>
                /\ Asking(d) /\ cl'[d].call = cl[d].call /\ cl'[d].n = cl[d].n
                /\ cl'[d].stale = cl[d].stale /\ buf'[d] = buf[d]
         /\ srv.pc \in {"serve", "reply"} => Unanswered(srv.whom) /\ Asking(srv.whom)'
                /\ srv.whom \in Client
         /\ UNCHANGED <<opentab, page, srv>>
  <1> USE ServerAssumption DEF Inv, LocalTypeOK, Asking, Unanswered
  <1>1. \A d \in Client \ {c} : cl'[d] = cl[d] /\ ipc'[d] = ipc[d] /\ buf'[d] = buf[d]
    BY ZenonT(60) DEF Send, Recv, Return, Exit, EnvFree, Consumed, TypeOK
  <1>2. Asking(c)' => /\ Asking(c) /\ cl'[c].call = cl[c].call /\ cl'[c].n = cl[c].n
                      /\ cl'[c].stale = cl[c].stale /\ buf'[c] = buf[c]
    <2>1. CASE Send(c) \/ Recv(c)
      <3>1. PICK pc \in {"recv", "wait"} : cl' = [cl EXCEPT ![c].pc = pc]
        BY <2>1 DEF Send, Recv
      <3>2. cl'[c].call = cl[c].call /\ cl'[c].n = cl[c].n /\ cl'[c].stale = cl[c].stale
        BY <3>1
      <3>3. UNCHANGED buf /\ Asking(c)
        BY <2>1 DEF Send, Recv
      <3> QED
        BY <3>2, <3>3
    <2>2. CASE Return(c) \/ Exit(c)
      <3>1. cl'[c] = ClientUser
        BY <2>2 DEF Return, Exit, EnvFree
      <3> QED
        BY <3>1 DEF ClientUser
    <2> QED
      BY <2>1, <2>2
  <1>3. srv.pc \in {"serve", "reply"} => srv.whom \in Client /\ Unanswered(srv.whom)
    BY DEF ServerInv, Busy, ServedClient
  <1>4. Unanswered(c) => Asking(c)'
    <2>1. CASE Send(c)
      BY <2>1 DEF Send
    <2>2. CASE Recv(c)
      <3>1. cl'[c].pc = "wait" /\ ipc'[c].recving
        BY <2>2, IpcTyped DEF Recv, IpcFields
      <3> QED
        BY <3>1
    <2> QED
      BY <2>1, <2>2 DEF Return, Exit, Ready
  <1>5. UNCHANGED <<opentab, page, srv>>
    BY DEF Send, Recv, Return, Exit, EnvFree, table
  <1> QED
    BY <1>1, <1>2, <1>3, <1>4, <1>5

LEMMA NextTableInv ==
  ASSUME Inv, [Next]_vars
  PROVE  TableInv'
  <1> USE NothingAssumption, ServerAssumption DEF Inv, TableInv, PagesMatch, RequestPages, TakenEntry, Asking, Unanswered
  <1>1. ASSUME NEW c \in Client, NEW f \in File, Open(c, f) PROVE TableInv'
    <2>1. PICK n \in FdAlloc(c) : cl' = [cl EXCEPT ![c] = Calling("open", n)]
      BY <1>1 DEF Open
    <2>2. srv.pc = "reply" => srv.whom \in Client \ {c}
      BY <1>1, SMTT(30) DEF Open, Ready, ServerInv, Busy, ServedClient
    <2> QED
      BY <1>1, <2>1, <2>2 DEF Open, Calling, LocalTypeOK, table, Mapped
  <1>2. ASSUME NEW c \in Client, NEW n \in FdNum, NEW type \in {"read", "stat", "flush"}, FdCall(c, n, type)
        PROVE  TableInv'
    <2>1. srv.pc = "reply" => srv.whom \in Client \ {c}
      BY <1>2 DEF FdCall, Ready, ServerInv, Busy, ServedClient
    <2>2. page[page[fds[c][n]].id % MAXOPEN] # Nothing
      BY <1>2 DEF FdCall, TypeOK
    <2>3. buf' = [buf EXCEPT ![c] = [id |-> page[fds[c][n]].id]] /\ UNCHANGED <<fds, opentab, page, srv>>
      BY <1>2 DEF FdCall, table
    <2>4. cl' = [cl EXCEPT ![c] = [pc |-> "send", call |-> type, n |-> n, stale |-> FALSE]] /\ UNCHANGED ipc
      BY <1>2 DEF FdCall, Calling
    <2> QED
      BY <2>1, <2>2, <2>3, <2>4 DEF LocalTypeOK, Mapped
  <1>3. ASSUME NEW c \in Client, StaleRead(c) PROVE TableInv'
    <2>1. srv.pc = "reply" => srv.whom \in Client \ {c}
      BY <1>3 DEF StaleRead, Ready, ServerInv, Busy, ServedClient
    <2>2. PICK i \in Entry : PageRef(i) = 1 /\ srv.pg # i /\ buf' = [buf EXCEPT ![c] = [id |-> opentab[i].id]]
      BY <1>3 DEF StaleRead
    <2>3. page[opentab[i].id % MAXOPEN] # Nothing
      <3>1. opentab[i].id % MAXOPEN = i
        BY DEF TypeOK
      <3> QED
        BY <2>2, <3>1, PageRefTells DEF Mapped
    <2>4. UNCHANGED <<fds, opentab, page, srv, ipc>> /\ \A d \in Client \ {c} : cl'[d] = cl[d]
      BY <1>3 DEF StaleRead, table, LocalTypeOK
    <2> QED
      BY <2>1, <2>2, <2>3, <2>4 DEF LocalTypeOK, Mapped
  <1>4. ASSUME NEW c \in Client, NEW d \in Client, Fork(c, d) PROVE TableInv'
    BY <1>4 DEF Fork, table, TypeOK, Mapped
  <1>5. ASSUME NEW c \in Client, Send(c) \/ Recv(c) \/ Return(c) \/ Exit(c) PROVE TableInv'
    <2>1. \A d \in Client, n \in FdNum : fds'[d][n] # Nothing => fds'[d][n] = fds[d][n]
      <3>1. fds \in [Client -> [FdNum -> Entry \cup {Nothing}]]
        BY DEF TypeOK
      <3>2. CASE UNCHANGED fds
        BY <3>2
      <3>3. CASE fds' = [fds EXCEPT ![c][cl[c].n] = Nothing]
        BY <3>1, <3>3
      <3>4. CASE fds' = [fds EXCEPT ![c] = [n \in FdNum |-> Nothing]]
        BY <3>1, <3>4
      <3> QED
        BY <1>5, <3>2, <3>3, <3>4 DEF Send, Recv, Return, Exit, EnvFree
    <2>2. \A i \in Entry : Mapped(i)' => Mapped(i)
      BY <2>1 DEF Mapped
    <2> HIDE DEF Asking, Unanswered
    <2>3. PagesMatch'
      BY <1>5, <2>1, RequestKept
    <2>4. RequestPages'
      BY <1>5, RequestKept
    <2>5. TakenEntry'
      BY <1>5, <2>2, RequestKept DEF LocalTypeOK
    <2> QED
      BY <2>3, <2>4, <2>5
  <1>9. CASE ServeRecv
    BY <1>9 DEF ServeRecv, TypeOK, LocalTypeOK, table
  <1>10. CASE ServeGot
    BY <1>10 DEF ServeGot, ServerRecv, Consumed, TypeOK, LocalTypeOK, table
  <1>11. CASE ServeOpen
    <2>1. CASE UNCHANGED table /\ srv' = [srv EXCEPT !.pc = "reply", !.r = "error", !.pg = Nothing]
      BY <1>11, <2>1, Answering DEF LocalTypeOK, table
    <2>2. ASSUME NEW i \in Entry, NEW file \in File \cup {Nothing}, NEW id \in 0 .. IdMod - 1, ~Mapped(i),
                 opentab' = [opentab EXCEPT ![i] = [id |-> NextId(i), file |-> file]],
                 page' = [page EXCEPT ![i] = [id |-> id, offset |-> 0]],
                 \/ srv' = [srv EXCEPT !.pc = "reply", !.r = "error", !.pg = Nothing]
                 \/ /\ srv' = [srv EXCEPT !.pc = "reply", !.r = "done", !.pg = i]
                    /\ id = NextId(i) /\ file \in File
          PROVE  TableInv'
      <3>1. UNCHANGED <<ipc, fds, buf, cl>> /\ srv'.whom = srv.whom
        BY <1>11, Answering
      <3>2. page'[i] = [id |-> id, offset |-> 0] /\ opentab'[i] = [id |-> NextId(i), file |-> file]
        BY <2>2 DEF TypeOK, LocalTypeOK
      <3>3. \A j \in Entry : j # i => page'[j] = page[j] /\ opentab'[j] = opentab[j]
        BY <2>2 DEF TypeOK, LocalTypeOK
      <3>4. PagesMatch'
        BY <2>2, <3>1, <3>3 DEF TypeOK, Mapped
      <3>5. page'[i] # Nothing
        BY <3>2, SizeAssumption
      <3>6. RequestPages'
        <4>1. \A c \in Client : Asking(c) /\ cl[c].call # "open" => buf[c].id % MAXOPEN \in Entry
          BY Split DEF ClientInv, ClientOK, Entry
        <4> QED
          BY <3>1, <3>3, <3>5, <4>1
      <3>7. cl[srv.whom].call = "open"
        BY <1>11 DEF ServeOpen, Serves, ServerInv
      <3>8. CASE srv' = [srv EXCEPT !.pc = "reply", !.r = "error", !.pg = Nothing]
        BY <3>4, <3>6, <3>8 DEF LocalTypeOK
      <3>9. CASE /\ srv' = [srv EXCEPT !.pc = "reply", !.r = "done", !.pg = i]
                 /\ id = NextId(i) /\ file \in File
        <4>1. srv'.pg = i
          BY <3>9 DEF LocalTypeOK
        <4>2. ~Mapped(i)'
          BY <2>2, <3>1 DEF Mapped
        <4>3. cl'[srv'.whom].call = "open"
          BY <3>1, <3>7
        <4> QED
          BY <3>2, <3>4, <3>6, <3>9, <4>1, <4>2, <4>3
      <3> QED
        BY <2>2, <3>8, <3>9
    <2> QED
      BY <1>11, <2>1, <2>2, ServeOpenCases
  <1>12. CASE ServeFile
    <2>1. UNCHANGED <<ipc, fds, buf, cl, opentab>>
      BY <1>12 DEF ServeFile
    <2>2. srv'.pg = Nothing
      BY <1>12, ServeFileCases DEF LocalTypeOK
    <2>3. \A i \in Entry : /\ page[i] = Nothing <=> page'[i] = Nothing
                           /\ page[i] # Nothing => page'[i].id = page[i].id
      BY <1>12, ServeFileCases DEF LocalTypeOK, Lookup
    <2>4. \A c \in Client : Asking(c) /\ cl[c].call # "open" => buf[c].id % MAXOPEN \in Entry
      BY Split DEF ClientInv, ClientOK, Entry
    <2>5. \A c \in Client, n \in FdNum : fds[c][n] # Nothing => fds[c][n] \in Entry
      BY DEF TypeOK
    <2>6. PagesMatch'
      BY <2>1, <2>3, <2>5
    <2>7. RequestPages'
      BY <2>1, <2>3, <2>4
    <2> QED
      BY <2>2, <2>6, <2>7
  <1>13. CASE ServeFlush
    BY <1>13 DEF ServeFlush, Answer, table, LocalTypeOK
  <1>14. CASE ServeReply
    <2>1. PICK c \in Client : c = srv.whom /\ Unanswered(c)
      BY <1>14 DEF ServeReply, ServerInv, Busy, ServedClient
    <2>2. UNCHANGED <<opentab, page, buf, cl>> /\ srv'.pc = "unmap"
      BY <1>14 DEF ServeReply, table, LocalTypeOK
    <2>3. \A d \in Client : Asking(d)' => Asking(d)
      BY <1>14, <2>1 DEF ServeReply, Receive, TypeOK
    <2>4. \A d \in Client, n \in FdNum : fds'[d][n] # Nothing =>
              fds'[d][n] = fds[d][n] \/ (srv.pg # Nothing /\ fds'[d][n] = srv.pg)
      BY <1>14, <2>1 DEF ServeReply, TypeOK
    <2>5. srv.pg # Nothing => page[srv.pg] # Nothing /\ page[srv.pg].id = opentab[srv.pg].id
      <3>1. CASE srv.pg # Nothing
        <4>1. srv.pg \in Entry /\ page[srv.pg] = [id |-> opentab[srv.pg].id, offset |-> 0]
          BY <1>14, <3>1 DEF ServeReply, LocalTypeOK
        <4>2. [id |-> opentab[srv.pg].id, offset |-> 0] \in [id : 0 .. IdMod - 1, offset : 0 .. FileSize]
          BY <4>1, SizeAssumption DEF TypeOK
        <4> QED
          BY <4>1, <4>2
      <3> QED
        BY <3>1
    <2>6. PagesMatch'
      BY <2>2, <2>4, <2>5
    <2> QED
      BY <2>2, <2>3, <2>6
  <1>15. CASE ServeUnmap
    BY <1>15 DEF ServeUnmap, ServerRecv, table
  <1>16. CASE UNCHANGED vars
    BY <1>16 DEF vars, table, Mapped
  <1> QED
    BY <1>1, <1>2, <1>3, <1>4, <1>5, <1>9, <1>10, <1>11, <1>12, <1>13, <1>14, <1>15, <1>16
    DEF Next, Server, ClientCall, ClientStep

\* The id in an outdated request, and its entry.
LEMMA StaleId ==
  ASSUME Inv, NEW c \in Client, Asking(c), cl[c].stale
  PROVE  buf[c].id \in 0 .. IdMod - 1 /\ buf[c].id % MAXOPEN \in Entry /\ cl[c].call = "read"
  <1>1. buf[c] \in [id : 0 .. IdMod - 1] /\ cl[c].call = "read"
    BY DEF Inv, ClientInv, ClientOK
  <1>2. buf[c].id \in Nat /\ buf[c].id \in 0 .. IdMod - 1
    BY <1>1, IdModAssumption
  <1> QED
    BY <1>1, <1>2, Split DEF Entry

\* Nothing but a new id makes an outdated request good again, and a client
\* gets an entry only from the server's reply.
LEMMA StaleKept ==
  ASSUME Inv, UNCHANGED opentab,
         \A i \in Entry : page'[i] = Nothing => page[i] = Nothing,
         \A i \in Entry : Mapped(i)' => Mapped(i) \/ (srv.pc = "reply" /\ srv.pg = i),
         \A i \in Entry : srv'.pc = "reply" /\ srv'.pg = i => srv.pc = "reply" /\ srv.pg = i,
         NEW c \in Client, Asking(c), cl[c].stale, buf'[c] = buf[c]
  PROVE  Outdated(buf[c].id)'
  <1>1. buf[c].id % MAXOPEN \in Entry /\ Outdated(buf[c].id)
    BY StaleId DEF Inv, StaleInv
  <1> QED
    BY <1>1 DEF Outdated

LEMMA NextStaleInv ==
  ASSUME Inv, [Next]_vars
  PROVE  StaleInv'
  <1> USE DEF StaleInv, StaleRefused
  <1> DEFINE Stale(d) == Asking(d) /\ cl[d].stale
  <1>1. ASSUME NEW c \in Client, (\E f \in File : Open(c, f))
                 \/ \E n \in FdNum, type \in {"read", "stat", "flush"} : FdCall(c, n, type)
        PROVE  StaleInv'
    <2>1. UNCHANGED <<opentab, page, srv, fds>> /\ env[c] = "LIVE" /\ cl[c].pc = "user"
      BY <1>1 DEF Open, FdCall, Ready, table
    <2>2. \A d \in Client : Stale(d)' => Stale(d) /\ buf'[d] = buf[d]
      BY <1>1 DEF Open, FdCall, Calling, Asking, Unanswered, Inv, LocalTypeOK
    <2>3. srv.pc = "reply" => srv.whom \in Client \ {c}
      BY <2>1 DEF Inv, ServerInv, Busy, ServedClient, Unanswered
    <2>4. srv.pc = "reply" => cl'[srv.whom] = cl[srv.whom]
      BY <1>1, <2>3 DEF Open, FdCall, Inv, LocalTypeOK
    <2> QED
      BY <2>1, <2>2, <2>4, StaleKept DEF Mapped, Inv
  <1>2. ASSUME NEW c \in Client, StaleRead(c) PROVE StaleInv'
    <2>1. UNCHANGED <<opentab, page, srv, fds>> /\ cl[c].pc = "user"
      BY <1>2 DEF StaleRead, Ready, table
    <2>2. PICK i \in Entry : PageRef(i) = 1 /\ srv.pg # i /\ buf' = [buf EXCEPT ![c] = [id |-> opentab[i].id]]
      BY <1>2 DEF StaleRead
    <2>3. \A d \in Client \ {c} : Stale(d)' => Stale(d) /\ buf'[d] = buf[d]
      BY <1>2, <2>2 DEF StaleRead, Calling, Asking, Unanswered, Inv, LocalTypeOK
    <2>4. Outdated(buf[c].id)'
      <3>1. buf'[c].id = opentab[i].id /\ opentab[i].id % MAXOPEN = i
        BY <2>2 DEF Inv, TypeOK, LocalTypeOK
      <3>2. page[i] # Nothing /\ ~Mapped(i)
        BY <2>2, PageRefTells, NothingAssumption DEF Inv, TableInv, PagesMatch, Mapped
      <3> QED
        BY <2>1, <2>2, <3>1, <3>2 DEF Outdated, Mapped
    <2>5. srv.pc = "reply" => srv.whom \in Client \ {c}
      BY <2>1 DEF Inv, ServerInv, Busy, ServedClient, Unanswered
    <2>6. srv.pc = "reply" => cl'[srv.whom] = cl[srv.whom]
      BY <1>2, <2>5 DEF StaleRead, Inv, LocalTypeOK
    <2> QED
      BY <2>1, <2>3, <2>4, <2>6, StaleKept DEF Mapped, Inv
  <1>3. ASSUME NEW c \in Client, NEW d \in Client, Fork(c, d) PROVE StaleInv'
    <2>1. UNCHANGED <<opentab, page, srv, cl, buf, ipc>>
      BY <1>3 DEF Fork, table
    <2>2. \A i \in Entry : Mapped(i)' => Mapped(i)
      BY <1>3 DEF Fork, Mapped, Inv, TypeOK
    <2> QED
      BY <2>1, <2>2, StaleKept DEF Asking, Unanswered, Inv
  <1>4. ASSUME NEW c \in Client, Send(c) \/ Recv(c) \/ Return(c) \/ Exit(c) PROVE StaleInv'
    <2>1. \A d \in Client, n \in FdNum : fds'[d][n] \in Entry => fds'[d][n] = fds[d][n]
      <3>1. fds \in [Client -> [FdNum -> Entry \cup {Nothing}]] /\ Nothing \notin Entry
        BY NothingAssumption DEF Inv, TypeOK
      <3>2. CASE UNCHANGED fds
        BY <3>2
      <3>3. CASE fds' = [fds EXCEPT ![c][cl[c].n] = Nothing]
        BY <3>1, <3>3
      <3>4. CASE fds' = [fds EXCEPT ![c] = [n \in FdNum |-> Nothing]]
        BY <3>1, <3>4
      <3> QED
        BY <1>4, <3>2, <3>3, <3>4 DEF Send, Recv, Return, Exit, EnvFree
    <2>2. \A i \in Entry : Mapped(i)' => Mapped(i)
      BY <2>1 DEF Mapped
    <2>3. UNCHANGED <<opentab, page, srv>> /\ \A d \in Client : Stale(d)' => Stale(d) /\ buf'[d] = buf[d]
      BY <1>4, RequestKept
    <2>4. srv.pc = "reply" => cl'[srv.whom].stale = cl[srv.whom].stale
      BY <1>4, RequestKept
    <2> QED
      BY <2>2, <2>3, <2>4, StaleKept DEF Inv
  <1>5. CASE ServeRecv \/ ServeGot \/ ServeUnmap
    <2>1. UNCHANGED <<opentab, page, fds, cl, buf>>
      BY <1>5 DEF ServeRecv, ServeGot, ServeUnmap, table
    <2>2. srv'.pc # "reply"
      <3>1. CASE ServeRecv
        BY <3>1 DEF ServeRecv, Inv, LocalTypeOK
      <3>2. CASE ServeGot
        BY <3>2 DEF ServeGot, ServerRecv
      <3>3. CASE ServeUnmap
        BY <3>3 DEF ServeUnmap, ServerRecv
      <3> QED
        BY <1>5, <3>1, <3>2, <3>3
    <2>3. \A c \in Client : ipc'[c] = ipc[c]
      BY <1>5, ServerAssumption DEF ServeRecv, ServeGot, ServeUnmap, Consumed, Inv, TypeOK
    <2> QED
      BY <2>1, <2>2, <2>3, StaleKept DEF Asking, Unanswered, Inv, Mapped
  <1>6. CASE ServeOpen
    <2>1. srv.whom \in Client /\ ~cl[srv.whom].stale
      BY <1>6 DEF ServeOpen, Serves, Inv, ServerInv, Busy, ServedClient, ClientInv, ClientOK
    <2>2. StaleRefused'
      BY <1>6, <2>1, Answering DEF Inv
    <2>3. CASE UNCHANGED table /\ srv' = [srv EXCEPT !.pc = "reply", !.r = "error", !.pg = Nothing]
      <3>1. srv'.pg = Nothing
        BY <2>3 DEF Inv, LocalTypeOK
      <3> QED
        BY <1>6, <2>2, <2>3, <3>1, StaleKept, Answering, NothingAssumption
        DEF Asking, Unanswered, Inv, Mapped, table
    <2>4. ASSUME NEW i \in Entry, NEW file \in File \cup {Nothing}, NEW id \in 0 .. IdMod - 1, ~Mapped(i),
                 opentab' = [opentab EXCEPT ![i] = [id |-> NextId(i), file |-> file]],
                 page' = [page EXCEPT ![i] = [id |-> id, offset |-> 0]],
                 srv'.pg = Nothing \/ srv'.pg = i
          PROVE  StaleInv'
      <3>1. UNCHANGED <<ipc, fds, buf, cl>>
        BY <1>6, Answering DEF Inv
      <3>2. opentab'[i].id > opentab[i].id
        BY <1>6, <2>4, ServeOpenId, MaxOpenAssumption DEF Inv, TypeOK
      <3>3. \A j \in Entry : j # i => page'[j] = page[j] /\ opentab'[j] = opentab[j]
        BY <2>4 DEF Inv, TypeOK, LocalTypeOK
      <3>4. ASSUME NEW c \in Client, Stale(c) PROVE Outdated(buf[c].id)'
        <4> DEFINE j == buf[c].id % MAXOPEN
        <4>1. j \in Entry /\ Outdated(buf[c].id) /\ buf[c].id \in 0 .. IdMod - 1
          BY <3>4, StaleId DEF Inv
        <4>2. CASE j = i
          <5>1. opentab[j].id > buf[c].id \/ opentab[j].id = buf[c].id
            BY <4>1 DEF Outdated
          <5>2. opentab[i].id \in Nat /\ NextId(i) \in Nat /\ buf[c].id \in Nat
            BY <1>6, <4>1, ServeOpenId, IdModAssumption
          <5>3. opentab'[i].id = NextId(i)
            <6>1. opentab \in [Entry -> [id : 0 .. IdMod - 1, file : File \cup {Nothing}]]
              BY DEF Inv, TypeOK
            <6> QED
              BY <2>4, <6>1
          <5> HIDE DEF j
          <5>4. opentab'[i].id > buf[c].id
            BY <3>2, <4>2, <5>1, <5>2, <5>3
          <5> USE DEF j
          <5> QED
            BY <3>1, <4>1, <4>2, <5>4 DEF Outdated
        <4>3. CASE j # i
          <5>1. page'[j] = page[j] /\ opentab'[j] = opentab[j] /\ srv'.pg # j
            BY <2>4, <3>3, <4>1, <4>3, NothingAssumption
          <5> QED
            BY <3>1, <4>1, <5>1 DEF Outdated, Mapped
        <4> QED
          BY <4>2, <4>3
      <3> QED
        BY <2>2, <3>1, <3>4 DEF Asking, Unanswered
    <2> QED
      BY <1>6, <2>3, <2>4, ServeOpenCases DEF Inv, LocalTypeOK
  <1>7. CASE ServeFile
    <2>1. UNCHANGED <<ipc, fds, buf, cl, opentab>> /\ srv'.whom = srv.whom /\ srv'.pg = Nothing
      BY <1>7 DEF ServeFile, Answer, Inv, LocalTypeOK
    <2>2. \A i \in Entry : page'[i] = Nothing => page[i] = Nothing
      BY <1>7, ServeFileCases, NothingAssumption DEF Inv, LocalTypeOK, Lookup
    <2>3. srv.whom \in Client /\ fsreq = srv.whom /\ Asking(srv.whom)
      BY <1>7 DEF ServeFile, Serves, Inv, ServerInv, Busy, ServedClient, Asking
    <2>4. StaleRefused'
      <3>1. SUFFICES ASSUME cl[srv.whom].stale PROVE Lookup(buf[fsreq].id) = {}
        BY <1>7, <2>1, ServeFileCases DEF Inv, LocalTypeOK
      <3>2. Outdated(buf[srv.whom].id)
        BY <2>3, <3>1 DEF Inv
      <3>3. ASSUME NEW i \in Lookup(buf[fsreq].id) PROVE FALSE
        <4>1. i \in Entry /\ i = buf[srv.whom].id % MAXOPEN /\ PageRef(i) # 1 /\ opentab[i].id = buf[srv.whom].id
          BY <2>3, <3>3, SMTT(30) DEF Lookup
        <4>2. opentab[i].id \in Int
          <5>1. opentab \in [Entry -> [id : 0 .. IdMod - 1, file : File \cup {Nothing}]]
            BY DEF Inv, TypeOK
          <5> QED
            BY <4>1, <5>1, IdModAssumption
        <4>3. \/ opentab[i].id > buf[srv.whom].id
              \/ page[i] # Nothing /\ ~Mapped(i)
          BY <3>2, <4>1 DEF Outdated
        <4>4. page[i] # Nothing /\ ~Mapped(i)
          BY <4>1, <4>2, <4>3
        <4> QED
          BY <4>1, <4>4, PageRefTells
      <3> QED
        BY <3>3
    <2> QED
      BY <2>1, <2>2, <2>4, StaleKept, NothingAssumption DEF Asking, Unanswered, Inv, Mapped
  <1>8. CASE ServeFlush
    <2>1. srv.whom \in Client /\ ~cl[srv.whom].stale
      BY <1>8 DEF ServeFlush, Inv, ServerInv, Busy, ServedClient, ClientInv, ClientOK
    <2>2. UNCHANGED <<ipc, fds, buf, cl, opentab, page>> /\ srv'.whom = srv.whom /\ srv'.pg = Nothing
      BY <1>8 DEF ServeFlush, Answer, table, Inv, LocalTypeOK
    <2> QED
      BY <2>1, <2>2, StaleKept, NothingAssumption DEF Asking, Unanswered, Inv, Mapped
  <1>9. CASE ServeReply
    <2>1. PICK c \in Client : c = srv.whom /\ Unanswered(c)
      BY <1>9 DEF ServeReply, Inv, ServerInv, Busy, ServedClient
    <2>2. UNCHANGED <<opentab, page, buf, cl>> /\ srv.pc = "reply" /\ srv'.pc = "unmap"
      BY <1>9 DEF ServeReply, table, Inv, LocalTypeOK
    <2>3. \A d \in Client : Stale(d)' => Stale(d)
      BY <1>9, <2>1 DEF ServeReply, Receive, Inv, TypeOK, Asking, Unanswered
    <2>4. \A i \in Entry : Mapped(i)' => Mapped(i) \/ srv.pg = i
      <3>1. \A d \in Client, n \in FdNum :
                fds'[d][n] = fds[d][n] \/ (srv.pg # Nothing /\ fds'[d][n] = srv.pg)
        BY <1>9, <2>1 DEF ServeReply, Inv, TypeOK
      <3> QED
        BY <3>1 DEF Mapped
    <2> QED
      BY <2>2, <2>3, <2>4, StaleKept DEF Inv
  <1>10. CASE UNCHANGED vars
    BY <1>10 DEF vars, table, Mapped, Outdated, Inv, Asking, Unanswered
  <1> QED
    BY <1>1, <1>2, <1>3, <1>4, <1>5, <1>6, <1>7, <1>8, <1>9, <1>10
    DEF Next, Server, ClientCall, ClientStep

\* Requests to open a file that go away leave ids free.
LEMMA FewerOpening ==
  ASSUME Inv, TypeOK', UNCHANGED opentab, \A c \in Client : Opening(c)' => Opening(c)
  PROVE  IdInv'
  <1> DEFINE S == {c \in Client : Opening(c)}
  <1>1. S' \in SUBSET S /\ S \in SUBSET Client
    OBVIOUS
  <1> HIDE DEF S
  <1>2. Cardinality(S') \in Nat /\ Cardinality(S) \in Nat /\ Cardinality(S') <= Cardinality(S)
    BY <1>1, ClientSets, FS_Subset
  <1>3. Cardinality(S') * MAXOPEN <= Cardinality(S) * MAXOPEN
        /\ Cardinality(S') * MAXOPEN \in Nat /\ Cardinality(S) * MAXOPEN \in Nat
    BY <1>2, Times
  <1>4. \A i \in Entry : opentab[i].id + Cardinality(S) * MAXOPEN < IdMod
    BY DEF Inv, IdInv, S
  <1>5. \A i \in Entry : opentab'[i].id + Cardinality(S') * MAXOPEN < IdMod
    BY <1>3, <1>4, IdModAssumption DEF Inv, TypeOK
  <1> QED
    BY <1>5 DEF IdInv, S

LEMMA NextIdInv ==
  ASSUME Inv, [Next]_vars
  PROVE  IdInv'
  <1>1. TypeOK'
    BY NextTypeOK
  <1>2. ASSUME NEW c \in Client, NEW f \in File, Open(c, f) PROVE IdInv'
    <2> DEFINE T == {d \in Client : Opening(d)'}
    <2>1. T \in SUBSET Client
      OBVIOUS
    <2> HIDE DEF T
    <2>2. /\ Cardinality(T) * MAXOPEN \in Nat /\ Cardinality(Client) * MAXOPEN \in Nat
          /\ Cardinality(T) * MAXOPEN <= Cardinality(Client) * MAXOPEN
      BY <2>1, ClientSets, Times
    <2>3. \A i \in Entry : opentab'[i].id + Cardinality(Client) * MAXOPEN < IdMod
      BY <1>2 DEF Open, IdsLeft, table
    <2>4. \A i \in Entry : opentab'[i].id + Cardinality(T) * MAXOPEN < IdMod
      BY <1>1, <2>2, <2>3, IdModAssumption DEF TypeOK
    <2> QED
      BY <2>4 DEF IdInv, T
  <1>3. ASSUME NEW c \in Client,
               \/ \E n \in FdNum, type \in {"read", "stat", "flush"} : FdCall(c, n, type)
               \/ StaleRead(c)
        PROVE  IdInv'
    <2>1. UNCHANGED <<ipc, opentab, srv>> /\ cl[c].pc = "user" /\ \A d \in Client \ {c} : cl'[d] = cl[d]
      BY <1>3 DEF FdCall, StaleRead, Ready, table, Inv, LocalTypeOK
    <2>2. cl'[c].call # "open"
      BY <1>3 DEF FdCall, StaleRead, Calling, Inv, LocalTypeOK
    <2>3. \A d \in Client : Opening(d)' => Opening(d)
      BY <2>1, <2>2 DEF Opening, Asking, Unanswered
    <2> QED
      BY <1>1, <2>1, <2>3, FewerOpening
  <1>4. ASSUME NEW c \in Client, NEW d \in Client, Fork(c, d) PROVE IdInv'
    <2>1. UNCHANGED <<cl, ipc, srv, opentab>>
      BY <1>4 DEF Fork, table
    <2> QED
      BY <1>1, <2>1, FewerOpening DEF Opening, Asking, Unanswered
  <1>5. ASSUME NEW c \in Client, Send(c) \/ Recv(c) \/ Return(c) \/ Exit(c) PROVE IdInv'
    <2>1. \A d \in Client : Opening(d)' => Opening(d)
      BY <1>5, RequestKept DEF Opening
    <2> QED
      BY <1>1, <1>5, <2>1, FewerOpening, RequestKept
  <1>6. CASE ServeRecv \/ ServeGot \/ ServeUnmap
    <2>1. UNCHANGED <<opentab, cl>> /\ srv.pc # "reply"
      BY <1>6 DEF ServeRecv, ServeGot, ServeUnmap, table
    <2>2. \A c \in Client : ipc'[c] = ipc[c]
      BY <1>6, ServerAssumption DEF ServeRecv, ServeGot, ServeUnmap, Consumed, Inv, TypeOK
    <2> QED
      BY <1>1, <2>1, <2>2, FewerOpening DEF Opening, Asking, Unanswered
  <1>7. CASE ServeOpen
    <2> DEFINE S == {c \in Client : Opening(c)}
               T == {c \in Client : Opening(c)'}
    <2>1. srv.whom \in S /\ T \in SUBSET (S \ {srv.whom}) /\ S \in SUBSET Client
      <3>1. Opening(srv.whom) /\ srv.whom \in Client
        BY <1>7 DEF ServeOpen, Serves, Inv, ServerInv, Busy, ServedClient, Opening, Asking
      <3>2. \A c \in Client : Opening(c)' => Opening(c) /\ c # srv.whom
        BY <1>7, Answering DEF Opening, Asking, Unanswered, Inv
      <3> QED
        BY <3>1, <3>2
    <2> HIDE DEF S, T
    <2>2. /\ Cardinality(S) \in Nat /\ Cardinality(T) \in Nat
          /\ Cardinality(T) + 1 <= Cardinality(S)
      <3>1. IsFiniteSet(S) /\ Cardinality(S) \in Nat
        BY <2>1, ClientSets
      <3>2. IsFiniteSet(S \ {srv.whom}) /\ Cardinality(S \ {srv.whom}) = Cardinality(S) - 1
        BY <2>1, <3>1, FS_RemoveElement
      <3>3. Cardinality(T) <= Cardinality(S \ {srv.whom}) /\ Cardinality(T) \in Nat
        BY <2>1, <3>2, FS_Subset, FS_CardinalityType
      <3> QED
        BY <3>1, <3>2, <3>3
    <2>3. Cardinality(T) * MAXOPEN + MAXOPEN <= Cardinality(S) * MAXOPEN
      <3>1. (Cardinality(T) + 1) * MAXOPEN <= Cardinality(S) * MAXOPEN
        BY <2>2, Times
      <3>2. (Cardinality(T) + 1) * MAXOPEN = Cardinality(T) * MAXOPEN + MAXOPEN
        BY <2>2, MaxOpenAssumption, SMT
      <3> QED
        BY <3>1, <3>2
    <2>4. /\ Cardinality(T) * MAXOPEN \in Nat /\ Cardinality(S) * MAXOPEN \in Nat
      BY <2>2, Times
    <2>5. \A i \in Entry : opentab[i].id + Cardinality(S) * MAXOPEN < IdMod
      BY DEF Inv, IdInv, S
    <2>6. \A i \in Entry : opentab'[i].id = opentab[i].id \/ opentab'[i].id = opentab[i].id + MAXOPEN
      <3>1. CASE UNCHANGED table
        BY <3>1 DEF table
      <3>2. ASSUME NEW i \in Entry, NEW file \in File \cup {Nothing},
                   opentab' = [opentab EXCEPT ![i] = [id |-> NextId(i), file |-> file]]
            PROVE  \A j \in Entry : opentab'[j].id = opentab[j].id \/ opentab'[j].id = opentab[j].id + MAXOPEN
        <4>1. opentab'[i].id = opentab[i].id + MAXOPEN
          BY <1>7, <3>2, ServeOpenId DEF Inv, TypeOK
        <4>2. \A j \in Entry : j # i => opentab'[j] = opentab[j]
          BY <3>2 DEF Inv, TypeOK
        <4> QED
          BY <4>1, <4>2
      <3> QED
        BY <1>7, <3>1, <3>2, ServeOpenCases
    <2>7. \A i \in Entry : opentab[i].id \in Nat
      BY DEF Inv, TypeOK
    <2>8. \A i \in Entry : opentab'[i].id + Cardinality(T) * MAXOPEN < IdMod
      BY <2>3, <2>4, <2>5, <2>6, <2>7, IdModAssumption, MaxOpenAssumption
    <2> QED
      BY <2>8 DEF IdInv, T
  <1>8. CASE ServeFile \/ ServeFlush
    <2>1. UNCHANGED <<cl, ipc, opentab>> /\ srv.pc = "serve"
      BY <1>8 DEF ServeFile, ServeFlush, Serves, table
    <2> QED
      BY <1>1, <2>1, FewerOpening DEF Opening, Asking, Unanswered
  <1>9. CASE ServeReply
    <2>1. PICK c \in Client : c = srv.whom /\ Unanswered(c)
      BY <1>9 DEF ServeReply, Inv, ServerInv, Busy, ServedClient
    <2>2. UNCHANGED <<opentab, cl>>
      BY <1>9 DEF ServeReply, table
    <2>3. ~Asking(c)' /\ \A d \in Client \ {c} : Asking(d)' => Asking(d)
      BY <1>9, <2>1 DEF ServeReply, Receive, Inv, TypeOK, ClientInv, ClientOK, Asking, Unanswered
    <2>4. \A d \in Client : Opening(d)' => Opening(d)
      BY <2>1, <2>2, <2>3 DEF Opening
    <2> QED
      BY <1>1, <2>2, <2>4, FewerOpening
  <1>10. CASE UNCHANGED vars
    BY <1>1, <1>10, FewerOpening DEF vars, table, Opening, Asking, Unanswered
  <1> QED
    BY <1>2, <1>3, <1>4, <1>5, <1>6, <1>7, <1>8, <1>9, <1>10
    DEF Next, Server, ClientCall, ClientStep

LEMMA InitInv ==
  ASSUME Init
  PROVE  Inv
  <1> USE ServerAssumption DEF Init
  <1>1. TypeOK /\ LocalTypeOK
    <2>1. IpcNone \in IpcFields
      BY DEF IpcNone, IpcFields
    <2>2. \A i \in Entry : i % MAXOPEN = i /\ i \in 0 .. IdMod - 1
      BY EntryIsId
    <2>3. First \in Client
      BY FirstAssumption
    <2> QED
      BY <2>1, <2>2, <2>3 DEF TypeOK, LocalTypeOK, IpcFields, ClientUser, ServerRecv, Answers
  <1>2. ClientInv /\ ServerInv
    BY DEF ClientInv, ClientOK, ServerInv, Busy, Asking, Unanswered, ClientUser, IpcNone, ServerRecv
  <1>3. TableInv
    BY NothingAssumption
    DEF TableInv, PagesMatch, RequestPages, TakenEntry, Asking, Unanswered, ClientUser, ServerRecv
  <1>4. IdInv
    <2>1. {c \in Client : Opening(c)} = {}
      BY DEF Opening, Asking, Unanswered, ClientUser
    <2>2. Cardinality({c \in Client : Opening(c)}) = 0
      BY <2>1, FS_EmptySet
    <2>3. 0 * MAXOPEN = 0
      BY MaxOpenAssumption
    <2>4. \A i \in Entry : i + 0 < IdMod
      BY EntryIsId, IdModAssumption
    <2> QED
      BY <2>2, <2>3, <2>4 DEF IdInv
  <1>5. StaleInv
    BY DEF StaleInv, StaleRefused, Asking, Unanswered, ClientUser, ServerRecv
  <1> QED
    BY <1>1, <1>2, <1>3, <1>4, <1>5 DEF Inv

-----------------------------------------------------------------------------
(* The theorems.                                                           *)

\* Every part of the invariant holds in every state that the server and the
\* clients can reach: types, who waits for what, which entries are in use,
\* and how many ids are left.
THEOREM Invariance == Spec => []Inv
  <1>1. Init => Inv
    BY InitInv
  <1>2. Inv /\ [Next]_vars => Inv'
    BY NextTypeOK, NextLocalTypeOK, NextClientInv, NextServerInv, NextTableInv, NextIdInv, NextStaleInv DEF Inv
  <1> QED
    BY <1>1, <1>2, PTL DEF Spec

\* What the variables hold is of its type, and an entry of opentab keeps
\* ids that openfile_lookup finds it by, for any number of clients.
THEOREM TypesKept == Spec => []TypeOK
  <1>1. Inv => TypeOK
    BY DEF Inv
  <1> QED
    BY <1>1, Invariance, PTL

\* The page that the server has at fsreq is that of the client it will
\* answer, and no other client waits for an answer.
THEOREM ServesOneAtATime == Spec => []ServesWhoAsked
  <1>1. Inv => ServesWhoAsked
    BY DEF Inv, ServerInv, Busy, ServedClient, ServesWhoAsked
  <1> QED
    BY <1>1, Invariance, PTL

\* An entry that a client still maps keeps the id in its Fd page, and
\* openfile_lookup finds it there: serve_open never takes it away.
THEOREM OpenStaysOpen == Spec => []OpenIdsValid
  <1>1. ASSUME Inv, NEW c \in Client, NEW n \in FdNum, fds[c][n] # Nothing
        PROVE  /\ page[fds[c][n]] # Nothing
               /\ page[fds[c][n]].id = opentab[fds[c][n]].id
               /\ fds[c][n] \in Lookup(page[fds[c][n]].id)
    <2>1. PICK i \in Entry : i = fds[c][n] /\ Mapped(i)
      BY <1>1 DEF Inv, TypeOK, Mapped
    <2>2. page[i] # Nothing /\ page[i].id = opentab[i].id /\ opentab[i].id % MAXOPEN = i
      BY <1>1, <2>1 DEF Inv, TableInv, PagesMatch, TypeOK
    <2>3. PageRef(i) # 1
      BY <2>1, <2>2, PageRefTells
    <2> QED
      BY <2>1, <2>2, <2>3 DEF Lookup
  <1>2. Inv => OpenIdsValid
    BY <1>1 DEF OpenIdsValid
  <1> QED
    BY <1>2, Invariance, PTL

\* A request with the id of a file that is closed is refused, also when the
\* entry has a new file by the time the server looks.
THEOREM ClosedStaysClosed == Spec => []StaleRefused
  <1>1. Inv => StaleRefused
    BY DEF Inv, StaleInv
  <1> QED
    BY <1>1, Invariance, PTL

-----------------------------------------------------------------------------
(* The refinement of FileTable.                                            *)

LEMMA SharedIsMapped ==
  \A i : (Table!Shared(fds, i) <=> Mapped(i)) /\ (Table!Shared(fds', i) <=> Mapped(i)')
  BY DEF Table!Shared, Mapped

\* What clients see of the files is the same when the entries that they map
\* keep their file and offset.
LEMMA SeenTheSame ==
  ASSUME UNCHANGED fds,
         \A i \in Entry : Mapped(i) => opentab'[i].file = opentab[i].file /\ page'[i].offset = page[i].offset
  PROVE  UNCHANGED Table!vars
  <1>1. \A i \in Entry : Mapped(i)' <=> Mapped(i)
    BY DEF Mapped
  <1>2. OpenFile' = OpenFile
    BY <1>1 DEF OpenFile
  <1> QED
    BY <1>2 DEF Table!vars

\* An open file that loses its last descriptor is gone, the others stay.
LEMMA Forgotten ==
  ASSUME UNCHANGED <<opentab, page>>, \A i \in Entry : Mapped(i)' => Mapped(i)
  PROVE  Table!Forget
  <1>1. OpenFile' = [i \in Entry |-> IF Mapped(i)' THEN OpenFile[i] ELSE Nothing]
    BY DEF OpenFile
  <1> QED
    BY <1>1, SharedIsMapped DEF Table!Forget

\* Every step of the server and its clients is a step on the open files, or
\* the clients see none.
LEMMA NextFiles ==
  ASSUME Inv, [Next]_vars
  PROVE  [Table!Next]_(Table!vars)
  <1> USE DEF Table!Next
  <1>1. fds \in [Client -> [FdNum -> Entry \cup {Nothing}]] /\ Nothing \notin Entry
    BY NothingAssumption DEF Inv, TypeOK
  <1>2. ASSUME NEW c \in Client,
               \/ \E f \in File : Open(c, f)
               \/ \E n \in FdNum, type \in {"read", "stat", "flush"} : FdCall(c, n, type)
               \/ StaleRead(c) \/ Send(c) \/ Recv(c)
        PROVE  UNCHANGED Table!vars
    BY <1>2, SeenTheSame DEF Open, FdCall, StaleRead, Send, Recv, table
  <1>3. ASSUME NEW c \in Client, NEW d \in Client, Fork(c, d) PROVE Table!Fork(c, d) /\ c # d
    <2>1. UNCHANGED <<opentab, page>> /\ fds' = [fds EXCEPT ![d] = fds[c]] /\ c # d
      BY <1>3 DEF Fork, Ready, table
    <2>2. \A i \in Entry : Mapped(i)' => Mapped(i)
      BY <1>1, <2>1 DEF Mapped
    <2> QED
      BY <2>1, <2>2, Forgotten DEF Table!Fork
  <1>4. ASSUME NEW c \in Client, Exit(c) PROVE Table!Exit(c)
    <2>1. UNCHANGED <<opentab, page>> /\ fds' = [fds EXCEPT ![c] = [n \in FdNum |-> Nothing]]
      BY <1>4 DEF Exit, EnvFree, table
    <2>2. \A i \in Entry : Mapped(i)' => Mapped(i)
      BY <1>1, <2>1 DEF Mapped
    <2> QED
      BY <2>1, <2>2, Forgotten DEF Table!Exit
  <1>5. ASSUME NEW c \in Client, Return(c)
        PROVE  UNCHANGED Table!vars \/ \E n \in FdNum : Table!Close(c, n)
    <2>1. UNCHANGED <<opentab, page>>
      BY <1>5 DEF Return, table
    <2>2. CASE UNCHANGED fds
      BY <2>1, <2>2, SeenTheSame
    <2>3. CASE fds' = [fds EXCEPT ![c][cl[c].n] = Nothing]
      <3>1. CASE cl[c].n \in FdNum
        <4>1. \A i \in Entry : Mapped(i)' => Mapped(i)
          BY <1>1, <2>3 DEF Mapped
        <4> QED
          BY <2>1, <2>3, <3>1, <4>1, Forgotten DEF Table!Close
      <3>2. CASE cl[c].n \notin FdNum
        <4>1. [fds[c] EXCEPT ![cl[c].n] = Nothing] = fds[c]
          BY <1>1, <3>2
        <4>2. fds' = fds
          BY <1>1, <2>3, <4>1
        <4> QED
          BY <2>1, <4>2, SeenTheSame
      <3> QED
        BY <3>1, <3>2
    <2> QED
      BY <1>5, <2>2, <2>3 DEF Return
  <1>6. CASE ServeRecv \/ ServeGot \/ ServeFlush \/ ServeUnmap
    BY <1>6, SeenTheSame DEF ServeRecv, ServeGot, ServeFlush, ServeUnmap, table
  <1>7. CASE ServeOpen
    <2>1. UNCHANGED fds
      BY <1>7 DEF ServeOpen
    <2>2. \A i \in Entry : Mapped(i) => opentab'[i] = opentab[i] /\ page'[i] = page[i]
      <3>1. opentab \in [Entry -> [id : 0 .. IdMod - 1, file : File \cup {Nothing}]]
        BY DEF Inv, TypeOK
      <3>2. page \in [Entry -> [id : 0 .. IdMod - 1, offset : 0 .. FileSize] \cup {Nothing}]
        BY DEF Inv, LocalTypeOK
      <3> QED
        BY <1>7, <3>1, <3>2, ServeOpenCases DEF table
    <2> QED
      BY <2>1, <2>2, SeenTheSame
  <1>8. CASE ServeFile
    <2>1. UNCHANGED <<fds, opentab>>
      BY <1>8 DEF ServeFile
    <2>2. CASE UNCHANGED page
      BY <2>1, <2>2, SeenTheSame
    <2>3. ASSUME NEW i \in Lookup(buf[fsreq].id), NEW r \in {0, 1}, page[i] # Nothing, Mapped(i),
                 page' = [page EXCEPT ![i].offset = @ + r]
          PROVE  UNCHANGED Table!vars \/ Table!Read(i)
      <3>1. i \in Entry /\ page[i] \in [id : 0 .. IdMod - 1, offset : 0 .. FileSize]
        BY <2>3 DEF Lookup, Inv, LocalTypeOK
      <3>2. page \in [Entry -> [id : 0 .. IdMod - 1, offset : 0 .. FileSize] \cup {Nothing}]
        BY DEF Inv, LocalTypeOK
      <3>3. page'[i].offset = page[i].offset + r /\ \A j \in Entry : j # i => page'[j] = page[j]
        BY <2>3, <3>1, <3>2
      <3>4. CASE r = 0
        <4>1. page'[i].offset = page[i].offset
          BY <3>1, <3>3, <3>4, SizeAssumption
        <4> QED
          BY <2>1, <3>3, <4>1, SeenTheSame
      <3>5. CASE r = 1
        <4>1. \A j \in Entry : Mapped(j)' <=> Mapped(j)
          BY <2>1 DEF Mapped
        <4>2. OpenFile[i] = [file |-> opentab[i].file, offset |-> page[i].offset]
          BY <2>3, <3>1 DEF OpenFile
        <4>3. [OpenFile[i] EXCEPT !.offset = @ + 1] = [file |-> opentab[i].file, offset |-> page[i].offset + 1]
          BY <4>2
        <4>4. OpenFile' = [OpenFile EXCEPT ![i] = [file |-> opentab[i].file, offset |-> page[i].offset + 1]]
          BY <2>1, <2>3, <3>1, <3>3, <3>5, <4>1 DEF OpenFile
        <4>5. OpenFile' = [OpenFile EXCEPT ![i].offset = @ + 1]
          BY <4>3, <4>4
        <4> QED
          BY <2>1, <2>3, <4>5, SharedIsMapped DEF Table!Read
      <3> QED
        BY <3>4, <3>5
    <2>4. Lookup(buf[fsreq].id) \subseteq Entry
      BY DEF Lookup
    <2> QED
      BY <1>8, <2>2, <2>3, <2>4, ServeFileCases
  <1>9. CASE ServeReply
    <2>1. PICK c \in Client : c = srv.whom /\ Unanswered(c)
      BY <1>9 DEF ServeReply, Inv, ServerInv, Busy, ServedClient
    <2>2. UNCHANGED <<opentab, page>>
      BY <1>9 DEF ServeReply, table
    <2>3. CASE srv.pg = Nothing
      BY <1>9, <2>2, <2>3, SeenTheSame DEF ServeReply
    <2>4. CASE srv.pg # Nothing
      <3> DEFINE n == cl[c].n
                 pg == srv.pg
      <3>1. cl[c].call = "open" /\ ipc[c].recving
        BY <1>9, <2>1, <2>4 DEF ServeReply, Inv, TableInv, TakenEntry
      <3>2. n \in FdNum /\ fds[c][n] = Nothing /\ ipc[c].dstva = n
        BY <3>1, <2>1 DEF Inv, ClientInv, ClientOK, Asking
      <3>3. pg \in Entry /\ ~Mapped(pg) /\ opentab[pg].file \in File /\ page[pg].offset = 0
        BY <1>9, <2>4 DEF ServeReply, Inv, TableInv, TakenEntry, LocalTypeOK
      <3>4. fds' = [fds EXCEPT ![c][n] = pg]
        BY <1>9, <2>1, <2>4, <3>2 DEF ServeReply
      <3> HIDE DEF n, pg
      <3>5. \A i \in Entry : Mapped(i)' <=> Mapped(i) \/ i = pg
        <4>1. fds'[c][n] = pg /\ \A d \in Client, m \in FdNum : d # c \/ m # n => fds'[d][m] = fds[d][m]
          BY <1>1, <3>2, <3>4
        <4> QED
          BY <1>1, <3>2, <4>1 DEF Mapped
      <3>6. OpenFile' = [OpenFile EXCEPT ![pg] = [file |-> opentab[pg].file, offset |-> 0]]
        BY <2>2, <3>3, <3>5 DEF OpenFile
      <3>7. Table!Open(c, n, pg, opentab[pg].file)
        BY <3>2, <3>3, <3>4, <3>6, SharedIsMapped DEF Table!Open
      <3> QED
        BY <3>2, <3>3, <3>7
    <2> QED
      BY <2>3, <2>4
  <1>10. CASE UNCHANGED vars
    BY <1>10, SeenTheSame DEF vars, table
  <1> QED
    BY <1>2, <1>3, <1>4, <1>5, <1>6, <1>7, <1>8, <1>9, <1>10
    DEF Next, Server, ClientCall, ClientStep

\* The server and its clients implement FileTable: behind the messages, the
\* ids and the page counts, a descriptor names one open file until it is
\* closed, two opens never share, and only a read moves an offset.
THEOREM ImplementsFileTable == Spec => FilesAsPromised
  <1>1. Init => Table!Init
    <2>1. SUFFICES ASSUME Init PROVE Table!Init
      OBVIOUS
    <2>2. \A i \in Entry : ~Mapped(i)
      BY <2>1, NothingAssumption DEF Init, Mapped
    <2> QED
      BY <2>1, <2>2 DEF Init, Table!Init, OpenFile
  <1>2. Inv /\ [Next]_vars => [Table!Next]_(Table!vars)
    BY NextFiles
  <1> QED
    BY <1>1, <1>2, Invariance, PTL DEF Spec, FilesAsPromised, Table!Spec

-----------------------------------------------------------------------------
(* FsImage: the inductive invariant.                                       *)

Records ==
    [name : Name \cup {"", "/"}, dir : BOOLEAN, size : Nat,
     direct : [0 .. NDIRECT - 1 -> Nat], indirect : Nat]

\* Whatever a reader may find in a block.
DiskBytes == {ByteAt(disk[b], k) : b \in Block, k \in 0 .. BLKSIZE - 1}

Requests ==
    [op : {"idle", "walk", "opened", "copy", "read"}, asked : Seq(Name \cup LongName),
     path : Seq(Name \cup LongName), f : Records, offset : Nat, count : Nat, pos : Nat,
     buf : Seq(DiskBytes), ret : Int]

\* A map of the blocks.
PerBlock(d) == d = [b \in Block |-> d[b]]

FsTypeOK ==
    /\ phase \in {"format", "panic", "done"}
    /\ PerBlock(disk) /\ \A b \in Block : disk[b].kind # "absent"
    /\ diskpos \in 3 .. nblocks - 1
    /\ root \in Records /\ root.dir
    /\ ents \in Seq(Records) /\ host \in Seq([name : Name, size : Nat])
    /\ Len(ents) = Len(host) /\ Len(ents) <= MAXDIRENTS
    /\ fs \in Requests

\* The block that holds block b of f, and that the first n lie below top.
BlockAt(f, b) == IF b < NDIRECT THEN f.direct[b] ELSE NumberAt(disk[f.indirect], b - NDIRECT)

Reaches(f, n, top) ==
    /\ n <= NDIRECT + NINDIRECT
    /\ n > NDIRECT => f.indirect \in 3 .. top - 1
    /\ \A b \in 0 .. n - 1 : BlockAt(f, b) \in 3 .. top - 1

\* File i is on the disk as it is on the host.
FileStored(i) ==
    /\ ents[i].name = host[i].name /\ ents[i].size = host[i].size /\ ~ents[i].dir
    /\ Reaches(ents[i], RoundUp(ents[i].size), diskpos)
    /\ \A b \in 0 .. RoundUp(ents[i].size) - 1, k \in 0 .. BLKSIZE - 1 :
           b * BLKSIZE + k < ents[i].size =>
               ByteAt(disk[BlockAt(ents[i], b)], k) = <<"data", i, b * BLKSIZE + k>>

\* The directory is on the disk, filled up with empty entries.
EntryAt(q) == IF q < Len(ents) THEN ents[q + 1] ELSE EmptyFile
RootBlocks == root.size \div BLKSIZE

RootStored ==
    /\ RootBlocks \in Nat /\ root.size = RootBlocks * BLKSIZE
    /\ Len(ents) <= RootBlocks * BLKFILES
    /\ Reaches(root, RootBlocks, nblocks)
    /\ \A b \in 0 .. RootBlocks - 1 :
           /\ \A j \in 0 .. BLKFILES - 1 : FileAt(disk[BlockAt(root, b)], j) = EntryAt(b * BLKFILES + j)
           /\ ents # <<>> => disk[BlockAt(root, b)].kind = "files"

DiskInv ==
    /\ \A i \in 1 .. Len(ents) : FileStored(i)
    /\ phase = "format" => \A b \in Block : disk[b].kind # "files"
    /\ phase = "done" => RootStored

\* A block in memory is as on the disk, which no longer changes then.
CacheInv ==
    /\ PerBlock(cache)
    /\ \A b \in Block : Cached(b) => phase = "done" /\ cache[b] = disk[b]

\* The file of a path that has been found.
Exists(path) == path = <<>> \/ Files(path[1]) # {}
FileOf(path) == IF path = <<>> THEN root ELSE ents[Found(path)]

\* walk_path: on its way through the root directory without having met the
\* first component, or past the file it found there.
WalkInv ==
    fs.op = "walk" =>
        \/ /\ fs.path = fs.asked /\ fs.f = root /\ fs.pos <= RootBlocks
           /\ fs.path # <<>> => \A q \in 0 .. fs.pos * BLKFILES - 1 : EntryAt(q).name # Head(fs.path)
        \/ /\ fs.asked # <<>> /\ fs.path = Tail(fs.asked) /\ Exists(fs.asked)
           /\ fs.asked[1] \notin LongName /\ fs.f = FileOf(fs.asked)

\* file_read: what is in the buffer so far.
ReadInv ==
    fs.op \in {"copy", "read"} =>
        /\ Exists(fs.asked) /\ fs.f = FileOf(fs.asked)
        /\ fs.count > 0 => fs.offset + fs.count <= fs.f.size
        /\ fs.pos \in fs.offset .. fs.offset + fs.count /\ Len(fs.buf) = fs.pos - fs.offset
        /\ host # <<>> \/ fs.asked # <<>> =>
               \A k \in 1 .. Len(fs.buf) : fs.buf[k] = Bytes(Found(fs.asked), fs.offset + k - 1)
        /\ fs.op = "read" => fs.pos = fs.offset + fs.count /\ fs.ret = fs.count

LoopInv ==
    /\ fs.op # "idle" => phase = "done"
    /\ fs.op = "idle" => fs.pos = 0 /\ fs.buf = <<>>
    /\ WalkInv /\ LookupExact
    /\ fs.op = "opened" /\ fs.ret = 0 => Exists(fs.asked) /\ fs.f = FileOf(fs.asked)
    /\ ReadInv

FsInv == FsTypeOK /\ DiskInv /\ CacheInv /\ LoopInv

-----------------------------------------------------------------------------
(* FsImage: blocks, bytes and entries.                                     *)

LEMMA FsSizes ==
  /\ nblocks \in Nat /\ nblocks > 3
  /\ BLKSIZE \in Nat \ {0} /\ BLKFILES \in Nat \ {0} /\ NDIRECT \in Nat \ {0} /\ NINDIRECT \in Nat \ {0}
  /\ MAXDIRENTS \in Nat \ {0} /\ BUFSIZE \in Nat \ {0}
  /\ SizeofFile \in Nat \ {0} /\ BLKSIZE = BLKFILES * SizeofFile
  /\ MAXDIRENTS <= (NDIRECT + NINDIRECT) * BLKFILES
  <1>1. /\ BLKSIZE \in Nat \ {0} /\ BLKFILES \in Nat \ {0} /\ BLKSIZE % BLKFILES = 0
    BY SizesAssumption
  <1>2. BLKSIZE = BLKFILES * (BLKSIZE \div BLKFILES) /\ BLKSIZE \div BLKFILES \in Nat \ {0}
    BY <1>1, SMT
  <1> QED
    BY <1>2, SizesAssumption DEF SizeofFile

\* Division by a positive number.
LEMMA Quotient ==
  ASSUME NEW d \in Nat \ {0}, NEW x \in Nat
  PROVE  /\ x \div d \in Nat /\ x % d \in 0 .. d - 1
         /\ x = (x \div d) * d + (x % d)
  BY SMT

LEMMA QuotientIs ==
  ASSUME NEW d \in Nat \ {0}, NEW q \in Nat, NEW r \in 0 .. d - 1
  PROVE  (q * d + r) \div d = q /\ (q * d + r) % d = r
  BY SMT

\* Whole blocks are ordered as their first bytes are.
LEMMA Multiples ==
  ASSUME NEW d \in Nat \ {0}, NEW a \in Nat, NEW b \in Nat
  PROVE  /\ a * d \in Nat
         /\ a < b => a * d + d <= b * d
         /\ a <= b <=> a * d <= b * d
  <1>1. a * d \in Nat /\ b * d \in Nat
    BY SMT
  <1>2. ASSUME a < b PROVE a * d + d <= b * d
    <2>1. PICK c \in Nat : b = a + 1 + c
      BY <1>2
    <2>2. c * d \in Nat /\ b * d = a * d + d + c * d
      BY <2>1, SMT
    <2> QED
      BY <1>1, <2>2
  <1>3. ASSUME b < a PROVE b * d + d <= a * d
    <2>1. PICK c \in Nat : a = b + 1 + c
      BY <1>3
    <2>2. c * d \in Nat /\ a * d = b * d + d + c * d
      BY <2>1, SMT
    <2> QED
      BY <1>1, <2>2
  <1> QED
    BY <1>1, <1>2, <1>3

\* RoundUp is the number of blocks that a file needs.
LEMMA RoundUpIs ==
  ASSUME NEW size \in Nat
  PROVE  /\ RoundUp(size) \in Nat
         /\ \A b \in Nat : b < RoundUp(size) <=> b * BLKSIZE < size
  <1> DEFINE n == RoundUp(size)
             r == (size + BLKSIZE - 1) % BLKSIZE
  <1>1. n \in Nat /\ r \in 0 .. BLKSIZE - 1 /\ size + BLKSIZE - 1 = n * BLKSIZE + r
    <2>1. size + BLKSIZE - 1 \in Nat /\ BLKSIZE \in Nat \ {0}
      BY FsSizes
    <2> QED
      BY <2>1, Quotient, Zenon DEF RoundUp
  <1> HIDE DEF n, r
  <1>2. ASSUME NEW b \in Nat PROVE b < n <=> b * BLKSIZE < size
    <2>1. /\ b * BLKSIZE \in Nat /\ n * BLKSIZE \in Nat
          /\ b < n => b * BLKSIZE + BLKSIZE <= n * BLKSIZE
          /\ n <= b => n * BLKSIZE <= b * BLKSIZE
      BY <1>1, FsSizes, Multiples
    <2> QED
      BY <1>1, <2>1, FsSizes
  <1> QED
    BY <1>1, <1>2 DEF n

LEMMA RoundUpWhole ==
  ASSUME NEW m \in Nat
  PROVE  m * BLKSIZE \in Nat /\ RoundUp(m * BLKSIZE) = m
  <1>1. m * BLKSIZE \in Nat
    BY FsSizes, Multiples
  <1>2. m * BLKSIZE + BLKSIZE - 1 = m * BLKSIZE + (BLKSIZE - 1) /\ BLKSIZE - 1 \in 0 .. BLKSIZE - 1
    BY <1>1, FsSizes
  <1>3. (m * BLKSIZE + (BLKSIZE - 1)) \div BLKSIZE = m
    BY <1>2, FsSizes, QuotientIs
  <1> QED
    BY <1>1, <1>2, <1>3 DEF RoundUp

\* Where byte k of block b is in a directory.
LEMMA EntryOfByte ==
  ASSUME NEW b \in Nat, NEW k \in 0 .. BLKSIZE - 1
  PROVE  /\ k \div SizeofFile \in 0 .. BLKFILES - 1
         /\ (b * BLKSIZE + k) \div SizeofFile = b * BLKFILES + (k \div SizeofFile)
         /\ (b * BLKSIZE + k) % SizeofFile = k % SizeofFile
  <1> DEFINE q == k \div SizeofFile
             r == k % SizeofFile
  <1>1. q \in Nat /\ r \in 0 .. SizeofFile - 1 /\ k = q * SizeofFile + r
    <2>1. k \in Nat /\ SizeofFile \in Nat \ {0}
      BY FsSizes
    <2> QED
      BY <2>1, Quotient, Zenon
  <1> HIDE DEF q, r
  <1>2. q < BLKFILES
    <2>1. /\ BLKFILES <= q => BLKFILES * SizeofFile <= q * SizeofFile
          /\ q * SizeofFile \in Nat
      BY <1>1, FsSizes, Multiples
    <2> QED
      BY <1>1, <2>1, FsSizes
  <1>3. b * BLKFILES \in Nat /\ b * BLKFILES + q \in Nat
    BY <1>1, FsSizes, Multiples
  <1>4. b * BLKSIZE + k = (b * BLKFILES + q) * SizeofFile + r
    <2>1. b * BLKSIZE = (b * BLKFILES) * SizeofFile
      BY FsSizes, SMT
    <2>2. (b * BLKFILES + q) * SizeofFile = (b * BLKFILES) * SizeofFile + q * SizeofFile
      BY <1>1, <1>3, FsSizes, SMT
    <2>3. (b * BLKFILES) * SizeofFile \in Nat /\ q * SizeofFile \in Nat
      BY <1>1, <1>3, FsSizes, Multiples
    <2> QED
      BY <1>1, <2>1, <2>2, <2>3, FsSizes
  <1>5. (b * BLKSIZE + k) \div SizeofFile = b * BLKFILES + q /\ (b * BLKSIZE + k) % SizeofFile = r
    BY <1>1, <1>3, <1>4, FsSizes, QuotientIs
  <1>6. q \in 0 .. BLKFILES - 1
    BY <1>1, <1>2, FsSizes
  <1> QED
    BY <1>5, <1>6, Zenon DEF q, r

-----------------------------------------------------------------------------
(* FsImage: fsformat.                                                      *)

LEMMA InitFs == FsInit => FsInv
  <1> SUFFICES ASSUME FsInit PROVE FsInv
    OBVIOUS
  <1> USE DEF FsInit
  <1>1. NoBlocks \in [0 .. NDIRECT - 1 -> Nat] /\ root \in Records /\ EmptyFile \in Records /\ root.dir
    BY DEF NoBlocks, EmptyFile, Records
  <1>2. FsTypeOK
    <2>1. /\ ents \in Seq(Records) /\ host \in Seq([name : Name, size : Nat]) /\ Len(ents) = 0 /\ Len(host) = 0
          /\ <<>> \in Seq(Name \cup LongName) /\ <<>> \in Seq(DiskBytes)
      OBVIOUS
    <2>2. \A b \in Block : disk[b].kind = "zero"
      BY DEF ZeroBlock
    <2> QED
      BY <1>1, <2>1, <2>2, FsSizes, SMTT(30) DEF FsTypeOK, Requests, PerBlock
  <1>3. DiskInv
    BY DEF DiskInv, ZeroBlock
  <1>4. CacheInv
    BY DEF CacheInv, Cached, PerBlock
  <1>5. LoopInv
    BY DEF LoopInv, WalkInv, ReadInv, LookupExact
  <1> QED
    BY <1>2, <1>3, <1>4, <1>5 DEF FsInv

LEMMA FsTyped ==
  ASSUME FsTypeOK
  PROVE  /\ diskpos \in Nat /\ 3 <= diskpos /\ diskpos < nblocks
         /\ Len(ents) \in Nat /\ Len(host) = Len(ents) /\ Len(ents) <= MAXDIRENTS
         /\ \A i \in 1 .. Len(ents) : /\ ents[i] \in Records /\ ents[i].size \in Nat
                                      /\ host[i] \in [name : Name, size : Nat]
         /\ root \in Records /\ root.size \in Nat /\ root.dir
  <1>1. diskpos \in 3 .. nblocks - 1
    BY DEF FsTypeOK
  <1>2. ents \in Seq(Records) /\ host \in Seq([name : Name, size : Nat]) /\ Len(host) = Len(ents)
    BY DEF FsTypeOK
  <1>3. root \in Records /\ root.dir /\ Len(ents) <= MAXDIRENTS
    BY DEF FsTypeOK
  <1>4. \A f \in Records : f.size \in Nat
    BY DEF Records
  <1>5. \A i \in 1 .. Len(ents) : ents[i] \in Records /\ host[i] \in [name : Name, size : Nat]
    <2>1. \A i \in 1 .. Len(ents) : ents[i] \in Records
      BY <1>2, ElementOfSeq, Zenon
    <2>2. \A i \in 1 .. Len(host) : host[i] \in [name : Name, size : Nat]
      BY <1>2, ElementOfSeq, Zenon
    <2> QED
      BY <1>2, <2>1, <2>2, Zenon
  <1>6. diskpos \in Nat /\ 3 <= diskpos /\ diskpos < nblocks
    BY <1>1, FsSizes
  <1>7. Len(ents) \in Nat
    BY <1>2
  <1> QED
    BY <1>2, <1>3, <1>4, <1>5, <1>6, <1>7, Zenon

\* What finishfile leaves: the record names the blocks from start on, and
\* nothing but the block at pos has changed.
LEMMA FinishedIs ==
  ASSUME NEW f \in Records, NEW start \in Nat, NEW len \in Nat, NEW pos \in 3 .. nblocks - 1, NEW d,
         PerBlock(d), RoundUp(len) <= NDIRECT + NINDIRECT,
         NEW out, out = Finished(f, start, len, pos, d), out.pos # nblocks
  PROVE  /\ out.file \in Records /\ out.file.size = len
         /\ out.file.name = f.name /\ out.file.dir = f.dir
         /\ out.pos \in pos .. nblocks - 1
         /\ PerBlock(out.disk)
         /\ \A b \in Block : out.disk[b] = d[b] \/ (b = pos /\ out.disk[b].kind = "numbers")
         /\ \A b \in 0 .. RoundUp(len) - 1 :
               /\ b < NDIRECT => out.file.direct[b] = start + b
               /\ b >= NDIRECT => out.file.indirect = pos /\ NumberAt(out.disk[pos], b - NDIRECT) = start + b
         /\ RoundUp(len) > NDIRECT => out.file.indirect = pos /\ out.pos = pos + 1
  <1> DEFINE n == RoundUp(len)
             direct == [i \in 0 .. NDIRECT - 1 |-> IF i < n THEN start + i ELSE 0]
             rec == [f EXCEPT !.size = len, !.direct = direct]
             ind == [kind |-> "numbers",
                     at |-> [i \in 0 .. NINDIRECT - 1 |->
                               IF NDIRECT + i < n THEN start + NDIRECT + i ELSE 0]]
  <1>1. n \in Nat
    BY RoundUpIs
  <1>2. out = IF n < NDIRECT THEN [file |-> rec, disk |-> d, pos |-> pos]
              ELSE IF pos + 1 >= nblocks THEN [file |-> rec, disk |-> d, pos |-> nblocks]
              ELSE [file |-> [rec EXCEPT !.indirect = pos], disk |-> [d EXCEPT ![pos] = ind],
                    pos |-> pos + 1]
    BY DEF Finished
  <1>3. n <= NDIRECT + NINDIRECT
    OBVIOUS
  <1> HIDE DEF n
  <1>4. direct \in [0 .. NDIRECT - 1 -> Nat] /\ \A b \in 0 .. n - 1 : b < NDIRECT => direct[b] = start + b
    <2>1. direct \in [0 .. NDIRECT - 1 -> Nat]
      BY <1>1, FsSizes
    <2>2. \A b \in 0 .. n - 1 : b < NDIRECT => b \in 0 .. NDIRECT - 1 /\ b < n
      BY <1>1, FsSizes
    <2> QED
      BY <2>1, <2>2
  <1>5. \A b \in 0 .. n - 1 : b >= NDIRECT => NumberAt(ind, b - NDIRECT) = start + b
    <2> TAKE b \in 0 .. n - 1
    <2>1. b >= NDIRECT => b - NDIRECT \in 0 .. NINDIRECT - 1 /\ NDIRECT + (b - NDIRECT) = b
      BY <1>1, <1>3, FsSizes
    <2> QED
      BY <1>1, <2>1, FsSizes DEF NumberAt
  <1> HIDE DEF direct, ind
  <1>6. rec \in Records /\ rec.size = len /\ rec.name = f.name /\ rec.dir = f.dir /\ rec.direct = direct
    BY <1>4 DEF Records
  <1>7. pos \in Block
    BY FsSizes DEF Block
  <1> HIDE DEF rec
  <1>8. CASE n < NDIRECT
    <2>1. out = [file |-> rec, disk |-> d, pos |-> pos]
      BY <1>2, <1>8
    <2>2. out.file = rec /\ out.disk = d /\ out.pos = pos
      BY <2>1
    <2>3. out.file \in Records /\ out.file.size = len /\ out.file.name = f.name /\ out.file.dir = f.dir
      BY <1>6, <2>2
    <2>4. out.pos \in pos .. nblocks - 1
      BY <2>2, FsSizes
    <2>5. PerBlock(out.disk) /\ \A b \in Block : out.disk[b] = d[b]
      BY <2>2
    <2>6. \A b \in 0 .. n - 1 : b < NDIRECT /\ ~(b >= NDIRECT)
      BY <1>1, <1>8, FsSizes
    <2>7. \A b \in 0 .. n - 1 : out.file.direct[b] = start + b
      BY <1>4, <1>6, <2>2, <2>6
    <2>8. ~(n > NDIRECT)
      BY <1>1, <1>8, FsSizes
    <2> QED
      BY <2>3, <2>4, <2>5, <2>6, <2>7, <2>8, Zenon DEF n
  <1>9. CASE ~(n < NDIRECT) /\ ~(pos + 1 >= nblocks)
    <2> DEFINE file == [rec EXCEPT !.indirect = pos]
               dk == [d EXCEPT ![pos] = ind]
    <2>1. out = [file |-> file, disk |-> dk, pos |-> pos + 1]
      BY <1>2, <1>9
    <2>2. file \in Records /\ file.size = len /\ file.name = f.name /\ file.dir = f.dir
          /\ file.direct = direct /\ file.indirect = pos
      <3>1. pos \in Nat
        BY FsSizes
      <3> QED
        BY <1>6, <3>1 DEF Records
    <2>3. /\ PerBlock(dk) /\ dk[pos] = ind /\ ind.kind = "numbers"
          /\ \A b \in Block : b # pos => dk[b] = d[b]
      BY <1>7 DEF ind, PerBlock
    <2> HIDE DEF file, dk
    <2>4. out.file = file /\ out.disk = dk /\ out.pos = pos + 1
      BY <2>1
    <2>5. out.pos \in pos .. nblocks - 1
      BY <1>9, <2>4, FsSizes
    <2>6. \A b \in Block : out.disk[b] = d[b] \/ (b = pos /\ out.disk[b].kind = "numbers")
      BY <2>3, <2>4
    <2>7. \A b \in 0 .. n - 1 : b < NDIRECT => out.file.direct[b] = start + b
      BY <1>4, <2>2, <2>4
    <2>8. \A b \in 0 .. n - 1 : b >= NDIRECT => NumberAt(out.disk[pos], b - NDIRECT) = start + b
      BY <1>5, <2>3, <2>4, Zenon
    <2> QED
      BY <2>2, <2>3, <2>4, <2>5, <2>6, <2>7, <2>8, Zenon DEF n
  <1>10. CASE ~(n < NDIRECT) /\ pos + 1 >= nblocks
    <2>1. out = [file |-> rec, disk |-> d, pos |-> nblocks]
      BY <1>2, <1>10
    <2> QED
      BY <2>1
  <1> QED
    BY <1>8, <1>9, <1>10, Zenon

LEMMA WrittenIs ==
  ASSUME FsTypeOK, NEW n \in Nat, diskpos + n < nblocks, NEW data, DOMAIN data = 0 .. n - 1,
         NEW d, d = Written(data)
  PROVE  /\ PerBlock(d)
         /\ \A b \in Block : b \notin diskpos .. diskpos + n - 1 => d[b] = disk[b]
         /\ \A i \in 0 .. n - 1 : diskpos + i \in Block /\ d[diskpos + i] = data[i]
  <1>1. /\ PerBlock(d)
        /\ \A b \in Block : d[b] = IF b - diskpos \in 0 .. n - 1 THEN data[b - diskpos] ELSE disk[b]
    BY DEF Written, PerBlock
  <1>2. ASSUME NEW b \in Block, b \notin diskpos .. diskpos + n - 1 PROVE b - diskpos \notin 0 .. n - 1
    BY <1>2, FsTyped DEF Block
  <1>3. ASSUME NEW i \in 0 .. n - 1 PROVE diskpos + i \in Block /\ (diskpos + i) - diskpos = i
    BY FsTyped, FsSizes DEF Block
  <1> QED
    BY <1>1, <1>2, <1>3

\* A file stays on the disk when what comes after it changes.
LEMMA StoredKept ==
  ASSUME FsTypeOK, NEW i \in 1 .. Len(ents), FileStored(i),
         diskpos' >= diskpos, diskpos' \in Nat, ents'[i] = ents[i], host'[i] = host[i],
         \A b \in 3 .. diskpos - 1 : disk'[b] = disk[b]
  PROVE  FileStored(i)'
  <1>1. PICK f \in Records : f = ents[i]
    BY FsTyped
  <1>2. f.size \in Nat /\ diskpos \in Nat
    BY <1>1, FsTyped
  <1>3. PICK n \in Nat : n = RoundUp(f.size)
    BY <1>2, RoundUpIs
  <1>4. Reaches(f, n, diskpos)
    BY <1>1, <1>3 DEF FileStored
  <1>5. \A b \in 0 .. n - 1 : BlockAt(f, b)' = BlockAt(f, b) /\ BlockAt(f, b) \in 3 .. diskpos - 1
    <2> TAKE b \in 0 .. n - 1
    <2>1. b >= NDIRECT => disk'[f.indirect] = disk[f.indirect]
      <3>1. b >= NDIRECT => n > NDIRECT
        BY FsSizes
      <3> QED
        BY <1>4, <3>1 DEF Reaches
    <2>2. BlockAt(f, b) \in 3 .. diskpos - 1
      BY <1>4 DEF Reaches
    <2> QED
      BY <2>1, <2>2, FsSizes DEF BlockAt
  <1>6. Reaches(f, n, diskpos)'
    BY <1>2, <1>4, <1>5, FsSizes DEF Reaches
  <1>7. /\ f.name = host'[i].name /\ f.size = host'[i].size /\ ~f.dir
        /\ \A b \in 0 .. n - 1, k \in 0 .. BLKSIZE - 1 :
              b * BLKSIZE + k < f.size =>
                 ByteAt(disk'[BlockAt(f, b)'], k) = <<"data", i, b * BLKSIZE + k>>
    BY <1>1, <1>3, <1>5, SMTT(30) DEF FileStored
  <1> QED
    BY <1>1, <1>3, <1>6, <1>7 DEF FileStored

\* A file laid out from the first free block on: the n blocks of data are in
\* its blocks, a block of numbers may follow, and the rest is as it was.
LEMMA LaidOut ==
  ASSUME FsTypeOK, NEW f \in Records, NEW len \in Nat, NEW n \in Nat, diskpos + n < nblocks,
         NEW data, DOMAIN data = 0 .. n - 1, n <= RoundUp(len), RoundUp(len) <= NDIRECT + NINDIRECT,
         NEW out, out = Finished(f, diskpos, len, diskpos + n, Written(data)), out.pos # nblocks
  PROVE  /\ out.file \in Records /\ out.file.size = len
         /\ out.file.name = f.name /\ out.file.dir = f.dir
         /\ out.pos \in diskpos + n .. nblocks - 1
         /\ PerBlock(out.disk)
         /\ \A b \in Block :
               \/ b \notin diskpos .. diskpos + n - 1 /\ out.disk[b] = disk[b]
               \/ b - diskpos \in 0 .. n - 1 /\ out.disk[b] = data[b - diskpos]
               \/ b = diskpos + n /\ out.disk[b].kind = "numbers"
         /\ \A b \in 0 .. n - 1 : out.disk[diskpos + b] = data[b]
         /\ \A b \in 0 .. RoundUp(len) - 1 :
               /\ b < NDIRECT => out.file.direct[b] = diskpos + b
               /\ b >= NDIRECT => /\ out.file.indirect = diskpos + n
                                  /\ NumberAt(out.disk[out.file.indirect], b - NDIRECT) = diskpos + b
         /\ RoundUp(len) > NDIRECT => out.file.indirect = diskpos + n /\ out.pos = diskpos + n + 1
  <1>1. diskpos \in Nat /\ diskpos + n \in 3 .. nblocks - 1
    BY FsTyped, FsSizes
  <1>2. PICK d : d = Written(data)
    OBVIOUS
  <1>3. /\ PerBlock(d)
        /\ \A b \in Block : b \notin diskpos .. diskpos + n - 1 => d[b] = disk[b]
        /\ \A b \in 0 .. n - 1 : diskpos + b \in Block /\ d[diskpos + b] = data[b]
    BY <1>2, WrittenIs
  <1>a. PICK start \in Nat, pos \in 3 .. nblocks - 1 : start = diskpos /\ pos = diskpos + n
    BY <1>1
  <1>b. out = Finished(f, start, len, pos, d)
    BY <1>2, <1>a
  <1>c. /\ out.file \in Records /\ out.file.size = len
        /\ out.file.name = f.name /\ out.file.dir = f.dir
        /\ out.pos \in pos .. nblocks - 1
        /\ PerBlock(out.disk)
        /\ \A b \in Block : out.disk[b] = d[b] \/ (b = pos /\ out.disk[b].kind = "numbers")
        /\ \A b \in 0 .. RoundUp(len) - 1 :
              /\ b < NDIRECT => out.file.direct[b] = start + b
              /\ b >= NDIRECT => /\ out.file.indirect = pos
                                 /\ NumberAt(out.disk[pos], b - NDIRECT) = start + b
        /\ RoundUp(len) > NDIRECT => out.file.indirect = pos /\ out.pos = pos + 1
    BY <1>3, <1>b, FinishedIs, SMTT(90)
  <1>4. /\ out.file \in Records /\ out.file.size = len
        /\ out.file.name = f.name /\ out.file.dir = f.dir
        /\ out.pos \in diskpos + n .. nblocks - 1
        /\ PerBlock(out.disk)
        /\ \A b \in Block : out.disk[b] = d[b] \/ (b = diskpos + n /\ out.disk[b].kind = "numbers")
        /\ \A b \in 0 .. RoundUp(len) - 1 :
              /\ b < NDIRECT => out.file.direct[b] = diskpos + b
              /\ b >= NDIRECT => /\ out.file.indirect = diskpos + n
                                 /\ NumberAt(out.disk[diskpos + n], b - NDIRECT) = diskpos + b
        /\ RoundUp(len) > NDIRECT => out.file.indirect = diskpos + n /\ out.pos = diskpos + n + 1
    BY <1>a, <1>c
  <1>5. \A b \in 0 .. n - 1 : diskpos + b # diskpos + n
    BY <1>1
  <1>6. \A b \in 0 .. n - 1 : out.disk[diskpos + b] = data[b]
    BY <1>3, <1>4, <1>5, Zenon
  <1>7. ASSUME NEW b \in Block, b \in diskpos .. diskpos + n - 1
        PROVE  b - diskpos \in 0 .. n - 1 /\ out.disk[b] = data[b - diskpos]
    <2>1. b - diskpos \in 0 .. n - 1 /\ diskpos + (b - diskpos) = b
      BY <1>1, <1>7
    <2> QED
      BY <1>6, <2>1
  <1> QED
    BY <1>3, <1>4, <1>6, <1>7, Zenon

\* Before the server runs it is idle and nothing is in its memory.
LEMMA NotServing ==
  ASSUME FsInv, phase = "format", UNCHANGED <<cache, fs>>
  PROVE  /\ fs' \in Requests' /\ CacheInv' /\ LoopInv'
  <1>1. fs.op = "idle" /\ fs.pos = 0 /\ fs.buf = <<>> /\ fs \in Requests
    BY DEF FsInv, LoopInv, FsTypeOK
  <1>2. fs' \in Requests'
    <2>1. <<>> \in Seq(DiskBytes')
      OBVIOUS
    <2> QED
      BY <1>1, <2>1 DEF Requests
  <1>3. CacheInv'
    BY DEF FsInv, CacheInv, Cached
  <1>4. LoopInv'
    BY <1>1 DEF LoopInv, WalkInv, ReadInv, LookupExact
  <1> QED
    BY <1>2, <1>3, <1>4

LEMMA PanicStep ==
  ASSUME FsInv, phase = "format", phase' = "panic", UNCHANGED <<disk, diskpos, root, ents, host, cache, fs>>
  PROVE  FsInv'
  <1>1. FsTypeOK'
    BY NotServing DEF FsInv, FsTypeOK
  <1>2. DiskInv'
    BY DEF FsInv, DiskInv, FileStored, Reaches, BlockAt
  <1> QED
    BY <1>1, <1>2, NotServing DEF FsInv

LEMMA BlocksOfFile ==
  ASSUME NEW size \in Nat, NEW m \in Nat, size <= m * BLKSIZE
  PROVE  RoundUp(size) \in Nat /\ RoundUp(size) <= m
  <1>1. RoundUp(size) \in Nat /\ (m < RoundUp(size) <=> m * BLKSIZE < size)
    BY RoundUpIs
  <1>2. m * BLKSIZE \in Nat
    BY RoundUpWhole
  <1> QED
    BY <1>1, <1>2

LEMMA WriteFileStep ==
  ASSUME FsInv, NEW name \in Name, NEW size \in HostSize, WriteFile(name, size)
  PROVE  FsInv'
  <1> DEFINE b0 == [b \in 0 .. RoundUp(size) - 1 |->
                      [kind |-> "bytes",
                       at |-> [k \in 0 .. BLKSIZE - 1 |->
                                 IF b * BLKSIZE + k < size THEN <<"data", Len(ents) + 1, b * BLKSIZE + k>>
                                 ELSE <<"zero", 0, 0>>]]]
             f0 == [EmptyFile EXCEPT !.name = name]
             o0 == Finished(f0, diskpos, size, diskpos + RoundUp(size), Written(b0))
  <1>1. /\ phase = "format" /\ size < MAXFILESIZE /\ UNCHANGED <<root, cache, fs>>
        /\ IF Len(ents) = MAXDIRENTS \/ ~Alloc(RoundUp(size)) \/ o0.pos = nblocks
             THEN phase' = "panic" /\ UNCHANGED <<disk, diskpos, ents, host>>
             ELSE /\ disk' = o0.disk /\ diskpos' = o0.pos
                  /\ ents' = Append(ents, o0.file)
                  /\ host' = Append(host, [name |-> name, size |-> size])
                  /\ UNCHANGED phase
    BY DEF WriteFile
  <1>2. PICK out, data, f, n, e : /\ out = o0 /\ data = b0 /\ f = f0 /\ n = RoundUp(size) /\ e = Len(ents)
    OBVIOUS
  <1> HIDE DEF o0, b0, f0
  <1>3. CASE Len(ents) = MAXDIRENTS \/ ~Alloc(RoundUp(size)) \/ o0.pos = nblocks
    BY <1>1, <1>3, PanicStep, Zenon
  <1>4. CASE ~(e = MAXDIRENTS \/ ~Alloc(n) \/ out.pos = nblocks)
    <2>1. /\ phase = "format" /\ phase' = phase /\ UNCHANGED <<root, cache, fs>>
          /\ disk' = out.disk /\ diskpos' = out.pos
          /\ ents' = Append(ents, out.file) /\ host' = Append(host, [name |-> name, size |-> size])
          /\ Len(ents) # MAXDIRENTS /\ diskpos + n < nblocks /\ out.pos # nblocks
      BY <1>1, <1>2, <1>4, Zenon DEF Alloc
    <2>2. size \in Nat /\ e \in Nat /\ FsTypeOK /\ e = Len(ents)
      BY <1>2, RequestAssumption, FsTyped DEF FsInv
    <2>3. n \in Nat /\ n <= NDIRECT + NINDIRECT /\ n = RoundUp(size)
      <3>1. NDIRECT + NINDIRECT \in Nat /\ size <= (NDIRECT + NINDIRECT) * BLKSIZE
        <4>1. NDIRECT + NINDIRECT \in Nat /\ BLKSIZE \in Nat \ {0}
          BY FsSizes
        <4>2. (NDIRECT + NINDIRECT) * BLKSIZE \in Nat
          BY <4>1, Multiples
        <4> QED
          BY <1>1, <2>2, <4>1, <4>2 DEF MAXFILESIZE
      <3> QED
        BY <1>2, <2>2, <3>1, BlocksOfFile
    <2>4. f \in Records /\ f.name = name /\ ~f.dir
      <3>1. NoBlocks \in [0 .. NDIRECT - 1 -> Nat]
        BY DEF NoBlocks
      <3> QED
        BY <1>2, <3>1 DEF f0, EmptyFile, Records
    <2>5. /\ DOMAIN data = 0 .. n - 1
          /\ \A b \in 0 .. n - 1 :
                /\ data[b].kind = "bytes"
                /\ \A k \in 0 .. BLKSIZE - 1 : b * BLKSIZE + k < size =>
                      ByteAt(data[b], k) = <<"data", e + 1, b * BLKSIZE + k>>
      BY <1>2 DEF b0, ByteAt
    <2>6. out = Finished(f, diskpos, size, diskpos + n, Written(data))
      BY <1>2 DEF o0
    <2>7. /\ out.file \in Records /\ out.file.size = size
          /\ out.file.name = f.name /\ out.file.dir = f.dir
          /\ out.pos \in diskpos + n .. nblocks - 1
          /\ PerBlock(out.disk)
          /\ \A b \in Block :
                \/ b \notin diskpos .. diskpos + n - 1 /\ out.disk[b] = disk[b]
                \/ b - diskpos \in 0 .. n - 1 /\ out.disk[b] = data[b - diskpos]
                \/ b = diskpos + n /\ out.disk[b].kind = "numbers"
          /\ \A b \in 0 .. n - 1 : out.disk[diskpos + b] = data[b]
          /\ \A b \in 0 .. n - 1 :
                /\ b < NDIRECT => out.file.direct[b] = diskpos + b
                /\ b >= NDIRECT => /\ out.file.indirect = diskpos + n
                                   /\ NumberAt(out.disk[out.file.indirect], b - NDIRECT) = diskpos + b
          /\ n > NDIRECT => out.file.indirect = diskpos + n /\ out.pos = diskpos + n + 1
      <3>1. n <= RoundUp(size) /\ RoundUp(size) <= NDIRECT + NINDIRECT
        BY <2>3
      <3> QED
        BY <2>1, <2>2, <2>3, <2>4, <2>5, <2>6, <3>1, LaidOut, SMTT(30)
    <2>8. diskpos \in Nat /\ 3 <= diskpos
      BY <2>2, FsTyped
    <2>9. FsTypeOK'
      <3>1. ents' \in Seq(Records) /\ Len(ents') = e + 1 /\ ents \in Seq(Records)
        BY <2>1, <2>2, <2>7 DEF FsTypeOK
      <3>2. [name |-> name, size |-> size] \in [name : Name, size : Nat]
        BY <2>2
      <3>3. host' \in Seq([name : Name, size : Nat]) /\ Len(host') = e + 1
        <4>1. host \in Seq([name : Name, size : Nat]) /\ Len(host) = e
          BY <2>2 DEF FsTypeOK
        <4>2. \A S, s, x : s \in Seq(S) /\ x \in S => Append(s, x) \in Seq(S) /\ Len(Append(s, x)) = Len(s) + 1
          OBVIOUS
        <4> QED
          BY <2>1, <3>2, <4>1, <4>2, Zenon
      <3>4. e + 1 <= MAXDIRENTS
        BY <2>1, <2>2, FsTyped, FsSizes
      <3>5. \A b \in Block : disk'[b].kind # "absent"
        BY <2>1, <2>2, <2>5, <2>7, ZenonT(60) DEF FsTypeOK
      <3>6. diskpos' \in 3 .. nblocks - 1
        BY <2>1, <2>3, <2>7, <2>8, FsSizes
      <3>7. fs' \in Requests' /\ root' = root /\ root \in Records /\ root.dir /\ PerBlock(disk')
        BY <2>1, <2>2, <2>7, NotServing, Zenon DEF FsTypeOK
      <3> QED
        BY <2>1, <3>1, <3>3, <3>4, <3>5, <3>6, <3>7, Zenon DEF FsTypeOK
    <2>10. \A i \in 1 .. Len(ents') : FileStored(i)'
      <3> SUFFICES ASSUME NEW i \in 1 .. Len(ents') PROVE FileStored(i)'
        OBVIOUS
      <3>1. /\ ents \in Seq(Records) /\ host \in Seq([name : Name, size : Nat]) /\ Len(host) = e
            /\ Len(ents') = e + 1
        BY <2>1, <2>2 DEF FsTypeOK
      <3>2. CASE i <= e
        <4>1. i \in 1 .. Len(ents)
          BY <2>2, <3>2
        <4>2. ents'[i] = ents[i] /\ host'[i] = host[i]
          BY <2>1, <2>2, <3>1, <4>1
        <4>3. diskpos' \in Nat /\ diskpos' >= diskpos
          BY <2>1, <2>3, <2>7, <2>8, FsSizes, SMTT(30)
        <4>4. \A b \in 3 .. diskpos - 1 : disk'[b] = disk[b]
          <5>1. \A b \in 3 .. diskpos - 1 : /\ b \in Block /\ b - diskpos \notin 0 .. n - 1 /\ b # diskpos + n
            BY <2>1, <2>3, <2>8, FsSizes DEF Block
          <5> QED
            BY <2>1, <2>7, <5>1
        <4>5. FileStored(i)
          BY <4>1 DEF FsInv, DiskInv
        <4> QED
          BY <2>2, <4>1, <4>2, <4>3, <4>4, <4>5, StoredKept
      <3>3. CASE i = e + 1
        <4>1. ents'[i] = out.file /\ host'[i] = [name |-> name, size |-> size]
          BY <2>1, <2>2, <3>1, <3>3
        <4>2. PICK g \in Records : g = out.file /\ g.size = size /\ g.name = name /\ ~g.dir
          BY <2>4, <2>7
        <4>3. \A b \in 0 .. n - 1 : BlockAt(g, b)' = diskpos + b
          <5> TAKE b \in 0 .. n - 1
          <5>1. b < NDIRECT => g.direct[b] = diskpos + b
            BY <2>7, <4>2, Zenon
          <5>2. b >= NDIRECT => NumberAt(disk'[g.indirect], b - NDIRECT) = diskpos + b
            BY <2>1, <2>7, <4>2, Zenon
          <5>3. b < NDIRECT \/ b >= NDIRECT
            BY <2>3, FsSizes
          <5> QED
            BY <5>1, <5>2, <5>3 DEF BlockAt
        <4>4. Reaches(g, n, diskpos)'
          <5>1. n > NDIRECT => g.indirect \in 3 .. diskpos' - 1
            <6>1. n > NDIRECT => g.indirect = diskpos + n /\ diskpos' = diskpos + n + 1
              BY <2>1, <2>7, <4>2, Zenon
            <6> QED
              BY <2>3, <2>8, <6>1
          <5>2. \A b \in 0 .. n - 1 : diskpos + b \in 3 .. diskpos' - 1
            <6>1. diskpos' \in Nat /\ diskpos + n <= diskpos'
              BY <2>1, <2>3, <2>7, <2>8, FsSizes, SMTT(30)
            <6>2. \A p, t \in Nat : 3 <= p /\ p + n <= t => \A b \in 0 .. n - 1 : p + b \in 3 .. t - 1
              BY <2>3
            <6> QED
              BY <2>8, <6>1, <6>2
          <5> QED
            BY <2>3, <4>3, <5>1, <5>2 DEF Reaches
        <4>5. ASSUME NEW b \in 0 .. n - 1, NEW k \in 0 .. BLKSIZE - 1, b * BLKSIZE + k < size
              PROVE  ByteAt(disk'[BlockAt(g, b)'], k) = <<"data", i, b * BLKSIZE + k>>
          <5>1. disk'[BlockAt(g, b)'] = data[b]
            BY <2>1, <2>7, <4>3
          <5> QED
            BY <2>5, <3>3, <4>5, <5>1, Zenon
        <4> QED
          BY <2>3, <4>1, <4>2, <4>4, <4>5 DEF FileStored
      <3> QED
        BY <2>2, <3>1, <3>2, <3>3
    <2>11. \A b \in Block : disk'[b].kind # "files"
      <3>1. \A b \in Block : disk[b].kind # "files"
        BY <2>1 DEF FsInv, DiskInv
      <3> QED
        BY <2>1, <2>5, <2>7, <3>1
    <2> QED
      BY <2>1, <2>9, <2>10, <2>11, NotServing DEF FsInv, DiskInv
  <1> QED
    BY <1>2, <1>3, <1>4, Zenon

\* The blocks of the root directory: enough for its entries, and one if there
\* are none.
LEMMA RootLength ==
  ASSUME NEW e \in Nat, e <= MAXDIRENTS, NEW n, n = RoundUp(e * SizeofFile)
  PROVE  /\ n \in Nat /\ n <= NDIRECT + NINDIRECT /\ e <= n * BLKFILES /\ (n = 0 <=> e = 0)
  <1>1. e * SizeofFile \in Nat
    BY FsSizes, Multiples
  <1>2. n \in Nat /\ \A b \in Nat : b < n <=> b * BLKSIZE < e * SizeofFile
    BY <1>1, RoundUpIs
  <1>3. \A b \in Nat : b * BLKFILES \in Nat /\ b * BLKSIZE = (b * BLKFILES) * SizeofFile
    BY FsSizes, SMT
  <1>4. ASSUME NEW b \in Nat PROVE b < n <=> b * BLKFILES < e
    <2>1. PICK c \in Nat : c = b * BLKFILES /\ b * BLKSIZE = c * SizeofFile
      BY <1>3
    <2>2. (c < e => c * SizeofFile + SizeofFile <= e * SizeofFile) /\ (e <= c <=> e * SizeofFile <= c * SizeofFile)
      BY FsSizes, Multiples
    <2>3. c * SizeofFile \in Nat
      BY FsSizes, Multiples
    <2> QED
      BY <1>1, <1>2, <2>1, <2>2, <2>3, FsSizes
  <1>5. ~(n < n) /\ (n < n <=> n * BLKFILES < e) /\ n * BLKFILES \in Nat
    BY <1>2, <1>3, <1>4
  <1>6. PICK t \in Nat : t = NDIRECT + NINDIRECT
    BY FsSizes
  <1>7. (t < n <=> t * BLKFILES < e) /\ t * BLKFILES \in Nat /\ MAXDIRENTS <= t * BLKFILES
    BY <1>3, <1>4, <1>6, FsSizes
  <1>8. 0 * BLKFILES = 0 /\ (0 < n <=> 0 * BLKFILES < e)
    BY <1>4, FsSizes
  <1> QED
    BY <1>2, <1>5, <1>6, <1>7, <1>8, FsSizes

LEMMA FinishDirStep ==
  ASSUME FsInv, FinishDir
  PROVE  FsInv'
  <1> DEFINE n0 == RoundUp(Len(ents) * SizeofFile)
             b0 == [b \in 0 .. n0 - 1 |->
                      [kind |-> "files",
                       at |-> [j \in 0 .. BLKFILES - 1 |->
                                 IF b * BLKFILES + j < Len(ents) THEN ents[b * BLKFILES + j + 1]
                                 ELSE EmptyFile]]]
             len0 == IF n0 = 0 THEN BLKSIZE ELSE n0 * BLKSIZE
             o0 == Finished(root, diskpos, len0, diskpos + n0, Written(b0))
  <1>1. /\ phase = "format" /\ UNCHANGED <<ents, host, cache, fs>>
        /\ IF ~Alloc(n0) \/ o0.pos = nblocks
             THEN phase' = "panic" /\ UNCHANGED <<disk, diskpos, root>>
             ELSE /\ phase' = "done"
                  /\ disk' = o0.disk /\ diskpos' = o0.pos
                  /\ root' = o0.file
    BY DEF FinishDir
  <1>2. PICK n, data, len, out, e : n = n0 /\ data = b0 /\ len = len0 /\ out = o0 /\ e = Len(ents)
    OBVIOUS
  <1> HIDE DEF o0, b0, len0, n0
  <1>3. CASE ~Alloc(n0) \/ o0.pos = nblocks
    BY <1>1, <1>3, PanicStep, Zenon
  <1>4. CASE ~(~Alloc(n) \/ out.pos = nblocks)
    <2>1. /\ phase = "format" /\ phase' = "done" /\ UNCHANGED <<ents, host, cache, fs>>
          /\ disk' = out.disk /\ diskpos' = out.pos /\ root' = out.file
          /\ diskpos + n < nblocks /\ out.pos # nblocks
      BY <1>1, <1>2, <1>4, Zenon DEF Alloc
    <2>2. e \in Nat /\ FsTypeOK /\ e = Len(ents) /\ root \in Records /\ root.dir /\ e <= MAXDIRENTS
      BY <1>2, FsTyped DEF FsInv
    <2>3. /\ n \in Nat /\ n <= NDIRECT + NINDIRECT /\ e <= n * BLKFILES /\ (n = 0 <=> e = 0)
      <3>1. n = RoundUp(e * SizeofFile)
        BY <1>2 DEF n0
      <3> QED
        BY <2>2, <3>1, RootLength
    <2>4. PICK m \in Nat : m = IF n = 0 THEN 1 ELSE n
      BY <2>3
    <2>5. len \in Nat /\ len = m * BLKSIZE /\ RoundUp(len) = m
      <3>1. len = m * BLKSIZE
        BY <1>2, <2>3, <2>4, FsSizes DEF len0
      <3> QED
        BY <3>1, RoundUpWhole
    <2>6. n <= m /\ m <= NDIRECT + NINDIRECT /\ e <= m * BLKFILES
      BY <2>3, <2>4, FsSizes
    <2>7. /\ DOMAIN data = 0 .. n - 1
          /\ \A b \in 0 .. n - 1 :
                /\ data[b].kind = "files"
                /\ \A j \in 0 .. BLKFILES - 1 : FileAt(data[b], j) = EntryAt(b * BLKFILES + j)
      BY <1>2 DEF b0, FileAt, EntryAt
    <2>8. out = Finished(root, diskpos, len, diskpos + n, Written(data))
      BY <1>2 DEF o0
    <2>9. PICK r \in Records : r = root
      BY <2>2
    <2>10. /\ out.file \in Records /\ out.file.size = len
           /\ out.file.name = r.name /\ out.file.dir = r.dir
           /\ out.pos \in diskpos + n .. nblocks - 1
           /\ PerBlock(out.disk)
           /\ \A b \in Block :
                \/ b \notin diskpos .. diskpos + n - 1 /\ out.disk[b] = disk[b]
                \/ b - diskpos \in 0 .. n - 1 /\ out.disk[b] = data[b - diskpos]
                \/ b = diskpos + n /\ out.disk[b].kind = "numbers"
           /\ \A b \in 0 .. n - 1 : out.disk[diskpos + b] = data[b]
           /\ \A b \in 0 .. RoundUp(len) - 1 :
                /\ b < NDIRECT => out.file.direct[b] = diskpos + b
                /\ b >= NDIRECT => /\ out.file.indirect = diskpos + n
                                   /\ NumberAt(out.disk[out.file.indirect], b - NDIRECT) = diskpos + b
           /\ RoundUp(len) > NDIRECT => out.file.indirect = diskpos + n /\ out.pos = diskpos + n + 1
      <3>1. n <= RoundUp(len) /\ RoundUp(len) <= NDIRECT + NINDIRECT
        BY <2>5, <2>6
      <3>2. out = Finished(r, diskpos, len, diskpos + n, Written(data))
        BY <2>8, <2>9
      <3> QED
        BY <2>1, <2>2, <2>3, <2>5, <2>7, <3>1, <3>2, LaidOut, SMTT(30)
    <2>11. diskpos \in Nat /\ 3 <= diskpos
      BY <2>2, FsTyped
    <2>12. FsTypeOK'
      <3>1. \A b \in Block : disk'[b].kind # "absent"
        BY <2>1, <2>2, <2>7, <2>10, SMTT(30) DEF FsTypeOK
      <3>2. diskpos' \in 3 .. nblocks - 1
        BY <2>1, <2>3, <2>10, <2>11, FsSizes
      <3>3. fs' \in Requests' /\ root' \in Records /\ root'.dir /\ PerBlock(disk')
        BY <2>1, <2>2, <2>9, <2>10, NotServing, Zenon DEF FsTypeOK
      <3> QED
        BY <2>1, <2>2, <3>1, <3>2, <3>3 DEF FsTypeOK
    <2>13. \A i \in 1 .. Len(ents') : FileStored(i)'
      <3>1. \A b \in 3 .. diskpos - 1 : disk'[b] = disk[b]
        <4>1. \A b \in 3 .. diskpos - 1 : /\ b \in Block /\ b - diskpos \notin 0 .. n - 1 /\ b # diskpos + n
          BY <2>1, <2>3, <2>11, FsSizes DEF Block
        <4> QED
          BY <2>1, <2>10, <4>1
      <3>2. diskpos' \in Nat /\ diskpos' >= diskpos
        BY <2>1, <2>3, <2>10, <2>11, FsSizes
      <3>3. ASSUME NEW i \in 1 .. Len(ents) PROVE FileStored(i) /\ ents'[i] = ents[i] /\ host'[i] = host[i]
        BY <2>1 DEF FsInv, DiskInv
      <3> QED
        BY <2>1, <2>2, <3>1, <3>2, <3>3, StoredKept
    <2>14. RootStored'
      <3>1. PICK g \in Records : g = out.file /\ g.size = m * BLKSIZE /\ g = root'
        BY <2>1, <2>5, <2>10
      <3>2. m * BLKSIZE \in Nat /\ (m * BLKSIZE + 0) \div BLKSIZE = m /\ m * BLKSIZE + 0 = m * BLKSIZE
        <4>1. 0 \in 0 .. BLKSIZE - 1
          BY FsSizes
        <4>2. (m * BLKSIZE + 0) \div BLKSIZE = m
          BY <4>1, FsSizes, QuotientIs
        <4>3. m * BLKSIZE \in Nat
          BY FsSizes, Multiples
        <4> QED
          BY <4>2, <4>3
      <3>3. RootBlocks' = m
        BY <3>1, <3>2 DEF RootBlocks
      <3>4. \A b \in 0 .. m - 1 : BlockAt(g, b)' = diskpos + b /\ diskpos + b \in 3 .. nblocks - 1
        <4> TAKE b \in 0 .. m - 1
        <4>1. b < NDIRECT => g.direct[b] = diskpos + b
          BY <2>5, <2>10, <3>1, Zenon
        <4>2. b >= NDIRECT => NumberAt(disk'[g.indirect], b - NDIRECT) = diskpos + b
          BY <2>1, <2>5, <2>10, <3>1, Zenon
        <4>3. b < NDIRECT \/ b >= NDIRECT
          BY FsSizes
        <4>4. BlockAt(g, b)' = diskpos + b
          BY <4>1, <4>2, <4>3 DEF BlockAt
        <4>5. diskpos + b <= diskpos + n /\ 3 <= diskpos + b /\ diskpos + b \in Nat
          BY <2>3, <2>4, <2>11
        <4> QED
          BY <2>1, <2>3, <2>11, <4>4, <4>5, FsSizes
      <3>5. Reaches(g, m, nblocks)'
        <4>1. m > NDIRECT => g.indirect \in 3 .. nblocks - 1
          BY <2>1, <2>3, <2>5, <2>10, <2>11, <3>1, FsSizes
        <4> QED
          BY <2>6, <3>4, <4>1 DEF Reaches
      <3>6. ASSUME NEW b \in 0 .. m - 1
            PROVE  /\ \A j \in 0 .. BLKFILES - 1 : FileAt(disk'[BlockAt(g, b)'], j) = EntryAt(b * BLKFILES + j)'
                   /\ ents' # <<>> => disk'[BlockAt(g, b)'].kind = "files"
        <4>1. \A q : EntryAt(q)' = EntryAt(q)
          BY <2>1 DEF EntryAt
        <4>2. CASE n # 0
          <5>1. b \in 0 .. n - 1 /\ disk'[BlockAt(g, b)'] = data[b]
            <6>1. b \in 0 .. n - 1
              BY <2>4, <4>2
            <6> QED
              BY <2>1, <2>10, <3>4, <6>1
          <5> QED
            BY <2>7, <4>1, <5>1, Zenon
        <4>3. CASE n = 0
          <5>1. b = 0 /\ diskpos \in Block /\ diskpos + 0 = diskpos
            BY <2>1, <2>3, <2>4, <2>11, <4>3, FsSizes DEF Block
          <5>2. disk'[BlockAt(g, b)'].kind # "files"
            <6>1. disk[diskpos].kind # "files"
              BY <2>1, <5>1 DEF FsInv, DiskInv
            <6>2. disk'[diskpos] = disk[diskpos] \/ disk'[diskpos].kind = "numbers"
              <7>1. diskpos - diskpos \notin 0 .. n - 1
                BY <2>3, <2>11, <4>3
              <7> QED
                BY <2>1, <2>10, <5>1, <7>1
            <6> QED
              BY <3>4, <5>1, <6>1, <6>2
          <5>3. e = 0 /\ ents' = <<>>
            <6>1. e = 0 /\ ents \in Seq(Records)
              BY <2>2, <2>3, <4>3 DEF FsTypeOK
            <6> QED
              BY <2>1, <2>2, <6>1, EmptySeq, Zenon
          <5>4. \A j \in 0 .. BLKFILES - 1 : EntryAt(b * BLKFILES + j) = EmptyFile
            <6>1. \A j \in 0 .. BLKFILES - 1 : ~(b * BLKFILES + j < Len(ents))
              BY <2>2, <5>1, <5>3, FsSizes
            <6> QED
              BY <6>1 DEF EntryAt
          <5> QED
            BY <4>1, <5>2, <5>3, <5>4 DEF FileAt
        <4> QED
          BY <4>2, <4>3
      <3>7. Len(ents') <= m * BLKFILES
        BY <2>1, <2>2, <2>6
      <3> QED
        BY <3>1, <3>3, <3>5, <3>6, <3>7, Zenon DEF RootStored
    <2> QED
      BY <2>1, <2>12, <2>13, <2>14, NotServing DEF FsInv, DiskInv
  <1> QED
    BY <1>2, <1>3, <1>4, Zenon

-----------------------------------------------------------------------------
(* FsImage: the file server.                                               *)

\* A set of numbers has its least one.
LEMMA MinIs ==
  ASSUME NEW S \in SUBSET Nat, S # {}
  PROVE  Min(S) \in S /\ \A x \in S : Min(S) <= x
  <1>1. PICK x \in S : \A y \in S : ~(<<y, x>> \in OpToRel(<, Nat))
    BY NatLessThanWellFounded, WFMin
  <1>2. ASSUME NEW y \in S PROVE x <= y
    <2>1. y < x => <<y, x>> \in OpToRel(<, Nat)
      <3>1. <<y, x>> \in Nat \X Nat /\ <<y, x>>[1] = y /\ <<y, x>>[2] = x
        OBVIOUS
      <3> QED
        BY <3>1 DEF OpToRel
    <2>2. ~(y < x)
      BY <1>1, <2>1, Zenon
    <2> QED
      BY <2>2
  <1> QED
    BY <1>2 DEF Min

\* The file of a name is the first one of that name.
LEMMA FoundIs ==
  ASSUME FsTypeOK, NEW path, path # <<>>, Exists(path)
  PROVE  /\ Found(path) \in 1 .. Len(ents) /\ host[Found(path)].name = path[1]
         /\ \A i \in 1 .. Len(ents) : host[i].name = path[1] => Found(path) <= i
  <1>1. Files(path[1]) \subseteq 1 .. Len(ents) /\ Files(path[1]) # {} /\ Found(path) = Min(Files(path[1]))
    BY FsTyped DEF Exists, Files, Found
  <1>2. Files(path[1]) \in SUBSET Nat
    BY <1>1, FsTyped
  <1>3. Min(Files(path[1])) \in Files(path[1]) /\ \A i \in Files(path[1]) : Min(Files(path[1])) <= i
    BY <1>1, <1>2, MinIs, Zenon
  <1> QED
    BY <1>1, <1>3, FsTyped DEF Files

\* The blocks of a file of the image are blocks of the disk.
LEMMA FileReaches ==
  ASSUME FsInv, phase = "done", NEW path, Exists(path), NEW f, f = FileOf(path)
  PROVE  /\ f \in Records /\ f.size \in Nat /\ Reaches(f, RoundUp(f.size), nblocks)
         /\ path = <<>> => f = root /\ RoundUp(f.size) = RootBlocks
         /\ path # <<>> => f = ents[Found(path)] /\ FileStored(Found(path)) /\ Found(path) \in 1 .. Len(ents)
  <1>1. FsTypeOK
    BY DEF FsInv
  <1>2. CASE path = <<>>
    <2>1. f = root /\ RootStored
      BY <1>2 DEF FileOf, FsInv, DiskInv
    <2>2. RoundUp(root.size) = RootBlocks
      BY <2>1, RoundUpWhole DEF RootStored
    <2> QED
      BY <1>1, <1>2, <2>1, <2>2, FsTyped DEF RootStored
  <1>3. CASE path # <<>>
    <2>1. PICK i \in 1 .. Len(ents) : i = Found(path) /\ f = ents[i]
      BY <1>1, <1>3, FoundIs DEF FileOf
    <2>2. FileStored(i) /\ f \in Records /\ f.size \in Nat
      BY <1>1, <2>1, FsTyped DEF FsInv, DiskInv
    <2>3. PICK n \in Nat : n = RoundUp(f.size)
      BY <2>2, RoundUpIs
    <2>4. Reaches(f, n, diskpos)
      BY <2>1, <2>2, <2>3 DEF FileStored
    <2>5. \A b \in 3 .. diskpos - 1 : b \in 3 .. nblocks - 1
      BY <1>1, FsTyped, FsSizes
    <2>6. Reaches(f, n, nblocks)
      BY <2>4, <2>5 DEF Reaches
    <2> QED
      BY <1>3, <2>1, <2>2, <2>3, <2>6
  <1> QED
    BY <1>2, <1>3

\* The block with byte b * BLKSIZE of a file.
LEMMA BlockOfFile ==
  ASSUME FsInv, phase = "done", NEW path, Exists(path), NEW f, f = FileOf(path),
         NEW b \in Nat, b * BLKSIZE < f.size
  PROVE  /\ b < NDIRECT + NINDIRECT /\ BlockAt(f, b) \in 3 .. nblocks - 1
         /\ b >= NDIRECT => f.indirect \in 3 .. nblocks - 1
         /\ b \in 0 .. RoundUp(f.size) - 1
  <1>1. f.size \in Nat /\ Reaches(f, RoundUp(f.size), nblocks)
    BY FileReaches
  <1>2. PICK n \in Nat : n = RoundUp(f.size)
    BY <1>1, RoundUpIs
  <1>3. b < n
    BY <1>1, <1>2, RoundUpIs
  <1>4. b \in 0 .. n - 1 /\ (b >= NDIRECT => n > NDIRECT)
    BY <1>3, FsSizes
  <1>5. Reaches(f, n, nblocks)
    BY <1>1, <1>2
  <1>6. BlockAt(f, b) \in 3 .. nblocks - 1 /\ (b >= NDIRECT => f.indirect \in 3 .. nblocks - 1)
    BY <1>4, <1>5, Zenon DEF Reaches
  <1>7. n <= NDIRECT + NINDIRECT
    BY <1>5 DEF Reaches
  <1>8. b < NDIRECT + NINDIRECT
    BY <1>3, <1>7, FsSizes
  <1> QED
    BY <1>2, <1>4, <1>6, <1>8, Zenon

\* What is in it.
LEMMA ByteOfFile ==
  ASSUME FsInv, phase = "done", NEW path, Exists(path), NEW f, f = FileOf(path),
         NEW b \in Nat, NEW k \in 0 .. BLKSIZE - 1, b * BLKSIZE + k < f.size,
         host # <<>> \/ path # <<>>
  PROVE  ByteAt(disk[BlockAt(f, b)], k) = Bytes(Found(path), b * BLKSIZE + k)
  <1>1. f.size \in Nat /\ b * BLKSIZE \in Nat /\ k \in Nat
    BY FileReaches, RoundUpWhole, FsSizes
  <1>2. b * BLKSIZE < f.size
    BY <1>1
  <1>3. b \in 0 .. RoundUp(f.size) - 1
    BY <1>2, BlockOfFile
  <1>4. CASE path # <<>>
    <2>1. f = ents[Found(path)] /\ FileStored(Found(path)) /\ Found(path) \in 1 .. Len(ents)
      BY <1>4, FileReaches
    <2>2. PICK i : i = Found(path)
      OBVIOUS
    <2>3. ByteAt(disk[BlockAt(f, b)], k) = <<"data", i, b * BLKSIZE + k>>
      BY <1>3, <2>1, <2>2, Zenon DEF FileStored
    <2>4. i # 0
      BY <2>1, <2>2
    <2> QED
      BY <2>2, <2>3, <2>4 DEF Bytes
  <1>5. CASE path = <<>>
    <2>1. f = root /\ b \in 0 .. RootBlocks - 1 /\ Found(path) = 0
      BY <1>3, <1>5, FileReaches DEF Found
    <2>2. ents # <<>>
      <3>1. host \in Seq([name : Name, size : Nat]) /\ host # <<>> /\ Len(host) = Len(ents)
        BY <1>5 DEF FsInv, FsTypeOK
      <3>2. Len(host) # 0
        BY <3>1, EmptySeq, Zenon
      <3>3. ents = <<>> => Len(ents) = 0
        OBVIOUS
      <3> QED
        BY <3>1, <3>2, <3>3
    <2>3. PICK c, q : c = disk[BlockAt(f, b)] /\ q = k \div SizeofFile
      OBVIOUS
    <2>4. /\ c.kind = "files"
          /\ \A j \in 0 .. BLKFILES - 1 : FileAt(c, j) = EntryAt(b * BLKFILES + j)
      BY <2>1, <2>2, <2>3, ZenonT(60) DEF FsInv, DiskInv, RootStored
    <2>5. /\ q \in 0 .. BLKFILES - 1
          /\ (b * BLKSIZE + k) \div SizeofFile = b * BLKFILES + q
          /\ (b * BLKSIZE + k) % SizeofFile = k % SizeofFile
      BY <2>3, EntryOfByte
    <2>6. c.at[q] = EntryAt(b * BLKFILES + q)
      BY <2>4, <2>5, Zenon DEF FileAt
    <2>7. ByteAt(c, k) = <<"file", EntryAt(b * BLKFILES + q), k % SizeofFile>>
      BY <2>3, <2>4, <2>6 DEF ByteAt
    <2>8. Bytes(0, b * BLKSIZE + k) = <<"file", EntryAt(b * BLKFILES + q), k % SizeofFile>>
      BY <2>5, Zenon DEF Bytes, EntryAt
    <2> QED
      BY <2>1, <2>3, <2>7, <2>8
  <1> QED
    BY <1>4, <1>5

\* When no block has to be loaded, the loop has its block.
LEMMA LoopBlock ==
  ASSUME FsInv, Looking \/ fs.op = "copy", ~AtEnd, Touched = {}, Filebno \in Nat,
         Filebno < NDIRECT + NINDIRECT, BlockAt(fs.f, Filebno) \in 3 .. nblocks - 1,
         Filebno >= NDIRECT => fs.f.indirect \in 3 .. nblocks - 1
  PROVE  /\ FileGetBlock(fs.f, Filebno) = BlockAt(fs.f, Filebno)
         /\ cache[BlockAt(fs.f, Filebno)] = disk[BlockAt(fs.f, Filebno)]
  <1>a. PICK b \in Nat : b = Filebno
    OBVIOUS
  <1>1. PICK f : f = fs.f /\ b = Filebno
    BY <1>a
  <1>2. PICK c \in 3 .. nblocks - 1 : c = BlockAt(f, b)
    BY <1>1
  <1>3. \A x \in 3 .. nblocks - 1 : x \in Block /\ x # 0 /\ x >= 0 /\ DiskAddr(x) = x
    BY FsSizes DEF Block, DiskAddr, Panic
  <1>4. \A x \in Wanted : Cached(x)
    BY DEF Touched
  <1>5. b >= NDIRECT => Indirect = {f.indirect} /\ f.indirect \in 3 .. nblocks - 1
    BY <1>1, <1>3 DEF Indirect
  <1>6. b < NDIRECT => Indirect = {}
    BY <1>1, FsSizes DEF Indirect
  <1>7. \A x \in Indirect : Cached(x)
    BY <1>4 DEF Wanted
  <1>8. \A x \in Block : Cached(x) => cache[x] = disk[x]
    BY DEF FsInv, CacheInv
  <1>9. FileBlockWalk(f, b) = c
    <2>1. CASE b < NDIRECT
      BY <1>2, <2>1 DEF FileBlockWalk, BlockAt
    <2>2. CASE b >= NDIRECT
      <3>1. cache[f.indirect] = disk[f.indirect] /\ DiskAddr(f.indirect) = f.indirect /\ f.indirect # 0
        BY <1>3, <1>5, <1>7, <1>8, <2>2
      <3>2. ~(b < NDIRECT) /\ ~(b >= NDIRECT + NINDIRECT) /\ DiskAddr(f.indirect) # Panic
        BY <1>1, <1>5, <2>2, <3>1, FsSizes DEF Panic
      <3> QED
        BY <1>2, <3>1, <3>2, Zenon DEF FileBlockWalk, BlockAt
    <2> QED
      BY <2>1, <2>2, FsSizes
  <1>10. FileGetBlock(f, b) = c
    <2>1. c \in Nat /\ ~(c < 0) /\ c # 0 /\ DiskAddr(c) = c
      BY <1>3
    <2> QED
      BY <1>9, <2>1, Zenon DEF FileGetBlock
  <1>11. Wanted = {c}
    BY <1>1, <1>3, <1>7, <1>10 DEF Wanted
  <1> QED
    BY <1>1, <1>2, <1>3, <1>4, <1>8, <1>10, <1>11

\* A step of the server leaves the disk alone.
LEMMA ServerKeeps ==
  ASSUME FsInv, UNCHANGED <<phase, disk, diskpos, root, ents, host>>,
         fs' \in Requests, CacheInv', LoopInv'
  PROVE  FsInv'
  <1>1. Requests' = Requests
    BY DEF Requests, DiskBytes
  <1>2. FsTypeOK'
    BY <1>1 DEF FsInv, FsTypeOK
  <1>3. \A i \in 1 .. Len(ents') : FileStored(i)'
    BY DEF FsInv, DiskInv, FileStored, Reaches, BlockAt
  <1>4. RootStored <=> RootStored'
    BY DEF RootStored, RootBlocks, Reaches, BlockAt, EntryAt
  <1>5. DiskInv'
    BY <1>3, <1>4 DEF FsInv, DiskInv
  <1> QED
    BY <1>2, <1>5 DEF FsInv

LEMMA FsFields ==
  ASSUME FsInv
  PROVE  /\ FsTypeOK /\ fs \in Requests
         /\ fs.op \in {"idle", "walk", "opened", "copy", "read"}
         /\ fs.asked \in Seq(Name \cup LongName) /\ fs.path \in Seq(Name \cup LongName)
         /\ fs.f \in Records /\ fs.f.size \in Nat
         /\ fs.offset \in Nat /\ fs.count \in Nat /\ fs.pos \in Nat
         /\ fs.buf \in Seq(DiskBytes) /\ fs.ret \in Int
  <1>1. FsTypeOK /\ fs \in Requests
    BY DEF FsInv, FsTypeOK
  <1>2. \A f \in Records : f.size \in Nat
    BY DEF Records
  <1> QED
    BY <1>1, <1>2 DEF Requests

LEMMA PgfaultStep ==
  ASSUME FsInv, BcPgfault
  PROVE  FsInv'
  <1>1. PICK b \in Touched : /\ cache' = [cache EXCEPT ![b] = disk[b]]
                             /\ UNCHANGED <<phase, disk, diskpos, root, ents, host, fs>>
    BY DEF BcPgfault
  <1>2. phase = "done"
    BY DEF Touched, Looking, FsInv, LoopInv
  <1>3. CacheInv'
    BY <1>1, <1>2 DEF FsInv, CacheInv, Cached, PerBlock
  <1>4. LoopInv'
    <2>1. LookupExact <=> LookupExact'
      BY <1>1 DEF LookupExact, Expected, Files, Found
    <2>2. WalkInv <=> WalkInv'
      BY <1>1 DEF WalkInv, RootBlocks, EntryAt, Exists, Files, FileOf, Found
    <2>3. ReadInv <=> ReadInv'
      BY <1>1 DEF ReadInv, Exists, Files, FileOf, Found, Bytes
    <2> QED
      BY <1>1, <2>1, <2>2, <2>3 DEF FsInv, LoopInv, Exists, Files, FileOf, Found
  <1> QED
    BY <1>1, <1>3, <1>4, ServerKeeps, FsFields

\* What a step of the server has to show.
LEMMA FsOnly ==
  ASSUME FsInv, phase = "done", UNCHANGED <<phase, disk, diskpos, root, ents, host, cache>>,
         fs' \in Requests, LoopInv'
  PROVE  FsInv'
  <1>1. CacheInv'
    BY DEF FsInv, CacheInv, Cached
  <1> QED
    BY <1>1, ServerKeeps

LEMMA FileOpenStep ==
  ASSUME FsInv, NEW path \in Path, FileOpen(path)
  PROVE  FsInv'
  <1>1. /\ phase = "done" /\ fs.op = "idle"
        /\ fs' = [fs EXCEPT !.op = "walk", !.asked = path, !.path = path, !.f = root]
        /\ UNCHANGED <<phase, disk, diskpos, root, ents, host, cache>>
    BY DEF FileOpen
  <1>2. fs \in Requests /\ fs.pos = 0 /\ path \in Seq(Name \cup LongName) /\ root \in Records
    BY <1>1, FsFields, RequestAssumption DEF FsInv, LoopInv, FsTypeOK
  <1>3. fs' \in Requests
    BY <1>1, <1>2 DEF Requests
  <1>4. fs'.op = "walk" /\ fs'.asked = path /\ fs'.path = path /\ fs'.f = root /\ fs'.pos = 0
    BY <1>1, <1>2 DEF Requests
  <1>5. WalkInv'
    <2>1. RootBlocks \in Nat /\ RootBlocks' = RootBlocks
      BY <1>1 DEF RootBlocks, FsInv, DiskInv, RootStored
    <2>2. 0 .. 0 * BLKFILES - 1 = {}
      BY FsSizes
    <2> QED
      BY <1>1, <1>4, <2>1, <2>2 DEF WalkInv
  <1>6. LoopInv'
    BY <1>1, <1>4, <1>5 DEF LoopInv, LookupExact, ReadInv
  <1> QED
    BY <1>1, <1>3, <1>6, FsOnly

\* walk_path ends.
LEMMA Opened ==
  ASSUME FsInv, phase = "done", UNCHANGED <<phase, disk, diskpos, root, ents, host, cache>>,
         NEW ret \in Int, Result("opened", ret), ret = Expected(fs.asked),
         ret = 0 => Exists(fs.asked) /\ fs.f = FileOf(fs.asked)
  PROVE  FsInv'
  <1>1. fs \in Requests
    BY FsFields
  <1>2. fs' = [fs EXCEPT !.op = "opened", !.ret = ret]
    BY DEF Result
  <1>3. fs' \in Requests
    BY <1>1, <1>2 DEF Requests
  <1>4. fs'.op = "opened" /\ fs'.ret = ret /\ fs'.asked = fs.asked /\ fs'.f = fs.f
    BY <1>1, <1>2 DEF Requests
  <1>5. \A p : /\ Expected(p)' = Expected(p) /\ Exists(p)' = Exists(p)
               /\ Found(p)' = Found(p) /\ FileOf(p)' = FileOf(p)
    BY DEF Expected, Exists, Files, Found, FileOf
  <1>6. ASSUME ret = 0, fs.asked # <<>>
        PROVE  fs.f.size = host[Found(fs.asked)].size
    <2>1. fs.f = ents[Found(fs.asked)] /\ FileStored(Found(fs.asked))
      BY <1>6, FileReaches
    <2> QED
      BY <2>1 DEF FileStored
  <1>7. LookupExact'
    BY <1>4, <1>5, <1>6 DEF LookupExact
  <1>8. LoopInv'
    BY <1>4, <1>5, <1>7 DEF LoopInv, WalkInv, ReadInv
  <1> QED
    BY <1>3, <1>8, FsOnly

\* The parts of a sequence that is not empty.
LEMMA SeqParts ==
  ASSUME NEW S, NEW a \in Seq(S), a # <<>>
  PROVE  /\ Len(a) \in Nat /\ Len(a) >= 1 /\ Head(a) = a[1] /\ a[1] \in S /\ Tail(a) \in Seq(S)
         /\ Len(a) = 1 => Tail(a) = <<>>
         /\ Len(a) # 1 => Tail(a) # <<>> /\ Head(Tail(a)) = a[2]
  <1>1. Len(a) \in Nat /\ Len(a) # 0
    BY EmptySeq, LenProperties
  <1>2. Head(a) = a[1] /\ a[1] \in S /\ Tail(a) \in Seq(S) /\ Len(Tail(a)) = Len(a) - 1
    BY <1>1, HeadTailProperties
  <1>3. ASSUME Len(a) = 1 PROVE Tail(a) = <<>>
    <2>1. Len(Tail(a)) \notin Nat \ {0}
      BY <1>2, <1>3
    <2> QED
      BY <1>2, <2>1, EmptySeq, Zenon
  <1>4. ASSUME Len(a) # 1 PROVE Tail(a) # <<>> /\ Head(Tail(a)) = a[2]
    <2>1. Len(Tail(a)) # 0 /\ 1 \in 1 .. Len(a) - 1 /\ Tail(a) # <<>>
      BY <1>1, <1>2, <1>4, EmptySeq, SMTT(30)
    <2>2. Tail(a)[1] = a[2]
      BY <1>1, <2>1
    <2> QED
      BY <1>2, <2>1, <2>2
  <1> QED
    BY <1>1, <1>2, <1>3, <1>4

\* The two places where walk_path can be.
LEMMA WalkCases ==
  ASSUME FsInv, fs.op = "walk"
  PROVE  /\ phase = "done" /\ FsTypeOK /\ fs.asked \in Seq(Name \cup LongName)
         /\ \/ /\ fs.path = fs.asked /\ fs.f = root /\ root.dir /\ fs.pos <= RootBlocks /\ RootStored
               /\ fs.path # <<>> => \A q \in 0 .. fs.pos * BLKFILES - 1 : EntryAt(q).name # Head(fs.path)
            \/ /\ fs.asked # <<>> /\ fs.path = Tail(fs.asked) /\ Exists(fs.asked) /\ ~fs.f.dir
               /\ fs.asked[1] \notin LongName /\ fs.f = FileOf(fs.asked)
  <1>1. phase = "done" /\ FsTypeOK /\ fs.asked \in Seq(Name \cup LongName) /\ RootStored /\ root.dir
    BY FsFields, FsTyped DEF FsInv, LoopInv, DiskInv
  <1>2. ASSUME fs.asked # <<>>, Exists(fs.asked), fs.f = FileOf(fs.asked)
        PROVE  ~fs.f.dir
    BY <1>1, <1>2, FileReaches DEF FileStored
  <1>3. WalkInv
    BY DEF FsInv, LoopInv
  <1> QED
    BY <1>1, <1>2, <1>3, Zenon DEF WalkInv

LEMMA WalkPathStep ==
  ASSUME FsInv, WalkPath
  PROVE  FsInv'
  <1>1. fs.op = "walk" /\ ~Looking /\ UNCHANGED <<phase, disk, diskpos, root, ents, host, cache>>
    BY DEF WalkPath
  <1>2. PICK ret \in Int :
          /\ Result("opened", ret)
          /\ ret = CASE fs.path = <<>> -> 0
                     [] fs.path # <<>> /\ Head(fs.path) \in LongName -> E_BAD_PATH
                     [] OTHER -> E_NOT_FOUND
    BY DEF WalkPath, E_BAD_PATH, E_NOT_FOUND
  <1>3. PICK a \in Seq(Name \cup LongName) : a = fs.asked
    BY <1>1, WalkCases
  <1>4. ret = Expected(a) /\ (ret = 0 => Exists(a) /\ fs.f = FileOf(a))
    <2>1. CASE /\ fs.path = a /\ fs.f = root /\ root.dir
      <3>1. a # <<>> => Head(a) = a[1] /\ Head(a) \in LongName
        BY <1>1, <2>1 DEF Looking
      <3>2. CASE a = <<>>
        BY <1>2, <2>1, <3>2 DEF Expected, Exists, FileOf
      <3>3. CASE a # <<>>
        <4>1. fs.path # <<>> /\ Head(fs.path) \in LongName
          BY <2>1, <3>1, <3>3
        <4>2. ret = E_BAD_PATH
          BY <1>2, <4>1
        <4>3. Files(a[1]) = {}
          <5>1. \A i \in 1 .. Len(host) : host[i].name \in Name
            BY FsFields, FsTyped
          <5> QED
            BY <3>1, <3>3, <5>1, NameAssumption DEF Files
        <4>4. Expected(a) = E_BAD_PATH
          BY <3>1, <3>3, <4>3 DEF Expected
        <4> QED
          BY <4>2, <4>4 DEF E_BAD_PATH
      <3> QED
        BY <3>2, <3>3
    <2>2. CASE /\ a # <<>> /\ fs.path = Tail(a) /\ Exists(a)
               /\ a[1] \notin LongName /\ fs.f = FileOf(a)
      <3>1. Files(a[1]) # {}
        BY <2>2 DEF Exists
      <3>2. /\ Len(a) \in Nat /\ Len(a) >= 1 /\ (Tail(a) = <<>> <=> Len(a) = 1)
            /\ Len(a) # 1 => Head(Tail(a)) = a[2]
        BY <2>2, SeqParts
      <3>3. CASE Len(a) = 1
        BY <1>2, <2>2, <3>1, <3>2, <3>3 DEF Expected
      <3>4. CASE Len(a) # 1 /\ a[2] \in LongName
        BY <1>2, <2>2, <3>1, <3>2, <3>4 DEF Expected, E_BAD_PATH
      <3>5. CASE Len(a) # 1 /\ a[2] \notin LongName
        <4>1. fs.path # <<>> /\ Head(fs.path) \notin LongName
          BY <2>2, <3>2, <3>5
        <4>2. ret = E_NOT_FOUND
          BY <1>2, <4>1
        <4>3. Expected(a) = E_NOT_FOUND
          BY <2>2, <3>2, <3>5 DEF Expected
        <4> QED
          BY <4>2, <4>3 DEF E_NOT_FOUND
      <3> QED
        BY <3>3, <3>4, <3>5
    <2> QED
      BY <1>1, <1>3, <2>1, <2>2, WalkCases
  <1> QED
    BY <1>1, <1>2, <1>3, <1>4, Opened, WalkCases

\* dir_lookup looks at the next block of the root directory.
LEMMA DirLookupStep ==
  ASSUME FsInv, DirLookup
  PROVE  FsInv'
  <1> DEFINE b0 == FileGetBlock(fs.f, fs.pos)
             f0 == {j \in 0 .. BLKFILES - 1 : FileAt(cache[b0], j).name = Head(fs.path)}
  <1>1. /\ Looking /\ Touched = {} /\ UNCHANGED <<phase, disk, diskpos, root, ents, host, cache>>
        /\ IF AtEnd THEN Result("opened", E_NOT_FOUND)
           ELSE IF b0 < 0 THEN Result("opened", b0)
           ELSE IF f0 = {} THEN fs' = [fs EXCEPT !.pos = @ + 1]
           ELSE fs' = [fs EXCEPT !.pos = 0, !.path = Tail(@), !.f = FileAt(cache[b0], Min(f0))]
    BY DEF DirLookup
  <1>2. PICK b, found : b = b0 /\ found = f0
    OBVIOUS
  <1> HIDE DEF b0, f0
  <1>3. fs.op = "walk" /\ fs.path # <<>> /\ fs.f.dir /\ Head(fs.path) \notin LongName
    BY <1>1 DEF Looking
  <1>4. PICK a \in Seq(Name \cup LongName) : a = fs.asked /\ a = fs.path
    BY <1>3, WalkCases
  <1>5. PICK pos, m \in Nat, n \in Nat :
          /\ pos \in Nat /\ pos = fs.pos /\ m = RootBlocks /\ n = Len(ents) /\ pos <= m
          /\ root.size = m * BLKSIZE /\ n <= m * BLKFILES
    <2>1. RootBlocks \in Nat /\ root.size = RootBlocks * BLKSIZE /\ Len(ents) <= RootBlocks * BLKFILES
      BY <1>3, WalkCases DEF RootStored
    <2>2. fs.pos <= RootBlocks /\ fs.pos \in Nat
      BY <1>3, WalkCases, FsFields
    <2>3. Len(ents) \in Nat
      BY FsFields, FsTyped
    <2> QED
      BY <2>1, <2>2, <2>3
  <1>6. PICK name \in Name \cup LongName : name = a[1] /\ name = Head(fs.path) /\ name \notin LongName /\ name # ""
    <2>1. a # <<>> /\ Head(a) = a[1] /\ a[1] \in Name \cup LongName
      BY <1>3, <1>4, SeqParts
    <2> QED
      BY <1>3, <1>4, <2>1, NameAssumption
  <1>7. /\ phase = "done" /\ FsTypeOK /\ RootStored /\ fs.f = root
        /\ \A q \in 0 .. pos * BLKFILES - 1 : EntryAt(q).name # name
    BY <1>3, <1>5, <1>6, WalkCases
  <1>8. AtEnd <=> pos = m
    BY <1>3, <1>5, <1>7 DEF AtEnd, RootBlocks
  <1>9. \A i \in 1 .. n : host[i].name = ents[i].name /\ EntryAt(i - 1) = ents[i]
    <2>1. \A i \in 1 .. n : host[i].name = ents[i].name
      BY <1>5 DEF FsInv, DiskInv, FileStored
    <2>2. \A i \in 1 .. n : i - 1 < n /\ (i - 1) + 1 = i
      BY <1>5
    <2> QED
      BY <1>5, <2>1, <2>2 DEF EntryAt
  <1>10. CASE AtEnd
    <2>1. Files(name) = {}
      <3>1. SUFFICES ASSUME NEW i \in 1 .. n, host[i].name = name PROVE FALSE
        BY <1>5, <1>7, FsTyped DEF Files
      <3>2. m * BLKFILES \in Nat
        BY FsSizes, Multiples
      <3>3. i - 1 \in 0 .. pos * BLKFILES - 1
        BY <1>5, <1>8, <1>10, <3>2
      <3> QED
        BY <1>7, <1>9, <3>1, <3>3
    <2>2. Expected(a) = E_NOT_FOUND
      BY <1>3, <1>4, <1>6, <2>1 DEF Expected
    <2>3. Result("opened", E_NOT_FOUND) /\ E_NOT_FOUND \in Int /\ E_NOT_FOUND # 0
      BY <1>1, <1>10 DEF E_NOT_FOUND
    <2> QED
      BY <1>1, <1>4, <1>7, <2>2, <2>3, Opened
  <1>11. CASE ~AtEnd
    <2>1. pos \in 0 .. m - 1
      BY <1>5, <1>8, <1>11
    <2>2. pos * BLKSIZE < root.size
      BY <1>5, <2>1, FsSizes, Multiples
    <2>3. Filebno = pos
      BY <1>3, <1>5 DEF Filebno
    <2>4. /\ pos < NDIRECT + NINDIRECT /\ BlockAt(root, pos) \in 3 .. nblocks - 1
          /\ pos >= NDIRECT => root.indirect \in 3 .. nblocks - 1
      <3>1. Exists(<<>>) /\ root = FileOf(<<>>)
        BY DEF Exists, FileOf
      <3> QED
        BY <1>5, <1>7, <2>2, <3>1, BlockOfFile
    <2>5. b = BlockAt(root, pos) /\ cache[b] = disk[b] /\ ~(b < 0)
      <3>1. FileGetBlock(fs.f, pos) = BlockAt(fs.f, pos) /\ cache[BlockAt(fs.f, pos)] = disk[BlockAt(fs.f, pos)]
        BY <1>1, <1>5, <1>7, <1>11, <2>3, <2>4, LoopBlock
      <3> QED
        BY <1>2, <1>5, <1>7, <2>4, <3>1 DEF b0
    <2>6. \A j \in 0 .. BLKFILES - 1 : FileAt(cache[b], j) = EntryAt(pos * BLKFILES + j)
      BY <1>5, <1>7, <2>1, <2>5 DEF RootStored
    <2>7. \A j : j \in found <=> j \in 0 .. BLKFILES - 1 /\ EntryAt(pos * BLKFILES + j).name = name
      BY <1>2, <1>6, <2>6 DEF f0
    <2>8. PICK s \in Nat : s = pos * BLKFILES /\ (pos + 1) * BLKFILES = s + BLKFILES
      <3>1. pos * BLKFILES \in Nat /\ (pos + 1) * BLKFILES = pos * BLKFILES + BLKFILES
        BY <1>5, FsSizes, SMT
      <3> QED
        BY <3>1
    <2>9. CASE found = {}
      <3>1. fs' = [fs EXCEPT !.pos = pos + 1]
        BY <1>1, <1>2, <1>5, <1>11, <2>5, <2>9
      <3>2. fs \in Requests
        BY FsFields
      <3>3. fs' \in Requests
        <4>1. pos + 1 \in Nat
          BY <1>5
        <4> QED
          BY <3>1, <3>2, <4>1 DEF Requests
      <3>4. fs'.op = "walk" /\ fs'.path = fs.path /\ fs'.asked = fs.asked /\ fs'.f = root /\ fs'.pos = pos + 1
        BY <1>3, <1>7, <3>1, <3>2 DEF Requests
      <3>5. \A q \in 0 .. (pos + 1) * BLKFILES - 1 : EntryAt(q).name # name
        <4> TAKE q \in 0 .. (pos + 1) * BLKFILES - 1
        <4>1. q \in 0 .. s - 1 \/ (q - s \in 0 .. BLKFILES - 1 /\ s + (q - s) = q)
          BY <2>8, FsSizes
        <4> QED
          BY <1>7, <2>7, <2>8, <2>9, <4>1
      <3>6. \A q : EntryAt(q)' = EntryAt(q)
        BY <1>1 DEF EntryAt
      <3>7. RootBlocks' = m /\ root' = root /\ pos + 1 <= m
        BY <1>1, <1>5, <2>1 DEF RootBlocks
      <3>8. WalkInv'
        BY <1>4, <1>6, <3>4, <3>5, <3>6, <3>7 DEF WalkInv
      <3>9. LoopInv'
        BY <1>1, <1>7, <3>4, <3>8 DEF LoopInv, LookupExact, ReadInv
      <3> QED
        BY <1>1, <1>7, <3>3, <3>9, FsOnly
    <2>10. CASE found # {}
      <3>1. PICK j \in 0 .. BLKFILES - 1 :
              /\ j = Min(found) /\ EntryAt(s + j).name = name
              /\ \A x \in found : j <= x
        <4>1. found \in SUBSET Nat
          BY <2>7, FsSizes
        <4>2. Min(found) \in found /\ \A x \in found : Min(found) <= x
          BY <2>10, <4>1, MinIs
        <4> QED
          BY <2>7, <2>8, <4>2
      <3>2. fs' = [fs EXCEPT !.pos = 0, !.path = Tail(a), !.f = EntryAt(s + j)]
        BY <1>1, <1>2, <1>4, <1>11, <2>5, <2>6, <2>8, <2>10, <3>1
      <3>3. s + j < n /\ EntryAt(s + j) = ents[s + j + 1] /\ s + j + 1 \in 1 .. n
        <4>1. EntryAt(s + j) # EmptyFile
          <5>1. EmptyFile.name = ""
            BY DEF EmptyFile
          <5> QED
            BY <1>6, <3>1, <5>1
        <4> QED
          <5>1. s + j < n /\ EntryAt(s + j) = ents[s + j + 1]
            BY <1>5, <4>1, Zenon DEF EntryAt
          <5>2. s + j + 1 \in 1 .. n
            <6>1. s + j \in Nat
              BY <2>8, FsSizes
            <6> QED
              BY <1>5, <5>1, <6>1
          <5> QED
            BY <5>1, <5>2
      <3>4. Exists(a) /\ FileOf(a) = EntryAt(s + j) /\ a # <<>>
        <4>1. a # <<>> /\ host[s + j + 1].name = name
          BY <1>3, <1>4, <1>9, <3>1, <3>3
        <4>2. Exists(a)
          BY <1>5, <1>6, <1>7, <3>3, <4>1, FsTyped DEF Exists, Files
        <4>3. PICK i \in 1 .. n : /\ i = Found(a) /\ host[i].name = name /\ i <= s + j + 1
          BY <1>5, <1>6, <1>7, <3>3, <4>1, <4>2, FoundIs
        <4>4. EntryAt(i - 1).name = name
          BY <1>9, <4>3
        <4>5. i = s + j + 1
          <5>1. SUFFICES ASSUME i - 1 < s + j PROVE FALSE
            BY <2>8, <3>1, <4>3
          <5>2. CASE i - 1 < s
            <6>1. i - 1 \in 0 .. pos * BLKFILES - 1
              BY <1>5, <2>8, <5>2
            <6> QED
              BY <1>7, <4>4, <6>1
          <5>3. CASE i - 1 >= s
            <6>1. i - 1 - s \in 0 .. BLKFILES - 1 /\ s + (i - 1 - s) = i - 1 /\ ~(j <= i - 1 - s)
              <7>1. i \in Nat /\ j \in Nat /\ j < BLKFILES /\ i - 1 < s + j
                BY <4>3, <5>1, <1>5, FsSizes
              <7> QED
                BY <2>8, <5>3, <7>1, FsSizes
            <6>2. i - 1 - s \in found
              BY <2>7, <2>8, <4>4, <6>1
            <6> QED
              BY <3>1, <6>1, <6>2
          <5> QED
            BY <1>5, <2>8, <5>2, <5>3
        <4> QED
          BY <3>3, <4>1, <4>2, <4>3, <4>5 DEF FileOf
      <3>5. Tail(a) \in Seq(Name \cup LongName) /\ EntryAt(s + j) \in Records
        BY <1>5, <1>7, <3>3, <3>4, FsTyped
      <3>6. fs \in Requests
        BY FsFields
      <3>7. fs' \in Requests
        BY <3>2, <3>5, <3>6 DEF Requests
      <3>8. fs'.op = "walk" /\ fs'.path = Tail(a) /\ fs'.asked = a /\ fs'.f = FileOf(a)
        BY <1>3, <1>4, <3>2, <3>4, <3>6 DEF Requests
      <3>9. \A p : Exists(p)' = Exists(p) /\ FileOf(p)' = FileOf(p)
        BY <1>1 DEF Exists, Files, Found, FileOf
      <3>10. WalkInv'
        BY <1>6, <3>4, <3>8, <3>9 DEF WalkInv
      <3>11. LoopInv'
        BY <1>1, <1>7, <3>8, <3>10 DEF LoopInv, LookupExact, ReadInv
      <3> QED
        BY <1>1, <1>7, <3>7, <3>11, FsOnly
    <2> QED
      BY <2>9, <2>10
  <1> QED
    BY <1>10, <1>11

LEMMA FileReadStep ==
  ASSUME FsInv, NEW n \in Count, NEW offset \in Offset, FileRead(n, offset)
  PROVE  FsInv'
  <1>1. /\ fs.op \in {"opened", "read"} /\ fs.ret >= 0
        /\ UNCHANGED <<phase, disk, diskpos, root, ents, host, cache>>
    BY DEF FileRead
  <1>2. PICK c : /\ c = IF offset >= fs.f.size THEN 0 ELSE MinOf(MinOf(n, BUFSIZE), fs.f.size - offset)
                 /\ fs' = [fs EXCEPT !.op = "copy", !.offset = offset, !.pos = offset, !.buf = <<>>, !.count = c]
    BY DEF FileRead
  <1>3. n \in Nat /\ offset \in Nat /\ fs.f.size \in Nat /\ fs \in Requests
    BY RequestAssumption, FsFields
  <1>4. c \in Nat /\ (c > 0 => offset + c <= fs.f.size)
    BY <1>2, <1>3, FsSizes DEF MinOf
  <1>5. phase = "done" /\ Exists(fs.asked) /\ fs.f = FileOf(fs.asked)
    <2>1. CASE fs.op = "opened"
      <3>1. fs.ret = 0
        <4>1. fs.ret = Expected(fs.asked)
          BY <2>1 DEF FsInv, LoopInv, LookupExact
        <4>2. \A p : Expected(p) \in {0, -12, -11}
          BY DEF Expected, E_BAD_PATH, E_NOT_FOUND
        <4>3. fs.ret \in {0, -12, -11}
          BY <4>1, <4>2
        <4> QED
          BY <1>1, <4>3
      <3> QED
        BY <2>1, <3>1 DEF FsInv, LoopInv
    <2>2. CASE fs.op = "read"
      BY <2>2 DEF FsInv, LoopInv, ReadInv
    <2> QED
      BY <1>1, <2>1, <2>2
  <1>6. fs' \in Requests
    <2>1. <<>> \in Seq(DiskBytes)
      OBVIOUS
    <2> QED
      BY <1>2, <1>3, <1>4, <2>1 DEF Requests
  <1>7. /\ fs'.op = "copy" /\ fs'.asked = fs.asked /\ fs'.f = fs.f /\ fs'.offset = offset /\ fs'.pos = offset
        /\ fs'.count = c /\ fs'.buf = <<>>
    BY <1>2, <1>3 DEF Requests
  <1>8. \A p : Exists(p)' = Exists(p) /\ FileOf(p)' = FileOf(p)
    BY <1>1 DEF Exists, Files, Found, FileOf
  <1>9. ReadInv'
    <2>1. offset \in offset .. offset + c /\ Len(<<>>) = 0 /\ offset - offset = 0 /\ 1 .. 0 = {}
      BY <1>3, <1>4
    <2> QED
      BY <1>4, <1>5, <1>7, <1>8, <2>1 DEF ReadInv
  <1>10. LoopInv'
    BY <1>1, <1>5, <1>7, <1>9 DEF LoopInv, WalkInv, LookupExact
  <1> QED
    BY <1>1, <1>5, <1>6, <1>10, FsOnly

\* file_read copies from the next block.
LEMMA ReadBlockStep ==
  ASSUME FsInv, ReadBlock
  PROVE  FsInv'
  <1> DEFINE b0 == FileGetBlock(fs.f, Filebno)
             s0 == fs.pos % BLKSIZE
             n0 == MinOf(BLKSIZE - s0, fs.offset + fs.count - fs.pos)
  <1>1. /\ fs.op = "copy" /\ Touched = {} /\ UNCHANGED <<phase, disk, diskpos, root, ents, host, cache>>
        /\ IF AtEnd THEN Result("read", fs.count)
           ELSE IF b0 < 0 THEN Result("read", b0)
           ELSE fs' = [fs EXCEPT !.pos = @ + n0,
                          !.buf = @ \o [k \in 1 .. n0 |-> ByteAt(cache[b0], s0 + k - 1)]]
    BY DEF ReadBlock
  <1>2. PICK b, skip, bn : b = b0 /\ skip = s0 /\ bn = n0
    OBVIOUS
  <1> HIDE DEF b0, s0, n0
  <1>3. PICK pos \in Nat, offset \in Nat, count \in Nat :
          pos = fs.pos /\ offset = fs.offset /\ count = fs.count
    BY FsFields
  <1>4. PICK f, got, a : f = fs.f /\ got = fs.buf /\ a = fs.asked
    OBVIOUS
  <1>5. /\ fs \in Requests /\ f \in Records /\ f.size \in Nat /\ got \in Seq(DiskBytes)
    BY <1>4, FsFields
  <1>6. /\ phase = "done" /\ Exists(a) /\ f = FileOf(a)
        /\ count > 0 => offset + count <= f.size
        /\ offset <= pos /\ pos <= offset + count /\ Len(got) = pos - offset
        /\ host # <<>> \/ a # <<>> => \A k \in 1 .. Len(got) : got[k] = Bytes(Found(a), offset + k - 1)
    BY <1>1, <1>3, <1>4 DEF FsInv, LoopInv, ReadInv
  <1>7. AtEnd <=> pos >= offset + count
    BY <1>1, <1>3 DEF AtEnd
  <1>8. \A p : /\ Exists(p)' = Exists(p) /\ FileOf(p)' = FileOf(p) /\ Found(p)' = Found(p)
    BY <1>1 DEF Exists, Files, Found, FileOf
  <1>9. \A i, k : Bytes(i, k)' = Bytes(i, k)
    BY <1>1 DEF Bytes
  <1>10. CASE AtEnd
    <2>1. fs' = [fs EXCEPT !.op = "read", !.ret = count]
      BY <1>1, <1>3, <1>10 DEF Result
    <2>2. fs' \in Requests
      <3>1. count \in Int
        BY <1>3
      <3> QED
        BY <1>5, <2>1, <3>1 DEF Requests
    <2>3. /\ fs'.op = "read" /\ fs'.ret = count /\ fs'.asked = a /\ fs'.f = f /\ fs'.offset = offset
          /\ fs'.pos = pos /\ fs'.count = count /\ fs'.buf = got
      BY <1>3, <1>4, <1>5, <2>1 DEF Requests
    <2>4. pos = offset + count /\ pos \in offset .. offset + count
      BY <1>6, <1>7, <1>10
    <2>5. ReadInv'
      BY <1>1, <1>6, <1>8, <1>9, <2>3, <2>4 DEF ReadInv
    <2>6. LoopInv'
      BY <1>1, <1>6, <2>3, <2>5 DEF LoopInv, WalkInv, LookupExact
    <2> QED
      BY <1>1, <1>6, <2>2, <2>6, FsOnly
  <1>11. CASE ~AtEnd
    <2>1. PICK q \in Nat : q = Filebno /\ skip \in 0 .. BLKSIZE - 1 /\ pos = q * BLKSIZE + skip
      <3>1. Filebno = pos \div BLKSIZE /\ skip = pos % BLKSIZE
        BY <1>1, <1>2, <1>3 DEF Filebno, s0
      <3>2. pos \div BLKSIZE \in Nat /\ pos % BLKSIZE \in 0 .. BLKSIZE - 1 /\ pos = (pos \div BLKSIZE) * BLKSIZE + (pos % BLKSIZE)
        BY FsSizes, Quotient, Zenon
      <3> QED
        BY <3>1, <3>2, Zenon
    <2>2. pos < f.size /\ pos < offset + count /\ offset + count <= f.size
      BY <1>5, <1>6, <1>7, <1>11
    <2>3. q * BLKSIZE \in Nat /\ q * BLKSIZE < f.size
      <3>1. q * BLKSIZE \in Nat
        BY FsSizes, Multiples
      <3> QED
        BY <1>5, <2>1, <2>2, <3>1, FsSizes
    <2>4. /\ q < NDIRECT + NINDIRECT /\ BlockAt(f, q) \in 3 .. nblocks - 1
          /\ q >= NDIRECT => f.indirect \in 3 .. nblocks - 1
      BY <1>6, <2>3, BlockOfFile
    <2>5. b = BlockAt(f, q) /\ cache[b] = disk[b] /\ ~(b < 0) /\ b \in Block
      <3>1. FileGetBlock(fs.f, Filebno) = BlockAt(f, q) /\ cache[BlockAt(f, q)] = disk[BlockAt(f, q)]
        BY <1>1, <1>4, <1>11, <2>1, <2>4, LoopBlock
      <3>2. BlockAt(f, q) \in Block /\ ~(BlockAt(f, q) < 0)
        BY <2>4, FsSizes DEF Block
      <3> QED
        BY <1>2, <3>1, <3>2 DEF b0
    <2>6. bn \in Nat /\ bn <= BLKSIZE - skip /\ bn <= offset + count - pos
      <3>1. bn = MinOf(BLKSIZE - skip, offset + count - pos)
        BY <1>2, <1>3 DEF n0
      <3> QED
        BY <2>1, <2>2, <3>1, FsSizes DEF MinOf
    <2>7. PICK more : more = [k \in 1 .. bn |-> ByteAt(cache[b], skip + k - 1)]
      OBVIOUS
    <2>8. fs' = [fs EXCEPT !.pos = pos + bn, !.buf = got \o more]
      BY <1>1, <1>2, <1>3, <1>4, <1>11, <2>5, <2>7
    <2>9. \A k \in 1 .. bn : skip + k - 1 \in 0 .. BLKSIZE - 1 /\ q * BLKSIZE + (skip + k - 1) = pos + k - 1
                             /\ pos + k - 1 < f.size
      BY <1>5, <2>1, <2>2, <2>3, <2>6, FsSizes
    <2>10. more \in Seq(DiskBytes) /\ Len(more) = bn
      <3>1. \A k \in 1 .. bn : more[k] \in DiskBytes
        BY <2>5, <2>7, <2>9 DEF DiskBytes
      <3>2. more \in [1 .. bn -> DiskBytes]
        BY <2>7, <3>1
      <3> QED
        BY <2>6, <3>2
    <2>11. host # <<>> \/ a # <<>> => \A k \in 1 .. bn : more[k] = Bytes(Found(a), pos + k - 1)
      <3> SUFFICES ASSUME host # <<>> \/ a # <<>>, NEW k \in 1 .. bn
                   PROVE  more[k] = Bytes(Found(a), pos + k - 1)
        OBVIOUS
      <3>1. PICK z \in 0 .. BLKSIZE - 1 : z = skip + k - 1 /\ q * BLKSIZE + z = pos + k - 1 /\ q * BLKSIZE + z < f.size
        BY <2>9
      <3>2. ByteAt(disk[BlockAt(f, q)], z) = Bytes(Found(a), q * BLKSIZE + z)
        BY <1>6, <3>1, ByteOfFile
      <3> QED
        BY <2>5, <2>7, <3>1, <3>2
    <2>12. PICK next :
           /\ next = got \o more /\ next \in Seq(DiskBytes) /\ Len(next) = Len(got) + bn
           /\ \A k \in 1 .. Len(got) + bn : next[k] = IF k <= Len(got) THEN got[k] ELSE more[k - Len(got)]
      <3>1. /\ got \o more \in Seq(DiskBytes) /\ Len(got \o more) = Len(got) + bn
            /\ \A k \in 1 .. Len(got) + bn : (got \o more)[k] = IF k <= Len(got) THEN got[k] ELSE more[k - Len(got)]
        BY <1>5, <2>10, ConcatProperties
      <3> QED
        BY <3>1
    <2>13. fs' \in Requests
      <3>1. pos + bn \in Nat
        BY <2>6
      <3> QED
        BY <1>5, <2>8, <2>12, <3>1 DEF Requests
    <2>14. /\ fs'.op = "copy" /\ fs'.asked = a /\ fs'.f = f /\ fs'.offset = offset
           /\ fs'.pos = pos + bn /\ fs'.count = count /\ fs'.buf = next
      BY <1>1, <1>3, <1>4, <1>5, <2>8, <2>12 DEF Requests
    <2>15. host # <<>> \/ a # <<>> =>
              \A k \in 1 .. Len(got) + bn : next[k] = Bytes(Found(a), offset + k - 1)
      <3> SUFFICES ASSUME host # <<>> \/ a # <<>>, NEW k \in 1 .. Len(got) + bn
                   PROVE  next[k] = Bytes(Found(a), offset + k - 1)
        OBVIOUS
      <3>1. CASE k <= Len(got)
        <4>1. k \in 1 .. Len(got)
          BY <1>6, <2>6, <3>1
        <4> QED
          BY <1>6, <2>12, <3>1, <4>1
      <3>2. CASE ~(k <= Len(got))
        <4>1. k - Len(got) \in 1 .. bn /\ pos + (k - Len(got)) - 1 = offset + k - 1
          BY <1>6, <2>6, <3>2
        <4>2. next[k] = more[k - Len(got)]
          BY <2>12, <3>2
        <4>3. more[k - Len(got)] = Bytes(Found(a), pos + (k - Len(got)) - 1)
          BY <2>11, <4>1
        <4> QED
          BY <4>1, <4>2, <4>3
      <3> QED
        BY <3>1, <3>2
    <2>16. pos + bn \in offset .. offset + count /\ Len(got) + bn = pos + bn - offset
      BY <1>6, <2>6
    <2>17. ReadInv'
      <3>1. Exists(fs.asked)' /\ fs'.f = FileOf(fs.asked)' /\ fs'.op # "read" /\ Found(fs.asked)' = Found(a)
        BY <1>6, <1>8, <2>14
      <3>2. fs'.count > 0 => fs'.offset + fs'.count <= fs'.f.size
        BY <1>6, <2>14
      <3>3. /\ fs'.pos \in fs'.offset .. fs'.offset + fs'.count
            /\ Len(fs'.buf) = fs'.pos - fs'.offset
        BY <1>6, <2>6, <2>12, <2>14, <2>16
      <3>4. host' # <<>> \/ fs'.asked # <<>> =>
               \A k \in 1 .. Len(fs'.buf) : fs'.buf[k] = Bytes(Found(fs.asked), fs.offset + k - 1)'
        <4>1. \A i, k : Bytes(i, k)' = Bytes(i, k)
          BY <1>9
        <4>2. host' = host /\ Found(fs.asked)' = Found(a)
          BY <1>1, <3>1
        <4> QED
          BY <2>12, <2>14, <2>15, <4>2, <1>1 DEF Bytes
      <3> QED
        BY <3>1, <3>2, <3>3, <3>4 DEF ReadInv
    <2>18. LoopInv'
      BY <1>1, <1>6, <2>14, <2>17 DEF LoopInv, WalkInv, LookupExact
    <2> QED
      BY <1>1, <1>6, <2>13, <2>18, FsOnly
  <1> QED
    BY <1>10, <1>11

LEMMA NextFs == FsInv /\ [FsNext]_fsvars => FsInv'
  <1> SUFFICES ASSUME FsInv, [FsNext]_fsvars PROVE FsInv'
    OBVIOUS
  <1>1. CASE UNCHANGED fsvars
    <2>1. UNCHANGED <<phase, disk, diskpos, root, ents, host, cache, fs>>
      BY <1>1 DEF fsvars
    <2>2. CacheInv'
      BY <2>1 DEF FsInv, CacheInv, Cached
    <2>3. LookupExact <=> LookupExact'
      BY <2>1 DEF LookupExact, Expected, Files, Found
    <2>4. WalkInv <=> WalkInv'
      BY <2>1 DEF WalkInv, RootBlocks, EntryAt, Exists, Files, FileOf, Found
    <2>5. ReadInv <=> ReadInv'
      BY <2>1 DEF ReadInv, Exists, Files, FileOf, Found, Bytes
    <2>6. LoopInv'
      BY <2>1, <2>3, <2>4, <2>5 DEF FsInv, LoopInv, Exists, Files, FileOf, Found
    <2> QED
      BY <2>1, <2>2, <2>6, ServerKeeps, FsFields
  <1>2. ASSUME NEW name \in Name, NEW size \in HostSize, WriteFile(name, size) PROVE FsInv'
    BY <1>2, WriteFileStep
  <1>3. ASSUME NEW n \in Count, NEW offset \in Offset, FileRead(n, offset) PROVE FsInv'
    BY <1>3, FileReadStep
  <1>4. ASSUME NEW path \in Path, FileOpen(path) PROVE FsInv'
    BY <1>4, FileOpenStep
  <1> QED
    BY <1>1, <1>2, <1>3, <1>4, FinishDirStep, WalkPathStep, DirLookupStep, ReadBlockStep, PgfaultStep, Zenon
       DEF FsNext

\* Whatever fsformat was given, however the blocks of the image are loaded
\* and wherever a read begins and ends, the invariant holds.
THEOREM FsInvariance == FsSpec => []FsInv
  BY InitFs, NextFs, PTL DEF FsSpec

\* The result of walk_path: a name is found exactly if fsformat was given
\* that file, and it is the first one of its name.
THEOREM LookupIsExact == FsSpec => []LookupExact
  <1>1. FsInv => LookupExact
    BY DEF FsInv, LoopInv
  <1> QED
    BY <1>1, FsInvariance, PTL

\* file_read returns the bytes that the host's file has there, as many as
\* the file, the request and the buffer allow.
THEOREM ReadIsExact == FsSpec => []ReadExact
  <1>1. ASSUME FsInv, fs.op = "read"
        PROVE  /\ fs.ret = Len(fs.buf) /\ fs.ret = fs.count
               /\ (host # <<>> \/ fs.asked # <<>>) =>
                     fs.buf = [k \in 1 .. fs.count |-> Bytes(Found(fs.asked), fs.offset + k - 1)]
    <2>1. fs.buf \in Seq(DiskBytes) /\ fs.offset \in Nat /\ fs.count \in Nat
      BY <1>1, FsFields
    <2>2. Len(fs.buf) = fs.count /\ fs.ret = fs.count
      BY <1>1, <2>1 DEF FsInv, LoopInv, ReadInv
    <2>3. host # <<>> \/ fs.asked # <<>> =>
             \A k \in 1 .. fs.count : fs.buf[k] = Bytes(Found(fs.asked), fs.offset + k - 1)
      BY <1>1, <2>2 DEF FsInv, LoopInv, ReadInv
    <2>4. fs.buf = [k \in 1 .. fs.count |-> fs.buf[k]]
      BY <2>1, <2>2
    <2> QED
      BY <2>2, <2>3, <2>4
  <1>2. FsInv => ReadExact
    BY <1>1 DEF ReadExact
  <1> QED
    BY <1>2, FsInvariance, PTL

\* No two blocks of host files are one block of the disk.
BlocksApart ==
    \A i, j \in 1 .. Len(ents), b, c \in Nat :
        /\ b * BLKSIZE < ents[i].size /\ c * BLKSIZE < ents[j].size
        /\ BlockAt(ents[i], b) = BlockAt(ents[j], c)
        => i = j /\ b = c

\* writefile never gives a block of one file to another, nor twice to one,
\* whatever comes in between, indirect blocks included.
THEOREM NoBlockShared == FsSpec => []BlocksApart
  <1>1. ASSUME FsInv, NEW i \in 1 .. Len(ents), NEW b \in Nat, b * BLKSIZE < ents[i].size
        PROVE  ByteAt(disk[BlockAt(ents[i], b)], 0) = <<"data", i, b * BLKSIZE>>
    <2>1. FileStored(i) /\ ents[i].size \in Nat
      BY <1>1, FsFields, FsTyped DEF FsInv, DiskInv
    <2>2. PICK n \in Nat : n = RoundUp(ents[i].size)
      BY <2>1, RoundUpIs
    <2>3. b \in 0 .. n - 1
      <3>1. b < n
        BY <1>1, <2>1, <2>2, RoundUpIs
      <3> QED
        BY <2>2, <3>1
    <2>4. 0 \in 0 .. BLKSIZE - 1 /\ b * BLKSIZE + 0 = b * BLKSIZE
      <3>1. b * BLKSIZE \in Nat
        BY FsSizes, Multiples
      <3> QED
        BY <3>1, FsSizes
    <2> QED
      BY <1>1, <2>1, <2>2, <2>3, <2>4 DEF FileStored
  <1>2. ASSUME NEW b \in Nat, NEW c \in Nat, b * BLKSIZE = c * BLKSIZE
        PROVE  b = c
    <2>1. b <= c /\ c <= b
      <3>1. b * BLKSIZE \in Nat /\ c * BLKSIZE \in Nat
        BY FsSizes, Multiples
      <3> QED
        BY <1>2, <3>1, FsSizes, Multiples
    <2> QED
      BY <2>1
  <1>3. FsInv => BlocksApart
    <2> SUFFICES ASSUME FsInv, NEW i \in 1 .. Len(ents), NEW j \in 1 .. Len(ents), NEW b \in Nat, NEW c \in Nat,
                        b * BLKSIZE < ents[i].size, c * BLKSIZE < ents[j].size,
                        BlockAt(ents[i], b) = BlockAt(ents[j], c)
                 PROVE  i = j /\ b = c
      BY DEF BlocksApart
    <2>1. <<"data", i, b * BLKSIZE>> = <<"data", j, c * BLKSIZE>>
      BY <1>1
    <2>2. i = j /\ b * BLKSIZE = c * BLKSIZE
      BY <2>1
    <2> QED
      BY <1>2, <2>2
  <1> QED
    BY <1>3, FsInvariance, PTL

=============================================================================
