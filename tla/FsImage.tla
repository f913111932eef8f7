------------------------------- MODULE FsImage -------------------------------
(***************************************************************************)
(* The file system on disk (src/solutions/fed/lab5/fs): fsformat.c builds  *)
(* an image of files that all lie in the root directory; fs.c finds and    *)
(* reads them through the block cache of bc.c, which loads a block when it *)
(* is first touched.  Nothing writes to the disk after fsformat.           *)
(*                                                                         *)
(* A path is the sequence of its components, as walk_path sees it after    *)
(* skip_slash.  The contents of a block are entries of a directory, block  *)
(* numbers or bytes of a file; byte k of host file i is <<"data", i, k>>.  *)
(* Offsets are not negative (seek would let them be).                      *)
(***************************************************************************)
EXTENDS Integers, Sequences, FiniteSetsExt

CONSTANTS
    nblocks,            \* size of the disk
    BLKSIZE, BLKFILES,  \* bytes and struct Files in a block
    NDIRECT, NINDIRECT, \* block numbers in a struct File and in a block
    MAXDIRENTS,         \* MAX_DIR_ENTS
    BUFSIZE,            \* the buffer of a reply, as serve_read limits it
    Name, LongName,     \* names that fit in MAXNAMELEN, as those on the host
                        \* do, and longer ones
    HostSize,           \* sizes of the files on the host
    Path, Count, Offset \* what clients ask for

SizeofFile == BLKSIZE \div BLKFILES
MAXFILESIZE == (NDIRECT + NINDIRECT) * BLKSIZE

\* Entries fill blocks, and a full directory fits in one file.
ASSUME SizesAssumption ==
    /\ nblocks \in Nat /\ nblocks > 3
    /\ {BLKSIZE, BLKFILES, NDIRECT, NINDIRECT, MAXDIRENTS, BUFSIZE} \subseteq Nat \ {0}
    /\ BLKSIZE % BLKFILES = 0
    /\ MAXDIRENTS <= (NDIRECT + NINDIRECT) * BLKFILES
ASSUME NameAssumption == "" \notin Name \cup LongName /\ Name \cap LongName = {}
ASSUME RequestAssumption ==
    HostSize \cup Count \cup Offset \subseteq Nat /\ Path \subseteq Seq(Name \cup LongName)

VARIABLES
    phase,      \* of fsformat: "format", "panic", or "done" and the server runs
    disk, diskpos,      \* blocks, and the first one not allocated
    root,       \* s_root of the super block
    ents,       \* entries of the root directory, with fsformat
    host,       \* the files as the host has them
    cache,      \* blocks in the memory of the file server
    fs          \* what the file server is doing

fsvars == <<phase, disk, diskpos, root, ents, host, cache, fs>>

E_BAD_PATH == -12
E_NOT_FOUND == -11
E_INVAL == -3
Panic == -100

Block == 0 .. nblocks - 1
RoundUp(bytes) == ((bytes + BLKSIZE - 1) \div BLKSIZE)      \* in blocks
MinOf(a, b) == IF a < b THEN a ELSE b

NoBlocks == [n \in 0 .. NDIRECT - 1 |-> 0]
EmptyFile == [name |-> "", dir |-> FALSE, size |-> 0, direct |-> NoBlocks, indirect |-> 0]
ZeroBlock == [kind |-> "zero", at |-> <<>>]

\* The three ways to look at a block.
FileAt(c, j) == IF c.kind = "files" THEN c.at[j] ELSE EmptyFile
NumberAt(c, n) == IF c.kind = "numbers" THEN c.at[n] ELSE 0
ByteAt(c, k) ==
    CASE c.kind = "bytes" -> c.at[k]
      [] c.kind = "files" -> <<"file", c.at[k \div SizeofFile], k % SizeofFile>>
      [] OTHER -> <<"zero", 0, 0>>

-----------------------------------------------------------------------------
(* fsformat.                                                               *)

\* finishfile: the record of f, and the disk, when its len bytes start at
\* block start and pos is the next free one.
Finished(f, start, len, pos, d) ==
    LET n == RoundUp(len)
        rec == [f EXCEPT !.size = len,
                  !.direct = [i \in 0 .. NDIRECT - 1 |-> IF i < n THEN start + i ELSE 0]]
        ind == [kind |-> "numbers",
                at |-> [i \in 0 .. NINDIRECT - 1 |->
                          IF NDIRECT + i < n THEN start + NDIRECT + i ELSE 0]]
    IN  IF n < NDIRECT THEN [file |-> rec, disk |-> d, pos |-> pos]
        ELSE IF pos + 1 >= nblocks THEN [file |-> rec, disk |-> d, pos |-> nblocks]
        ELSE [file |-> [rec EXCEPT !.indirect = pos], disk |-> [d EXCEPT ![pos] = ind],
              pos |-> pos + 1]

\* The disk with data from the next free block on.
Written(data) ==
    [b \in Block |-> IF b - diskpos \in DOMAIN data THEN data[b - diskpos] ELSE disk[b]]

\* alloc: "out of disk blocks", even when the last one would do.
Alloc(n) == diskpos + n < nblocks

WriteFile(name, size) ==
    LET i == Len(ents) + 1
        n == RoundUp(size)
        bytes == [b \in 0 .. n - 1 |->
                    [kind |-> "bytes",
                     at |-> [k \in 0 .. BLKSIZE - 1 |->
                               IF b * BLKSIZE + k < size THEN <<"data", i, b * BLKSIZE + k>>
                               ELSE <<"zero", 0, 0>>]]]
        out == Finished([EmptyFile EXCEPT !.name = name], diskpos, size, diskpos + n,
                        Written(bytes))
    IN  /\ phase = "format"
        /\ size < MAXFILESIZE
        /\ IF Len(ents) = MAXDIRENTS \/ ~Alloc(n) \/ out.pos = nblocks
             THEN phase' = "panic" /\ UNCHANGED <<disk, diskpos, ents, host>>
             ELSE /\ disk' = out.disk /\ diskpos' = out.pos
                  /\ ents' = Append(ents, out.file)
                  /\ host' = Append(host, [name |-> name, size |-> size])
                  /\ UNCHANGED phase
        /\ UNCHANGED <<root, cache, fs>>

\* An empty directory gets one block, the next free one: ROUNDUP of the
\* int 0 is BLKSIZE.
FinishDir ==
    LET n == RoundUp(Len(ents) * SizeofFile)
        files == [b \in 0 .. n - 1 |->
                    [kind |-> "files",
                     at |-> [j \in 0 .. BLKFILES - 1 |->
                               IF b * BLKFILES + j < Len(ents) THEN ents[b * BLKFILES + j + 1]
                               ELSE EmptyFile]]]
        len == IF n = 0 THEN BLKSIZE ELSE n * BLKSIZE
        out == Finished(root, diskpos, len, diskpos + n, Written(files))
    IN  /\ phase = "format"
        /\ IF ~Alloc(n) \/ out.pos = nblocks
             THEN phase' = "panic" /\ UNCHANGED <<disk, diskpos, root>>
             ELSE /\ phase' = "done"
                  /\ disk' = out.disk /\ diskpos' = out.pos
                  /\ root' = out.file
        /\ UNCHANGED <<ents, host, cache, fs>>

-----------------------------------------------------------------------------
(* The file server.  A result below 0 is an error.  A step that reads a     *)
(* block waits until BcPgfault has loaded it.                              *)

DiskAddr(b) == IF b = 0 \/ b >= nblocks THEN Panic ELSE b
Cached(b) == cache[b].kind # "absent"

FileBlockWalk(f, filebno) ==
    IF filebno < NDIRECT THEN f.direct[filebno]
    ELSE IF filebno >= NDIRECT + NINDIRECT THEN E_INVAL
    ELSE IF f.indirect = 0 THEN E_NOT_FOUND
    ELSE IF DiskAddr(f.indirect) = Panic THEN Panic
    ELSE NumberAt(cache[f.indirect], filebno - NDIRECT)

FileGetBlock(f, filebno) ==
    LET b == FileBlockWalk(f, filebno) IN
      IF b < 0 THEN b ELSE IF b = 0 THEN E_NOT_FOUND ELSE DiskAddr(b)

\* The block of fs.f that the loop is at, and what it reads to get at it.
Filebno == IF fs.op = "walk" THEN fs.pos ELSE fs.pos \div BLKSIZE
AtEndEarly == IF fs.op = "walk" THEN fs.pos = fs.f.size \div BLKSIZE - 1
              ELSE fs.pos >= fs.offset + fs.count    \* mutant: skips the last block
AtEnd == IF fs.op = "walk" THEN fs.pos = fs.f.size \div BLKSIZE
         ELSE fs.pos >= fs.offset + fs.count
Indirect == {b \in {fs.f.indirect} \cap Block : Filebno >= NDIRECT /\ b # 0}
Wanted == IF \E b \in Indirect : ~Cached(b) THEN Indirect
          ELSE {b \in {FileGetBlock(fs.f, Filebno)} : b >= 0}
Looking == fs.op = "walk" /\ fs.path # <<>> /\ fs.f.dir /\ Head(fs.path) \notin LongName
Touched == IF (Looking \/ fs.op = "copy") /\ ~AtEnd THEN {b \in Wanted : ~Cached(b)} ELSE {}

BcPgfault ==
    \E b \in Touched :
      /\ cache' = [cache EXCEPT ![b] = disk[b]]
      /\ UNCHANGED <<phase, disk, diskpos, root, ents, host, fs>>

Result(op, ret) == fs' = [fs EXCEPT !.op = op, !.ret = ret]

FileOpen(path) ==
    /\ phase = "done" /\ fs.op = "idle"
    /\ fs' = [fs EXCEPT !.op = "walk", !.asked = path, !.path = path, !.f = root]
    /\ UNCHANGED <<phase, disk, diskpos, root, ents, host, cache>>

\* walk_path between the calls of dir_lookup.
WalkPath ==
    /\ fs.op = "walk" /\ ~Looking
    /\ Result("opened", CASE fs.path = <<>> -> 0
                          [] fs.path # <<>> /\ Head(fs.path) \in LongName -> E_BAD_PATH
                          [] OTHER -> E_NOT_FOUND)
    /\ UNCHANGED <<phase, disk, diskpos, root, ents, host, cache>>

\* One block of a directory.
DirLookup ==
    LET b == FileGetBlock(fs.f, fs.pos)
        found == {j \in 0 .. BLKFILES - 1 : FileAt(cache[b], j).name = Head(fs.path)}
    IN  /\ Looking /\ Touched = {}
        /\ IF AtEnd THEN Result("opened", E_NOT_FOUND)
           ELSE IF b < 0 THEN Result("opened", b)
           ELSE IF found = {} THEN fs' = [fs EXCEPT !.pos = @ + 1]
           ELSE fs' = [fs EXCEPT !.pos = 0, !.path = Tail(@), !.f = FileAt(cache[b], Min(found))]
        /\ UNCHANGED <<phase, disk, diskpos, root, ents, host, cache>>

\* serve_read, and file_read up to its loop.
FileRead(n, offset) ==
    /\ fs.op \in {"opened", "read"} /\ fs.ret >= 0
    /\ fs' = [fs EXCEPT !.op = "copy", !.offset = offset, !.pos = offset, !.buf = <<>>,
                 !.count = IF offset >= fs.f.size THEN 0
                           ELSE MinOf(MinOf(n, BUFSIZE), fs.f.size - offset)]
    /\ UNCHANGED <<phase, disk, diskpos, root, ents, host, cache>>

ReadBlockNoSkip ==                              \* mutant: copies from the start of the block
    LET b == FileGetBlock(fs.f, Filebno)
        bn == MinOf(BLKSIZE - (fs.pos % BLKSIZE), fs.offset + fs.count - fs.pos)
    IN  /\ fs.op = "copy" /\ Touched = {}
        /\ IF AtEnd THEN Result("read", fs.count)
           ELSE IF b < 0 THEN Result("read", b)
           ELSE fs' = [fs EXCEPT !.pos = @ + bn,
                          !.buf = @ \o [k \in 1 .. bn |-> ByteAt(cache[b], k - 1)]]
        /\ UNCHANGED <<phase, disk, diskpos, root, ents, host, cache>>
\* One round of the loop of file_read, or its end.
ReadBlock ==
    LET b == FileGetBlock(fs.f, Filebno)
        skip == fs.pos % BLKSIZE
        bn == MinOf(BLKSIZE - skip, fs.offset + fs.count - fs.pos)
    IN  /\ fs.op = "copy" /\ Touched = {}
        /\ IF AtEnd THEN Result("read", fs.count)
           ELSE IF b < 0 THEN Result("read", b)
           ELSE fs' = [fs EXCEPT !.pos = @ + bn,
                          !.buf = @ \o [k \in 1 .. bn |-> ByteAt(cache[b], skip + k - 1)]]
        /\ UNCHANGED <<phase, disk, diskpos, root, ents, host, cache>>

-----------------------------------------------------------------------------
\* opendisk: block 0 is the boot block, 1 the super block, 2 the bitmap.
FsInit ==
    /\ phase = "format"
    /\ disk = [b \in Block |-> ZeroBlock] /\ diskpos = 3
    /\ root = [EmptyFile EXCEPT !.name = "/", !.dir = TRUE]
    /\ ents = <<>> /\ host = <<>>
    /\ cache = [b \in Block |-> [kind |-> "absent", at |-> <<>>]]
    /\ fs = [op |-> "idle", asked |-> <<>>, path |-> <<>>, f |-> EmptyFile,
              offset |-> 0, count |-> 0, pos |-> 0, buf |-> <<>>, ret |-> 0]

FsNext ==
    \/ \E name \in Name, size \in HostSize : WriteFile(name, size)
    \/ FinishDir
    \/ \E path \in Path : FileOpen(path)
    \/ \E n \in Count, offset \in Offset : FileRead(n, offset)
    \/ WalkPath \/ DirLookup \/ ReadBlock \/ BcPgfault

FsSpec == FsInit /\ [][FsNext]_fsvars

-----------------------------------------------------------------------------
(* Properties.                                                             *)

\* The number of the first file of that name on the host.
Files(name) == {i \in 1 .. Len(host) : host[i].name = name}
Found(path) == IF path = <<>> THEN 0 ELSE Min(Files(path[1]))

Expected(path) ==
    CASE path = <<>> -> 0
      [] path # <<>> /\ path[1] \in LongName -> E_BAD_PATH
      [] Len(path) = 1 /\ Files(path[1]) # {} -> 0
      [] Len(path) > 1 /\ Files(path[1]) # {} /\ path[2] \in LongName -> E_BAD_PATH
      [] OTHER -> E_NOT_FOUND

\* A path is found exactly if fsformat was given that file, which is the
\* first one of its name; nothing the server looks at makes it panic.
LookupExact ==
    fs.op = "opened" =>
        /\ fs.ret = Expected(fs.asked)
        /\ fs.ret = 0 /\ fs.asked # <<>> => fs.f.size = host[Found(fs.asked)].size

\* The bytes at place k of the file, as fsformat was given them.
Bytes(i, k) ==
    IF i # 0 THEN <<"data", i, k>>
    ELSE <<"file", IF k \div SizeofFile < Len(ents) THEN ents[k \div SizeofFile + 1] ELSE EmptyFile,
           k % SizeofFile>>

\* A read returns as many bytes as there are up to the end of the file, the
\* request and the buffer, each from its place in the host's file, whichever
\* blocks they are spread over.
ReadExact ==
    fs.op = "read" =>
        /\ fs.ret = Len(fs.buf) /\ fs.ret = fs.count
        /\ (host # <<>> \/ fs.asked # <<>>) =>
             fs.buf = [k \in 1 .. fs.count |-> Bytes(Found(fs.asked), fs.offset + k - 1)]

=============================================================================
