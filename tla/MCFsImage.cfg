SPECIFICATION FsSpec
CONSTANTS
    nblocks = 14
    BLKSIZE = 4
    BLKFILES = 2
    NDIRECT = 2
    NINDIRECT = 2
    MAXDIRENTS = 3
    BUFSIZE = 8
    Name = {"a", "b"}
    LongName = {"long"}
    HostSize = {0, 3, 8, 13}
    Path <- MCPath
    Count = {1, 6, 20}
    Offset = {0, 3, 6, 9, 12}
CHECK_DEADLOCK FALSE
INVARIANTS LookupExact ReadExact
