SPECIFICATION FairSpec
CONSTANTS
    Client = {c1, c2}
    First = c1
    FdNum = {0, 1}
    File = {f1}
    FileSize = 1
    MAXOPEN = 2
    IdMod = 8
    FS = FS
    Nothing = Nothing
INVARIANTS
    TypeOK ServesWhoAsked OpenIdsValid StaleRefused
PROPERTIES
    FilesAsPromised Answered
CHECK_DEADLOCK FALSE
