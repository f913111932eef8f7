SPECIFICATION SpecAny
CONSTANTS
    Client = {c1, c2}
    First = c1
    FdNum = {0, 1}
    File = {f1}
    FileSize = 1
    MAXOPEN = 2
    IdMod = 8
    FS = FS
    Nothing = Nothing
INVARIANT
    RequestHasPage
CHECK_DEADLOCK FALSE
