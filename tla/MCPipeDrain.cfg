SPECIFICATION Spec
CONSTANTS
    Proc = {p1, p2}
    First = p1
    FdNum = {0, 1, 2}
    DupTo = {2}
    PIPEBUFSIZ = 2
    NCPU = 1
    CallLen = 3
    MaxBytes = 3
    MaxTicks = 1
    Nothing = Nothing
INVARIANT
    EofMeansDrained
CHECK_DEADLOCK FALSE
