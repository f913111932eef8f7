SPECIFICATION Spec
CONSTANTS
    Proc = {p1, p2, p3}
    First = p1
    FdNum = {0, 1}
    DupTo = {}
    PIPEBUFSIZ = 1
    NCPU = 1
    CallLen = 1
    MaxBytes = 1
    MaxTicks = 2
    Nothing = Nothing
INVARIANT
    ClosedMeansClosed
CHECK_DEADLOCK FALSE
