SPECIFICATION Spec
CONSTANTS
    p1 = p1
    p2 = p2
    p3 = p3
    Proc = {p1, p2, p3}
    First = p1
    Frame = {1, 2, 3, 4, 5, 6, 7}
    USTACKTOP = 5
    SharedVA <- MCShared
    Segment <- MCSegment
    Value = {0, 1}
    Zero = 0
    FileValue <- MCFile
    ArgValue = 0
    NoFrame = 0
    NoProc = NoProc
    NoValue = NoValue
SYMMETRY MCSymmetry
VIEW MCView
CHECK_DEADLOCK FALSE
INVARIANTS SoleWriter CanFault
PROPERTIES MemoryAsPromised
