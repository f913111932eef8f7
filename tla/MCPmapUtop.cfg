SPECIFICATION SpecAny
CONSTANTS
    Page = {kp, p1, p2, p3, p4, p5}
    KernPage = kp
    v1 = v1
    v2 = v2
    v3 = v3
    VA = {v1,v2, v3}
    PDX <- MCPDX
    Env = {e1, e2}
    Boot = e1
    CPUs = {c1, c2}
    MaxRef = 7
    NoPage = NoPage
    NoPte = NoPte
    NoEnv = NoEnv
    NotRecv = NotRecv
    Zero = Zero
    UTOP = UTOP
SYMMETRY Symmetric
INVARIANT
    KernelMappingKept
CHECK_DEADLOCK FALSE
