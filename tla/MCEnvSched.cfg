SPECIFICATION Spec
CONSTANTS
    NENV = 3
    MaxGen = 2
    NBOOT = 2
    CPUs = {c0, c1}
    Bsp = c0
    NoEnv = NoEnv
    NoCpu = NoCpu
INVARIANTS
    TypeOK NoDoubleRun StatusMatchesCpus FreeListExact ReceiverBlocked LockDiscipline SomeCpuAwake
PROPERTIES
    ZombieFreedByItsCpu
