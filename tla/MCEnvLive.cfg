SPECIFICATION FairSpec
CONSTANTS
    NENV = 3
    MaxGen = 1
    NBOOT = 2
    CPUs = {c0, c1}
    Bsp = c0
    NoEnv = NoEnv
    NoCpu = NoCpu
PROPERTIES
    ZombieReaped ScheduledUnlessExits LivesAsPromised
