SPECIFICATION FairSpec
CONSTANTS
    NENV = 3
    MaxGen = 2
    NBOOT = 2
    CPUs = {c0}
    Bsp = c0
    NoEnv = NoEnv
    NoCpu = NoCpu
PROPERTIES
    Scheduled
