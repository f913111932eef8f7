SPECIFICATION FairSpec
CONSTANTS
    N = 4
INVARIANTS LockExact OwnStackAndApic
PROPERTIES EveryCpuRuns
