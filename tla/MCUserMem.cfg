SPECIFICATION Spec
CONSTANTS
    PGSIZE = 4
    Pages = 3
    MaxLen = 6
CHECK_DEADLOCK FALSE
INVARIANT EveryPageTested
