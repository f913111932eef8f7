SPECIFICATION Spec
CONSTANTS
    PGSIZE = 24
    Word = {200, 201}
    MaxUser = 2
VIEW MCView
CHECK_DEADLOCK FALSE
PROPERTIES ResumesAsInterrupted FramesInPage
