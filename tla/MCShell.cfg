SPECIFICATION Spec
CONSTANTS
    NENV = 7
    MaxCommands = 3
    MaxBytes = 2
    PIPEBUFSIZ = 1
    EmptyLeft = FALSE
CHECK_DEADLOCK FALSE
INVARIANTS PromptMeansDone
PROPERTIES PromptReturns
