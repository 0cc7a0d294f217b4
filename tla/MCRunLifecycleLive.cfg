\* All the requests: a run is paused, cancelled, retried, and reopened by a follow-up message, perhaps while an execution of it waits.
SPECIFICATION FairSpec
CONSTANTS
    MaxExec = 2
    MaxSteps = 1
    MaxRounds = 1
    MaxBatch = 1
    MaxToolCalls = 1
    MaxRetries = 1
    Budget = 3
    MaxCancels = 1
    MayFail = TRUE
    Requests = {"cancel", "retry", "continue", "pause"}
PROPERTIES TerminalIsFinal EventuallyTerminal
CHECK_DEADLOCK FALSE
