\* Two executions, cancel, retry and pause requests, failures and the deadline.
SPECIFICATION Spec
CONSTANTS
    MaxExec = 2
    MaxSteps = 2
    MaxRounds = 1
    MaxBatch = 2
    MaxToolCalls = 2
    MaxRetries = 1
    Budget = 5
    MaxCancels = 1
    MayFail = TRUE
    Requests = {"cancel", "retry", "pause"}
INVARIANTS TypeOK OneLoop OneTerminalEvent ExecutionGuarded
CHECK_DEADLOCK FALSE
