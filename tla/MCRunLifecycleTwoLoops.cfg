\* A continuation after a cancellation that an execution has not noticed.
SPECIFICATION Spec
CONSTANTS
    MaxExec = 2
    MaxSteps = 1
    MaxRounds = 1
    MaxBatch = 1
    MaxToolCalls = 1
    MaxRetries = 0
    Budget = 4
    MaxCancels = 1
    MayFail = FALSE
    Requests = {"cancel", "continue"}
INVARIANTS OneLoop
CHECK_DEADLOCK FALSE
