SPECIFICATION CoordSpec
CONSTANTS
    w1 = w1  w2 = w2  w3 = w3  s1 = s1  s2 = s2
    j1 = j1  j2 = j2  j3 = j3  k1 = k1  k2 = k2
    Worker = {w1, w2, w3}
    Server = {s1, s2}
    ServerOf <- MCServerOf
    NoWorker = NoWorker
    MaxExpiries = 1
    MaxLockFaults = 1
    MaxLockCrashes = 1
    MJob = {j1, j2, j3}
    MKey = {k1, k2}
    MKeyOf <- MCMKeyOf
    MRetryable = {j3}
    MHandled = {j1, j3}
    MMaxAttempts = 2
    MConcurrency = 1
    NoMJob = NoMJob
    RReq = {j1, j2, j3}
    RServer = {s1, s2}
    RServerOf <- MCRServerOf
    Limit = 1
    MaxRateFaults = 1
    MaxWindows = 2
    UJob = {j1, j2, j3}
    UKey = {k1, k2}
    UKeyOf <- MCUKeyOf
    NoUJob = NoUJob
    MaxPushFaults = 1
    HEvent = {j1}
    HServer = {s1, s2}
    HMaxDeliveries = 3
    HMaxFaults = 2
CHECK_DEADLOCK FALSE
INVARIANTS InstancesAgree AnswerIsHonest
PROPERTIES MemoryKeepsPromise WaitsEnd
