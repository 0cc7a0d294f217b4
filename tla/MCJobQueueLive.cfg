\* Leases of live workers hold and redis answers; one crash, one of two processes shut down.
SPECIFICATION FairSpec
CONSTANTS
    p1 = p1  p2 = p2  j1 = j1  j2 = j2  k1 = k1  t1 = t1  t2 = t2  t3 = t3
    NoJob = NoJob  NoProc = NoProc  NoRec = NoRec
    Proc = {p1, p2}
    Job = {j2}
    Key = {k1}
    Token = {t1, t2, t3}
    KeyOf <- MCKeyOf
    Retryable <- MCRetryable
    Orphan = {}
    Awaited = {j2}
    Closers = {p1}
    MaxAttempts = 2
    Concurrency = 2
    LeaseLoss = FALSE
    MaxVer = 0
    MaxFaults = 0
    MaxCrashes = 1
INVARIANTS StableQueue
PROPERTIES EventuallyEnds
CHECK_DEADLOCK FALSE
