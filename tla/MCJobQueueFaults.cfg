\* Two processes; a lost lease, a lost redis reply and a crash.
SPECIFICATION Spec
CONSTANTS
    p1 = p1  p2 = p2  j1 = j1  j2 = j2  k1 = k1  t1 = t1  t2 = t2  t3 = t3
    NoJob = NoJob  NoProc = NoProc  NoRec = NoRec
    Proc = {p1, p2}
    Job = {j1, j2}
    Key = {k1}
    Token = {t1, t2}
    KeyOf <- MCKeyOf
    Retryable <- MCRetryable
    Orphan = {}
    Awaited = {}
    Closers = {}
    MaxAttempts = 2
    Concurrency = 1
    LeaseLoss = TRUE
    MaxVer = 0
    MaxFaults = 1
    MaxCrashes = 1
SYMMETRY ProcTokenSymmetry
INVARIANTS TypeOK NonRetryableRunsOnce
PROPERTIES NoSilentLoss ImplementsPromise
CHECK_DEADLOCK FALSE
