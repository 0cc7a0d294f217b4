\* One retryable job whose leases are renewed, lost and reclaimed, with one redis fault.
SPECIFICATION Spec
CONSTANTS
    p1 = p1  p2 = p2  j1 = j1  j2 = j2  k1 = k1  t1 = t1  t2 = t2  t3 = t3
    NoJob = NoJob  NoProc = NoProc  NoRec = NoRec
    Proc = {p1, p2}
    Job = {j2}
    Key = {k1}
    Token = {t1, t2}
    KeyOf <- MCKeyOf
    Retryable <- MCRetryable
    Orphan = {}
    Awaited = {}
    Closers = {}
    MaxAttempts = 2
    Concurrency = 1
    LeaseLoss = TRUE
    MaxVer = 1
    MaxFaults = 1
    MaxCrashes = 0
SYMMETRY ProcTokenSymmetry
PROPERTIES LiveLeaseIsRespected
CHECK_DEADLOCK FALSE
