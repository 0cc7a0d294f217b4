\* Two runs whose logs hold one event each, and room for one log: every third
\* event of a run overflows, every second run prunes.
CONSTANTS
    ERun = {e1, e2}  noRun = noRun  Delta = {2}
    MaxSeq = 3  MaxBuffer = 1  MaxRuns = 1  RestoreWindow = 1  MaxDisturbances = 2
    s1 = s1  s2 = s2  s3 = s3
    SRun = {s1, s2, s3}  TenantOf <- MCTenantOf  purgedTenant = "A"  Cap = 1  MinIndex = 1
    VTools = {"x", "y"}  VShown = 3  VKeep = 2  VWindow = 1
    VMaxCalls = 3  VMaxTools = 2  VMaxEpisodes = 2  VMaxLoads = 1
    MaxStoreFaults = 1  MaxCreated = 2  MaxJobs = 2  MaxHooks = 1
SPECIFICATION EventsSpec
SYMMETRY Symmetry
INVARIANTS ConsoleFaithful StoreKept
CHECK_DEADLOCK FALSE
