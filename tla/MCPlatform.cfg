SPECIFICATION PlatformSpec
CONSTANTS
    WItems <- MCItems
    WMaxItems = 3
    WMax = 7
    WWindows = {0, 6, 9}
    WScores = {2, 6}
    WThreshold = 3
    WBase = 1
    WHistory = {0, 3}
    WShown = 2
    WMaxCalls = 2
    MRuns = {1, 2}
    MOrgOf <- MCOrgOf
    MCandidates <- MCTexts
    MMaxWorking = 2
    MMaxLong = 1
    MMaxWrites = 3
    LRuns = {1, 2}
    LTenantOf <- MCLearnTenant
    LTenants = {1, 2}
    LTests <- MCTests
    LFeedback <- MCFeedback
    LMaxEvals = 1
    LMaxEnds = 2
    GRuns = {1, 2}
    GMaxLive = 2
    GKeep = 1
    GMaxLoops = 2
    QMaxSteps = 3
    QMaxEpisodes = 3
    QPaths = {"src", "src/a", "a", "src/", "src//a"}
    QPlain <- MCPlain
    QInside <- MCInside
    QEnds <- MCEnds
    QBeneath <- MCBeneath
    QLimit = 2
    QMaxCommands = 3
    VJobs = {1, 2, 3}
    VKeep = 4
    UEmails = {1, 2}
    URequests = {1, 2}
    UMaxSessions = 2
    UMaxFaults = 2
    TPrincipals <- MCPrincipals
    TKeys = {101, 102}
    TEnvKey = 100
    TExplicit = "none"
    TMaxSteps = 3
    GReq = {1, 2}
    GFiles = {"a", "b"}
    GSpecs = {"a", "b", "*"}
    GCover <- MCCover
    GRefused = {"-A"}
    GOps <- MCGitOps
    GMaxGrants = 2
    GMaxUser = 1
    KMax = 2
    KSteps = 3
    KMaxTries = 2
    HRuns = {1, 2, 3}
    HTenantOf <- MCReuseTenant
    HTaskOf <- MCTaskOf
    HSimilar <- MCSimilar
    HThreshold = 8
    HModels = {1, 2}
    HPrompts = {1, 2, 3}
    HPrintOf <- MCPrintOf
    HToolsOf <- MCToolsOf
    HMaxL1 = 2
    HMaxSem = 2
    HMaxCalls = 3
    HMaxEnvs = 2
CHECK_DEADLOCK FALSE
INVARIANTS PromptSound LearningSound RegistryTrue PlansSound UserWins VerdictSound TenantsApart
    RecoverySound ReuseIsSafe
