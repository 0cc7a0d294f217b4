SPECIFICATION ModelsSpec
CONSTANTS
    RModels = {1, 2, 3}
    RSeeded = {1, 2}
    RFacts <- MCFacts
    RPrices <- MCPrices
    RRels = {4, 9}
    RLats = {2}
    RShort = 1
    RPolicy <- AnyModel
    RAllowed = {1, 2, 3}
    RNeed = 2
    RMaxSwitches = 2
    RMaxRetries = 1
    RDegradeAfter = 2
    RLateStep = 3
    RMaxSteps = 3
    RMaxEvents = 2
    PEvents = {"text", "tool0", "uout", "ping"}
    PMaxEvents = 3
    PMaxChunk = 3
    PMaxCalls = 2
    CWindow = 7
    CRoundCalls = 2
    CRounds = 2
    CMaxToolCalls = 4
    CAsked = {1, 3}
    CMaxSteps = 2
    CMaxLaunches = 2
    ARates <- MCRates
    AUsage <- MCUsage
    ACharges = {3}
    AForecast = 3
    ADefaultIn = 1
    ADefaultOut = 3
    AFeeShare = 4
    AKeep = 2
    ABudget = 12
    ASwitchCost = 1
    AMaxCalls = 3
    AMaxPrices = 1
CHECK_DEADLOCK FALSE
INVARIANTS RoutingSound AnswersFaithful
PROPERTIES CostsHonest
