SPECIFICATION Spec
CONSTANTS
    Browsers = {b1}
    BufferSize = 2
    MaxEvents = 4
    MaxConnections = 2
    StreamFaults = {}
    Endpoints = {e1}
    NoEndpoint = noEndpoint
    MaxAgentRuns = 2
    MaxGenerations = 2
    MaxStreams = 2
    MaxDisturbances = 1
    SubscriberBuffer = 1
    UpdatesBuffer = 1
    HistoryLimit = 2
    MaxWatchers = 2
    MaxPages = 2
    MaxChangesMade = 2
    MaxWatchFaults = 1
    ToolCalls = {c1}
    MaxStatusTurns = 2
    MaxQueued = 1
    MaxIterations = 2
    MaxStatusRestarts = 1
    MaxPageOpens = 2
    EarlyErrors = {}
    MaxLag = 2
    NoStatus = noStatus
    MaxPosts = 2
    SameText = TRUE
    BatchCalls = 1
    MaxRounds = 1
    MaxFeed = 2
    MaxOpenings = 1
    MaxPageCompacts = 1
    LatePosts = FALSE
    MaxProcs = 3
    MaxTurns = 3
    MaxOps = 3
    FleetFaults = {"late", "kill"}
    Managers = {m1, m2}
    MaxInstances = 3
    MaxServiceOps = 4
    MaxAttempts = 2
INVARIANTS
    ViewTypesOK
    StreamsReach
    PageShows
    FleetSafe
    ServicesSafe
CHECK_DEADLOCK FALSE
