SPECIFICATION Spec
CONSTANTS
    ClosingCallbacks = {"mcp", "observables"}
    MaxInputs = 2
    WorkerIds = {w1}
    WorkerCalls = {"create", "reuse", "stop", "archive"}
    MaxApps = 3
    MaxRuns = 4
    Setups <- MCSetups
    ToolNames = {"read", "write", "unknown"}
    Texts = {"none", "some", "over"}
    RuntimeVerdicts = {"allow", "transform", "deny"}
    MaxTaskEdits = 1
    MaxPolicyFaults = 1
    SerialCalls = {1, 2}
    KeepRecent = 1
    ManualCompaction = FALSE
    MaxCalls = 3
    MaxTurnInputs = 2
    MaxCompactions = 2
    MaxProtocolFaults = 1
    MaxProtocolDeaths = 1
    Models = {m1, m2}
    m1 = m1
    m2 = m2
    NoModel = noModel
    Chain <- MCChain
    SummaryChain <- MCSummaryChain
    Requesters = {t1, t2}
    MaxCompletions = 2
    MaxProbes = 2
    Threads = {t1, t2}
    Configs <- MCConfigs
    Answers <- MCAnswers
    MaxRetries = 1
    MaxSummaries = 1
    Starters = {c1, c2}
    MaxNotes = 2
    Specs <- MCSpecs
    Sources = {"a"}
    Processes = {"p1", "p2"}
    MaxRevisions = 2
    MaxLoads = 1
    MaxRemote = 2
    MaxConfigFaults = 1
    MaxConfigDeaths = 1
    LayerFiles <- MCFiles
    Overlays <- MCOverlays
    Dotenvs <- MCDotenvs
    InheritedEnvs <- MCInherited
    Overrides <- MCOverrides
    Installed <- MCInstalled
    None = None
INVARIANTS
    AgentTypesOK
    AgentCloses
    WorkersHandOff
    PoliciesHold
    ProtocolHolds
    ModelsAnswer
    MCPServes
    
CHECK_DEADLOCK FALSE
