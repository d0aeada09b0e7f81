SPECIFICATION Spec
CONSTANTS
    StopCalls = {s1}
    MaxStarts = 2
    MaxStops = 1
    MaxOutputs = 1
    MaxRecordFails = 1
    MaxSessions = 1
    MaxShellStarts = 2
    WriteCalls = {c1}
    MaxBytes = 2
    MaxDeltas = 2
    fileP = fileP
    fileQ = fileQ
    textA = textA
    textB = textB
    Paths <- MCPaths
    Tokens <- MCTokens
    Patches <- MCPatches
    Workloads <- MCWorkloads
    MaxBatch = 2
    MaxChunks = 2
    MaxRenewals = 1
    MaxFileDeaths = 1
    Batches = {b1, b2}
    MaxLines = 3
    MaxFaults = 2
    MaxCrashes = 2
    EntryWithFile = TRUE
INVARIANTS
    FeatureTypesOK
    ObservablesEnd
    ShellServes
    FileToolsWrite
    JournalSafe
PROPERTIES
    ImplementsLog
CHECK_DEADLOCK FALSE
