SPECIFICATION Spec
CONSTANTS
    Owner = owner
    Visitors = {v1}
    MaxCommits = 5
    MaxGenerations = 3
    MaxRevision = 5
    Faults = {"journal", "meta", "metaLate", "discard", "index", "renewLate"}
    MaxFaults = 2
    MaxCrashes = 1
    RenewalFaults = {"stage", "commit", "late", "unsynced", "finish", "rollback", "write"}
    MaxRenewalFaults = 2
    MaxRenewalDeaths = 1
    MaxRenewals = 2
    MaxWrites = 3
    Main = m
    Workers = {w1, w2}
    MaxWorkerDepth = 2
    MaxLayoutFaults = 2
    MaxLayoutDeaths = 2
    Hosts = {p1, p2}
    ThreadDirs = {d1, d2}
    Disposable = {tasks}
    Retained = {scratch}
    MaxLeases = 2
    MaxCompositions = 3
    MaxStateFaults = 1
    MaxStateDeaths = 1
    Requests = {r1, r2}
    Entries = {e1}
    Origins = {o1}
    AdminKeys = {k1}
    MemoryAttempts = 2
    MaxHistory = 1
    MaxMemoryFaults = 1
    MaxMemoryDeaths = 1
    MaxReconfigs = 1
INVARIANTS
    StorageTypesOK
    HistorySafe
    FilesKept
    ModulesKept
    MemoryHolds
PROPERTIES
    RepairsComplete
    ImplementsHistory
    NeverRelearned
CHECK_DEADLOCK FALSE
