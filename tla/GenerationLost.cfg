SPECIFICATION ESpec
CONSTANTS
    Owner = owner
    Visitors = {v1}
    MaxCommits = 5
    MaxGenerations = 3
    MaxRevision = 6
    Faults = {"journal", "meta", "renewLate"}
    MaxFaults = 2
    MaxCrashes = 1
INVARIANTS
    SelectedIsStaged
CHECK_DEADLOCK FALSE
