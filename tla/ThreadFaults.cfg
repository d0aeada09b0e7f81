SPECIFICATION Spec
CONSTANTS
    Inputs = {d1, d2, e1}
    Direct = {d1, d2}
    External = {e1}
    Turns = {t1, t2}
    NoTurn = noTurn
    NoInput = noInput
    MaxRecords = 3
    MaxPending = 2
    Operations = {}
    ErrKinds = {"dead"}
    Faults = {"write", "count", "journal", "late"}
    MaxFaults = 1
    MaxCrashes = 1
INVARIANTS
    NoLostInput
PROPERTIES
    ImplementsInbox
CHECK_DEADLOCK FALSE
