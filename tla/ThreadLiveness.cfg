SPECIFICATION FairSpec
CONSTANTS
    Inputs = {d1, d2, e1}
    Direct = {d1, d2}
    External = {e1}
    Turns = {t1, t2, t3, t4}
    NoTurn = noTurn
    NoInput = noInput
    MaxRecords = 3
    MaxPending = 2
    Operations = {}
    ErrKinds = {}
    Faults = {}
    MaxFaults = 0
    MaxCrashes = 1
PROPERTIES
    AcceptedSettles
CHECK_DEADLOCK FALSE
