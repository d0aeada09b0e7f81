SPECIFICATION Spec
CONSTANTS
    Inputs = {d1, d2, e1}
    Direct = {d1, d2}
    External = {e1}
    Turns = {t1, t2}
    NoTurn = noTurn
    NoInput = noInput
    MaxRecords = 3
    MaxPending = 1
    Operations = {"retry"}
    ErrKinds = {"restart"}
    Faults = {}
    MaxFaults = 0
    MaxCrashes = 0
INVARIANTS
    RetriedStaysPending
CHECK_DEADLOCK FALSE
