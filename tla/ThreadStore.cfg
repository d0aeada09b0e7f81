SPECIFICATION Spec
CONSTANTS
    Inputs = {d1, e1}
    Direct = {d1}
    External = {e1}
    Turns = {t1, t2}
    NoTurn = noTurn
    NoInput = noInput
    MaxRecords = 2
    MaxPending = 1
    Operations = {"discard", "expire", "retry", "compact", "sync"}
    ErrKinds = {"restart"}
    Faults = {"write", "count", "journal"}
    MaxFaults = 1
    MaxCrashes = 1
INVARIANTS
    ReservationsOwned
PROPERTIES
    SettledStaysOut
    CompletedNotExecutedAgain
    LeavesByRule
CHECK_DEADLOCK FALSE
