SPECIFICATION Spec
CONSTANTS
    Total = 2
    ChildQty = 2
    TimeLimit = 2
    RefreshTime = 1
    MaxRetries = 0
    PositionAction = "OPEN"
    MaxFaults = 1
    LoseCancels = FALSE
INVARIANTS OversizedIsCanceled
CHECK_DEADLOCK FALSE
