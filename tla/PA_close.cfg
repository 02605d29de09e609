SPECIFICATION FairSpec
CONSTANTS
    Total = 2
    ChildQty = 1
    TimeLimit = 1
    RefreshTime = 1
    MaxRetries = 1
    PositionAction = "CLOSE"
    MaxFaults = 1
    LoseCancels = TRUE
INVARIANTS Budget ChildBudget CreditsSettle
PROPERTIES NoSubmitAfterStop KeepsPromise StopEnds
CHECK_DEADLOCK FALSE
