\* No forecast, no failures, no cancels.
CONSTANTS
    Total = 4
    NumIntervals = 3
    Duration = 3
    MinOrder = 2
    VolumeForecast = FALSE
    MaxRetries = 1
    MaxFaults = 0
SPECIFICATION Spec
INVARIANT RemainderIsExact
CHECK_DEADLOCK FALSE
