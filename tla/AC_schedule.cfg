\* Up to two slices of two lots or more, the second one larger, smaller or merged away.
CONSTANTS
    Total = 5
    NumIntervals = 2
    Duration = 2
    MinOrder = 2
    VolumeForecast = TRUE
    MaxRetries = 1
    MaxFaults = 2
SPECIFICATION Spec
INVARIANTS TypeOK SlicesAddUp NoSliceLost OverrunBounded TruthfulClose
PROPERTIES NoSliceAfterStop StopEnds EndsIfUpdated
CHECK_DEADLOCK FALSE
