\* Two accounts; one unit of time is 10 s, the soak lasts long enough for a
\* whole read outage.
CONSTANTS
  NumAccounts = 2
  Duration = 8
  KillAfter = 2
  Interval = 1
  MaxOutage = 2
  MaxRetryDelay = 2
  CleanupTimeout = 1
  MaxRead = 2
  MaxFaults = 3
SPECIFICATION Spec
INVARIANT PassedMeansFlat
INVARIANT NoLongBlindness
PROPERTY SoakEnds
CHECK_DEADLOCK FALSE
