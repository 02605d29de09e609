\* One lot of cap, quotes that would take two, close and quote executors side
\* by side, one cycle that fails or decides on an outdated position.
CONSTANTS
  Cap = 1
  QuoteSize = 2
  Timeout = 1
  Cooldown = 2
  RefreshInterval = 1
  Urgencies = {"immediate", "emergency"}
  MaxUnseen = 1
  MaxPerSide = 2
  MaxFaults = 1
SPECIFICATION Spec
INVARIANT WithinCap
INVARIANT Apart
PROPERTY CircuitHolds
PROPERTY LatchHolds
PROPERTY QuotesDrain
PROPERTY CloseEnds
PROPERTY DarkEnds
CHECK_DEADLOCK FALSE
