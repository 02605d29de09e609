\* One lot, one failed cycle: the flatten that asks for nothing.
CONSTANTS
  Cap = 1
  QuoteSize = 1
  Timeout = 1
  Cooldown = 1
  RefreshInterval = 1
  Urgencies = {"emergency"}
  MaxUnseen = 0
  MaxPerSide = 2
  MaxFaults = 1
SPECIFICATION Spec
PROPERTY FlattenReached
CHECK_DEADLOCK FALSE
