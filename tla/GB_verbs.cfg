\* Five bins; tolerances that are refused, used up and left; two faults.
CONSTANTS
  Bins = {0, 1, 2, 3, 4}
  Offset = 1
  Tolerances = {0, 2, 3, 4}
  MaxTolerance = 3
  MaxPositions = 3
  MaxMoves = 4
  MaxFaults = 2
SPECIFICATION Spec
INVARIANT BookIsOpen
INVARIANT OnePosition
INVARIANT PlacedNearExpected
CHECK_DEADLOCK FALSE
