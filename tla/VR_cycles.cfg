\* Two controllers on one connector whose cycle deadline is as long as a
\* request of each; a retry-after below and one above the longest backoff;
\* one fill, which the ledger may refuse, and a connector that may be silent.
CONSTANTS
  Controllers = {c1, c2}
  Decider = c1
  RequestTimeout = 2
  CycleDeadline = 4
  CacheTtl = 4
  BackoffInitial = 1
  BackoffMax = 4
  Headers = {0, 3, 6}
  MaxFaults = 2
  Window = 2
  MaxFills = 1
  MaxDropped = 1
SPECIFICATION Spec
INVARIANT NoFillErased
PROPERTY QuietAfterRefusal
PROPERTY ReadsRecover
CHECK_DEADLOCK FALSE
