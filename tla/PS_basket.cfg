\* Two legs; one unit of time is 5 s.
CONSTANTS
  Members = {m1, m2}
  Stale = 4
  Skew = 0
  LockWait = 1
  Period = 3
  MaxFaults = 3
SPECIFICATION Spec
INVARIANT QuotesKnowTheBasket
PROPERTY BasketRecovers
CHECK_DEADLOCK FALSE
