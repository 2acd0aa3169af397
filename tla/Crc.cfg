SPECIFICATION Spec
CONSTANTS
  Addrs = {0, 1, 2, 3, 16, 85, 128, 170, 254, 255}
  MaxRequests = 2
INVARIANTS
  SentIsDivisible
CHECK_DEADLOCK FALSE
