SPECIFICATION Spec
CONSTANTS
  ListenFd = 3
  MaxOpenFd = 5
  MaxHearts = 1
  InboxLimit = 1
INVARIANTS
  MaxFdIsMax
CHECK_DEADLOCK FALSE
