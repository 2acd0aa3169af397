SPECIFICATION FairSpec
CONSTANTS
  ListenFd = 3
  MaxOpenFd = 5
  MaxHearts = 2
  InboxLimit = 1
INVARIANTS
  TypeOK
  RecordsAgree
  MaxFdIsWatched
  HeadRecvWaitsForRestOrNewClient
PROPERTIES
  GivenUpOnlyWhenSilent
  LostUnlessBlocked
CHECK_DEADLOCK FALSE
