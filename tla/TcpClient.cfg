SPECIFICATION FairSpec
CONSTANTS
  MaxHearts = 2
  MaxReconnects = 2
  InboxLimit = 2
INVARIANTS
  TypeOK
  PayloadOfHead
  HeadRecvWaitsForRestOrNewLink
PROPERTIES
  ReconnectsUnlessBlocked
  GivenUpOnlyWhenSilent
CHECK_DEADLOCK FALSE
