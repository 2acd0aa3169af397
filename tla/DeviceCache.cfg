SPECIFICATION FairSpec
CONSTANTS
  Consoles = {c1, c2}
  Worker = worker
  Ids = {1, 2}
INVARIANTS
  TypeOK
  NamedWasGiven
  WatchedIsSynced
PROPERTIES
  RegistryUnlessOverlap
  SyncedInTheEnd
CHECK_DEADLOCK FALSE
