SPECIFICATION FairSpec
CONSTANTS
  Devices = {d1, d2}
  MaxAddr = 1
  LineLimit = 3
INVARIANTS
  TypeOK
  ReportIsCurrent
PROPERTIES
  SetAddrMovesLowest
  CallsEnd
CHECK_DEADLOCK FALSE
