SPECIFICATION FairSpec
CONSTANTS
  Threads = {t1, t2}
  HeadLen = 2
  MaxLen = 2
  SocketRoom = 3
  MaxFrames = 4
PROPERTIES
  ImplementsChannel
  AllArrive
  MutexIsReleased
CHECK_DEADLOCK FALSE
