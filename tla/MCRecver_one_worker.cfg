SPECIFICATION FairSpec
CONSTANTS
  Recvers = {r1, r2}
  Listeners = {l1}
  Workers = {w1}
  UninitReady <- Garbage
INVARIANTS
  CheckCallbackExclusion
  NoEventErased
  IInv
PROPERTIES
  WaitingListenerResumes
  ImplementsChannel
