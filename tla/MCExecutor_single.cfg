SPECIFICATION Spec
CONSTANTS
  n1 = n1
  g1 = g1
  g2 = g2
  r2 = r2
  Nodes = {n1}
  DefaultGroup <- MCDefaultGroup
  NodeOf <- MCNodeOf
  GroupOf <- MCGroupOf
  Groups = {g1, g2}
  Timers = {t1, t2}
  Recvers = {r1, r2, r3}
  Workers = {w1}
  Late = {t2, r3}
  AddLimit = 1
  UninitReady <- Garbage
INVARIANTS
  TypeOK
  CheckCallbackExclusion
  NoEventErased
  ThreadPerEntry
PROPERTIES
  ImplementsChannel
