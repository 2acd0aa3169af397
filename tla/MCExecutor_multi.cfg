SPECIFICATION FairSpec
CONSTANTS
  n1 = n1
  g1 = g1
  g2 = g2
  r2 = r2
  Nodes = {n1}
  DefaultGroup <- MCDefaultGroup
  NodeOf <- MCNodeOf
  GroupOf <- MCGroupOf
  Groups = {g1}
  Timers = {t1, t2}
  Recvers = {r1}
  Workers = {w1, w2}
  Late = {}
  AddLimit = 1
  UninitReady <- Unset
PROPERTIES
  StarvedOnlyByEarlier
