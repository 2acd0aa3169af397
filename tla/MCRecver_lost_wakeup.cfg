SPECIFICATION FairSpec
CONSTANTS
  Recvers = {r1}
  Listeners = {l1}
  Workers = {w1}
  UninitReady <- Unset
PROPERTIES
  DetectionResumes
