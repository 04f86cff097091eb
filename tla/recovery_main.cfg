SPECIFICATION Spec
CONSTANTS
  r1 = r1
  r2 = r2
  Replicas = {r1, r2}
  GcThreshold = 2
  HistoryDepth = 1
  StableIdentity = FALSE
  FaultyStores = {}
  MaxNodes = 3
  MaxBatch = 2
  MaxBoots = 1
SYMMETRY ReplicaSymmetry
PROPERTIES
  RestartRecovers
