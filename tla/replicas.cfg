SPECIFICATION Spec
CONSTANTS
  r1 = r1
  r2 = r2
  Replicas = {r1, r2}
  GcThreshold = 2
  HistoryDepth = 1
  StableIdentity = TRUE
  FaultyStores = {r1}
  MaxNodes = 4
  MaxBatch = 2
  MaxBoots = 1
INVARIANTS
  TypeOK
  HeadsAreFrontier
  CacheCoherent
  Convergence
  DurableArena
PROPERTIES
  PruningOnlyAtEpoch
  RestartRecovers
