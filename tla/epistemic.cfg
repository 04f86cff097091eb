SPECIFICATION Spec
CONSTANTS
  Scale = 10000
  SafeMax = 1000000000
  MaxDeclared = 13816
  DiscountBps = 3000
  UnassessedBps = 8000
  MaxDepth = 30
  SupportBits = 1
  Width = 4
  ContradictBits = 3
  MaxNearest = 1
  FloorStrength = 1000
  MaxIterations = 5
  DampingBps = 5000
  Threshold = 2197
  NumNodes = 2
  Claims <- MeshClaims
  Edges <- MeshEdges
  Base <- MeshBase
  Writers = {1}
  Anchor = "anchor"
  Granted = 6000
  Grid = 2
  MaxEdges = 3
INVARIANTS
  TypeOK
  SameClaimsSameSummaries
  SameClaimsSameTopology
  SupportSettles
  TrustIsShared
  ContradictionSafety
