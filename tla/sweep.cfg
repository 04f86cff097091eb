SPECIFICATION BoundedSpec
CONSTANTS
  Hashes <- FiveHashes
  HistoryDepth = 2
  Ops <- BothLoops
INVARIANTS
  TypeOK
  HeadsAreFrontier
  DeltaCompletes
PROPERTIES
  FrontierPreserved
  WithinDepth
  ShallowSurvives
  RefinesBoundedWalk
  Terminates
CHECK_DEADLOCK FALSE
