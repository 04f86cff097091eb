SPECIFICATION Spec
CONSTANTS
  NumNodes = 3
  Leader <- TwoGroups
  Strategies = {"full", "delta", "gossip"}
  Fanout = 1
  HistoryDepth = 1
  MaxNodes = 4
  MaxRounds = 3
CHECK_DEADLOCK FALSE
INVARIANT ConvergedMeansSameHistory
