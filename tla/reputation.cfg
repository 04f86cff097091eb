SPECIFICATION LedgerSpec
CONSTANTS
  a = a
  b = b
  c = c
  Peers = {a, b, c}
  Full = 3
  Confirmed = 2
  Active = 1
  ContradictionLoss = 2
  MaxGrants = 2
  MaxCredit = 4
SYMMETRY PeerSymmetry
INVARIANTS
  LedgerTypeOK
  SpendingBound
  DelegationCeiling
PROPERTIES
  DelegationLeavesRest
