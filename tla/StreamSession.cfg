SPECIFICATION FairSpec
CONSTANTS
  GrantedDepth = 2
  GrantedWindow = 2
  ArenaDepth = 3
  MaxFrames = 4
  MaxLosses = 1
INVARIANTS
  CreditOnlyAfterRelease
  ViewsIntact
  NoCreditLost
PROPERTIES
  ImplementsCumulativeCredit
CHECK_DEADLOCK FALSE
PROPERTY EventuallyCredited
