SPECIFICATION FairSpec
CONSTANTS
  Policy = "BoundedRetry"
  MaxAttempts = 1
  Backoff = 1
  LeaseTTL = 2
  Geometries = {g1, g2}
  Acts = {"close", "interrupt", "throw"}
  MaxIds = 2
CHECK_DEADLOCK FALSE
INVARIANT CallsNeverOverlap
 
INVARIANT ClosedMeansClosed
INVARIANT OneGeometry
INVARIANT NeverAbandoned
PROPERTY ShutdownEnds
