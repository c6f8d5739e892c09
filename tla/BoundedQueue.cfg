SPECIFICATION Spec
CONSTANTS
  p1 = p1
  p2 = p2
  c1 = c1
  c2 = c2
  Requested = 3
  Producers = {p1, p2}
  Consumers = {c1, c2}
  MaxPushes = 6
INVARIANT CellExclusive
INVARIANT RetryMeansProgress
INVARIANT BoundedFifo
