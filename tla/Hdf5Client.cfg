SPECIFICATION FairSpec
CONSTANTS
  FrameCounts = {3, 4}
  WriterCounts = {1, 2}
  BlockSizes = {1, 2}
  StripeSizes = {1, 2}
  MaxBlocks = 3
  QueueDepth = 1
  RingDepth = 3
  Windows = {1, 3}
  Chunked = TRUE
  MaxFaults = 1
  MaxReconnects = 1
  AnyReconnect = FALSE
INVARIANTS ShardsHoldTheirFrames CreditAfterWrite CleanExit FailsForAReason
PROPERTIES Finishes
CHECK_DEADLOCK FALSE
