SPECIFICATION FairSpec
CONSTANTS
  FrameCounts = {3, 4}
  WriterCounts = {1, 2}
  BlockSizes = {1, 2}
  StripeSizes = {1, 2}
  MaxBlocks = 3
  QueueDepth = 1
  RingDepth = 3
  Windows = {1, 3}
  Chunked = TRUE
  MaxFaults = 0
  MaxReconnects = 1
  AnyReconnect = TRUE
INVARIANTS ViewsKeepTheirFrame

