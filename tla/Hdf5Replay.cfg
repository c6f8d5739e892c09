SPECIFICATION FairSpec
CONSTANTS
  Prefetch = 2
  Counts = {1, 3}
  AllActive = FALSE
  MaxInits = 2
  MaxFailures = 1
INVARIANTS PublisherOutlivesUse
PROPERTIES ReplayInOrder KeepsPlaying StopsWhenTold
