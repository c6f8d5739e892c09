SPECIFICATION Spec
CONSTANTS
  Blocking = {}
  Polling = {p1}
  Capacity = 2
  Policy = "DropNewest"
  Transports = 1
  Ends = {}
  MaxFrames = 1
INVARIANT NoLostWakeup
CHECK_DEADLOCK FALSE
