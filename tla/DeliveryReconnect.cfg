SPECIFICATION Spec
CONSTANTS
  Blocking = {r1}
  Polling = {p1}
  Capacity = 2
  Policy = "DropOldest"
  Transports = 2
  Ends = {"Closed", "SessionFailed"}
  MaxFrames = 3
INVARIANT FramesAccounted
CHECK_DEADLOCK FALSE
PROPERTY NoLateFrame
