SPECIFICATION Spec
CONSTANTS
  a = a
  b = b
  Seats = {a, b}
  s1 = s1
  s2 = s2
  Slots = {s1, s2}
  ConfigWindow = 2
  Grants <- MCGrants
  QueueDepth = 2
  FanoutModes = {"BestEffort", "AllActive"}
  Outcomes = {"posted", "refused"}
  MaxFrames = 2
  MaxOpens = 2
SYMMETRY Symmetry
INVARIANT SlotsAccounted
INVARIANT PayloadStable
INVARIANT NoStrayCompletion
INVARIANT CreditedWithinAdmitted
PROPERTY AllActiveKeptWhenLevel
CHECK_DEADLOCK FALSE
