SPECIFICATION Spec
CONSTANTS
  t1 = t1
  t2 = t2
  N = 2
  Openers = {t1, t2}
  Others = {}
  LeaseTTL = 1
  MaxRenewals = 1
  MaxTasks = 2
PROPERTY SeatNeverStolen
CHECK_DEADLOCK FALSE
