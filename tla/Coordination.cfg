SPECIFICATION LiveSpec
CONSTANTS
  t1 = t1
  t2 = t2
  N = 2
  Openers = {t1}
  Others = {t2}
  LeaseTTL = 1
  MaxRenewals = 1
  MaxTasks = 3
PROPERTY EndsOnce
CHECK_DEADLOCK FALSE
PROPERTY CrashReclaimed
