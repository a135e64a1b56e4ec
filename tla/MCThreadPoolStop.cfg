CONSTANTS
  Worker = {w1, w2}
  Task = {t1}
  None = None
SPECIFICATION FairSpec
PROPERTY StopReturns
CHECK_DEADLOCK FALSE
