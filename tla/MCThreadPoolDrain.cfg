CONSTANTS
  Worker = {w1, w2}
  Task = {t1, t2, t3}
  None = None
SPECIFICATION Spec
INVARIANT DrainedAtExit
CHECK_DEADLOCK FALSE
