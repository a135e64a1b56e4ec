CONSTANTS
  g_loop_num = 2
  MaxSends = 2
  MaxOthers = 0
  MaxTime = 1
  MaxSpurious = 0
  MaxCloses = 0
SPECIFICATION Spec
INVARIANT PairedWithSend
CHECK_DEADLOCK FALSE
