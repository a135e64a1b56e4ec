CONSTANTS
  SendLimit <- OneWay2
  IKCP_WND_RCV = 3
  SndWnd = 2
  RcvWnd = 3
  FastResend = 1
  FastLimit = 1
  DeadLink = 2
  NoCwnd = FALSE
  MSS = 16
  IKCP_THRESH_INIT = 2
  IKCP_THRESH_MIN = 2
  MtuSegs = 2
  NetCap = 2
  AckCap = 1
  MaxFaults = 2
SPECIFICATION Spec
INVARIANTS TypeOK NothingForgotten OldestUnacked CwndPositive
PROPERTY ImplementsChannel
