CONSTANTS
  SendLimit <- OneWay3
  IKCP_WND_RCV = 2
  SndWnd = 2
  RcvWnd = 2
  FastResend = 0
  FastLimit = 0
  DeadLink = 1
  NoCwnd = TRUE
  MSS = 16
  IKCP_THRESH_INIT = 2
  IKCP_THRESH_MIN = 2
  MtuSegs = 1
  NetCap = 2
  AckCap = 0
  MaxFaults = 1
SPECIFICATION Spec
INVARIANT WindowRespected
