CONSTANTS
  SendLimit <- OneWay3
  IKCP_WND_RCV = 2
  SndWnd = 2
  RcvWnd = 2
  FastResend = 0
  FastLimit = 0
  DeadLink = 1
  NoCwnd = FALSE
  MSS = 16
  IKCP_THRESH_INIT = 2
  IKCP_THRESH_MIN = 2
  MtuSegs = 4
  NetCap = 1
  AckCap = 0
  MaxFaults = 1
SPECIFICATION FairSpec
PROPERTIES EventuallyDelivered EventuallyDrained
