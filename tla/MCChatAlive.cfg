CONSTANTS
  a = a
  b = b
  None = None
  Client <- MCClient
  SendLimit <- MCSendLimit
  Timeout = 1
  KeepAlive = 0
  MaxSessions = 2
SPECIFICATION Spec
INVARIANT OnlyCommandsSwallowed
