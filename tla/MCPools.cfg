CONSTANTS
  Worker = {w1, w2}
  Task = {t1, t2, t3}
  None = None
  Client = {c1, c2, c3}
  Conn = {h1, h2, h3, h4, h5}
  max_conn_num = 2
  NoConn = NoConn
SPECIFICATION PoolsFairSpec
INVARIANTS PoolsTypeOK TaskInOnePlace NoIdleBacklog ConnInOnePlace AvailableExact NoIdleConnection
PROPERTIES TaskEventuallyRuns ShutdownFreesWaiters
CHECK_DEADLOCK FALSE
