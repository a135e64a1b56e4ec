CONSTANTS
  WebFd = {5}
  BUFFER_LENGTH = 2
  HeaderLen = 2
  FileLens = {0, 3, 5}
  MaxAccepts = 2
  MaxRequests = 2
  TcpFd = {1, 2}
  MaxClients = 3
  MaxPieces = 2
  Query = {1, 2, 3}
  Port = {p1, p2, p3}
  NoPort = NoPort
  MaxRepeats = 1
  g_loop_num = 2
  MaxSends = 3
  MaxOthers = 1
  MaxTime = 1
  MaxSpurious = 1
  MaxCloses = 1
SPECIFICATION FairSpec
INVARIANTS NetworkTypeOK ResponseExact WatchedExact AnswerToOwner NewestExact
PROPERTIES ResponseEnds Served CallbackComes KeepsMeasuring
CHECK_DEADLOCK FALSE
