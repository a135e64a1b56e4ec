CONSTANTS
  Worker = {w1, w2}
  MainThread = main
  SrvFd = {1, 2}
  Job = {1, 2, 3}
  MAX_BUFFER = 2
  RunLimit = 1
  MaxPieces = 3
  MaxArrivals = 2
  HostNames <- MCHostNames
  Junk = {0, 3}
  LabelLimit = 3
  MaxRecords = 3
  ClockModulus = 64
  Slack = 9
  RTO_MIN = 1
  RTO_DEF = 2
  RTO_MAX = 6
  PROBE_INIT = 3
  PROBE_LIMIT = 5
  MinInterval = 2
  MaxInterval = 4
  IKCP_INTERVAL = 3
  Intervals = {1, 3}
  StartClocks = {0, 58}
  Gaps = {1, 4, 11}
  ClockSteps <- MCClockSteps
  MaxElapsed = 14
  MaxXmit = 3
  Node = {1, 2, 3, 4}
  Person <- MCPersons
  FileBlock = 2
  Texts <- MCTexts
  SIZE_BUFFER = 2
  ImageSizes = {0, 1, 2, 3, 4, 5}
  chunk_size = 2
SYMMETRY WorkerSymmetry
SPECIFICATION ProgramSpec
INVARIANTS JobInOnePlace NothingStranded AcceptReturns AnswersExact TimersTrue FlushInTime ListExact CountExact ImageWhole
CHECK_DEADLOCK FALSE
