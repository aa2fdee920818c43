\* An echo server.
SPECIFICATION Spec
CONSTANTS
  PoolSize = 1
  QueueDepth = 4
  WriteCap = 2
  BufNum = 2
  SqPoll = FALSE
  Rearm = FALSE
  Greets = FALSE
  Closes = FALSE
  Careless = FALSE
  MaxConn = 2
  MaxData = 2
  MaxFd = 2
CHECK_DEADLOCK FALSE
PROPERTIES
  DataReachesOnRead
