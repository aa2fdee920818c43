\* An application that speaks first and closes connections.
SPECIFICATION Spec
CONSTANTS
  PoolSize = 1
  QueueDepth = 4
  WriteCap = 2
  BufNum = 2
  SqPoll = FALSE
  Rearm = FALSE
  Greets = TRUE
  Closes = TRUE
  Careless = FALSE
  MaxConn = 2
  MaxData = 2
  MaxFd = 2
CHECK_DEADLOCK FALSE
INVARIANTS
  OneWritePerConnection
