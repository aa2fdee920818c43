\* An echo server; channels are recycled.  Safety and progress.
SPECIFICATION FairSpec
CONSTANTS
  PoolSize = 1
  QueueDepth = 8
  WriteCap = 2
  BufNum = 2
  SqPoll = FALSE
  Rearm = TRUE
  Greets = FALSE
  Closes = FALSE
  Careless = FALSE
  MaxConn = 2
  MaxData = 2
  MaxFd = 2
CHECK_DEADLOCK FALSE
INVARIANTS
  WrittenWasSubmitted
  StreamOrder
  PooledIsClean
  SqBound
  BuffersConserved
  PendingReadsExact
PROPERTIES
  SendsDrain
  ClosingEnds
  ClosingReturns
