\* A submission queue of two entries on a ring whose kernel thread takes
\* submissions at any time, and an application that speaks first, closes
\* connections and submits late.
SPECIFICATION Spec
CONSTANTS
  PoolSize = 1
  QueueDepth = 2
  WriteCap = 2
  BufNum = 2
  SqPoll = TRUE
  Rearm = TRUE
  Greets = TRUE
  Closes = TRUE
  Careless = TRUE
  MaxConn = 2
  MaxData = 1
  MaxFd = 1
CHECK_DEADLOCK FALSE
INVARIANTS
  PoolSound
  NoLostWakeup
  OneWrite
  ClosingWriterHasWaker
PROPERTIES
  OnlyDriftReturnsEarly
