\* A worker and the main thread; buffers of two lines, a queue of one place
\* (which fills up) or two (ready in any order), a midnight, failing opens and
\* writes.
SPECIFICATION FairSpec
CONSTANTS
  Thread = {"main", "worker"}
  Main = "main"
  BufferSize = 2
  Capacities = {1, 2}
  Faults = {"open", "write"}
  MaxLines <- Lines
  MaxDay = 2
CHECK_DEADLOCK FALSE
INVARIANTS
  InFlightExact
  RingFits
  LogOrder
  LinesConserved
PROPERTIES
  FlushEnds
