\* Two channels that compete for four blocks of two bytes to send from, and for
\* two buffers of two bytes to receive into, with counters that wrap at four.
SPECIFICATION BuffersSpec
CONSTANTS
  Stream = {1, 2}
  BufNum = 4
  BufSize = 2
  Capacity = 2
  Sizes = {0, 3}
  MaxBytes = 6
  RingNum = 2
  RingSize = 2
  Wrap = 4
CHECK_DEADLOCK FALSE
INVARIANTS
  BlocksConserved
  QueuesBounded
  PeekExact
  BuffersConserved
PROPERTIES
  IsByteQueue
