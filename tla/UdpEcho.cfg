\* A submission queue as deep as SqBound asks for (2 slots need 3 entries) and
\* one that fills up.  Answers of two, three and four blocks; the longest
\* exceeds MaxIov.
SPECIFICATION FairSpec
CONSTANTS
  BufNum = 8
  BufSize = 2
  Capacity = 4
  SlotNum = 2
  MaxIov = 3
  QueueDepths = {2, 4}
  RecvNum = 2
  Sizes = {1, 3, 5}
  Rearm = TRUE
  ByAddress = TRUE
  MaxIn = 4
CHECK_DEADLOCK FALSE
INVARIANTS
  BlocksConserved
  SlotsConserved
  WholeDatagrams
  BuffersConserved
  ReceiveArmed
  SqBound
PROPERTIES
  ResourcesReturned
