\* Two threads, three seconds, strings of two halves.
SPECIFICATION FairSpec
CONSTANTS
  Thread = {"t1", "t2"}
  MaxSecond = 3
INVARIANTS
  ReadsRegular
  SettledIsCurrent
PROPERTIES
  CallsReturn
