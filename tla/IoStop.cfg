\* One worker in either mode on a machine with room for it.
SPECIFICATION FairSpec
CONSTANTS
  N = 1
  CpuLists <- Machines
CHECK_DEADLOCK FALSE
PROPERTIES
  StopEnds
