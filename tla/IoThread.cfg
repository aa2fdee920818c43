\* Three workers, in both modes, on four machines.
SPECIFICATION FairSpec
CONSTANTS
  N = 3
  CpuLists <- Machines
CHECK_DEADLOCK FALSE
INVARIANTS
  ResourcesThere
  OwnCpus

  
