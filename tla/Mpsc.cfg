\* Six items of three threads through a ring of two slots.
SPECIFICATION FairSpec
CONSTANTS
  Producer = {1, 2, 3}
  Capacity = 2
  MaxItems = 2
CHECK_DEADLOCK FALSE
INVARIANTS
  NoDataRace
PROPERTIES
  IsClaimQueue
  Delivered
