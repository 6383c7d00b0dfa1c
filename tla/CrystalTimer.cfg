\* A step of the processor has room for more than a whole round.
SPECIFICATION FairTimerSpec
CONSTANTS
  Size = 6
  Burst = 7
  MaxWrites = 4
INVARIANTS
  NoDrift
PROPERTIES
  StopsPastMax
  EveryTimerExpires
  ImplementsFlags
