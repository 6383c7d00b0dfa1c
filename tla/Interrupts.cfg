SPECIFICATION FairSpec
CONSTANTS
  Masks <- MCMasks
  Periods = {4, 8}
  LongStep = 1
  Skip = 2
  Sources = {"mouse", "link"}
INVARIANTS
  CauseShown
PROPERTIES
  RequestsKept
  OnlyStandardWakes
  HaltEnds
  OnWakes
