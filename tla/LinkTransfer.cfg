\* One transfer at a time.
SPECIFICATION FairSpec
CONSTANTS
  s1 = s1
  Sender = {s1}
  Files <- MCFiles
  Models <- MCModels
  Wrap = 64
INVARIANTS
  CounterExact
  ErrorsReturn
PROPERTIES
  ImplementsTransfer
  RefusalsEnd
  EveryFileReturns
CHECK_DEADLOCK FALSE
