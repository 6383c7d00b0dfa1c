SPECIFICATION Spec
CONSTANTS
  Width = 2
  SkipFactor = 3
  StepLens <- MCStepLens
  DelayLens <- MCDelayLens
  Patience = 22
  Slow = 2
  Attentive = TRUE
  MaxPacket = 2
  MaxSent = 2
INVARIANTS
  NoTimeOut
PROPERTIES
  ImplementsChannel
