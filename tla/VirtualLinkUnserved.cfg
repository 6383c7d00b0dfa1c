\* A program that serves its port late, never or out of turn, and files that
\* fail.
SPECIFICATION FairSpec
CONSTANTS
  Width = 2
  SkipFactor = 3
  StepLens <- MCStepLens
  DelayLens <- MCDelayLens
  Patience = 1
  Slow = 0
  Attentive = FALSE
  MaxPacket = 2
  MaxSent = 2
CONSTRAINT
  SmallDisturbance
INVARIANTS
  SentMeansReceived
PROPERTIES
  AlwaysReturns
