\* Each program writes some time after the status it last read said ready.
SPECIFICATION FairSpec
CONSTANTS
  c1 = c1
  c2 = c2
  Calc <- MCCalc
  Peer <- MCPeer
  Width = 2
  MaxBytes <- MCMaxBytes
CONSTRAINT
  SmallDisturbance
INVARIANTS
  PortsAgree
  NothingLost
PROPERTIES
  ImplementsChannel
  NoOverrun
  EveryByteArrives
