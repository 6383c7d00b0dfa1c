\* Two slots, and one more window than slots.
SPECIFICATION Spec
CONSTANTS
  MaxCalcs = 2
  Windows = {w1, w2, w3}
INVARIANTS
  NoSlotLost
  OneDriver
  CrashExplained
CHECK_DEADLOCK FALSE
