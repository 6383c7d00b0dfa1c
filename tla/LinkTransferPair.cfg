\* Two windows with a transfer each.
SPECIFICATION Spec
CONSTANTS
  s1 = s1
  s2 = s2
  Sender = {s1, s2}
  Files <- MCVariable
  Models <- MCModel
  Wrap = 64
INVARIANTS
  ErrorsReturn
CHECK_DEADLOCK FALSE
