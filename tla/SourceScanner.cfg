\* Two edits: three scans, the last of which may supersede two others.
SPECIFICATION FairScanSpec
CONSTANTS
  MaxEdits = 2
INVARIANTS
  UpToDate
  TokensFit
  NavigatorFollows
PROPERTIES
  ScanSettles
CHECK_DEADLOCK FALSE
