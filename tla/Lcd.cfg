\* The real size of the display, and programs of up to MaxSteps steps.
SPECIFICATION LcdSpec
CONSTANTS
  MaxSteps = 7
  Rows <- MCRows
  Columns <- MCColumns
  Values <- MCValues
INVARIANTS
  WordsKept
  Inside
CHECK_DEADLOCK FALSE
