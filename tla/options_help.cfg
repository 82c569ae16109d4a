SPECIFICATION ParseSpec
CONSTANTS
  MaxArgs = 2
  Detected = 0
INVARIANTS
  HelpIsNeverAnError
CHECK_DEADLOCK FALSE
