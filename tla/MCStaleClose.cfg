\* Files after one with a syntax error.
SPECIFICATION SessionSpec
CONSTANTS
  WordSize = 65536
  MAX_FILE_NESTING = 15
  MaxInputs = 3
  Modes = {"files"}
  Lines <- MCLines
INVARIANT
  OnlyEndedStreamsAreClosed
CHECK_DEADLOCK FALSE
