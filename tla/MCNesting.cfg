\* One more file than the limit, one after the other.
SPECIFICATION SessionSpec
CONSTANTS
  WordSize = 65536
  MAX_FILE_NESTING = 15
  MaxInputs = 16
  Modes = {"files"}
  Lines <- MCBareConstants
INVARIANT
  NestingErrorMeansNesting
CHECK_DEADLOCK FALSE
