\* A single number, then the end of the session.
SPECIFICATION SessionSpec
CONSTANTS
  WordSize = 65536
  MAX_FILE_NESTING = 15
  MaxInputs = 1
  Modes = {"repl"}
  Lines <- MCBareConstants
INVARIANT
  NoDoubleFree
CHECK_DEADLOCK FALSE
