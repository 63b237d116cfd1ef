\* One operation, on operands of every pair of types.
SPECIFICATION SessionSpec
CONSTANTS
  WordSize = 65536
  MAX_FILE_NESTING = 15
  MaxInputs = 1
  Modes = {"repl"}
  Lines <- MCOperations
INVARIANT
  OperandsAreNormalized
CHECK_DEADLOCK FALSE
