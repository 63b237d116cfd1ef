\* Single lines, every sequence of up to five tokens among them, and three
\* inputs one after the other, with a code word of 18 values.
SPECIFICATION MCSpec
CONSTANTS
  WordSize = 18
  MAX_FILE_NESTING = 2
  MaxInputs = 3
  Modes = {"repl", "files"}
  Lines <- MCAnyLines
INVARIANTS
  TypeOK
  AcceptedCodeYieldsOneValue
  AcceptedDrainsInput
  CompilesToReference
PROPERTIES
  OperatorsFindOperands
  CompileReturns
CHECK_DEADLOCK FALSE
