\* Three inputs from the prompt or the command line, and lines of one operation
\* on operands of every pair of types.
SPECIFICATION MCSpec
CONSTANTS
  WordSize = 65536
  MAX_FILE_NESTING = 15
  MaxInputs = 3
  Modes = {"repl", "files"}
  Lines <- MCAnyLines
INVARIANTS
  SessionTypeOK
  UnderflowOnlyAfterSyntaxError
  AnswerIsWholeStack
  RunStartsAtNewCode
  RunUsesLiveValues
  OnlyBareConstantsAreShared
  ObjectOperationsGetObjects
  LeftOperandIsNormalized
PROPERTIES
  EveryInputIsAnswered
CHECK_DEADLOCK FALSE
