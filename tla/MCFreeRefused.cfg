\* A character buffer whose second block is mapped.
SPECIFICATION MCSpec
CONSTANTS
  Item = {a}
  NULL = NULL
  Junk = Junk
  Index <- MCIndex
  MaxItems = 1
  NUL = NUL
  x = x
  Texts <- MCTexts
  MaxStrings = 3
  MaxText = 3
  Word <- MCWord
  EMPTY = ""
  Number <- MCNumber
  OutOfRange <- MCOutOfRange
  Pieces <- MCPieces
  LeadingColon = {":f"}
  DefaultOut <- MCOut
  DefaultDump <- MCOut
  DefaultPath <- MCPath
  Argv <- MCArgv
  MaxArgs = 0
  MaxWalked = 0
INVARIANT
  AllocatedBlocksAreFreed
CHECK_DEADLOCK FALSE
