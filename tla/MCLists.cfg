\* Each buffer across its first limits, and every command line of up to four
\* arguments of sixteen.
SPECIFICATION MCSpec
CONSTANTS
  Item = {a, b}
  NULL = NULL
  Junk = Junk
  Index <- MCIndex
  MaxItems = 9
  NUL = NUL
  x = x
  Texts <- MCTexts
  MaxStrings = 3
  MaxText = 3
  Word <- MCWord
  EMPTY = ""
  Number <- MCNumber
  OutOfRange <- MCOutOfRange
  Pieces <- MCPieces
  LeadingColon = {":f"}
  DefaultOut <- MCOut
  DefaultDump <- MCOut
  DefaultPath <- MCPath
  Argv <- MCArgv
  MaxArgs = 4
  MaxWalked = 2
INVARIANTS
  ListTypeOK
  BufferTypeOK
  ComparisonStaysInText
  EnteredStringsCompareByText
  ConfigTypeOK
  TableIsCommandLine
  RefusedMeansMisuse
PROPERTIES
  ImplementsList
  ImplementsText
  WordsAreReadBack
  WalksAreComplete
CHECK_DEADLOCK FALSE
