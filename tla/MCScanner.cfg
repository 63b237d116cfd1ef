\* Short texts over the characters of each kind of token, and up to three
\* streams opened one above the other.
SPECIFICATION MCSpec
CONSTANTS
  token_map <- TokenMap
  Words <- MCWords
  Rank <- MCRank
  Texts <- MCTexts
  MaxStreams = 3
  MaxText = 18
  Garbage = {"END_OF_INPUT", "other"}
INVARIANTS
  ScanTypeOK
  TokensCarryTheirText
  EndsOnlyForOpenString
  SearchIsRight
  OnlyTopIsRead
  BufferIsInput
PROPERTIES
  ImplementsInputStack
  GetTokReturns
CHECK_DEADLOCK FALSE
