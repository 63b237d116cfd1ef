\* Every word against the table of the source.
SPECIFICATION KeywordSpec
CONSTANTS
  token_map <- TokenMap
  Words <- MCWords
INVARIANT
  EveryKeywordIsFound
CHECK_DEADLOCK FALSE
