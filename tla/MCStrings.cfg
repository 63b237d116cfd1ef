\* Two strings that only blanks separate.
SPECIFICATION MCSpec
CONSTANTS
  token_map <- TokenMap
  Words <- MCWords
  Rank <- MCRank
  Texts <- MCStrings
  MaxStreams = 1
  MaxText = 18
  Garbage = {"END_OF_INPUT", "other"}
INVARIANT
  ConsecutiveStringsAreOne
CHECK_DEADLOCK FALSE
