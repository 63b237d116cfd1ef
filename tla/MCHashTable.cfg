\* Four colliding keys, and more keys than slots, in a table of up to 64 slots;
\* and walks over the keys.
SPECIFICATION MCSpec
CONSTANTS
  d1 = d1
  d2 = d2
  Key <- MCKeys
  Data <- MCData
  NULL = NULL
  Hash <- MCHash
  SizeModulus = 64
  MaxCapacity = 64
  Garbage <- MCGarbage
  Foreign <- MCForeign
  IndexBound = 1
INVARIANTS
  HashTypeOK
  ProbingEnds
  UndisturbedWalkIsComplete
PROPERTIES
  ImplementsDictionary
  InsertReturns
CHECK_DEADLOCK FALSE
