SPECIFICATION FairSpec
CONSTANTS
  Bytes <- MCBytes
  ByteMod = 5
  Mark = 3
  HdrLen = 1
  Size = 6
  max_len = 4
INVARIANTS
  StaysInMessage
  MatchesDefinition
PROPERTIES
  Returns
