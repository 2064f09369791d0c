CONSTANTS
  Producers = {p1, p2}
  MaxMsgs = 3
SPECIFICATION FairSpec
INVARIANTS
  PullNeverThrows
  FlagExact
  ExactlyOnceInOrder
PROPERTIES
  EachMsgPulled
