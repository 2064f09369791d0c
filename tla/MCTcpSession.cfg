SPECIFICATION FairSpec
CONSTANTS
  SeqMod = 16
  Endpoint <- MCEndpoint
  Segments <- MCSegments
  MaxCaptures = 8
  MaxSessions = 2
INVARIANTS
  EventsOncePerSession
  NoSegmentLost
  InOrderDelivery
  ClosedAfterAllData
  NoHoleLeft
PROPERTIES
  DecodeTerminates
