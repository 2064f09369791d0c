SPECIFICATION Spec
CONSTANTS
  SeqMod = 16
  Endpoint <- MCEndpoint
  Segments <- MCSegments
  MaxCaptures = 8
  MaxSessions = 1
INVARIANT
  StreamsReassemble
