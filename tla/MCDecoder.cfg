SPECIFICATION FairSpec
CONSTANTS
  SizeMod = 65536
  PktLens = {13, 21, 40, 290}
  HdrLens = {16, 56}
  TotalLens = {47, 274}
  Offsets = {16, 24}
  AddrLens = {6, 255}
  DataLens = {2}
  RrCounts <- MCRrCounts
  Configs <- MCConfigs
  MaxPkt = 2
INVARIANTS
  DecoderTypeOK
  ValuesInPacket
  NothingStale
  EventsFollowStack
  OwnReadsDefined
  KeyIsOfThisPacket
  SectionsFiled
PROPERTIES
  ValuesKept
  DecodeEnds
