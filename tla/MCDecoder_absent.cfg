SPECIFICATION Spec
CONSTANTS
  SizeMod = 65536
  PktLens = {290}
  HdrLens = {20}
  TotalLens = {60}
  Offsets = {20}
  AddrLens = {6}
  DataLens = {2}
  RrCounts <- MCRrCounts
  Configs <- MCConfigsOff
  MaxPkt = 1
INVARIANT
  AbsentIsNull
