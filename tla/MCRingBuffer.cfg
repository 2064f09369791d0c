CONSTANTS
  RingSize = 3
  MaxPkts = 7
SPECIFICATION FairSpec
INVARIANTS
  TypeOK
  NoSlotRace
  PacketIntact
  BacklogIsDistance
  NoAliasing
PROPERTIES
  OwnedIsStable
  CloseEndsKernel
  RetainReturns
  DrainedOutsideWindow
  ImplementsFifo
