CONSTANTS
  RingSize = 3
  MaxPkts = 2
SPECIFICATION Spec
INVARIANT NoPacketLost
