CONSTANTS
  RingSize = 2
  MaxPkts = 1
  BILLION = 10
  Clocks <- MCClocks
  Timeouts <- MCTimeouts
SPECIFICATION MachineFairSpec
INVARIANT AssertionHolds
