CONSTANTS
  RingSize = 3
  MaxPkts = 4
  BILLION = 10
  Clocks <- MCClocks
  Timeouts <- MCTimeouts
SPECIFICATION MachineFairSpec
INVARIANTS
  ThreadsGone
  TimedJoinExact
PROPERTIES
  HaltReturns
  JoinReturns
