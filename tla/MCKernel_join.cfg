CONSTANTS
  Events = {e1}
  MaxHandlers = 1
  MaxPkts = 2
  MaxEvents = 1
  MaxMsgs = 2
SPECIFICATION Spec
INVARIANT InactiveAfterJoin
