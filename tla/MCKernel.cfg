CONSTANTS
  Events = {e1, e2}
  MaxHandlers = 2
  MaxPkts = 2
  MaxEvents = 2
  MaxMsgs = 2
SPECIFICATION Spec
INVARIANTS
  OneHome
  NoDuplicates
  RequestsApplied
PROPERTIES
  NotCalledAfterDestroy
