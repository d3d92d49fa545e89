\* Events about the contract, polled twice.
CONSTANTS
  p1 = p1
  p2 = p2
  Polls = {p1, p2}
  Contents = {"contract"}
  MaxLedgers = 2
  PageSize = 2
  MaxAttempts = 2
  MaxJobs = 3
  MaxFaults = 1
SPECIFICATION Spec
INVARIANTS
  OneRowPerEvent
