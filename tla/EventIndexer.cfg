\* Two overlapping polls, two ledgers, pages of one event, two faults of any kind.
CONSTANTS
  p1 = p1
  p2 = p2
  Polls = {p1, p2}
  Contents = {"empty", "stream"}
  MaxLedgers = 2
  PageSize = 1
  MaxAttempts = 2
  MaxJobs = 3
  MaxFaults = 2
SPECIFICATION Spec
INVARIANTS
  NothingForgotten
  OneRowPerStreamEvent
PROPERTIES
  EveryEventSettles
