CONSTANTS
  None = None
  t1 = t1
  t2 = t2
  Tabs = {t1, t2}
  Identifiers = {1}
  getIdentifier <- OneAddress
  MAX_ATTEMPTS = 3
  DEFAULT_ATTEMPTS = 2
  LOCKOUT = 1
  DEFAULT_LOCKOUT = 1
  NONCE_TTL = 1
  MaxNonces = 2
  MaxClock = 2
  Unset = Unset
  a1 = a1
  Owners = {a1}
  RateLimits <- Limits
  MaxKeys = 2
  MaxCount = 3
  KeyClock = 4
  NoRequest = NoRequest
  People = {t1, t2}
  Requirements = {0, 1, 2}
  MaxTrail = 4
  FlowClock = 1
  NoJob = NoJob
  j1 = j1
  j2 = j2
  QueueJobs = {j1, j2}
  Attempts = {0, 1, 2}
  Concurrency = 2
  MaxStalled = 1
  MaxDeaths = 2
  Versions = {1, 2, 3}
  NoDown = {1}
  MaxCalls = 3
  c1 = c1
  c2 = c2
  Callers = {c1, c2}
  intervalSecs = 1
  retentionLimit = 2
  MaxOps = 4
  SnapTimes = {0, 1}
SPECIFICATION MCSpec
INVARIANTS
  OneTokenPerChallenge
  GuessesLimited
  KeyLimitHolds
  StatusMatchesTrail
  FailedReachesDlq
  RollbackOnlyApplied
  RetentionHolds
CHECK_DEADLOCK FALSE
