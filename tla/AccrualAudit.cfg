\* One stream with cliff and stop, two pauses, rate changes and top-ups.
CONSTANTS
  er = er
  ee = ee
  tok = tok
  None = None
  Escrow = Escrow
  Accounts = {er, ee}
  Tokens = {tok}
  MAX_RATE_PER_SECOND = 2
  MAX_STREAM_DURATION = 9
  MIN_COVER_SECONDS = 2
  BPS_DENOMINATOR = 4
  Deposits = {6}
  Rates = {1, 2}
  StopTimes = {0, 5}
  CliffTimes = {0, 4}
  Cooldowns = {0}
  TopUps = {2}
  NewParties = {}
  Configs <- NoFee
  FeeRecipients = {}
  Admins = {er}
  AllowLists <- NoAllowList
  InitialBalance <- Purse
  MaxTime = 6
  MaxStreams = 1
  PeriodLength = 2
  MaxPauseEvents = 3
SPECIFICATION AuditSpec
INVARIANTS
  TypeOK
  ClaimsCovered
  ClocksOrdered
  CancelSettles
  NeverAheadOfMeter
  NothingEarnedIsLost
  ReportWithinEarned
  PayrollAddsUp
PROPERTIES
  TerminalIsFinal
  OnlyTimeEarns
