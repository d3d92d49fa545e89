\* Hand-overs of a stream between employees, employers and delegates, the contract paused at times, two tokens and an allowlist.
CONSTANTS
  er = er
  ee = ee
  adm = adm
  tok = tok
  tok2 = tok2
  None = None
  Escrow = Escrow
  Accounts = {er, ee, adm}
  Tokens = {tok, tok2}
  MAX_RATE_PER_SECOND = 3
  MAX_STREAM_DURATION = 9
  MIN_COVER_SECONDS = 2
  BPS_DENOMINATOR = 4
  Deposits = {4}
  Rates = {2}
  StopTimes = {0, 3}
  CliffTimes = {0}
  Cooldowns = {0, 2}
  TopUps = {4}
  NewParties = {er, adm}
  Configs <- PauseConfigs
  FeeRecipients = {}
  Admins = {adm}
  AllowLists <- SomeAllowLists
  InitialBalance <- Purse
  MaxTime = 3
  MaxStreams = 1
  MaxPauseEvents = 0
SPECIFICATION Spec
PROPERTIES
  PaymentsReachParties
