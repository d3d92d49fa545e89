\* One stream that is queried after its stop time.
CONSTANTS
  er = er
  ee = ee
  adm = adm
  tok = tok
  tok2 = tok2
  None = None
  Escrow = Escrow
  Accounts = {er, ee, adm}
  Tokens = {tok}
  MAX_RATE_PER_SECOND = 3
  MAX_STREAM_DURATION = 9
  MIN_COVER_SECONDS = 2
  BPS_DENOMINATOR = 4
  Deposits = {6}
  Rates = {1, 3}
  StopTimes = {0, 4}
  CliffTimes = {0}
  Cooldowns = {0}
  TopUps = {2}
  NewParties = {}
  Configs <- FeeConfigs
  FeeRecipients = {adm}
  Admins = {adm}
  AllowLists <- NoAllowList
  InitialBalance <- Purse
  MaxTime = 5
  MaxStreams = 1
  MaxPauseEvents = 1
SPECIFICATION Spec
INVARIANTS
  ExhaustedCanCollect
