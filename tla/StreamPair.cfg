\* Two streams on one escrow, created singly or as a batch, with fees.
CONSTANTS
  er = er
  ee = ee
  adm = adm
  tok = tok
  tok2 = tok2
  None = None
  Escrow = Escrow
  Accounts = {er, ee, adm}
  Tokens = {tok}
  MAX_RATE_PER_SECOND = 3
  MAX_STREAM_DURATION = 9
  MIN_COVER_SECONDS = 2
  BPS_DENOMINATOR = 4
  Deposits = {4}
  Rates = {2}
  StopTimes = {0}
  CliffTimes = {0}
  Cooldowns = {0}
  TopUps = {}
  NewParties = {}
  Configs <- OneFee
  FeeRecipients = {adm}
  Admins = {adm}
  AllowLists <- NoAllowList
  InitialBalance <- Purse
  MaxTime = 3
  MaxStreams = 2
  MaxPauseEvents = 1
SPECIFICATION Spec
INVARIANTS
  NoOverpayment
  EscrowConserved
  SolventBeforeDraws
  FeeLedgerExact
  EmployerIndexExact
