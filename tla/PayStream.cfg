\* One stream under all three writers of the configuration.
CONSTANTS
  er = er
  ee = ee
  tok = tok
  None = None
  Escrow = Escrow
  Accounts = {er, ee}
  Tokens = {tok}
  MAX_RATE_PER_SECOND = 2
  MAX_STREAM_DURATION = 9
  MIN_COVER_SECONDS = 2
  BPS_DENOMINATOR = 4
  Deposits = {4}
  Rates = {2}
  StopTimes = {0}
  CliffTimes = {0}
  Cooldowns = {0}
  TopUps = {}
  NewParties = {}
  InitialBalance <- Purse
  MaxTime = 2
  MaxStreams = 1
  MaxPauseEvents = 0
  MAX_FEE_BPS = 1
  MinDeposits = {}
  FeeRates = {}
  StreamLimits = {}
  WasmHashes = {v1}
  MaxNonce = 1
  GOV_TIMELOCK = 1
  U32 = 2
  Params = {"FeeBps"}
  NewValues = {3}
  MaxProposals = 1
  MULTISIG_OP_TTL = 2
  SignerLists <- Signers
  UpgradeHashes = {}
  MaxOps = 1
SPECIFICATION Spec
PROPERTIES
  StreamsImplemented
  PauseHolds
