\* Administrators with up to two signed calls in flight; two proposals with three
\* voters and a value above the range of the stored field; two multisig
\* operations with three signers and the list replaced at any moment.
CONSTANTS
  None = None
  a1 = a1
  a2 = a2
  a3 = a3
  Accounts = {a1, a2}
  Tokens = {tok}
  MAX_FEE_BPS = 1
  MinDeposits = {0, 5}
  FeeRates = {1, 2}
  StreamLimits = {7}
  WasmHashes = {v1, v2}
  MaxNonce = 2
  MaxRequests = 2
  Decisions <- Passed
  GOV_TIMELOCK = 2
  U32 = 4
  Params = {"MinDeposit", "MaxDuration", "FeeBps"}
  NewValues = {6}
  MaxProposals = 2
  MULTISIG_OP_TTL = 2
  UpgradeHashes = {v2}
  SignerLists <- Lists
  MaxOps = 2
  MaxTime = 3
SPECIFICATION MCSpec
PROPERTIES
  NoLostUpdate
  AppliedOnce
  PauseNeedsThreshold
\* The contract only reacts to calls: with every operation decided and time at
\* its bound nothing is left to do.
CHECK_DEADLOCK FALSE
