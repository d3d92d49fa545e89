\* Two accounts, up to three signed calls in flight.
CONSTANTS
  None = None
  Accounts = {a1, a2}
  Tokens = {tok}
  MAX_FEE_BPS = 1
  MinDeposits = {0, 5}
  FeeRates = {1, 2}
  StreamLimits = {7}
  WasmHashes = {v1, v2}
  MaxNonce = 2
  MaxRequests = 2
  Decisions <- Passed
  U32 = 4
SPECIFICATION Spec
INVARIANTS
  TypeOK
  AtMostOncePerNonce
PROPERTIES
  NoLostUpdate
