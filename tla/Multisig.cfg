\* Two operations, three signers, the configuration replaced at any moment.
CONSTANTS
  a1 = a1
  a2 = a2
  a3 = a3
  None = None
  Accounts = {a1, a2, a3}
  MULTISIG_OP_TTL = 2
  UpgradeHashes = {v2}
  SignerLists <- Lists
  MaxOps = 2
  MaxTime = 3
SPECIFICATION Spec
INVARIANTS
  TypeOK
  ApprovalsDistinct
PROPERTIES
  PauseNeedsThreshold
  ExpiredOrExecutedIsFinal
\* With every operation executed or expired and time at its bound nothing is
\* left to do.
CHECK_DEADLOCK FALSE
