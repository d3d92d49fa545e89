\* Two proposals, three voters, a value above the range of the stored field.
CONSTANTS
  Accounts = {a1, a2, a3}
  GOV_TIMELOCK = 2
  U32 = 4
  Params = {"MinDeposit", "MaxDuration", "FeeBps"}
  NewValues = {1, 6}
  MaxProposals = 2
  MaxTime = 3
  MAX_FEE_BPS = 1
SPECIFICATION Spec
INVARIANTS
  TypeOK
  OneAccountOneVote
  ExecutedByMajority
PROPERTIES
  AppliedOnce
SYMMETRY Voters
\* The contract only reacts to calls: with every proposal decided and time at its
\* bound nothing is left to do.
CHECK_DEADLOCK FALSE
