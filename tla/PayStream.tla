----------------------------- MODULE PayStream ------------------------------
(***************************************************************************)
(* The whole stream contract: its streams (StreamContract) beside the      *)
(* three components that write its configuration (AdminConfig, Governance, *)
(* MultisigAdmin).  They share the ledger clock, the packed configuration, *)
(* the admin, the fee recipient and the allowlist; each invocation is one  *)
(* step of one of them.                                                    *)
(***************************************************************************)
EXTENDS Naturals, Sequences, FiniteSets

CONSTANTS
    MAX_RATE_PER_SECOND, MAX_STREAM_DURATION, MIN_COVER_SECONDS, BPS_DENOMINATOR,
    Accounts, Tokens, Escrow, None, Deposits, Rates, StopTimes, CliffTimes, Cooldowns,
    TopUps, NewParties, InitialBalance, MaxTime, MaxStreams, MaxPauseEvents,
    MAX_FEE_BPS, MinDeposits, FeeRates, StreamLimits, WasmHashes, MaxNonce,
    GOV_TIMELOCK, U32, Params, NewValues, MaxProposals,
    MULTISIG_OP_TTL, UpgradeHashes, SignerLists, MaxOps

\* What the components assume of their constants, put together.
ASSUME PayStreamAssumption ==
    /\ IsFiniteSet(Accounts) /\ Accounts # {} /\ Escrow \notin Accounts /\ None \notin Accounts
    /\ MAX_RATE_PER_SECOND \in Nat \ {0} /\ MAX_STREAM_DURATION \in Nat \ {0}
    /\ MIN_COVER_SECONDS \in Nat /\ BPS_DENOMINATOR \in Nat \ {0}
    /\ Deposits \subseteq Nat /\ Rates \subseteq Nat /\ StopTimes \subseteq Nat
    /\ CliffTimes \subseteq Nat /\ Cooldowns \subseteq Nat /\ TopUps \subseteq Nat
    /\ NewParties \subseteq Accounts /\ InitialBalance \in [Accounts -> Nat]
    /\ MaxTime \in Nat /\ MaxStreams \in Nat /\ MaxPauseEvents \in Nat
    /\ MAX_FEE_BPS \in Nat /\ MaxNonce \in Nat
    /\ MinDeposits \subseteq Nat /\ FeeRates \subseteq Nat /\ StreamLimits \subseteq Nat
    /\ GOV_TIMELOCK \in Nat /\ U32 \in Nat \ {0} /\ NewValues \subseteq Nat
    /\ Params \subseteq {"MinDeposit", "MaxDuration", "FeeBps"} /\ MaxProposals \in Nat
    /\ MULTISIG_OP_TTL \in Nat /\ MaxOps \in Nat
    /\ \A l \in SignerLists : l \in Seq(Accounts)

VARIABLES
    now, cfg, admin, fee_recipient, allowed_tokens,              \* shared
    stream_count, streams, pending_employer, pause_history, employer_streams,
    employee_streams, fee_balance, balance, paid, fees_drawn,    \* StreamContract
    pending_admin, wasm,                                         \* AdminConfig
    proposal_count, proposals, voted,                            \* Governance
    multisig, pending_ops                                        \* MultisigAdmin

shared_vars == <<now, cfg, admin, fee_recipient, allowed_tokens>>
stream_vars == <<stream_count, streams, pending_employer, pause_history, employer_streams,
                 employee_streams, fee_balance, balance, paid, fees_drawn>>
admin_only_vars == <<pending_admin, wasm>>
gov_vars == <<proposal_count, proposals, voted>>
ms_vars == <<multisig, pending_ops>>
pay_vars == <<shared_vars, stream_vars, admin_only_vars, gov_vars, ms_vars>>

ConfigSpace == [min_deposit: Nat, fee_bps: Nat, max_streams: Nat,
                admin_nonce: Nat, paused: BOOLEAN]

\* The streams, under a configuration that anything may happen to.
Stream == INSTANCE StreamContract WITH
              Configs <- ConfigSpace, FeeRecipients <- Accounts,
              Admins <- Accounts, AllowLists <- SUBSET Tokens

Admin == INSTANCE AdminConfig
Gov   == INSTANCE Governance
Msig  == INSTANCE MultisigAdmin

-----------------------------------------------------------------------------
Init ==
    /\ now = 1
    /\ Admin!AdminInit
    /\ Gov!GovInit
    /\ Msig!MultisigInit
    /\ Stream!Init

StreamCall == Stream!StreamStep /\ UNCHANGED <<admin_only_vars, gov_vars, ms_vars>>

AdminCall == Admin!AdminStep /\ UNCHANGED <<now, stream_vars, gov_vars, ms_vars>>

GovCall ==
    /\ Gov!GovStep
    /\ UNCHANGED <<admin, fee_recipient, allowed_tokens, stream_vars,
                   admin_only_vars, ms_vars>>

MultisigCall ==
    /\ Msig!MultisigStep
    /\ UNCHANGED <<fee_recipient, allowed_tokens, stream_vars, admin_only_vars, gov_vars>>

LedgerClose == Stream!Tick /\ UNCHANGED <<admin_only_vars, gov_vars, ms_vars>>

Next == StreamCall \/ AdminCall \/ GovCall \/ MultisigCall \/ LedgerClose

Spec == Init /\ [][Next]_pay_vars

-----------------------------------------------------------------------------
\* The composition implements the streams under an arbitrary configuration:
\* whatever the admin, governance and the signers do, they act on streams only
\* through the configuration, and what is shown of StreamContract holds of the
\* whole contract.
StreamsImplemented == Stream!Spec

\* A pause, whoever set it and whatever other component writes the packed
\* configuration afterwards, lasts until the admin lifts it with a fresh nonce;
\* meanwhile nothing is created and nobody withdraws (unpause_contract,
\* save_config, create_stream, withdraw).
PauseHolds ==
    [][cfg.paused =>
          /\ ~cfg'.paused => cfg'.admin_nonce = cfg.admin_nonce + 1
          /\ stream_count' = stream_count
          /\ fee_balance' = fee_balance \/ fees_drawn' # fees_drawn
          /\ \A id \in 1..stream_count :
                paid'[id].employee > paid[id].employee
                    => streams'[id].status \in {"Cancelled", "Exhausted"}
                       /\ streams[id].status # streams'[id].status]_pay_vars

-----------------------------------------------------------------------------
(* What the comments say and the code does not do.                         *)

\* lib.rs: "Sensitive operations (upgrade, emergency_pause) require M-of-N admin
\* signatures before execution".  With a multisig configured, the code is only
\* replaced by a step that executes a signed operation.
UpgradeNeedsSignatures ==
    [][(multisig # None /\ wasm' # wasm) => pending_ops' # pending_ops]_pay_vars
=============================================================================
