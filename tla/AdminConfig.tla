---------------------------- MODULE AdminConfig -----------------------------
(***************************************************************************)
(* The contract's administration (contracts/stream/src/lib.rs, storage.rs, *)
(* access_control.rs): the admin role with its two-step hand-over, the     *)
(* packed configuration guarded by a nonce, the fee recipient, the token   *)
(* allowlist and the code hash.                                            *)
(***************************************************************************)
EXTENDS Naturals

CONSTANTS
    Accounts, Tokens, None,
    MAX_FEE_BPS,              \* lib.rs: largest fee set_protocol_fee accepts, 100
    MinDeposits, FeeRates, StreamLimits, WasmHashes,  \* arguments of the setters
    MaxNonce                  \* bound: nonces consumed

ASSUME AdminAssumption ==
    /\ None \notin Accounts
    /\ MAX_FEE_BPS \in Nat /\ MaxNonce \in Nat
    /\ MinDeposits \subseteq Nat /\ FeeRates \subseteq Nat /\ StreamLimits \subseteq Nat

VARIABLES
    admin,           \* DataKey::Admin
    pending_admin,   \* DataKey::PendingAdmin
    cfg,             \* DataKey::Config
    fee_recipient,   \* DataKey::FeeRecipient
    allowed_tokens,  \* DataKey::AllowedTokens
    wasm             \* the contract's current code

admin_vars == <<admin, pending_admin, cfg, fee_recipient, allowed_tokens, wasm>>

Config == [min_deposit: Nat, fee_bps: Nat, max_streams: Nat,
           admin_nonce: Nat, paused: BOOLEAN]

\* ContractConfig::default
DefaultConfig == [min_deposit |-> 0, fee_bps |-> 0, max_streams |-> 100,
                  admin_nonce |-> 0, paused |-> FALSE]

-----------------------------------------------------------------------------
initialize(caller) ==
    /\ admin' = caller
    /\ UNCHANGED <<pending_admin, cfg, fee_recipient, allowed_tokens, wasm>>

propose_admin(caller, new_admin) ==
    /\ caller = admin
    /\ pending_admin' = new_admin
    /\ UNCHANGED <<admin, cfg, fee_recipient, allowed_tokens, wasm>>

\* Mutant: anybody completes a hand-over, even one nobody proposed.
accept_admin_unasked(caller) ==
    /\ admin' = pending_admin
    /\ pending_admin' = None
    /\ UNCHANGED <<cfg, fee_recipient, allowed_tokens, wasm>>

accept_admin(caller) ==
    /\ caller = pending_admin
    /\ admin' = caller
    /\ pending_admin' = None
    /\ UNCHANGED <<cfg, fee_recipient, allowed_tokens, wasm>>

\* Mutant: the nonce is not compared.
Authorised_anyNonce(caller, nonce) == caller = admin /\ cfg.admin_nonce < MaxNonce

\* require_admin followed by consume_admin_nonce: the caller's nonce must be
\* the stored one, which the call increments together with its own write.
Authorised(caller, nonce) ==
    /\ caller = admin
    /\ nonce = cfg.admin_nonce
    /\ nonce < MaxNonce

Consumed(c) == [c EXCEPT !.admin_nonce = @ + 1]

pause_contract(caller, nonce) ==
    /\ Authorised(caller, nonce)
    /\ cfg' = [Consumed(cfg) EXCEPT !.paused = TRUE]
    /\ UNCHANGED <<admin, pending_admin, fee_recipient, allowed_tokens, wasm>>

\* Mutant: unpausing asks for no nonce.
unpause_contract_free(caller, nonce) ==
    /\ caller = admin
    /\ cfg' = [cfg EXCEPT !.paused = FALSE]
    /\ UNCHANGED <<admin, pending_admin, fee_recipient, allowed_tokens, wasm>>

unpause_contract(caller, nonce) ==
    /\ Authorised(caller, nonce)
    /\ cfg' = [Consumed(cfg) EXCEPT !.paused = FALSE]
    /\ UNCHANGED <<admin, pending_admin, fee_recipient, allowed_tokens, wasm>>

emergency_pause(caller) ==
    /\ caller = admin
    /\ cfg' = [cfg EXCEPT !.paused = TRUE]
    /\ UNCHANGED <<admin, pending_admin, fee_recipient, allowed_tokens, wasm>>

set_min_deposit(caller, nonce, amount) ==
    /\ Authorised(caller, nonce)
    /\ amount > 0
    /\ cfg' = [Consumed(cfg) EXCEPT !.min_deposit = amount]
    /\ UNCHANGED <<admin, pending_admin, fee_recipient, allowed_tokens, wasm>>

set_protocol_fee(caller, nonce, fee_bps, recipient) ==
    /\ Authorised(caller, nonce)
    /\ fee_bps <= MAX_FEE_BPS
    /\ cfg' = [Consumed(cfg) EXCEPT !.fee_bps = fee_bps]
    /\ fee_recipient' = recipient
    /\ UNCHANGED <<admin, pending_admin, allowed_tokens, wasm>>

set_max_streams_per_employer(caller, nonce, limit) ==
    /\ Authorised(caller, nonce)
    /\ cfg' = [Consumed(cfg) EXCEPT !.max_streams = limit]
    /\ UNCHANGED <<admin, pending_admin, fee_recipient, allowed_tokens, wasm>>

upgrade(caller, hash, nonce) ==
    /\ Authorised(caller, nonce)
    /\ cfg' = Consumed(cfg)
    /\ wasm' = hash
    /\ UNCHANGED <<admin, pending_admin, fee_recipient, allowed_tokens>>

add_allowed_token(caller, token) ==
    /\ caller = admin
    /\ allowed_tokens' = allowed_tokens \cup {token}
    /\ UNCHANGED <<admin, pending_admin, cfg, fee_recipient, wasm>>

remove_allowed_token(caller, token) ==
    /\ caller = admin
    /\ allowed_tokens' = allowed_tokens \ {token}
    /\ UNCHANGED <<admin, pending_admin, cfg, fee_recipient, wasm>>

-----------------------------------------------------------------------------
AdminInit ==
    /\ admin \in Accounts
    /\ pending_admin = None
    /\ cfg = DefaultConfig
    /\ fee_recipient = None
    /\ allowed_tokens = {}
    /\ wasm \in WasmHashes

RoleStep ==
    \E a \in Accounts :
        \/ initialize(a)
        \/ \E new \in Accounts : propose_admin(a, new)
        \/ accept_admin(a)

\* The writes that take a nonce.
NonceStep(a, nonce) ==
    \/ pause_contract(a, nonce)
    \/ unpause_contract(a, nonce)
    \/ \E amount \in MinDeposits : set_min_deposit(a, nonce, amount)
    \/ \E bps \in FeeRates, r \in Accounts : set_protocol_fee(a, nonce, bps, r)
    \/ \E limit \in StreamLimits : set_max_streams_per_employer(a, nonce, limit)
    \/ \E hash \in WasmHashes : upgrade(a, hash, nonce)

FreeStep ==
    \E a \in Accounts :
        \/ emergency_pause(a)
        \/ \E t \in Tokens : add_allowed_token(a, t) \/ remove_allowed_token(a, t)

AdminStep ==
    \/ RoleStep
    \/ \E a \in Accounts : NonceStep(a, cfg.admin_nonce)
    \/ FreeStep
=============================================================================
