---------------------------- MODULE AdminClients ----------------------------
(***************************************************************************)
(* Administrators at work on AdminConfig.  docs/faq.md (Q16) has a client  *)
(* read admin_nonce() and sign its call with it; between the two, and      *)
(* between signing and inclusion in a ledger, other clients of the same    *)
(* admin act, the admin role moves, governance executes a proposal, and a  *)
(* client that saw no answer submits the same signed call again.           *)
(***************************************************************************)
EXTENDS AdminConfig, Sequences

CONSTANTS
    MaxRequests,   \* bound: calls ever signed
    Decisions,     \* proposals governance may pass: their parameter and new value
    U32            \* values of a u32, 2^32 in the code

ASSUME DecisionsAssumption ==
    /\ U32 \in Nat \ {0}
    /\ Decisions \subseteq [param: {"MinDeposit", "MaxDuration", "FeeBps"}, new_value: Nat]

Ops == {"pause", "unpause", "min_deposit", "fee", "limit", "upgrade"}

VARIABLE requests
\* Signed calls: who signed, with which nonce, for which operation, and, as
\* history, the settings the client saw, those governance has written since,
\* and how often the call was applied.

client_vars == <<admin_vars, requests>>

Settings == {"min_deposit", "fee_bps", "max_streams"}
Guarded(c) == [s \in Settings |-> c[s]]

Request == [caller: Accounts, nonce: Nat, op: Ops, seen: [Settings -> Nat],
            overtaken: SUBSET Settings, applied: Nat]

\* A client reads the configuration and signs a call with the nonce in it.
Sign(a, op) ==
    /\ Len(requests) < MaxRequests
    /\ requests' = Append(requests, [caller |-> a, nonce |-> cfg.admin_nonce, op |-> op,
                                     seen |-> Guarded(cfg), overtaken |-> {}, applied |-> 0])
    /\ UNCHANGED admin_vars

SignedCall(r) ==
    \/ r.op = "pause" /\ pause_contract(r.caller, r.nonce)
    \/ r.op = "unpause" /\ unpause_contract(r.caller, r.nonce)
    \/ r.op = "min_deposit" /\ \E v \in MinDeposits : set_min_deposit(r.caller, r.nonce, v)
    \/ r.op = "fee" /\ \E v \in FeeRates : set_protocol_fee(r.caller, r.nonce, v, r.caller)
    \/ r.op = "limit" /\ \E v \in StreamLimits : set_max_streams_per_employer(r.caller, r.nonce, v)
    \/ r.op = "upgrade" /\ \E v \in WasmHashes : upgrade(r.caller, v, r.nonce)

\* A signed call reaches the ledger, for the first time or again; a call the
\* contract rejects changes nothing.
Deliver(i) ==
    /\ SignedCall(requests[i])
    /\ requests' = [requests EXCEPT ![i].applied = @ + 1]

\* The setting that a passed proposal writes, and what it becomes: the value is
\* stored as it is or cut to 32 bits (apply_proposal).
Setting(d) == CASE d.param = "MinDeposit"  -> "min_deposit"
                [] d.param = "MaxDuration" -> "max_streams"
                [] d.param = "FeeBps"      -> "fee_bps"
Decided(d) == IF d.param = "MinDeposit" THEN d.new_value ELSE d.new_value % U32

\* A proposal that passed is executed.  Governance votes on a clock of its own
\* (Governance), so that for the clients it may happen at any time; it asks for
\* neither the admin nor a nonce.
execute_proposal(d) ==
    /\ cfg' = [cfg EXCEPT ![Setting(d)] = Decided(d)]
    /\ requests' = [i \in 1..Len(requests) |->
                       [requests[i] EXCEPT !.overtaken = @ \cup {Setting(d)}]]
    /\ UNCHANGED <<admin, pending_admin, fee_recipient, allowed_tokens, wasm>>

Init == AdminInit /\ requests = <<>>

Next ==
    \/ \E a \in Accounts, op \in Ops : Sign(a, op)
    \/ \E i \in 1..Len(requests) : Deliver(i)
    \/ (RoleStep \/ FreeStep) /\ UNCHANGED requests
    \/ \E d \in Decisions : execute_proposal(d)

Spec == Init /\ [][Next]_client_vars

-----------------------------------------------------------------------------
\* Type invariant of the administration state.
TypeOK ==
    /\ admin \in Accounts
    /\ pending_admin \in Accounts \cup {None}
    /\ cfg \in Config
    /\ fee_recipient \in Accounts \cup {None}
    /\ allowed_tokens \subseteq Tokens
    /\ wasm \in WasmHashes
    /\ requests \in Seq(Request)

\* A signed admin call takes effect at most once, however often it is
\* submitted, and no two calls signed with the same nonce both take effect,
\* even across a hand-over of the admin role (consume_admin_nonce).
AtMostOncePerNonce ==
    /\ \A i \in 1..Len(requests) : requests[i].applied <= 1
    /\ \A i, j \in 1..Len(requests) :
          (i # j /\ requests[i].nonce = requests[j].nonce)
              => requests[i].applied + requests[j].applied <= 1

\* Administrators never overwrite each other: when a signed call is applied,
\* every setting is the one its client read, or was written since by governance,
\* which does not consume the nonce (consume_admin_nonce, apply_proposal).
NoLostUpdate ==
    [][\A i \in 1..Len(requests) :
          requests'[i].applied > requests[i].applied =>
              \A s \in Settings \ requests[i].overtaken :
                  cfg[s] = requests[i].seen[s]]_client_vars

-----------------------------------------------------------------------------
(* What the documentation says and the code does not do.                   *)

\* docs/configuration-reference.md:32, of MinDeposit: "Only the admin can change
\* this; requires a valid nonce (replay protection)".
MinDepositNeedsNonce ==
    [][cfg'.min_deposit # cfg.min_deposit
          => cfg'.admin_nonce = cfg.admin_nonce + 1]_client_vars
=============================================================================
