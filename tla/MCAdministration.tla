-------------------------- MODULE MCAdministration --------------------------
(***************************************************************************)
(* The three writers of the contract's configuration for TLC, each on      *)
(* storage of its own: administrators with signed calls in flight, the     *)
(* governance, and the multisig.  focus, chosen in the initial state, says *)
(* which of them acts in a behaviour.  (PayStream composes the three on    *)
(* one configuration.)                                                     *)
(***************************************************************************)
EXTENDS AdminClients, TLC

CONSTANTS
    a1, a2, a3,
    GOV_TIMELOCK, Params, NewValues, MaxProposals,
    MULTISIG_OP_TTL, UpgradeHashes, SignerLists, MaxOps, MaxTime

VARIABLES
    focus, now,
    gov_cfg, proposal_count, proposals, voted,
    ms_admin, ms_cfg, multisig, pending_ops

Everybody == {a1, a2, a3}

Gov  == INSTANCE Governance WITH Accounts <- Everybody, cfg <- gov_cfg
Msig == INSTANCE MultisigAdmin WITH Accounts <- Everybody, admin <- ms_admin, cfg <- ms_cfg

ASSUME Gov!GovernanceAssumption
ASSUME Msig!MultisigAssumption

\* A proposal for each of two parameters, one value above the range of a u32.
Passed == {[param |-> "MinDeposit", new_value |-> 6], [param |-> "FeeBps", new_value |-> 6]}

\* Three signers, or a list that names one of two twice.
Lists == {<<a1, a2, a3>>, <<a2, a2, a3>>}

gov_only == <<gov_cfg, proposal_count, proposals, voted>>
msig_only == <<ms_admin, ms_cfg, multisig, pending_ops>>
all_vars == <<client_vars, focus, now, gov_only, msig_only>>

MCInit ==
    /\ focus \in {"clients", "governance", "multisig"}
    /\ Init
    /\ Gov!Init
    /\ Msig!Init
    /\ focus # "clients" => admin = a1
    /\ focus # "multisig" => ms_admin = a1

MCNext ==
    \/ focus = "clients" /\ Next /\ UNCHANGED <<focus, now, gov_only, msig_only>>
    \/ focus = "governance" /\ Gov!Next /\ UNCHANGED <<focus, client_vars, msig_only>>
    \/ focus = "multisig" /\ Msig!Next /\ UNCHANGED <<focus, client_vars, gov_only>>

MCSpec == MCInit /\ [][MCNext]_all_vars

-----------------------------------------------------------------------------
\* A parameter changes only by the execution of a proposal that passed earlier,
\* and that proposal is never executed again (execute_proposal).
AppliedOnce == Gov!AppliedOnce

\* The multisig pauses the contract only with as many different approvals as
\* the configuration in force asks for (multisig_approve).
PauseNeedsThreshold == Msig!PauseNeedsThreshold
=============================================================================
