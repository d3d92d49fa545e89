---------------------------- MODULE MultisigAdmin ---------------------------
(***************************************************************************)
(* The M-of-N administration of the stream contract                        *)
(* (contracts/stream/src/lib.rs, storage.rs): the admin names signers and  *)
(* a threshold, a signer proposes an operation, the others approve it, and *)
(* the approval that reaches the threshold executes it before it expires.  *)
(* The configuration may be replaced while operations are pending.         *)
(***************************************************************************)
EXTENDS Naturals, Sequences, FiniteSets, SequencesExt

CONSTANTS
    Accounts, None,
    MULTISIG_OP_TTL,   \* lib.rs: seconds a pending operation lives, 7 days
    UpgradeHashes,        \* hashes an Upgrade is proposed with
    SignerLists,       \* lists configure_multisig is called with
    MaxOps,            \* bound: operations ever proposed
    MaxTime            \* bound: last ledger timestamp

AdminOp == [kind: {"Upgrade"}, hash: UpgradeHashes] \cup [kind: {"EmergencyPause"}]

\* What is assumed of the constants.
MultisigAssumption ==
    /\ None \notin Accounts
    /\ MULTISIG_OP_TTL \in Nat /\ MaxOps \in Nat /\ MaxTime \in Nat
    /\ \A l \in SignerLists : l \in Seq(Accounts)

VARIABLES
    now,          \* ledger timestamp
    admin,        \* DataKey::Admin
    cfg,          \* DataKey::Config
    multisig,     \* DataKey::MultisigConfig, or None
    pending_ops   \* DataKey::PendingAdminOp(1), ..., DataKey::PendingAdminOp(count)

ms_vars == <<multisig, pending_ops>>

OpIds == 1..Len(pending_ops)

MultisigConfig == [admins: Seq(Accounts), threshold: Nat \ {0}]

PendingAdminOp == [op: AdminOp, approvals: Seq(Accounts), expires_at: Nat, executed: BOOLEAN]

is_signer(a) == multisig # None /\ Contains(multisig.admins, a)

-----------------------------------------------------------------------------
configure_multisig(caller, admins, threshold) ==
    /\ caller = admin
    /\ threshold > 0
    /\ threshold <= Len(admins)
    /\ multisig' = [admins |-> admins, threshold |-> threshold]
    /\ UNCHANGED <<pending_ops, cfg>>

ExpiryFrom(t) == t + MULTISIG_OP_TTL

\* The proposer's approval is recorded; the threshold is not looked at.
multisig_propose(caller, op) ==
    /\ is_signer(caller)
    /\ Len(pending_ops) < MaxOps
    /\ pending_ops' = Append(pending_ops,
          [op |-> op, approvals |-> <<caller>>, expires_at |-> ExpiryFrom(now),
           executed |-> FALSE])
    /\ UNCHANGED <<multisig, cfg>>

\* The configuration after op is executed: an upgrade is left to be carried
\* out elsewhere.
execute_op(op) ==
    IF op.kind = "EmergencyPause" THEN [cfg EXCEPT !.paused = TRUE] ELSE cfg

is_live(pending) == ~pending.executed /\ now < pending.expires_at

has_approved(pending, a) == Contains(pending.approvals, a)

\* Mutant: one approval fewer is enough.
meets_threshold_early(approvals) == Len(approvals) + 1 >= multisig.threshold

meets_threshold(approvals) == Len(approvals) >= multisig.threshold

multisig_approve(caller, id) ==
    LET pending   == pending_ops[id]
        approvals == Append(pending.approvals, caller)
        executes  == meets_threshold(approvals)
    IN  /\ is_signer(caller)
        /\ is_live(pending)
        /\ ~has_approved(pending, caller)
        /\ pending_ops' = [pending_ops EXCEPT ![id] =
              [@ EXCEPT !.approvals = approvals, !.executed = executes]]
        /\ cfg' = IF executes THEN execute_op(pending.op) ELSE cfg
        /\ UNCHANGED multisig

-----------------------------------------------------------------------------
MultisigInit ==
    /\ multisig = None
    /\ pending_ops = <<>>

MultisigStep ==
    /\ \E a \in Accounts :
          \/ \E admins \in SignerLists : \E threshold \in 1..Len(admins) :
                configure_multisig(a, admins, threshold)
          \/ \E op \in AdminOp : multisig_propose(a, op)
          \/ \E id \in OpIds : multisig_approve(a, id)
    /\ UNCHANGED <<now, admin>>

Tick ==
    /\ now < MaxTime
    /\ now' = now + 1
    /\ UNCHANGED <<admin, cfg, ms_vars>>

Init ==
    /\ now = 0
    /\ admin \in Accounts
    /\ cfg = [min_deposit |-> 0, fee_bps |-> 0, max_streams |-> 100,
              admin_nonce |-> 0, paused |-> FALSE]
    /\ MultisigInit

Next == MultisigStep \/ Tick

vars == <<now, admin, cfg, ms_vars>>

Spec == Init /\ [][Next]_vars

-----------------------------------------------------------------------------
\* Type invariant of the multisig storage.
TypeOK ==
    /\ now \in Nat
    /\ admin \in Accounts
    /\ multisig \in MultisigConfig \cup {None}
    /\ pending_ops \in Seq(PendingAdminOp)

\* Nobody's approval counts twice, whatever the lists and the reconfigurations:
\* the length of approvals, which is what the threshold is compared with, is
\* the number of accounts that approved (multisig_propose, multisig_approve).
ApprovalsDistinct ==
    \A id \in OpIds :
        Cardinality(ToSet(pending_ops[id].approvals)) = Len(pending_ops[id].approvals)

\* The contract is only paused by this component through an emergency pause
\* that as many different accounts approved as the configuration in force at
\* that moment asks for, the last of them one of its signers.
PauseNeedsThreshold ==
    [][cfg' # cfg =>
          \E id \in OpIds :
              LET op == pending_ops'[id]
              IN  /\ ~pending_ops[id].executed /\ op.executed
                  /\ op.op.kind = "EmergencyPause"
                  /\ Cardinality(ToSet(op.approvals)) >= multisig.threshold
                  /\ is_signer(Last(op.approvals))]_vars

\* An operation is executed before it expires or never, and at most once: once
\* executed or expired it does not change any more, under any later list or
\* threshold.
ExpiredOrExecutedIsFinal ==
    [][\A id \in OpIds :
          (pending_ops[id].executed \/ now >= pending_ops[id].expires_at)
              => pending_ops'[id] = pending_ops[id]]_vars

-----------------------------------------------------------------------------
(* What the comments say and the code does not do.                         *)

\* lib.rs: "Each admin calls multisig_approve(op_id) -- auto-executes at
\* threshold".  A live operation that has as many approvals as the threshold
\* asks for has been executed.
ExecutesAtThreshold ==
    \A id \in OpIds :
        (Len(pending_ops[id].approvals) >= multisig.threshold
            /\ now < pending_ops[id].expires_at)
        => pending_ops[id].executed

\* lib.rs: "Sensitive operations (upgrade, emergency_pause) require M-of-N
\* admin signatures before execution".  An operation is executed when M of the
\* N admins in force have signed it.
SignedByPresentAdmins ==
    [][\A id \in OpIds :
          (~pending_ops[id].executed /\ pending_ops'[id].executed) =>
              Cardinality({a \in ToSet(pending_ops'[id].approvals) : is_signer(a)})
                  >= multisig.threshold]_vars
=============================================================================
