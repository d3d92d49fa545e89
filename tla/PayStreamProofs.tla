-------------------------- MODULE PayStreamProofs ---------------------------
(***************************************************************************)
(* Proofs about the whole contract: it implements the streams of           *)
(* StreamContract, so that what is proved of them holds of it; a pause     *)
(* holds against all writers of the configuration; and the decisions of    *)
(* governance and of the multisig are backed by the votes and the          *)
(* approvals they need.                                                    *)
(***************************************************************************)
EXTENDS PayStream, FiniteSetTheorems, SequenceTheorems, TLAPS

\* StreamContract once more, together with its theorems.  The whole contract has no
\* meter, and nothing that is used here is about it.
Proved == INSTANCE StreamMoneyProofs WITH
              Configs <- ConfigSpace, FeeRecipients <- Accounts,
              Admins <- Accounts, AllowLists <- SUBSET Tokens,
              PeriodLength <- 1, metered <- <<>>, rerated <- {}

\* What the streams read of the configuration, and who may write it.
SettingsOK ==
    /\ cfg \in ConfigSpace
    /\ fee_recipient \in Accounts \cup {None}
    /\ admin \in Accounts
    /\ pending_admin \in Accounts \cup {None}
    /\ allowed_tokens \in SUBSET Tokens

\* One proposal p with the set v of its voters at time t.
SoundProposal(p, v, t) ==
    /\ p \in Gov!Proposal
    /\ v \in SUBSET Accounts
    /\ p.votes_for + p.votes_against = Cardinality(v)
    /\ p.status \in {"Passed", "Executed"} => p.votes_for > p.votes_against
    /\ p.status = "Executed" => t >= p.executable_after
    /\ p.status = "Rejected" => p.votes_for <= p.votes_against

VotesOK ==
    /\ now \in Nat
    /\ proposal_count \in Nat
    /\ proposals = [i \in Gov!ProposalIds |-> proposals[i]]
    /\ voted = [i \in Gov!ProposalIds |-> voted[i]]
    /\ \A i \in Gov!ProposalIds : SoundProposal(proposals[i], voted[i], now)

\* One pending operation: its approvals are by different accounts.
SoundOp(o) ==
    /\ o \in Msig!PendingAdminOp
    /\ Cardinality(Msig!ToSet(o.approvals)) = Len(o.approvals)

ApprovalsOK ==
    /\ multisig \in Msig!MultisigConfig \cup {None}
    /\ pending_ops \in Seq(Msig!PendingAdminOp)
    /\ \A i \in 1..Len(pending_ops) : SoundOp(pending_ops[i])

PayInv == SettingsOK /\ VotesOK /\ ApprovalsOK

-----------------------------------------------------------------------------
(* The streams of the composition are the streams of StreamContract.       *)

\* The constants of the composition are constants the streams may have.
LEMMA StreamConstants ==
    /\ Proved!AccrualAssumption /\ Proved!ContractAssumption
    /\ Proved!AccountsAssumption /\ Proved!AuditAssumption
<1>1. Proved!AccrualAssumption
  BY PayStreamAssumption DEF Proved!AccrualAssumption
<1>2. Proved!ContractAssumption
  BY PayStreamAssumption DEF ConfigSpace, Proved!Config, Proved!ContractAssumption
<1>3. Proved!AccountsAssumption
  BY PayStreamAssumption DEF Proved!AccountsAssumption, Proved!IsFiniteSet, IsFiniteSet
<1>4. Proved!AuditAssumption
  BY DEF Proved!AuditAssumption
<1> QED
  BY <1>1, <1>2, <1>3, <1>4

\* Creations.
LEMMA SameCreate == Stream!CreateStep <=> Proved!CreateStep
  BY DEF Stream!CreateStep, Stream!StreamParams, Stream!create_stream,
         Stream!create_streams_batch, Stream!validate_create_stream, Stream!is_token_allowed,
         Stream!CanDeposit, Stream!Deposited, Stream!DepositFee, Stream!ChargesDepositFee,
         Stream!FeeOn, Stream!CanTransfer, Stream!Transfer, Stream!AddStreams,
         Stream!Extended, Stream!NewStream, Stream!NoPayouts, Stream!Indexed,
         Stream!config_vars,
         Proved!CreateStep, Proved!StreamParams, Proved!create_stream,
         Proved!create_streams_batch, Proved!validate_create_stream, Proved!is_token_allowed,
         Proved!CanDeposit, Proved!Deposited, Proved!DepositFee, Proved!ChargesDepositFee,
         Proved!FeeOn, Proved!CanTransfer, Proved!Transfer, Proved!AddStreams,
         Proved!Extended, Proved!NewStream, Proved!NoPayouts, Proved!Indexed,
         Proved!config_vars

\* Withdrawals of employees and of the admin.
LEMMA SamePayment == Stream!PaymentStep <=> Proved!PaymentStep
  BY DEF Stream!PaymentStep, Stream!Ids, Stream!withdraw, Stream!withdraw_protocol_fees,
         Stream!claimable_amount, Stream!BeforeCliff, Stream!Elapsed, Stream!EffectiveEnd,
         Stream!Remaining, Stream!Least, Stream!Monus, Stream!FeeOn, Stream!is_terminal,
         Stream!CooldownOver, Stream!CanPay, Stream!Pay, Stream!CanTransfer, Stream!Transfer,
         Stream!add_fee_balance, Stream!index_vars, Stream!config_vars,
         Proved!PaymentStep, Proved!Ids, Proved!withdraw, Proved!withdraw_protocol_fees,
         Proved!claimable_amount, Proved!BeforeCliff, Proved!Elapsed, Proved!EffectiveEnd,
         Proved!Remaining, Proved!Least, Proved!Monus, Proved!FeeOn, Proved!is_terminal,
         Proved!CooldownOver, Proved!CanPay, Proved!Pay, Proved!CanTransfer, Proved!Transfer,
         Proved!add_fee_balance, Proved!index_vars, Proved!config_vars

\* Calls that manage one stream, change its rate, or look at it.
LEMMA SameManage ==
    /\ Stream!ManageStep <=> Proved!ManageStep
    /\ Stream!RateStep <=> Proved!RateStep
    /\ Stream!QueryStep <=> Proved!QueryStep
  BY DEF Stream!ManageStep, Stream!RateStep, Stream!QueryStep, Stream!Ids, Stream!top_up,
         Stream!pause_stream, Stream!resume_stream, Stream!cancel_stream,
         Stream!reclaim_expired, Stream!update_rate, Stream!get_stream, Stream!Settle,
         Stream!Unearned, Stream!PausedFor, Stream!add_pause_event, Stream!SetStream,
         Stream!may_manage, Stream!require_employer, Stream!claimable_amount,
         Stream!BeforeCliff, Stream!Elapsed, Stream!EffectiveEnd, Stream!Remaining,
         Stream!Least, Stream!Monus, Stream!is_terminal, Stream!CanPay, Stream!Pay,
         Stream!CanTransfer, Stream!Transfer, Stream!index_vars, Stream!config_vars,
         Proved!ManageStep, Proved!RateStep, Proved!QueryStep, Proved!Ids, Proved!top_up,
         Proved!pause_stream, Proved!resume_stream, Proved!cancel_stream,
         Proved!reclaim_expired, Proved!update_rate, Proved!get_stream, Proved!Settle,
         Proved!Unearned, Proved!PausedFor, Proved!add_pause_event, Proved!SetStream,
         Proved!may_manage, Proved!require_employer, Proved!claimable_amount,
         Proved!BeforeCliff, Proved!Elapsed, Proved!EffectiveEnd, Proved!Remaining,
         Proved!Least, Proved!Monus, Proved!is_terminal, Proved!CanPay, Proved!Pay,
         Proved!CanTransfer, Proved!Transfer, Proved!index_vars, Proved!config_vars

\* Calls that change who plays a role, and the rest of the world.
LEMMA SameRest ==
    /\ Stream!RoleStep <=> Proved!RoleStep
    /\ Stream!Tick <=> Proved!Tick
    /\ Stream!ConfigStep <=> Proved!ConfigStep
    /\ Stream!Init <=> Proved!Init
    /\ Stream!vars = Proved!vars
  BY DEF Stream!RoleStep, Stream!Tick, Stream!ConfigStep, Stream!Init, Stream!Ids,
         Stream!transfer_stream, Stream!set_delegate, Stream!propose_employer_transfer,
         Stream!accept_employer_transfer, Stream!require_employer, Stream!SetStream,
         Stream!Parties, Stream!index_vars, Stream!config_vars, Stream!vars,
         Proved!RoleStep, Proved!Tick, Proved!ConfigStep, Proved!Init, Proved!Ids,
         Proved!transfer_stream, Proved!set_delegate, Proved!propose_employer_transfer,
         Proved!accept_employer_transfer, Proved!require_employer, Proved!SetStream,
         Proved!Parties, Proved!index_vars, Proved!config_vars, Proved!vars

\* The two instances are one specification.
LEMMA SameSpec == Stream!Spec <=> Proved!Spec
<1>1. [Stream!Next]_Stream!vars <=> [Proved!Next]_Proved!vars
  BY SameCreate, SamePayment, SameManage, SameRest
     DEF Stream!Next, Stream!StreamStep, Stream!vars, Stream!index_vars, Stream!config_vars,
         Proved!Next, Proved!StreamStep, Proved!vars, Proved!index_vars, Proved!config_vars
<1> QED
  BY <1>1, SameRest, PTL DEF Stream!Spec, Proved!Spec

-----------------------------------------------------------------------------
(* The writers of the configuration.                                       *)

\* A write w of the configuration c: whatever lifts a pause takes a nonce.
LegalWrite(c, w) ==
    /\ w \in ConfigSpace
    /\ c.paused /\ ~w.paused => w.admin_nonce = c.admin_nonce + 1

\* What a step may do to the settings that the streams read.
LegalSettings ==
    /\ LegalWrite(cfg, cfg')
    /\ fee_recipient' \in Accounts \cup {fee_recipient}
    /\ admin' \in Accounts
    /\ pending_admin' \in Accounts \cup {None}
    /\ allowed_tokens' \in SUBSET Tokens

\* Leaving the configuration alone is legal.
LEMMA SameWrite ==
    ASSUME NEW c \in ConfigSpace
    PROVE  LegalWrite(c, c)
  BY DEF LegalWrite

\* Leaving the settings alone is legal.
LEMMA SettingsKept ==
    ASSUME SettingsOK, UNCHANGED <<cfg, fee_recipient, admin, pending_admin, allowed_tokens>>
    PROVE  LegalSettings
<1>1. LegalWrite(cfg, cfg')
  BY SameWrite DEF SettingsOK
<1> QED
  BY <1>1 DEF SettingsOK, LegalSettings

\* Consuming the nonce keeps the rest of the configuration.
LEMMA ConsumedFacts ==
    ASSUME NEW c \in ConfigSpace
    PROVE  /\ Admin!Consumed(c) \in ConfigSpace
           /\ Admin!Consumed(c).admin_nonce = c.admin_nonce + 1
  BY DEF ConfigSpace, Admin!Consumed

\* A write that takes a nonce is legal.
LEMMA NoncedWrite ==
    ASSUME NEW c \in ConfigSpace, NEW w \in ConfigSpace,
           w.admin_nonce = c.admin_nonce + 1
    PROVE  LegalWrite(c, w)
  BY DEF LegalWrite

\* The calls of the admin that take a nonce.
LEMMA NonceStepLegal ==
    ASSUME SettingsOK, NEW a \in Accounts, Admin!NonceStep(a, cfg.admin_nonce)
    PROVE  LegalSettings
<1> DEFINE c == Admin!Consumed(cfg)
<1>1. /\ c \in ConfigSpace /\ c.admin_nonce = cfg.admin_nonce + 1 /\ cfg \in ConfigSpace
  BY ConsumedFacts DEF SettingsOK
<1> HIDE DEF c
<1> DEFINE Written == cfg' \in ConfigSpace /\ cfg'.admin_nonce = c.admin_nonce
           Kept == UNCHANGED <<admin, pending_admin, allowed_tokens>>
<1>2. CASE Admin!pause_contract(a, cfg.admin_nonce)
  <2>1. cfg' = [c EXCEPT !.paused = TRUE] /\ Kept /\ fee_recipient' = fee_recipient
    BY <1>2 DEF Admin!pause_contract, c
  <2>2. Written
    BY <1>1, <2>1 DEF ConfigSpace
  <2> QED
    BY <1>1, <2>1, <2>2, NoncedWrite DEF LegalSettings, SettingsOK
<1>3. CASE Admin!unpause_contract(a, cfg.admin_nonce)
  <2>1. cfg' = [c EXCEPT !.paused = FALSE] /\ Kept /\ fee_recipient' = fee_recipient
    BY <1>3 DEF Admin!unpause_contract, c
  <2>2. Written
    BY <1>1, <2>1 DEF ConfigSpace
  <2> QED
    BY <1>1, <2>1, <2>2, NoncedWrite DEF LegalSettings, SettingsOK
<1>4. ASSUME NEW v \in MinDeposits, Admin!set_min_deposit(a, cfg.admin_nonce, v)
      PROVE  LegalSettings
  <2>1. cfg' = [c EXCEPT !.min_deposit = v] /\ Kept /\ fee_recipient' = fee_recipient
    BY <1>4 DEF Admin!set_min_deposit, c
  <2>2. Written
    BY <1>1, <2>1, PayStreamAssumption DEF ConfigSpace
  <2> QED
    BY <1>1, <2>1, <2>2, NoncedWrite DEF LegalSettings, SettingsOK
<1>5. ASSUME NEW v \in FeeRates, NEW r \in Accounts,
             Admin!set_protocol_fee(a, cfg.admin_nonce, v, r)
      PROVE  LegalSettings
  <2>1. cfg' = [c EXCEPT !.fee_bps = v] /\ Kept /\ fee_recipient' = r
    BY <1>5 DEF Admin!set_protocol_fee, c
  <2>2. Written
    BY <1>1, <2>1, PayStreamAssumption DEF ConfigSpace
  <2> QED
    BY <1>1, <2>1, <2>2, NoncedWrite DEF LegalSettings, SettingsOK
<1>6. ASSUME NEW v \in StreamLimits,
             Admin!set_max_streams_per_employer(a, cfg.admin_nonce, v)
      PROVE  LegalSettings
  <2>1. cfg' = [c EXCEPT !.max_streams = v] /\ Kept /\ fee_recipient' = fee_recipient
    BY <1>6 DEF Admin!set_max_streams_per_employer, c
  <2>2. Written
    BY <1>1, <2>1, PayStreamAssumption DEF ConfigSpace
  <2> QED
    BY <1>1, <2>1, <2>2, NoncedWrite DEF LegalSettings, SettingsOK
<1>7. ASSUME NEW h \in WasmHashes, Admin!upgrade(a, h, cfg.admin_nonce)
      PROVE  LegalSettings
  <2>1. cfg' = c /\ Kept /\ fee_recipient' = fee_recipient
    BY <1>7 DEF Admin!upgrade, c
  <2> QED
    BY <1>1, <2>1, NoncedWrite DEF LegalSettings, SettingsOK
<1> QED
  BY <1>2, <1>3, <1>4, <1>5, <1>6, <1>7 DEF Admin!NonceStep

\* Setting the paused flag is legal.
LEMMA PausingWrite ==
    ASSUME NEW c \in ConfigSpace
    PROVE  LegalWrite(c, [c EXCEPT !.paused = TRUE])
  BY DEF LegalWrite, ConfigSpace

\* Every call of the admin.
LEMMA AdminCallLegal ==
    ASSUME SettingsOK, AdminCall
    PROVE  LegalSettings
<1>1. CASE Admin!RoleStep
  BY <1>1, SameWrite
     DEF Admin!RoleStep, Admin!initialize, Admin!propose_admin, Admin!accept_admin,
         LegalSettings, SettingsOK
<1>2. CASE Admin!FreeStep
  BY <1>2, SameWrite, PausingWrite
     DEF Admin!FreeStep, Admin!emergency_pause, Admin!add_allowed_token,
         Admin!remove_allowed_token, LegalSettings, SettingsOK
<1> QED
  BY <1>1, <1>2, NonceStepLegal DEF AdminCall, Admin!AdminStep

-----------------------------------------------------------------------------
(* Governance.                                                             *)

\* The configuration after a proposal was applied.
LEMMA AppliedWrite ==
    ASSUME cfg \in ConfigSpace, NEW p \in Gov!Proposal
    PROVE  LegalWrite(cfg, Gov!apply_proposal(p))
<1>1. p.new_value \in Nat /\ p.param \in Params
  BY DEF Gov!Proposal
<1>2. U32 \in Nat \ {0} /\ p.param \in {"MinDeposit", "MaxDuration", "FeeBps"}
  BY <1>1, PayStreamAssumption
<1>3. p.new_value % U32 \in Nat
  BY <1>1, <1>2
<1>4. ASSUME NEW v \in Nat
      PROVE  /\ LegalWrite(cfg, [cfg EXCEPT !.min_deposit = v])
             /\ LegalWrite(cfg, [cfg EXCEPT !.max_streams = v])
             /\ LegalWrite(cfg, [cfg EXCEPT !.fee_bps = v])
  BY DEF LegalWrite, ConfigSpace
<1> QED
  BY <1>1, <1>2, <1>3, <1>4 DEF Gov!apply_proposal

\* Governance counts with the same cardinality.
LEMMA SameCardinality == \A S : Gov!Cardinality(S) = Cardinality(S) /\ Msig!Cardinality(S) = Cardinality(S)
  BY DEF Gov!Cardinality, Msig!Cardinality, Cardinality

\* The invariant puts together what the runs check of the votes.
LEMMA VotesOKImplies ==
    ASSUME VotesOK, cfg \in ConfigSpace
    PROVE  Gov!TypeOK /\ Gov!OneAccountOneVote /\ Gov!ExecutedByMajority
<1>1. cfg \in Gov!Config
  BY DEF ConfigSpace, Gov!Config
<1>2. proposals \in [Gov!ProposalIds -> Gov!Proposal] /\ voted \in [Gov!ProposalIds -> SUBSET Accounts]
  BY DEF VotesOK, SoundProposal
<1>3. \A id \in Gov!ProposalIds : SoundProposal(proposals[id], voted[id], now)
  BY DEF VotesOK
<1>4. Gov!OneAccountOneVote
  BY <1>3, SameCardinality DEF SoundProposal, Gov!OneAccountOneVote
<1>5. Gov!ExecutedByMajority
  BY <1>3 DEF SoundProposal, Gov!ExecutedByMajority
<1> QED
  BY <1>1, <1>2, <1>4, <1>5 DEF VotesOK, Gov!TypeOK

\* Replacing one proposal and its voters.
LEMMA OneProposal ==
    ASSUME VotesOK, NEW id \in Gov!ProposalIds, NEW p, NEW v, SoundProposal(p, v, now),
           proposals' = [proposals EXCEPT ![id] = p], voted' = [voted EXCEPT ![id] = v],
           now' = now, proposal_count' = proposal_count
    PROVE  VotesOK'
<1>1. Gov!ProposalIds' = Gov!ProposalIds
  BY DEF Gov!ProposalIds
<1>2. /\ proposals' = [i \in Gov!ProposalIds |-> proposals'[i]]
      /\ voted' = [i \in Gov!ProposalIds |-> voted'[i]]
      /\ \A i \in Gov!ProposalIds : SoundProposal(proposals'[i], voted'[i], now)
  BY DEF VotesOK
<1> QED
  BY <1>1, <1>2 DEF VotesOK

\* A new proposal has no votes.
LEMMA ProposeInv ==
    ASSUME VotesOK, NEW param \in Params, NEW value \in NewValues,
           Gov!propose_parameter(param, value), now' = now
    PROVE  VotesOK'
<1> DEFINE n == proposal_count + 1
           new == Gov!NewProposal(param, value)
<1>1. /\ proposal_count \in Nat /\ proposal_count' = n /\ now \in Nat
      /\ proposals' = [i \in 1..n |-> IF i <= proposal_count THEN proposals[i] ELSE new]
      /\ voted' = [i \in 1..n |-> IF i <= proposal_count THEN voted[i] ELSE {}]
  BY DEF VotesOK, Gov!propose_parameter
<1>2. SoundProposal(new, {}, now)
  <2>1. new \in Gov!Proposal /\ new.votes_for = 0 /\ new.votes_against = 0 /\ new.status = "Active"
    BY <1>1, PayStreamAssumption DEF Gov!NewProposal, Gov!Proposal, Gov!ProposalStatus
  <2> HIDE DEF new
  <2> QED
    BY <2>1, FS_EmptySet DEF SoundProposal
<1> HIDE DEF new
<1>3. \A i \in 1..n : SoundProposal(proposals'[i], voted'[i], now)
  BY <1>1, <1>2 DEF VotesOK, Gov!ProposalIds
<1> QED
  BY <1>1, <1>3 DEF VotesOK, Gov!ProposalIds

\* Counting a vote changes one counter by one.
LEMMA Counted ==
    ASSUME NEW p \in Gov!Proposal
    PROVE  LET f == [p EXCEPT !.votes_for = @ + 1]
               a == [p EXCEPT !.votes_against = @ + 1]
               n == p.votes_for + p.votes_against + 1
           IN  /\ f \in Gov!Proposal /\ f.status = p.status /\ f.votes_for + f.votes_against = n
               /\ a \in Gov!Proposal /\ a.status = p.status /\ a.votes_for + a.votes_against = n
  BY DEF Gov!Proposal

\* A vote is counted once and marks its voter.
LEMMA VoteInv ==
    ASSUME VotesOK, NEW id \in Gov!ProposalIds, NEW a \in Accounts, NEW support \in BOOLEAN,
           Gov!vote(a, id, support), now' = now
    PROVE  VotesOK'
<1> DEFINE p == proposals[id]
           q == IF support THEN [p EXCEPT !.votes_for = @ + 1]
                           ELSE [p EXCEPT !.votes_against = @ + 1]
           v == voted[id]
<1>1. /\ proposals' = [proposals EXCEPT ![id] = q] /\ voted' = [voted EXCEPT ![id] = v \cup {a}]
      /\ p.status = "Active" /\ a \notin v /\ proposal_count' = proposal_count
  <2>1. proposals' = [proposals EXCEPT ![id] = q]
    BY DEF Gov!vote
  <2> HIDE DEF q
  <2> QED
    BY <2>1 DEF Gov!vote, Gov!has_voted
<1>2. SoundProposal(p, v, now)
  BY DEF VotesOK
<1> HIDE DEF p, v
<1>3. IsFiniteSet(v) /\ Cardinality(v) \in Nat
  BY <1>2, PayStreamAssumption, FS_Subset, FS_CardinalityType DEF SoundProposal
<1>4. Cardinality(v \cup {a}) = Cardinality(v) + 1
  BY <1>1, <1>3, FS_AddElement
<1>5. p.votes_for \in Nat /\ p.votes_against \in Nat /\ p \in Gov!Proposal
  BY <1>2 DEF SoundProposal, Gov!Proposal
<1>6. /\ q \in Gov!Proposal /\ q.status = "Active"
      /\ q.votes_for + q.votes_against = p.votes_for + p.votes_against + 1
  BY <1>1, <1>5, Counted
<1> HIDE DEF q
<1>7. SoundProposal(q, v \cup {a}, now)
  BY <1>2, <1>3, <1>4, <1>5, <1>6 DEF SoundProposal
<1> QED
  BY <1>1, <1>7, OneProposal

\* A decided or executed proposal keeps its votes.
LEMMA StatusInv ==
    ASSUME VotesOK, NEW id \in Gov!ProposalIds, NEW st \in Gov!ProposalStatus,
           proposals' = [proposals EXCEPT ![id].status = st], voted' = voted,
           proposal_count' = proposal_count, now' = now,
           st \in {"Passed", "Executed"} => proposals[id].votes_for > proposals[id].votes_against,
           st = "Executed" => now >= proposals[id].executable_after,
           st = "Rejected" => proposals[id].votes_for <= proposals[id].votes_against
    PROVE  VotesOK'
<1> DEFINE p == proposals[id]
           q == [p EXCEPT !.status = st]
<1>1. proposals' = [proposals EXCEPT ![id] = q] /\ SoundProposal(p, voted[id], now)
  BY DEF VotesOK
<1>2. voted' = [voted EXCEPT ![id] = voted[id]]
  BY DEF VotesOK
<1> HIDE DEF p
<1>3. /\ q \in Gov!Proposal /\ q.status = st /\ q.votes_for = p.votes_for
      /\ q.votes_against = p.votes_against /\ q.executable_after = p.executable_after
  BY <1>1 DEF SoundProposal, Gov!Proposal
<1> HIDE DEF q
<1>4. SoundProposal(q, voted[id], now)
  BY <1>1, <1>3 DEF SoundProposal, p
<1> QED
  BY <1>1, <1>2, <1>4, OneProposal

\* Every call of governance keeps the votes sound and writes legally.
LEMMA GovStepInv ==
    ASSUME VotesOK, cfg \in ConfigSpace, Gov!GovStep
    PROVE  VotesOK' /\ LegalWrite(cfg, cfg')
<1>1. now' = now
  BY DEF Gov!GovStep
<1>2. ASSUME NEW id \in Gov!ProposalIds, Gov!tally(id) PROVE VotesOK'
  <2> DEFINE p == proposals[id]
  <2>1. SoundProposal(p, voted[id], now)
    BY DEF VotesOK
  <2>2. p.votes_for \in Nat /\ p.votes_against \in Nat
    BY <2>1 DEF SoundProposal, Gov!Proposal
  <2>3. /\ Gov!tally_proposal(p) \in Gov!ProposalStatus
        /\ Gov!tally_proposal(p) = "Passed" => p.votes_for > p.votes_against
        /\ Gov!tally_proposal(p) = "Rejected" => p.votes_for <= p.votes_against
        /\ Gov!tally_proposal(p) # "Executed"
    BY <2>2 DEF Gov!tally_proposal, Gov!ProposalStatus
  <2> QED
    BY <1>1, <1>2, <2>3, StatusInv DEF Gov!tally
<1>3. ASSUME NEW id \in Gov!ProposalIds, Gov!execute_proposal(id)
      PROVE  VotesOK' /\ LegalWrite(cfg, cfg')
  <2>1. SoundProposal(proposals[id], voted[id], now)
    BY DEF VotesOK
  <2>2. LegalWrite(cfg, cfg')
    BY <1>3, <2>1, AppliedWrite DEF SoundProposal, Gov!execute_proposal
  <2>3. VotesOK'
    BY <1>1, <1>3, <2>1, StatusInv DEF SoundProposal, Gov!execute_proposal, Gov!ProposalStatus
  <2> QED
    BY <2>2, <2>3
<1>4. ASSUME cfg' = cfg PROVE LegalWrite(cfg, cfg')
  BY <1>4, SameWrite
<1> QED
  BY <1>1, <1>2, <1>3, <1>4, ProposeInv, VoteInv
     DEF Gov!GovStep, Gov!propose_parameter, Gov!vote, Gov!tally

-----------------------------------------------------------------------------
(* The multisig.                                                           *)

\* The invariant puts together what is stated of the approvals.
LEMMA ApprovalsOKImplies ==
    ASSUME ApprovalsOK, now \in Nat, admin \in Accounts
    PROVE  Msig!TypeOK /\ Msig!ApprovalsDistinct
<1>1. Msig!TypeOK
  BY DEF ApprovalsOK, Msig!TypeOK
<1>2. Msig!ApprovalsDistinct
  BY SameCardinality DEF ApprovalsOK, SoundOp, Msig!ApprovalsDistinct, Msig!OpIds
<1> QED
  BY <1>1, <1>2

\* The first approval.
LEMMA FirstApproval ==
    ASSUME NEW a \in Accounts
    PROVE  <<a>> \in Seq(Accounts) /\ Cardinality(Msig!ToSet(<<a>>)) = Len(<<a>>)
<1>1. Msig!ToSet(<<a>>) = {a}
  BY DEF Msig!ToSet
<1> QED
  BY <1>1, FS_Singleton

\* An approval by somebody who has not approved yet adds one account.
LEMMA AnotherApproval ==
    ASSUME NEW s \in Seq(Accounts), NEW a \in Accounts, ~Msig!Contains(s, a),
           Cardinality(Msig!ToSet(s)) = Len(s)
    PROVE  /\ Append(s, a) \in Seq(Accounts) /\ Len(Append(s, a)) = Len(s) + 1
           /\ Cardinality(Msig!ToSet(Append(s, a))) = Len(Append(s, a))
           /\ Msig!Last(Append(s, a)) = a
<1>1. /\ Append(s, a) \in Seq(Accounts) /\ Len(Append(s, a)) = Len(s) + 1
      /\ \A i \in 1..Len(s) : Append(s, a)[i] = s[i]
      /\ Append(s, a)[Len(s) + 1] = a /\ Len(s) \in Nat
      /\ DOMAIN s = 1..Len(s) /\ DOMAIN Append(s, a) = 1..(Len(s) + 1)
  BY AppendProperties
<1> DEFINE t == Append(s, a)
<1>2. Msig!ToSet(t) = Msig!ToSet(s) \cup {a}
  <2> HIDE DEF t
  <2>1. ASSUME NEW x PROVE x \in Msig!ToSet(s) <=> \E i \in 1..Len(s) : s[i] = x
    BY <1>1 DEF Msig!ToSet
  <2>2. ASSUME NEW x PROVE x \in Msig!ToSet(t) <=> \E i \in 1..(Len(s) + 1) : t[i] = x
    BY <1>1 DEF Msig!ToSet, t
  <2>3. ASSUME NEW x PROVE x \in Msig!ToSet(t) <=> x \in Msig!ToSet(s) \cup {a}
    <3>1. \A i \in 1..(Len(s) + 1) : i = Len(s) + 1 \/ i \in 1..Len(s)
      BY <1>1
    <3>2. \A i \in 1..Len(s) : i \in 1..(Len(s) + 1) /\ t[i] = s[i]
      BY <1>1 DEF t
    <3>3. t[Len(s) + 1] = a /\ Len(s) + 1 \in 1..(Len(s) + 1)
      BY <1>1 DEF t
    <3> QED
      BY <2>1, <2>2, <3>1, <3>2, <3>3
  <2> QED
    BY <2>3
<1>3. a \notin Msig!ToSet(s) /\ Msig!ToSet(s) \subseteq Accounts
  <2>1. \A i \in 1..Len(s) : s[i] \in Accounts /\ s[i] # a
    BY <1>1 DEF Msig!Contains
  <2> QED
    BY <1>1, <2>1 DEF Msig!ToSet
<1>4. Cardinality(Msig!ToSet(s) \cup {a}) = Cardinality(Msig!ToSet(s)) + 1
  BY <1>3, PayStreamAssumption, FS_Subset, FS_AddElement
<1> QED
  BY <1>1, <1>2, <1>4 DEF Msig!Last

\* What an approval does, when it is accepted.
LEMMA ApproveEffect ==
    ASSUME ApprovalsOK, NEW a \in Accounts, NEW id \in 1..Len(pending_ops),
           Msig!multisig_approve(a, id)
    PROVE  \E q : /\ pending_ops' = [pending_ops EXCEPT ![id] = q] /\ SoundOp(q)
                 /\ ~pending_ops[id].executed /\ now < pending_ops[id].expires_at
                 /\ Msig!Last(q.approvals) = a /\ Msig!is_signer(a)
                 /\ q.op = pending_ops[id].op
                 /\ q.executed = (Len(q.approvals) >= multisig.threshold)
                 /\ cfg' = IF q.executed THEN Msig!execute_op(q.op) ELSE cfg
<1> DEFINE o == pending_ops[id]
           s == Append(o.approvals, a)
           e == Msig!meets_threshold(s)
           q == [o EXCEPT !.approvals = s, !.executed = e]
<1>1. /\ pending_ops' = [pending_ops EXCEPT ![id] = q]
      /\ cfg' = IF e THEN Msig!execute_op(o.op) ELSE cfg
      /\ ~o.executed /\ now < o.expires_at /\ ~Msig!Contains(o.approvals, a)
      /\ Msig!is_signer(a)
  BY DEF Msig!multisig_approve, Msig!is_live, Msig!has_approved
<1>2. SoundOp(o)
  BY DEF ApprovalsOK
<1> HIDE DEF o
<1>3. o \in Msig!PendingAdminOp /\ o.approvals \in Seq(Accounts)
  BY <1>2 DEF SoundOp, Msig!PendingAdminOp
<1>4. /\ s \in Seq(Accounts) /\ Cardinality(Msig!ToSet(s)) = Len(s)
      /\ Msig!Last(s) = a
  BY <1>1, <1>2, <1>3, AnotherApproval DEF SoundOp
<1> HIDE DEF s
<1>5. e \in BOOLEAN /\ e = (Len(s) >= multisig.threshold)
  BY DEF Msig!meets_threshold
<1> HIDE DEF e
<1>6. /\ q \in Msig!PendingAdminOp /\ q.approvals = s /\ q.executed = e /\ q.op = o.op
  <2>1. \A b \in BOOLEAN : LET r == [o EXCEPT !.approvals = s, !.executed = b]
                          IN  /\ r \in Msig!PendingAdminOp /\ r.approvals = s
                              /\ r.executed = b /\ r.op = o.op
    BY <1>3, <1>4 DEF Msig!PendingAdminOp
  <2>2. CASE e = TRUE
    <3>1. q = [o EXCEPT !.approvals = s, !.executed = TRUE]
      BY <2>2
    <3> HIDE DEF q
    <3> QED
      BY <2>1, <2>2, <3>1
  <2>3. CASE e = FALSE
    <3>1. q = [o EXCEPT !.approvals = s, !.executed = FALSE]
      BY <2>3
    <3> HIDE DEF q
    <3> QED
      BY <2>1, <2>3, <3>1
  <2> QED
    BY <1>5, <2>2, <2>3
<1> HIDE DEF q
<1>7. SoundOp(q)
  BY <1>4, <1>6 DEF SoundOp
<1> QED
  BY <1>1, <1>4, <1>5, <1>6, <1>7 DEF o

\* Executing an operation pauses the contract or leaves the configuration alone.
LEMMA ExecutedWrite ==
    ASSUME cfg \in ConfigSpace, NEW op
    PROVE  LegalWrite(cfg, Msig!execute_op(op))
  BY SameWrite, PausingWrite DEF Msig!execute_op

\* Every call of the multisig keeps the approvals sound and writes legally.
LEMMA MultisigStepInv ==
    ASSUME ApprovalsOK, cfg \in ConfigSpace, now \in Nat, Msig!MultisigStep
    PROVE  ApprovalsOK' /\ LegalWrite(cfg, cfg')
<1>1. ASSUME NEW a \in Accounts, NEW l \in SignerLists, NEW t \in 1..Len(l),
             Msig!configure_multisig(a, l, t)
      PROVE  ApprovalsOK' /\ LegalWrite(cfg, cfg')
  <2>1. /\ multisig' = [admins |-> l, threshold |-> t] /\ cfg' = cfg
        /\ pending_ops' = pending_ops
    BY <1>1 DEF Msig!configure_multisig
  <2>2. multisig' \in Msig!MultisigConfig
    BY <2>1, PayStreamAssumption DEF Msig!MultisigConfig
  <2> QED
    BY <2>1, <2>2, SameWrite DEF ApprovalsOK
<1>2. ASSUME NEW a \in Accounts, NEW op \in Msig!AdminOp, Msig!multisig_propose(a, op)
      PROVE  ApprovalsOK' /\ LegalWrite(cfg, cfg')
  <2> DEFINE new == [op |-> op, approvals |-> <<a>>, expires_at |-> Msig!ExpiryFrom(now),
                     executed |-> FALSE]
  <2>1. /\ pending_ops' = Append(pending_ops, new) /\ cfg' = cfg /\ multisig' = multisig
    BY <1>2 DEF Msig!multisig_propose
  <2>2. SoundOp(new)
    <3>1. Msig!ExpiryFrom(now) \in Nat
      BY PayStreamAssumption DEF Msig!ExpiryFrom
    <3>2. new \in Msig!PendingAdminOp /\ new.approvals = <<a>>
      BY <3>1, FirstApproval DEF Msig!PendingAdminOp
    <3> HIDE DEF new
    <3> QED
      BY <3>2, FirstApproval DEF SoundOp
  <2> HIDE DEF new
  <2>3. new \in Msig!PendingAdminOp
    BY <2>2 DEF SoundOp
  <2>4. /\ pending_ops' \in Seq(Msig!PendingAdminOp)
        /\ \A i \in 1..Len(pending_ops') : SoundOp(pending_ops'[i])
    BY <2>1, <2>2, <2>3, AppendProperties DEF ApprovalsOK
  <2> QED
    BY <2>1, <2>4, SameWrite DEF ApprovalsOK
<1>3. ASSUME NEW a \in Accounts, NEW id \in 1..Len(pending_ops), Msig!multisig_approve(a, id)
      PROVE  ApprovalsOK' /\ LegalWrite(cfg, cfg')
  <2>1. PICK q : /\ pending_ops' = [pending_ops EXCEPT ![id] = q] /\ SoundOp(q)
                 /\ cfg' = IF q.executed THEN Msig!execute_op(q.op) ELSE cfg
    BY <1>3, ApproveEffect
  <2>2. q \in Msig!PendingAdminOp
    BY <2>1 DEF SoundOp
  <2>3. /\ pending_ops' \in Seq(Msig!PendingAdminOp)
        /\ \A i \in 1..Len(pending_ops') : SoundOp(pending_ops'[i])
    BY <2>1, <2>2, ExceptSeq DEF ApprovalsOK
  <2>4. multisig' = multisig
    BY <1>3 DEF Msig!multisig_approve
  <2> QED
    BY <2>1, <2>3, <2>4, SameWrite, ExecutedWrite DEF ApprovalsOK
<1> QED
  BY <1>1, <1>2, <1>3 DEF Msig!MultisigStep, Msig!OpIds

-----------------------------------------------------------------------------
(* The composition.                                                        *)

\* Calls on streams leave the configuration and the decisions about it alone.
LEMMA StreamStepSettings ==
    ASSUME Stream!StreamStep
    PROVE  UNCHANGED <<now, cfg, fee_recipient, admin, allowed_tokens>>
<1> USE DEF Stream!config_vars
<1>1. CASE Stream!CreateStep
  BY <1>1 DEF Stream!CreateStep, Stream!create_stream, Stream!create_streams_batch
<1>2. CASE Stream!PaymentStep
  BY <1>2 DEF Stream!PaymentStep, Stream!withdraw, Stream!withdraw_protocol_fees
<1>3. CASE Stream!ManageStep
  <2>1. PICK a \in Accounts, id \in Stream!Ids :
              \/ \E amount \in TopUps : Stream!top_up(a, id, amount)
              \/ Stream!pause_stream(a, id)
              \/ Stream!resume_stream(a, id)
              \/ Stream!cancel_stream(a, id)
              \/ Stream!reclaim_expired(a, id)
    BY <1>3 DEF Stream!ManageStep
  <2>2. ASSUME NEW s, Stream!SetStream(id, s)
        PROVE  UNCHANGED <<now, cfg, fee_recipient, admin, allowed_tokens>>
    BY ONLY <2>2 DEF Stream!SetStream, Stream!config_vars
  <2>3. ASSUME NEW amount \in TopUps, Stream!top_up(a, id, amount)
        PROVE  UNCHANGED <<now, cfg, fee_recipient, admin, allowed_tokens>>
    BY ONLY <2>2, <2>3 DEF Stream!top_up
  <2>4. CASE Stream!pause_stream(a, id)
    BY ONLY <2>2, <2>4 DEF Stream!pause_stream
  <2>5. CASE Stream!resume_stream(a, id)
    BY ONLY <2>2, <2>5 DEF Stream!resume_stream
  <2>6. ASSUME NEW target, Stream!Settle(a, id, target)
        PROVE  UNCHANGED <<now, cfg, fee_recipient, admin, allowed_tokens>>
    BY ONLY <2>2, <2>6 DEF Stream!Settle
  <2> QED
    BY <2>1, <2>3, <2>4, <2>5, <2>6 DEF Stream!cancel_stream, Stream!reclaim_expired
<1>4. CASE Stream!RateStep \/ Stream!QueryStep
  BY <1>4 DEF Stream!RateStep, Stream!QueryStep, Stream!update_rate, Stream!get_stream,
              Stream!SetStream
<1>5. CASE Stream!RoleStep
  BY <1>5 DEF Stream!RoleStep, Stream!transfer_stream, Stream!set_delegate,
              Stream!propose_employer_transfer, Stream!accept_employer_transfer,
              Stream!SetStream
<1> QED
  BY <1>1, <1>2, <1>3, <1>4, <1>5 DEF Stream!StreamStep

\* The streams see every write of the configuration as a ConfigStep.
LEMMA LegalSettingsIsConfigStep ==
    ASSUME SettingsOK, LegalSettings, UNCHANGED <<now, stream_vars>>
    PROVE  Stream!ConfigStep
  BY DEF SettingsOK, LegalSettings, LegalWrite, stream_vars, Stream!ConfigStep, Stream!index_vars

\* Every step writes the settings legally and is a step of the streams.
LEMMA StepEffect ==
    ASSUME PayInv, Next
    PROVE  /\ LegalSettings
           /\ Stream!StreamStep \/ Stream!Tick \/ Stream!ConfigStep
<1> USE DEF PayInv
<1>1. CASE StreamCall
  <2>1. UNCHANGED <<now, cfg, fee_recipient, admin, allowed_tokens, pending_admin>>
    BY <1>1, StreamStepSettings DEF StreamCall, admin_only_vars
  <2>2. LegalSettings
    BY <2>1, SettingsKept
  <2> QED
    BY <1>1, <2>2 DEF StreamCall
<1>2. CASE AdminCall
  BY <1>2, AdminCallLegal, LegalSettingsIsConfigStep DEF AdminCall
<1>3. CASE GovCall
  <2>1. LegalSettings
    BY <1>3, GovStepInv DEF GovCall, LegalSettings, SettingsOK, admin_only_vars
  <2> QED
    BY <1>3, <2>1, LegalSettingsIsConfigStep DEF GovCall, Gov!GovStep
<1>4. CASE MultisigCall
  <2>1. LegalSettings
    <3>1. LegalWrite(cfg, cfg')
      BY <1>4, MultisigStepInv DEF MultisigCall, SettingsOK, VotesOK
    <3> QED
      BY <1>4, <3>1 DEF MultisigCall, Msig!MultisigStep, LegalSettings, SettingsOK, admin_only_vars
  <2> QED
    BY <1>4, <2>1, LegalSettingsIsConfigStep DEF MultisigCall, Msig!MultisigStep
<1>5. CASE LedgerClose
  <2>1. UNCHANGED <<cfg, fee_recipient, admin, pending_admin, allowed_tokens>>
    BY <1>5 DEF LedgerClose, Stream!Tick, Stream!config_vars, admin_only_vars
  <2>2. LegalSettings
    BY <2>1, SettingsKept
  <2> QED
    BY <1>5, <2>2 DEF LedgerClose
<1> QED
  BY <1>1, <1>2, <1>3, <1>4, <1>5 DEF Next

\* Votes stay sound when their proposals are left alone and time passes.
LEMMA VotesLater ==
    ASSUME VotesOK, UNCHANGED gov_vars, now' \in Nat, now' >= now
    PROVE  VotesOK'
<1>1. ASSUME NEW i \in Gov!ProposalIds PROVE SoundProposal(proposals[i], voted[i], now')
  <2>1. SoundProposal(proposals[i], voted[i], now) /\ now \in Nat
    BY DEF VotesOK
  <2>2. proposals[i].executable_after \in Nat
    BY <2>1 DEF SoundProposal, Gov!Proposal
  <2> QED
    BY <2>1, <2>2 DEF SoundProposal
<1> QED
  BY <1>1 DEF VotesOK, gov_vars, Gov!ProposalIds

\* The invariant is inductive.
LEMMA PayInvStep == PayInv /\ [Next]_pay_vars => PayInv'
<1> SUFFICES ASSUME PayInv, [Next]_pay_vars PROVE PayInv'
  OBVIOUS
<1>1. CASE UNCHANGED pay_vars
  BY <1>1 DEF PayInv, SettingsOK, VotesOK, ApprovalsOK, Gov!ProposalIds, SoundProposal, SoundOp,
              pay_vars, shared_vars, admin_only_vars, gov_vars, ms_vars
<1>2. CASE Next
  <2>1. SettingsOK'
    BY <1>2, StepEffect DEF PayInv, SettingsOK, LegalSettings, LegalWrite
  <2>2. VotesOK' /\ ApprovalsOK'
    <3>1. ASSUME UNCHANGED <<now, gov_vars>> PROVE VotesOK'
      BY <3>1, VotesLater DEF PayInv, VotesOK
    <3>2. ASSUME UNCHANGED ms_vars PROVE ApprovalsOK'
      BY <3>2 DEF PayInv, ApprovalsOK, SoundOp, ms_vars
    <3>3. CASE StreamCall
      BY <3>1, <3>2, <3>3, StreamStepSettings DEF StreamCall
    <3>4. CASE AdminCall
      BY <3>1, <3>2, <3>4 DEF AdminCall
    <3>5. CASE GovCall
      BY <3>2, <3>5, GovStepInv DEF GovCall, PayInv, SettingsOK
    <3>6. CASE MultisigCall
      BY <3>1, <3>6, MultisigStepInv DEF MultisigCall, Msig!MultisigStep, PayInv, SettingsOK, VotesOK
    <3>7. CASE LedgerClose
      <4>1. now' \in Nat /\ now' >= now /\ UNCHANGED gov_vars
        BY <3>7 DEF LedgerClose, Stream!Tick, PayInv, VotesOK
      <4> QED
        BY <3>2, <3>7, <4>1, VotesLater DEF LedgerClose, PayInv
    <3> QED
      BY <1>2, <3>3, <3>4, <3>5, <3>6, <3>7 DEF Next
  <2> QED
    BY <2>1, <2>2 DEF PayInv
<1> QED
  BY <1>1, <1>2

\* It holds initially.
LEMMA PayInvInit == Init => PayInv
<1> SUFFICES ASSUME Init PROVE PayInv
  OBVIOUS
<1>1. SettingsOK
  BY DEF Init, Admin!AdminInit, Admin!DefaultConfig, SettingsOK, ConfigSpace
<1>2. VotesOK
  BY DEF Init, Gov!GovInit, VotesOK, Gov!ProposalIds
<1>3. ApprovalsOK
  BY DEF Init, Msig!MultisigInit, ApprovalsOK
<1> QED
  BY <1>1, <1>2, <1>3 DEF PayInv

\* It holds in every reachable state of the contract.
LEMMA PayInvariance == Spec => []PayInv
  BY PayInvInit, PayInvStep, PTL DEF Spec

-----------------------------------------------------------------------------
\* The whole contract implements the streams of StreamContract under a
\* configuration that anything may happen to: the admin, governance and the
\* signers reach the streams only through the settings.
THEOREM ContractImplementsStreams == Spec => StreamsImplemented
<1>1. Init => Stream!Init
  BY DEF Init
<1>2. PayInv /\ [Next]_pay_vars => [Stream!Next]_Stream!vars
  <2> SUFFICES ASSUME PayInv, [Next]_pay_vars PROVE [Stream!Next]_Stream!vars
    OBVIOUS
  <2>1. CASE Next
    BY <2>1, StepEffect DEF Stream!Next
  <2>2. CASE UNCHANGED pay_vars
    BY <2>2 DEF pay_vars, shared_vars, stream_vars, Stream!vars, Stream!index_vars,
                Stream!config_vars
  <2> QED
    BY <2>1, <2>2
<1> QED
  BY <1>1, <1>2, PayInvariance, PTL DEF Spec, StreamsImplemented, Stream!Spec

\* With the refinement, what is proved of the streams holds of the whole
\* contract: whatever its three administrations do, no stream pays out more
\* than its deposit, and a cancelled one pays out all of it.
THEOREM WholeContractNeverOverpays ==
    Spec => [](Proved!NoOverpayment /\ Proved!ClaimsCovered /\ Proved!CancelSettles)
<1>1. Spec => Proved!Spec
  BY ContractImplementsStreams, SameSpec, PTL DEF StreamsImplemented
<1>2. /\ Proved!Spec => []Proved!NoOverpayment
      /\ Proved!Spec => []Proved!ClaimsCovered
      /\ Proved!Spec => []Proved!CancelSettles
  BY StreamConstants, Proved!StreamsNeverOverpay, Proved!ClaimsAreCovered,
     Proved!CancellationSettles
<1> QED
  BY <1>1, <1>2, PTL

\* Nor do its three administrations disturb the accounts of the streams: in the whole
\* contract the escrow holds what the streams have not distributed, the fee ledger is
\* exact, the escrow covers every open claim until fees are drawn, and the employer
\* index is exact, while proposals change the fee and the multisig pauses and resumes.
THEOREM WholeContractAccounts ==
    Spec => [](/\ Proved!EscrowConserved /\ Proved!FeeLedgerExact
               /\ Proved!SolventBeforeDraws /\ Proved!EmployerIndexExact)
<1>1. Spec => Proved!Spec
  BY ContractImplementsStreams, SameSpec, PTL DEF StreamsImplemented
<1>2. /\ Proved!Spec => []Proved!EscrowConserved
      /\ Proved!Spec => []Proved!FeeLedgerExact
      /\ Proved!Spec => []Proved!SolventBeforeDraws
      /\ Proved!Spec => []Proved!EmployerIndexExact
  BY StreamConstants, Proved!EscrowIsConserved, Proved!FeeLedgerIsExact,
     Proved!EscrowCoversBeforeDraws, Proved!EmployerIndexIsExact
<1> QED
  BY <1>1, <1>2, PTL

\* What a step may never do to a stream, it may not do in the whole contract: an ended
\* stream never changes, no call raises what a stream has paid and offers without a
\* deposit, and tokens leave the escrow only for the parties of a stream that pays in
\* this step or for the recipient of fees.
THEOREM WholeContractSteps ==
    Spec => Proved!TerminalIsFinal /\ Proved!OnlyTimeEarns /\ Proved!PaymentsReachParties
<1>1. Spec => Proved!Spec
  BY ContractImplementsStreams, SameSpec, PTL DEF StreamsImplemented
<1>2. /\ Proved!Spec => Proved!TerminalIsFinal
      /\ Proved!Spec => Proved!OnlyTimeEarns
      /\ Proved!Spec => Proved!PaymentsReachParties
  BY StreamConstants, Proved!EndedStreamsAreFinal, Proved!CallsNeverEarn,
     Proved!PaymentsReachTheirParties
<1> QED
  BY <1>1, <1>2, PTL

\* In the whole contract every vote counted is the vote of one account, what
\* passed had a strict majority, and no approval of the multisig counts twice.
THEOREM DecisionsAreBacked ==
    Spec => [](Gov!OneAccountOneVote /\ Gov!ExecutedByMajority /\ Msig!ApprovalsDistinct)
<1>1. PayInv => Gov!OneAccountOneVote /\ Gov!ExecutedByMajority /\ Msig!ApprovalsDistinct
  BY VotesOKImplies, ApprovalsOKImplies DEF PayInv, SettingsOK, VotesOK
<1> QED
  BY <1>1, PayInvariance, PTL

-----------------------------------------------------------------------------
(* Pauses.                                                                 *)

\* Stream id is paid by this step only if the step ends it.
PaidOnlyAtEnd(id) ==
    paid'[id].employee > paid[id].employee
        => /\ streams'[id].status \in {"Cancelled", "Exhausted"}
           /\ streams[id].status # streams'[id].status

\* What a step may do to the streams of a paused contract.
Frozen ==
    /\ stream_count' = stream_count
    /\ fee_balance' = fee_balance \/ fees_drawn' # fees_drawn
    /\ \A id \in 1..stream_count : PaidOnlyAtEnd(id)

StreamTypes ==
    /\ fees_drawn \in [Tokens -> Nat]
    /\ \A id \in 1..stream_count : paid[id].employee \in Nat

\* A step that pays nobody freezes.
LEMMA PaysNobody ==
    ASSUME StreamTypes, stream_count' = stream_count, fee_balance' = fee_balance,
           \A id \in 1..stream_count : paid'[id].employee = paid[id].employee
    PROVE  Frozen
  BY DEF StreamTypes, Frozen, PaidOnlyAtEnd

\* A settlement pays, and ends its stream.
LEMMA SettleFrozen ==
    ASSUME StreamTypes, NEW a \in Accounts, NEW id \in 1..stream_count,
           NEW final \in {"Cancelled", "Exhausted"}, Stream!Settle(a, id, final),
           DOMAIN streams = 1..stream_count, DOMAIN paid = 1..stream_count,
           \A i \in 1..stream_count : streams[i] \in Stream!StreamRecord
    PROVE  Frozen
<1> DEFINE s == streams[id]
           r == [s EXCEPT !.withdrawn = @ + Stream!claimable_amount(s, now), !.status = final]
<1>1. /\ s.status \in {"Active", "Paused"} /\ streams' = [streams EXCEPT ![id] = r]
      /\ stream_count' = stream_count /\ fee_balance' = fee_balance
      /\ \E p : paid' = [paid EXCEPT ![id] = p]
  BY DEF Stream!Settle, Stream!SetStream
<1>2. r.status = final
  BY DEF Stream!StreamRecord
<1> HIDE DEF r
<1>3. streams'[id].status = final /\ final # s.status
  BY <1>1, <1>2
<1>4. \A i \in 1..stream_count : i # id => paid'[i] = paid[i]
  BY <1>1
<1> QED
  BY <1>1, <1>3, <1>4 DEF StreamTypes, Frozen, PaidOnlyAtEnd

\* While the contract is paused no call on a stream creates, withdraws or
\* charges; it may still settle a stream.
LEMMA StreamStepFrozen ==
    ASSUME Proved!IInv, cfg.paused, Stream!StreamStep
    PROVE  Frozen
<1>1. /\ stream_count \in Nat /\ streams \in [1..stream_count -> Stream!StreamRecord]
      /\ paid \in [1..stream_count -> Proved!Payouts] /\ fees_drawn \in [Tokens -> Nat]
  BY DEF Proved!IInv, Proved!StreamsOK, Proved!LedgerOK, Proved!Ids, Proved!StreamRecord,
         Stream!StreamRecord, Proved!StreamStatus, Stream!StreamStatus
<1>2. StreamTypes
  <2>1. \A id \in 1..stream_count : paid[id] \in Proved!Payouts
    BY <1>1
  <2> QED
    BY <1>1, <2>1 DEF StreamTypes, Proved!Payouts
<1>3. ~Stream!CreateStep
  BY DEF Stream!CreateStep, Stream!create_stream, Stream!create_streams_batch
<1>4. ASSUME NEW a \in Accounts, NEW t \in Tokens, NEW n \in 1..fee_balance[t],
             Stream!withdraw_protocol_fees(a, t, n)
      PROVE  Frozen
  <2>1. /\ stream_count' = stream_count /\ paid' = paid
        /\ fees_drawn' = [fees_drawn EXCEPT ![t] = @ + n]
    BY <1>4 DEF Stream!withdraw_protocol_fees
  <2>2. fees_drawn'[t] # fees_drawn[t]
    BY <1>1, <2>1
  <2> QED
    BY <1>2, <2>1, <2>2 DEF StreamTypes, Frozen, PaidOnlyAtEnd
<1>5. ASSUME NEW a \in Accounts, NEW id \in 1..stream_count
      PROVE  ~Stream!withdraw(a, id)
  BY DEF Stream!withdraw
<1>6. CASE Stream!ManageStep
  <2>1. ASSUME NEW a \in Accounts, NEW id \in 1..stream_count,
               Stream!cancel_stream(a, id) \/ Stream!reclaim_expired(a, id)
        PROVE  Frozen
    BY <1>1, <1>2, <2>1, SettleFrozen DEF Stream!cancel_stream, Stream!reclaim_expired
  <2>2. ASSUME NEW a \in Accounts, NEW id \in 1..stream_count,
               \/ \E n \in TopUps : Stream!top_up(a, id, n)
               \/ Stream!pause_stream(a, id) \/ Stream!resume_stream(a, id)
        PROVE  Frozen
    BY <1>2, <2>2, PaysNobody DEF Stream!top_up, Stream!pause_stream, Stream!resume_stream,
                                  Stream!SetStream
  <2> QED
    BY <1>6, <2>1, <2>2 DEF Stream!ManageStep, Stream!Ids
<1>7. CASE Stream!RateStep
  <2>1. PICK a \in Accounts, id \in 1..stream_count, r \in Rates : Stream!update_rate(a, id, r)
    BY <1>7 DEF Stream!RateStep, Stream!Ids
  <2> DEFINE w == Stream!claimable_amount(streams[id], now)
             p == [paid[id] EXCEPT !.withheld = @ + w]
  <2>2. paid' = [paid EXCEPT ![id] = p] /\ stream_count' = stream_count /\ fee_balance' = fee_balance
    BY <2>1 DEF Stream!update_rate, Stream!SetStream
  <2>3. p.employee = paid[id].employee
    <3>1. paid[id] \in Proved!Payouts
      BY <1>1
    <3> QED
      BY <3>1 DEF Proved!Payouts
  <2> HIDE DEF p
  <2>4. \A i \in 1..stream_count : paid'[i].employee = paid[i].employee
    BY <1>1, <2>2, <2>3
  <2> QED
    BY <1>2, <2>2, <2>4, PaysNobody
<1>8. CASE Stream!QueryStep
  BY <1>2, <1>8, PaysNobody DEF Stream!QueryStep, Stream!get_stream, Stream!SetStream
<1>9. CASE Stream!RoleStep
  BY <1>2, <1>9, PaysNobody DEF Stream!RoleStep, Stream!transfer_stream, Stream!set_delegate,
         Stream!propose_employer_transfer, Stream!accept_employer_transfer, Stream!SetStream
<1> QED
  BY <1>3, <1>4, <1>5, <1>6, <1>7, <1>8, <1>9
     DEF Stream!StreamStep, Stream!PaymentStep, Stream!Ids

\* A pause holds against every writer of the configuration until the admin
\* lifts it with a fresh nonce, and meanwhile nothing is created and nobody
\* withdraws.
THEOREM PausesHold == Spec => PauseHolds
<1>1. Spec => []Proved!IInv
  <2>1. Proved!Spec => []Proved!IInv
    BY StreamConstants, Proved!Invariance
  <2> QED
    BY <2>1, ContractImplementsStreams, SameSpec, PTL DEF StreamsImplemented
<1>2. PayInv /\ Proved!IInv /\ [Next]_pay_vars
        => [cfg.paused =>
              /\ ~cfg'.paused => cfg'.admin_nonce = cfg.admin_nonce + 1
              /\ stream_count' = stream_count
              /\ fee_balance' = fee_balance \/ fees_drawn' # fees_drawn
              /\ \A id \in 1..stream_count :
                    paid'[id].employee > paid[id].employee
                        => streams'[id].status \in {"Cancelled", "Exhausted"}
                           /\ streams[id].status # streams'[id].status]_pay_vars
  <2> SUFFICES ASSUME PayInv, Proved!IInv, Next, cfg.paused
               PROVE  /\ ~cfg'.paused => cfg'.admin_nonce = cfg.admin_nonce + 1
                      /\ Frozen
    BY DEF Frozen, PaidOnlyAtEnd
  <2>1. LegalSettings /\ (Stream!StreamStep \/ Stream!Tick \/ Stream!ConfigStep)
    BY StepEffect
  <2>2. ASSUME Stream!Tick \/ Stream!ConfigStep PROVE Frozen
    <3>1. StreamTypes
      <4>1. \A id \in 1..stream_count : paid[id] \in Proved!Payouts
        BY DEF Proved!IInv, Proved!StreamsOK, Proved!Ids
      <4> QED
        BY <4>1 DEF Proved!IInv, Proved!LedgerOK, StreamTypes, Proved!Payouts
    <3> QED
      BY <2>2, <3>1, PaysNobody DEF Stream!Tick, Stream!ConfigStep
  <2>3. ~cfg'.paused => cfg'.admin_nonce = cfg.admin_nonce + 1
    BY <2>1 DEF LegalSettings, LegalWrite
  <2> QED
    BY <2>1, <2>2, <2>3, StreamStepFrozen
<1> QED
  BY <1>1, <1>2, PayInvariance, PTL DEF Spec, PauseHolds

-----------------------------------------------------------------------------
(* Governance and the multisig on their own.                               *)

\* The votes stay sound and the configuration stays one.
LEMMA GovInvariance == Gov!Spec => [](VotesOK /\ cfg \in ConfigSpace)
<1>1. Gov!Init => VotesOK /\ cfg \in ConfigSpace
  BY DEF Gov!Init, Gov!GovInit, VotesOK, Gov!ProposalIds, ConfigSpace
<1>2. VotesOK /\ cfg \in ConfigSpace /\ [Gov!Next]_Gov!vars => VotesOK' /\ (cfg \in ConfigSpace)'
  <2> SUFFICES ASSUME VotesOK, cfg \in ConfigSpace, [Gov!Next]_Gov!vars
               PROVE  VotesOK' /\ cfg' \in ConfigSpace
    OBVIOUS
  <2>1. CASE Gov!GovStep
    BY <2>1, GovStepInv DEF LegalWrite
  <2>2. CASE Gov!Tick \/ UNCHANGED Gov!vars
    <3>1. now' \in Nat /\ now' >= now /\ UNCHANGED <<gov_vars, cfg>>
      BY <2>2 DEF Gov!Tick, Gov!vars, Gov!gov_vars, gov_vars, VotesOK
    <3> QED
      BY <3>1, VotesLater
  <2> QED
    BY <2>1, <2>2 DEF Gov!Next
<1> QED
  BY <1>1, <1>2, PTL DEF Gov!Spec

\* A parameter changes only by the execution of a proposal that passed, and a
\* decided proposal is never touched again (vote, tally, execute_proposal).
THEOREM ProposalsApplyOnce == Gov!Spec => Gov!AppliedOnce
<1>1. VotesOK /\ [Gov!Next]_Gov!vars
        => [/\ cfg' # cfg => \E id \in Gov!ProposalIds :
                  /\ proposals[id].status = "Passed"
                  /\ proposals'[id].status = "Executed"
            /\ \A id \in Gov!ProposalIds :
                  proposals[id].status \in {"Executed", "Rejected"}
                      => proposals'[id] = proposals[id]]_Gov!vars
  <2> SUFFICES ASSUME VotesOK, Gov!Next
               PROVE  /\ cfg' # cfg => \E id \in Gov!ProposalIds :
                            /\ proposals[id].status = "Passed"
                            /\ proposals'[id].status = "Executed"
                      /\ \A id \in Gov!ProposalIds :
                            proposals[id].status \in {"Executed", "Rejected"}
                                => proposals'[id] = proposals[id]
    OBVIOUS
  <2>1. /\ proposals = [i \in Gov!ProposalIds |-> proposals[i]] /\ proposal_count \in Nat
        /\ \A i \in Gov!ProposalIds : proposals[i] \in Gov!Proposal
    BY DEF VotesOK, SoundProposal
  <2>2. CASE \E param \in Params, value \in NewValues : Gov!propose_parameter(param, value)
    BY <2>1, <2>2 DEF Gov!propose_parameter, Gov!ProposalIds
  <2>3. ASSUME NEW id \in Gov!ProposalIds, NEW p, proposals[id].status = "Active",
               proposals' = [proposals EXCEPT ![id] = p]
        PROVE  \A i \in Gov!ProposalIds : proposals[i].status \in {"Executed", "Rejected"}
                                            => proposals'[i] = proposals[i]
    BY <2>1, <2>3
  <2>4. ASSUME NEW id \in Gov!ProposalIds, NEW a \in Accounts, NEW b \in BOOLEAN, Gov!vote(a, id, b)
        PROVE  /\ cfg' = cfg /\ proposals[id].status = "Active"
               /\ \E p : proposals' = [proposals EXCEPT ![id] = p]
    BY <2>4 DEF Gov!vote
  <2>5. ASSUME NEW id \in Gov!ProposalIds, Gov!tally(id)
        PROVE  /\ cfg' = cfg /\ proposals[id].status = "Active"
               /\ \E p : proposals' = [proposals EXCEPT ![id] = p]
    BY <2>5 DEF Gov!tally
  <2>6. ASSUME NEW id \in Gov!ProposalIds, Gov!execute_proposal(id)
        PROVE  /\ proposals[id].status = "Passed" /\ proposals'[id].status = "Executed"
               /\ \A i \in Gov!ProposalIds : i # id => proposals'[i] = proposals[i]
    <3> DEFINE p == [proposals[id] EXCEPT !.status = "Executed"]
    <3>1. proposals' = [proposals EXCEPT ![id] = p] /\ proposals[id].status = "Passed"
      BY <2>6 DEF Gov!execute_proposal
    <3>2. p.status = "Executed"
      BY <2>1 DEF Gov!Proposal
    <3> HIDE DEF p
    <3> QED
      BY <2>1, <3>1, <3>2
  <2>7. CASE Gov!Tick
    BY <2>7 DEF Gov!Tick, Gov!gov_vars
  <2> QED
    BY <2>2, <2>3, <2>4, <2>5, <2>6, <2>7 DEF Gov!Next, Gov!GovStep
<1> QED
  BY <1>1, GovInvariance, PTL DEF Gov!Spec, Gov!AppliedOnce

\* The approvals stay sound and the configuration stays one.
LEMMA MultisigInvariance == Msig!Spec => [](ApprovalsOK /\ now \in Nat /\ cfg \in ConfigSpace)
<1>1. Msig!Init => ApprovalsOK /\ now \in Nat /\ cfg \in ConfigSpace
  BY DEF Msig!Init, Msig!MultisigInit, ApprovalsOK, ConfigSpace
<1>2. ApprovalsOK /\ now \in Nat /\ cfg \in ConfigSpace /\ [Msig!Next]_Msig!vars
        => ApprovalsOK' /\ (now \in Nat)' /\ (cfg \in ConfigSpace)'
  <2> SUFFICES ASSUME ApprovalsOK, now \in Nat, cfg \in ConfigSpace, [Msig!Next]_Msig!vars
               PROVE  ApprovalsOK' /\ now' \in Nat /\ cfg' \in ConfigSpace
    OBVIOUS
  <2>1. CASE Msig!MultisigStep
    BY <2>1, MultisigStepInv DEF LegalWrite, Msig!MultisigStep
  <2>2. CASE Msig!Tick \/ UNCHANGED Msig!vars
    BY <2>2 DEF Msig!Tick, Msig!vars, Msig!ms_vars, ApprovalsOK, SoundOp
  <2> QED
    BY <2>1, <2>2 DEF Msig!Next
<1> QED
  BY <1>1, <1>2, PTL DEF Msig!Spec

\* The multisig pauses the contract only with as many approvals by different
\* accounts as the configuration in force asks for, the last one by one of its
\* signers, however often the configuration was replaced (multisig_approve).
THEOREM PausesNeedTheThreshold == Msig!Spec => Msig!PauseNeedsThreshold
<1>1. ApprovalsOK /\ [Msig!Next]_Msig!vars
        => [cfg' # cfg =>
              \E id \in Msig!OpIds :
                  LET op == pending_ops'[id]
                  IN  /\ ~pending_ops[id].executed /\ op.executed
                      /\ op.op.kind = "EmergencyPause"
                      /\ Msig!Cardinality(Msig!ToSet(op.approvals)) >= multisig.threshold
                      /\ Msig!is_signer(Msig!Last(op.approvals))]_Msig!vars
  <2> SUFFICES ASSUME ApprovalsOK, Msig!Next, cfg' # cfg
               PROVE  \E id \in Msig!OpIds :
                         LET op == pending_ops'[id]
                         IN  /\ ~pending_ops[id].executed /\ op.executed
                             /\ op.op.kind = "EmergencyPause"
                             /\ Msig!Cardinality(Msig!ToSet(op.approvals)) >= multisig.threshold
                             /\ Msig!is_signer(Msig!Last(op.approvals))
    OBVIOUS
  <2>1. PICK a \in Accounts, id \in 1..Len(pending_ops) : Msig!multisig_approve(a, id)
    BY DEF Msig!Next, Msig!MultisigStep, Msig!Tick, Msig!OpIds, Msig!configure_multisig,
           Msig!multisig_propose
  <2>2. PICK q : /\ pending_ops' = [pending_ops EXCEPT ![id] = q] /\ SoundOp(q)
                 /\ ~pending_ops[id].executed
                 /\ Msig!Last(q.approvals) = a /\ Msig!is_signer(a)
                 /\ q.executed = (Len(q.approvals) >= multisig.threshold)
                 /\ cfg' = IF q.executed THEN Msig!execute_op(q.op) ELSE cfg
    BY <2>1, ApproveEffect
  <2>3. pending_ops'[id] = q
    BY <2>2 DEF ApprovalsOK
  <2>4. q.executed /\ Len(q.approvals) >= multisig.threshold
    BY <2>2
  <2>5. q.op.kind = "EmergencyPause"
    BY <2>2, <2>4 DEF Msig!execute_op
  <2>6. Msig!Cardinality(Msig!ToSet(q.approvals)) >= multisig.threshold
    BY <2>2, <2>4, SameCardinality DEF SoundOp
  <2> QED
    BY <2>2, <2>3, <2>4, <2>5, <2>6 DEF Msig!OpIds
<1> QED
  BY <1>1, MultisigInvariance, PTL DEF Msig!Spec, Msig!PauseNeedsThreshold

\* An operation that was executed, or that expired, never changes again, under
\* any later list of signers or threshold (multisig_approve).
THEOREM SettledOpsAreFinal == Msig!Spec => Msig!ExpiredOrExecutedIsFinal
<1>1. ApprovalsOK /\ now \in Nat /\ [Msig!Next]_Msig!vars
        => [\A id \in Msig!OpIds :
               (pending_ops[id].executed \/ now >= pending_ops[id].expires_at)
                   => pending_ops'[id] = pending_ops[id]]_Msig!vars
  <2> SUFFICES ASSUME ApprovalsOK, now \in Nat, Msig!Next, NEW i \in 1..Len(pending_ops),
                      pending_ops[i].executed \/ now >= pending_ops[i].expires_at
               PROVE  pending_ops'[i] = pending_ops[i]
    BY DEF Msig!OpIds
  <2>1. CASE UNCHANGED pending_ops
    BY <2>1
  <2>2. ASSUME NEW a \in Accounts, NEW op \in Msig!AdminOp, Msig!multisig_propose(a, op)
        PROVE  pending_ops'[i] = pending_ops[i]
    BY <2>2 DEF Msig!multisig_propose, ApprovalsOK
  <2>3. ASSUME NEW a \in Accounts, NEW id \in 1..Len(pending_ops), Msig!multisig_approve(a, id)
        PROVE  pending_ops'[i] = pending_ops[i]
    <3>1. PICK q : /\ pending_ops' = [pending_ops EXCEPT ![id] = q]
                   /\ ~pending_ops[id].executed /\ now < pending_ops[id].expires_at
      BY <2>3, ApproveEffect
    <3>2. pending_ops[id].expires_at \in Nat
      <4>1. pending_ops[id] \in Msig!PendingAdminOp
        BY DEF ApprovalsOK, SoundOp
      <4> QED
        BY <4>1 DEF Msig!PendingAdminOp
    <3>3. i # id
      BY <3>1, <3>2
    <3> QED
      BY <3>1, <3>3 DEF ApprovalsOK
  <2> QED
    BY <2>1, <2>2, <2>3 DEF Msig!Next, Msig!MultisigStep, Msig!OpIds, Msig!Tick, Msig!ms_vars,
                            Msig!configure_multisig
<1> QED
  BY <1>1, MultisigInvariance, PTL DEF Msig!Spec, Msig!ExpiredOrExecutedIsFinal
=============================================================================
