----------------------------- MODULE Governance -----------------------------
(***************************************************************************)
(* On-chain parameter governance (contracts/stream/src/lib.rs and          *)
(* storage.rs): anybody proposes a value for a parameter, every account    *)
(* has one vote, anybody closes the vote at any moment, and a proposal     *)
(* that passed is applied once its timelock has elapsed.  It writes the    *)
(* packed configuration that the admin writes too, past the admin's nonce  *)
(* and past the checks of the admin's setters.                             *)
(***************************************************************************)
EXTENDS Naturals, FiniteSets

CONSTANTS
    Accounts,
    GOV_TIMELOCK,   \* lib.rs: seconds before execution, two days in the code
    MAX_FEE_BPS,    \* lib.rs: largest fee the admin may set, 100
    U32,            \* values of a u32, 2^32 in the code
    Params,         \* parameters proposals are made for
    NewValues,      \* values proposals are made with
    MaxProposals,   \* bound: proposals ever made
    MaxTime         \* bound: last ledger timestamp

\* What is assumed of the constants.
GovernanceAssumption ==
    /\ IsFiniteSet(Accounts)
    /\ GOV_TIMELOCK \in Nat /\ MAX_FEE_BPS \in Nat /\ U32 \in Nat \ {0}
    /\ Params \subseteq {"MinDeposit", "MaxDuration", "FeeBps"}
    /\ NewValues \subseteq Nat
    /\ MaxProposals \in Nat /\ MaxTime \in Nat

VARIABLES
    now,             \* ledger timestamp
    cfg,             \* DataKey::Config
    proposal_count,  \* DataKey::ProposalCount
    proposals,       \* DataKey::Proposal(id)
    voted            \* DataKey::Voted(id, voter), as the set of voters of each id

gov_vars == <<proposal_count, proposals, voted>>

ProposalIds == 1..proposal_count

ProposalStatus == {"Active", "Passed", "Executed", "Rejected"}

Proposal == [param: Params, new_value: Nat, votes_for: Nat, votes_against: Nat,
             status: ProposalStatus, executable_after: Nat]

Config == [min_deposit: Nat, fee_bps: Nat, max_streams: Nat,
           admin_nonce: Nat, paused: BOOLEAN]

NewProposal(param, value) ==
    [param |-> param, new_value |-> value, votes_for |-> 0, votes_against |-> 0,
     status |-> "Active", executable_after |-> now + GOV_TIMELOCK]

-----------------------------------------------------------------------------
propose_parameter(param, value) ==
    /\ proposal_count < MaxProposals
    /\ proposal_count' = proposal_count + 1
    /\ proposals' = [i \in 1..(proposal_count + 1) |->
                        IF i <= proposal_count THEN proposals[i]
                                               ELSE NewProposal(param, value)]
    /\ voted' = [i \in 1..(proposal_count + 1) |->
                    IF i <= proposal_count THEN voted[i] ELSE {}]
    /\ UNCHANGED cfg

has_voted(id, voter) == voter \in voted[id]

vote(voter, id, support) ==
    /\ proposals[id].status = "Active"
    /\ ~has_voted(id, voter)
    /\ voted' = [voted EXCEPT ![id] = @ \cup {voter}]
    /\ proposals' = [proposals EXCEPT ![id] =
          IF support THEN [proposals[id] EXCEPT !.votes_for = @ + 1]
                     ELSE [proposals[id] EXCEPT !.votes_against = @ + 1]]
    /\ UNCHANGED <<proposal_count, cfg>>

\* A strict majority of the votes cast so far passes.
tally_proposal(p) == IF p.votes_for > p.votes_against THEN "Passed" ELSE "Rejected"

tally(id) ==
    /\ proposals[id].status = "Active"
    /\ proposals' = [proposals EXCEPT ![id].status = tally_proposal(proposals[id])]
    /\ UNCHANGED <<proposal_count, voted, cfg>>

\* The 64-bit value is stored as it is, or cut to 32 bits.  MaxDuration is
\* applied to the number of streams per employer.
apply_proposal(p) ==
    CASE p.param = "MinDeposit"  -> [cfg EXCEPT !.min_deposit = p.new_value]
      [] p.param = "MaxDuration" -> [cfg EXCEPT !.max_streams = p.new_value % U32]
      [] p.param = "FeeBps"      -> [cfg EXCEPT !.fee_bps = p.new_value % U32]

\* Mutant: the proposal stays open for another execution.
execute_proposal_again(id) ==
    /\ proposals[id].status = "Passed"
    /\ now >= proposals[id].executable_after
    /\ cfg' = apply_proposal(proposals[id])
    /\ UNCHANGED <<proposal_count, proposals, voted>>

execute_proposal(id) ==
    /\ proposals[id].status = "Passed"
    /\ now >= proposals[id].executable_after
    /\ cfg' = apply_proposal(proposals[id])
    /\ proposals' = [proposals EXCEPT ![id].status = "Executed"]
    /\ UNCHANGED <<proposal_count, voted>>

-----------------------------------------------------------------------------
GovInit ==
    /\ proposal_count = 0
    /\ proposals = <<>>
    /\ voted = <<>>

GovStep ==
    /\ \/ \E param \in Params, value \in NewValues : propose_parameter(param, value)
       \/ \E id \in ProposalIds :
             \/ \E voter \in Accounts, support \in BOOLEAN : vote(voter, id, support)
             \/ tally(id)
             \/ execute_proposal(id)
    /\ UNCHANGED now

Tick ==
    /\ now < MaxTime
    /\ now' = now + 1
    /\ UNCHANGED <<gov_vars, cfg>>

Init ==
    /\ now = 0
    /\ cfg = [min_deposit |-> 0, fee_bps |-> 0, max_streams |-> 100,
              admin_nonce |-> 0, paused |-> FALSE]
    /\ GovInit

Next == GovStep \/ Tick

vars == <<now, cfg, gov_vars>>

Spec == Init /\ [][Next]_vars

-----------------------------------------------------------------------------
\* Type invariant of the proposals and the configuration they write.
TypeOK ==
    /\ now \in Nat
    /\ cfg \in Config
    /\ proposal_count \in Nat
    /\ proposals \in [ProposalIds -> Proposal]
    /\ voted \in [ProposalIds -> SUBSET Accounts]

\* One account, one vote: the two counters of a proposal, which are all that
\* tally looks at, add up to the number of accounts marked as having voted.
OneAccountOneVote ==
    \A id \in ProposalIds :
        proposals[id].votes_for + proposals[id].votes_against = Cardinality(voted[id])

\* A proposal that passed or was executed had a strict majority, and still has:
\* no vote reaches it after the tally, in whatever order votes, tallies and
\* executions of all proposals arrive (vote, tally).  An executed one has
\* waited out its timelock.
ExecutedByMajority ==
    \A id \in ProposalIds :
        LET p == proposals[id]
        IN  /\ p.status \in {"Passed", "Executed"} => p.votes_for > p.votes_against
            /\ p.status = "Executed" => now >= p.executable_after
            /\ p.status = "Rejected" => p.votes_for <= p.votes_against

\* A parameter changes only by the execution of a proposal that passed earlier,
\* and that proposal can never be executed again, so an old decision does not
\* come back over a newer one (execute_proposal).
AppliedOnce ==
    [][/\ cfg' # cfg => \E id \in ProposalIds :
             /\ proposals[id].status = "Passed"
             /\ proposals'[id].status = "Executed"
       /\ \A id \in ProposalIds :
             proposals[id].status \in {"Executed", "Rejected"}
                 => proposals'[id] = proposals[id]]_vars

-----------------------------------------------------------------------------
(* What a comment says and the code does not do.                           *)

\* types.rs: "fee_bps u32 -- protocol fee in basis points (0-100)": the cap that
\* set_protocol_fee checks holds of every stored fee.
FeeWithinCap == cfg.fee_bps <= MAX_FEE_BPS
=============================================================================
