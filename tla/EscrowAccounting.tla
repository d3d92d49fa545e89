-------------------------- MODULE EscrowAccounting --------------------------
(***************************************************************************)
(* The escrow of the stream contract seen as a whole: the balance the      *)
(* token contract holds for it against the sums over all streams.  These   *)
(* sums exist nowhere in the code, which trusts every entry point to move  *)
(* exactly what it writes into its own stream.                             *)
(***************************************************************************)
EXTENDS StreamContract, FiniteSetsExt

ASSUME AccountsAssumption == IsFiniteSet(Accounts)

StreamsOf(token) == {id \in Ids : streams[id].token = token}

TotalOver(ids, f) == SumFunctionOnSet(f, ids)

\* What each stream still owes its two parties.
Owed == [id \in Ids |-> IF is_terminal(streams[id].status) THEN 0 ELSE Remaining(streams[id])]

TotalOwed(token) == TotalOver(StreamsOf(token), Owed)

Undistributed ==
    [id \in Ids |-> streams[id].deposit - (paid[id].employee + paid[id].fee + paid[id].refund)]

FeesSent == [id \in Ids |-> paid[id].fee]

-----------------------------------------------------------------------------
\* The escrow balance of a token is what its streams have not distributed,
\* less the fees the admin has drawn from it: no entry point moves a token
\* without recording it in its stream (create_stream, create_streams_batch,
\* top_up, withdraw, Settle).
EscrowConserved ==
    \A t \in Tokens :
        balance[t][Escrow] + fees_drawn[t] = TotalOver(StreamsOf(t), Undistributed)

\* As long as nothing is drawn by withdraw_protocol_fees the escrow covers
\* everything every open stream still owes, whatever the order of operations
\* on all streams of the token.
SolventBeforeDraws ==
    \A t \in Tokens : fees_drawn[t] = 0 => balance[t][Escrow] >= TotalOwed(t)

\* Every fee sent during a withdrawal is recorded once in the fee ledger, and
\* the ledger is reduced by exactly what is drawn from it.
FeeLedgerExact ==
    \A t \in Tokens :
        fee_balance[t] + fees_drawn[t] = TotalOver(StreamsOf(t), FeesSent)

\* The employer index holds every stream exactly once, in the order of creation,
\* under the account that created it, which is its employer unless the role was
\* handed over since (the index stays with the creator): single and batch
\* creations never skip, repeat or misfile an id (index_employer_stream,
\* index_employer_streams_batch).
EmployerIndexExact ==
    /\ \A id \in Ids :
          \E a \in Accounts, i \in 1..MaxStreams :
              i <= Len(employer_streams[a]) /\ employer_streams[a][i] = id
    /\ \A a \in Accounts : \A i \in 1..Len(employer_streams[a]) :
          streams[employer_streams[a][i]].employer \in {a} \cup NewParties
    /\ TotalOver(Accounts, [a \in Accounts |-> Len(employer_streams[a])]) = stream_count
    /\ \A a \in Accounts : \A i \in 1..(Len(employer_streams[a]) - 1) :
          employer_streams[a][i] < employer_streams[a][i + 1]

\* Whoever holds the roles at the moment of a payment is paid, through every
\* chain of hand-overs: an account only gains tokens as the employee or the
\* employer of a stream that pays out in this very step, or as the recipient of
\* protocol fees.  A former employee, a delegate or a proposed employer never
\* does (transfer_stream, set_delegate, accept_employer_transfer).
PaymentsReachParties ==
    [][\A t \in Tokens, a \in Accounts :
          balance'[t][a] > balance[t][a] =>
              \/ \E id \in StreamsOf(t) :
                     /\ paid'[id] # paid[id]
                     /\ a \in {streams[id].employee, streams[id].employer}
              \/ a = (IF fee_recipient = None THEN admin ELSE fee_recipient)]_vars

-----------------------------------------------------------------------------
(* What the documentation says and the code does not do.                   *)

\* README.md: "Trustless escrow -- funds locked on-chain".  The escrow always
\* covers what open streams owe.
Solvent == \A t \in Tokens : balance[t][Escrow] >= TotalOwed(t)

\* docs/troubleshooting.md:72, of Exhausted streams: "The employee can still call
\* `withdraw` to collect any remaining tokens that have not been withdrawn yet".
ExhaustedCanCollect ==
    \A id \in Ids :
        (/\ streams[id].status = "Exhausted"
         /\ streams[id].withdrawn + paid[id].refund < streams[id].deposit)
            => claimable_amount(streams[id], now) > 0

\* docs/security-model.md: "Stream exhausted | No escrow remains -- all tokens
\* have been withdrawn".
ExhaustedIsPaidOut ==
    \A id \in Ids : streams[id].status = "Exhausted" =>
        streams[id].withdrawn + paid[id].refund = streams[id].deposit

\* docs/security-model.md: "Stream cancelled | No escrow remains -- earned
\* tokens sent to employee, remainder refunded to employer atomically".
CancelledLeavesNoEscrow ==
    \A id \in Ids : streams[id].status = "Cancelled" => Undistributed[id] = 0

\* docs/api-reference.md: "If fee_recipient is unset, no fee is taken
\* regardless of fee_bps".
NoFeeWithoutRecipient ==
    [][\A id \in Ids :
          (fee_recipient = None /\ paid'[id].employee > paid[id].employee) =>
              paid'[id].employee - paid[id].employee
                  = streams'[id].withdrawn - streams[id].withdrawn]_vars

\* docs/api-reference.md, streams_by_employee: "Return all stream IDs paying an
\* employee."
EmployeeIndexCurrent ==
    \A id \in Ids :
        \E i \in 1..Len(employee_streams[streams[id].employee]) :
            employee_streams[streams[id].employee][i] = id

\* state_machine.rs lists the valid transitions; a stream's status only
\* changes along them.
OnlyValidTransitions ==
    [][\A id \in Ids :
          streams'[id].status # streams[id].status =>
              is_valid_transition(streams[id].status, streams'[id].status)]_vars
=============================================================================
