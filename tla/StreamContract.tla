--------------------------- MODULE StreamContract ---------------------------
(***************************************************************************)
(* The salary-stream contract (contracts/stream/src/lib.rs): streams, the  *)
(* escrow that backs them, the protocol-fee ledger and the roles on a      *)
(* stream.  Every entry point is one atomic action, since a Soroban        *)
(* invocation that panics is rolled back and the host forbids re-entry; a  *)
(* panic is therefore an action that is not enabled, and stream.locked is  *)
(* FALSE in every state between invocations and is left out.               *)
(*                                                                         *)
(* The configuration (cfg, fee_recipient, admin, allowed_tokens) is        *)
(* written by other components; ConfigStep stands for all of them here,    *)
(* and PayStream replaces it by the real writers.                          *)
(***************************************************************************)
EXTENDS Accrual, Sequences, FiniteSets

CONSTANTS
    Accounts,        \* addresses that sign invocations
    Tokens,          \* token contracts
    Escrow,          \* the stream contract's own address
    None,            \* Rust's Option::None for an address
    Deposits, Rates, StopTimes, CliffTimes, Cooldowns, \* arguments of a creation
    TopUps,          \* arguments of top_up
    NewParties,      \* addresses a role may be handed to
    Configs,         \* packed configurations ConfigStep may install
    FeeRecipients,   \* recipients ConfigStep may install
    Admins,          \* admins ConfigStep may install
    AllowLists,      \* allowlists ConfigStep may install
    InitialBalance,  \* tokens each account starts with
    MaxTime,         \* bound: last ledger timestamp
    MaxStreams,      \* bound: streams ever created
    MaxPauseEvents   \* bound: pause events recorded per stream

Parties == Accounts \cup {Escrow}

Config == [min_deposit: Nat, fee_bps: Nat, max_streams: Nat,
           admin_nonce: Nat, paused: BOOLEAN]

ASSUME ContractAssumption ==
    /\ Escrow \notin Accounts
    /\ None \notin Accounts
    /\ Deposits \subseteq Nat /\ Rates \subseteq Nat /\ StopTimes \subseteq Nat
    /\ CliffTimes \subseteq Nat /\ Cooldowns \subseteq Nat /\ TopUps \subseteq Nat
    /\ NewParties \subseteq Accounts
    /\ Configs \subseteq Config
    /\ FeeRecipients \subseteq Accounts
    /\ Admins \subseteq Accounts /\ Admins # {}
    /\ AllowLists \subseteq SUBSET Tokens
    /\ InitialBalance \in [Accounts -> Nat]
    /\ MaxTime \in Nat /\ MaxStreams \in Nat /\ MaxPauseEvents \in Nat

VARIABLES
    now,               \* ledger timestamp
    stream_count,      \* DataKey::StreamCount
    streams,           \* DataKey::Stream(id)
    pending_employer,  \* DataKey::PendingEmployer(id)
    pause_history,     \* DataKey::PauseHistory(id)
    employer_streams,  \* DataKey::EmployerStreams(address)
    employee_streams,  \* DataKey::EmployeeStreams(address)
    cfg,               \* DataKey::Config
    fee_recipient,     \* DataKey::FeeRecipient
    admin,             \* DataKey::Admin
    allowed_tokens,    \* DataKey::AllowedTokens
    fee_balance,       \* DataKey::FeeBalance(token)
    balance,           \* balances kept by each token contract
    paid,              \* history: what each stream's deposit was used for
    fees_drawn         \* history: tokens paid out by withdraw_protocol_fees

config_vars == <<cfg, fee_recipient, admin, allowed_tokens>>
index_vars  == <<employer_streams, employee_streams>>
vars == <<now, stream_count, streams, pending_employer, pause_history,
          index_vars, config_vars, fee_balance, balance, paid, fees_drawn>>

Ids == 1..stream_count

StreamRecord ==
    [employer: Accounts, employee: Accounts, token: Tokens,
     deposit: Nat, withdrawn: Nat, rate_per_second: Nat,
     start_time: Nat, stop_time: Nat, last_withdraw_time: Nat,
     cooldown_period: Nat, status: StreamStatus, cliff_time: Nat,
     paused_at: Nat, delegate: Accounts \cup {None}]

PauseEvent == [timestamp: Nat, is_pause: BOOLEAN]

StreamParams == [employee: Accounts, token: Tokens, deposit: Deposits,
                 rate_per_second: Rates, stop_time: StopTimes,
                 cliff_time: CliffTimes]

\* What a stream's deposit was used for: paid to the employee, paid to the fee
\* recipient, counted as withdrawn although nobody was paid, and refunded to
\* the employer.  Each field follows the amounts of the emitted events.
Payouts == [employee: Nat, fee: Nat, withheld: Nat, refund: Nat]

NoPayouts == [employee |-> 0, fee |-> 0, withheld |-> 0, refund |-> 0]

-----------------------------------------------------------------------------
(* Token transfers, as the token contract performs them.                   *)

\* Mutant: the sender's balance is not checked.
CanTransfer_unchecked(b, from, amount) == amount > 0

CanTransfer(b, from, amount) == amount > 0 /\ b[from] >= amount

Transfer(b, from, to, amount) ==
    [[b EXCEPT ![from] = @ - amount] EXCEPT ![to] = @ + amount]

\* A transfer the stream contract only makes when the amount is positive.
CanPay(b, from, amount) == amount > 0 => CanTransfer(b, from, amount)

Pay(b, from, to, amount) ==
    IF amount > 0 THEN Transfer(b, from, to, amount) ELSE b

-----------------------------------------------------------------------------
(* Creation.                                                               *)

is_token_allowed(token) == allowed_tokens = {} \/ token \in allowed_tokens

ChargesDepositFee == cfg.fee_bps > 0 /\ fee_recipient # None

DepositFee(p) == IF ChargesDepositFee THEN FeeOn(p.deposit, cfg.fee_bps) ELSE 0

\* The employer pays the net deposit into escrow, then the fee.  The fee
\* transfer is made whenever a recipient is set, even for a zero fee.
CanDeposit(b, employer, p) ==
    LET net == p.deposit - DepositFee(p)
        b1  == Transfer(b[p.token], employer, Escrow, net)
    IN  /\ CanTransfer(b[p.token], employer, net)
        /\ ChargesDepositFee => CanTransfer(b1, employer, DepositFee(p))

Deposited(b, employer, p) ==
    LET net == p.deposit - DepositFee(p)
        b1  == Transfer(b[p.token], employer, Escrow, net)
    IN  [b EXCEPT ![p.token] =
            IF ChargesDepositFee
            THEN Transfer(b1, employer, fee_recipient, DepositFee(p))
            ELSE b1]

\* Mutant: the stream is credited with the fee, too.
NewStream_gross(employer, p, cooldown) ==
    [employer |-> employer, employee |-> p.employee, token |-> p.token,
     deposit |-> p.deposit, withdrawn |-> 0,
     rate_per_second |-> p.rate_per_second,
     start_time |-> now, stop_time |-> p.stop_time,
     last_withdraw_time |-> now, cooldown_period |-> cooldown,
     status |-> "Active", cliff_time |-> p.cliff_time,
     paused_at |-> 0, delegate |-> None]

NewStream(employer, p, cooldown) ==
    [employer |-> employer, employee |-> p.employee, token |-> p.token,
     deposit |-> p.deposit - DepositFee(p), withdrawn |-> 0,
     rate_per_second |-> p.rate_per_second,
     start_time |-> now, stop_time |-> p.stop_time,
     last_withdraw_time |-> now, cooldown_period |-> cooldown,
     status |-> "Active", cliff_time |-> p.cliff_time,
     paused_at |-> 0, delegate |-> None]

\* f, defined on the present ids, extended by g on n new ones.
Extended(f, n, g) ==
    [i \in 1..(stream_count + n) |-> IF i <= stream_count THEN f[i] ELSE g[i - stream_count]]

\* next_id, save_stream and the per-stream entries of n new streams.
AddStreams(n, new) ==
    /\ stream_count + n <= MaxStreams
    /\ stream_count' = stream_count + n
    /\ streams' = Extended(streams, n, new)
    /\ pending_employer' = Extended(pending_employer, n, [i \in 1..n |-> None])
    /\ pause_history' = Extended(pause_history, n, [i \in 1..n |-> <<>>])
    /\ paid' = Extended(paid, n, [i \in 1..n |-> NoPayouts])

Indexed(index, a, ids) == [index EXCEPT ![a] = @ \o ids]

\* Mutant: the stream is indexed under its employee in both indexes.
create_stream_misfiled(employer, p, cooldown) ==
    /\ ~cfg.paused
    /\ Len(employer_streams[employer]) < cfg.max_streams
    /\ validate_create_stream(p, cfg.min_deposit, now, employer)
    /\ is_token_allowed(p.token)
    /\ CanDeposit(balance, employer, p)
    /\ balance' = Deposited(balance, employer, p)
    /\ AddStreams(1, [i \in 1..1 |-> NewStream(employer, p, cooldown)])
    /\ employer_streams' = Indexed(employer_streams, p.employee, <<stream_count + 1>>)
    /\ employee_streams' = Indexed(employee_streams, p.employee, <<stream_count + 1>>)
    /\ UNCHANGED <<now, config_vars, fee_balance, fees_drawn>>

create_stream(employer, p, cooldown) ==
    /\ ~cfg.paused
    /\ Len(employer_streams[employer]) < cfg.max_streams
    /\ validate_create_stream(p, cfg.min_deposit, now, employer)
    /\ is_token_allowed(p.token)
    /\ CanDeposit(balance, employer, p)
    /\ balance' = Deposited(balance, employer, p)
    /\ AddStreams(1, [i \in 1..1 |-> NewStream(employer, p, cooldown)])
    /\ employer_streams' = Indexed(employer_streams, employer, <<stream_count + 1>>)
    /\ employee_streams' = Indexed(employee_streams, p.employee, <<stream_count + 1>>)
    /\ UNCHANGED <<now, config_vars, fee_balance, fees_drawn>>

\* A batch of two requests; a batch of one differs from create_stream only in
\* its cooldown of zero.  The limit is checked once for the whole batch, the
\* second deposit is taken from what the first one left, and a failure of
\* either reverts both.  check_and_bump_rate, called for each request (lib.rs:291),
\* is defined nowhere in the repository and is left out.
create_streams_batch(employer, p, q) ==
    /\ ~cfg.paused
    /\ Len(employer_streams[employer]) + 2 <= cfg.max_streams
    /\ validate_create_stream(p, cfg.min_deposit, now, employer)
    /\ validate_create_stream(q, cfg.min_deposit, now, employer)
    /\ is_token_allowed(p.token) /\ is_token_allowed(q.token)
    /\ CanDeposit(balance, employer, p)
    /\ CanDeposit(Deposited(balance, employer, p), employer, q)
    /\ balance' = Deposited(Deposited(balance, employer, p), employer, q)
    /\ AddStreams(2, [i \in 1..2 |-> NewStream(employer, IF i = 1 THEN p ELSE q, 0)])
    /\ employer_streams' = Indexed(employer_streams, employer,
                                   <<stream_count + 1, stream_count + 2>>)
    /\ employee_streams' = Indexed(Indexed(employee_streams, p.employee, <<stream_count + 1>>),
                                   q.employee, <<stream_count + 2>>)
    /\ UNCHANGED <<now, config_vars, fee_balance, fees_drawn>>

-----------------------------------------------------------------------------
(* Withdrawal and fees.                                                    *)

CooldownOver(s) ==
    (s.status = "Active" /\ s.cooldown_period > 0)
        => now >= s.last_withdraw_time + s.cooldown_period

\* Mutant: a fee replaces the ones collected before.
add_fee_balance_last(token, amount) == fee_balance' = [fee_balance EXCEPT ![token] = amount]

add_fee_balance(token, amount) == fee_balance' = [fee_balance EXCEPT ![token] = @ + amount]

\* A withdrawal of nothing returns early and changes no state.
withdraw(employee, id) ==
    LET s     == streams[id]
        gross == claimable_amount(s, now)
        fee   == FeeOn(gross, cfg.fee_bps)
        net   == Monus(gross, fee)
        sent  == IF fee_recipient # None THEN fee ELSE 0
        b     == balance[s.token]
        b1    == Pay(b, Escrow, fee_recipient, sent)
        w     == s.withdrawn + gross
    IN  /\ ~cfg.paused
        /\ s.employee = employee
        /\ s.status \in {"Active", "Exhausted"}
        /\ CooldownOver(s)
        /\ gross > 0
        /\ CanPay(b, Escrow, sent)
        /\ CanTransfer(b1, Escrow, net)
        /\ balance' = [balance EXCEPT ![s.token] = Transfer(b1, Escrow, employee, net)]
        /\ add_fee_balance(s.token, sent)
        /\ streams' = [streams EXCEPT ![id] =
              [s EXCEPT !.withdrawn = w, !.last_withdraw_time = now,
                        !.status = IF w >= s.deposit THEN "Exhausted" ELSE @]]
        /\ paid' = [paid EXCEPT ![id] =
              [paid[id] EXCEPT !.employee = @ + net, !.fee = @ + sent,
                               !.withheld = @ + (fee - sent)]]
        /\ UNCHANGED <<now, stream_count, pending_employer, pause_history,
                       index_vars, config_vars, fees_drawn>>

withdraw_protocol_fees(caller, token, amount) ==
    LET recipient == IF fee_recipient # None THEN fee_recipient ELSE caller
    IN  /\ caller = admin
        /\ amount <= fee_balance[token]
        /\ CanTransfer(balance[token], Escrow, amount)
        /\ balance' = [balance EXCEPT ![token] = Transfer(@, Escrow, recipient, amount)]
        /\ fee_balance' = [fee_balance EXCEPT ![token] = @ - amount]
        /\ fees_drawn' = [fees_drawn EXCEPT ![token] = @ + amount]
        /\ UNCHANGED <<now, stream_count, streams, pending_employer, pause_history,
                       index_vars, config_vars, paid>>

-----------------------------------------------------------------------------
(* Managing one stream.                                                    *)

SetStream(id, s) ==
    /\ streams' = [streams EXCEPT ![id] = s]
    /\ UNCHANGED <<now, stream_count, index_vars, config_vars, fee_balance, fees_drawn>>

\* Mutant: a delegate passes for the employer.
require_employer_orDelegate(caller, s) == caller = s.employer \/ caller = s.delegate

require_employer(caller, s) == caller = s.employer

may_manage(caller, s) == caller = s.employer \/ caller = s.delegate

top_up(caller, id, amount) ==
    LET s == streams[id]
    IN  /\ may_manage(caller, s)
        /\ ~is_terminal(s.status)
        /\ CanTransfer(balance[s.token], caller, amount)
        /\ balance' = [balance EXCEPT ![s.token] = Transfer(@, caller, Escrow, amount)]
        /\ SetStream(id, [s EXCEPT !.deposit = @ + amount])
        /\ UNCHANGED <<pending_employer, pause_history, paid>>

add_pause_event(id, is_pause) ==
    pause_history' = [pause_history EXCEPT ![id] =
                         Append(@, [timestamp |-> now, is_pause |-> is_pause])]

pause_stream(caller, id) ==
    LET s == streams[id]
    IN  /\ may_manage(caller, s)
        /\ s.status = "Active"
        /\ Len(pause_history[id]) < MaxPauseEvents
        /\ SetStream(id, [s EXCEPT !.paused_at = now, !.status = "Paused"])
        /\ add_pause_event(id, TRUE)
        /\ UNCHANGED <<pending_employer, balance, paid>>

\* Mutant: the start of the pause was not recorded.
PausedFor_unrecorded(s) == now

\* Seconds since the stream was paused.
PausedFor(s) == Monus(now, s.paused_at)

resume_stream(caller, id) ==
    LET s == streams[id]
    IN  /\ may_manage(caller, s)
        /\ s.status = "Paused"
        /\ SetStream(id, [s EXCEPT !.last_withdraw_time = @ + PausedFor(s),
                                   !.paused_at = 0, !.status = "Active"])
        /\ add_pause_event(id, FALSE)
        /\ UNCHANGED <<pending_employer, balance, paid>>

\* Mutant: what the employee is paid in this step is refunded as well.
Unearned_early(s, earned) == Monus(s.deposit, s.withdrawn)

Unearned(s, earned) == Monus(s.deposit, s.withdrawn + earned)

\* Pay the employee what is claimable, refund the rest, end the stream.
Settle(employer, id, final) ==
    LET s      == streams[id]
        earned == claimable_amount(s, now)
        refund == Unearned(s, earned)
        b      == balance[s.token]
        b1     == Pay(b, Escrow, s.employee, earned)
    IN  /\ require_employer(employer, s)
        /\ s.status \in {"Active", "Paused"}
        /\ CanPay(b, Escrow, earned)
        /\ CanPay(b1, Escrow, refund)
        /\ balance' = [balance EXCEPT ![s.token] = Pay(b1, Escrow, employer, refund)]
        /\ SetStream(id, [s EXCEPT !.withdrawn = @ + earned, !.status = final])
        /\ paid' = [paid EXCEPT ![id] = [paid[id] EXCEPT !.employee = @ + earned,
                                                         !.refund = @ + refund]]
        /\ UNCHANGED <<pending_employer, pause_history>>

cancel_stream(employer, id) == Settle(employer, id, "Cancelled")

reclaim_expired(employer, id) ==
    /\ streams[id].stop_time > 0
    /\ now >= streams[id].stop_time
    /\ Settle(employer, id, "Exhausted")

\* Crystallising adds the accrued amount to withdrawn; no token moves.
update_rate(employer, id, new_rate) ==
    LET s       == streams[id]
        accrued == claimable_amount(s, now)
    IN  /\ new_rate > 0
        /\ new_rate <= MAX_RATE_PER_SECOND
        /\ require_employer(employer, s)
        /\ s.status = "Active"
        /\ SetStream(id, [s EXCEPT !.withdrawn = @ + accrued,
                                   !.last_withdraw_time = now,
                                   !.rate_per_second = new_rate])
        /\ paid' = [paid EXCEPT ![id] = [paid[id] EXCEPT !.withheld = @ + accrued]]
        /\ UNCHANGED <<pending_employer, pause_history, balance>>

\* The query that writes: past the stop, a stream whose deposit is streamed
\* out is marked Exhausted.  In every other case it changes nothing.
get_stream(id) ==
    LET s == streams[id]
    IN  /\ s.status = "Active"
        /\ s.stop_time > 0
        /\ now >= s.stop_time
        /\ \/ claimable_amount(s, now) = 0 /\ s.withdrawn >= s.deposit
           \/ s.withdrawn + claimable_amount(s, s.stop_time) >= s.deposit
        /\ SetStream(id, [s EXCEPT !.status = "Exhausted"])
        /\ UNCHANGED <<pending_employer, pause_history, balance, paid>>

-----------------------------------------------------------------------------
(* Roles on a stream.                                                      *)

transfer_stream(employee, id, new_employee) ==
    /\ streams[id].employee = employee
    /\ streams[id].status \in {"Active", "Paused"}
    /\ SetStream(id, [streams[id] EXCEPT !.employee = new_employee])
    /\ UNCHANGED <<pending_employer, pause_history, balance, paid>>

set_delegate(employer, id, delegate) ==
    /\ require_employer(employer, streams[id])
    /\ SetStream(id, [streams[id] EXCEPT !.delegate = delegate])
    /\ UNCHANGED <<pending_employer, pause_history, balance, paid>>

propose_employer_transfer(employer, id, new_employer) ==
    /\ require_employer(employer, streams[id])
    /\ pending_employer' = [pending_employer EXCEPT ![id] = new_employer]
    /\ UNCHANGED <<now, stream_count, streams, pause_history, index_vars,
                   config_vars, fee_balance, balance, paid, fees_drawn>>

accept_employer_transfer(new_employer, id) ==
    /\ pending_employer[id] = new_employer
    /\ SetStream(id, [streams[id] EXCEPT !.employer = new_employer])
    /\ pending_employer' = [pending_employer EXCEPT ![id] = None]
    /\ UNCHANGED <<pause_history, balance, paid>>

-----------------------------------------------------------------------------
(* The rest of the world.                                                  *)

\* Ledgers close with growing timestamps.
Tick ==
    /\ now < MaxTime
    /\ now' = now + 1
    /\ UNCHANGED <<stream_count, streams, pending_employer, pause_history,
                   index_vars, config_vars, fee_balance, balance, paid, fees_drawn>>

\* Any write of the configuration by the admin, governance or the multisig.
\* The recipient is only ever overwritten, never cleared.
ConfigStep ==
    /\ cfg' \in Configs
    /\ fee_recipient' \in FeeRecipients \cup {fee_recipient}
    /\ admin' \in Admins
    /\ allowed_tokens' \in AllowLists
    /\ UNCHANGED <<now, stream_count, streams, pending_employer, pause_history,
                   index_vars, fee_balance, balance, paid, fees_drawn>>

-----------------------------------------------------------------------------
Init ==
    /\ now = 1
    /\ stream_count = 0
    /\ streams = <<>> /\ pending_employer = <<>> /\ pause_history = <<>> /\ paid = <<>>
    /\ employer_streams = [a \in Accounts |-> <<>>]
    /\ employee_streams = [a \in Accounts |-> <<>>]
    /\ cfg \in Configs
    /\ fee_recipient \in FeeRecipients \cup {None}
    /\ admin \in Admins
    /\ allowed_tokens \in AllowLists
    /\ fee_balance = [t \in Tokens |-> 0]
    /\ fees_drawn = [t \in Tokens |-> 0]
    /\ balance = [t \in Tokens |-> [a \in Parties |->
                     IF a = Escrow THEN 0 ELSE InitialBalance[a]]]

CreateStep ==
    /\ stream_count < MaxStreams
    /\ \E e \in Accounts, p \in StreamParams :
          \/ \E c \in Cooldowns : create_stream(e, p, c)
          \/ \E q \in StreamParams : create_streams_batch(e, p, q)

PaymentStep ==
    \E a \in Accounts :
        \/ \E id \in Ids : withdraw(a, id)
        \/ \E t \in Tokens : \E amount \in 1..fee_balance[t] :
               withdraw_protocol_fees(a, t, amount)

ManageStep ==
    \E a \in Accounts, id \in Ids :
        \/ \E amount \in TopUps : top_up(a, id, amount)
        \/ pause_stream(a, id)
        \/ resume_stream(a, id)
        \/ cancel_stream(a, id)
        \/ reclaim_expired(a, id)

RateStep == \E a \in Accounts, id \in Ids, r \in Rates : update_rate(a, id, r)

QueryStep == \E id \in Ids : get_stream(id)

RoleStep ==
    \E a \in Accounts, id \in Ids :
        \/ \E new \in NewParties : transfer_stream(a, id, new)
        \/ \E d \in NewParties \cup {None} : set_delegate(a, id, d)
        \/ \E new \in NewParties : propose_employer_transfer(a, id, new)
        \/ accept_employer_transfer(a, id)

StreamStep == \/ CreateStep \/ PaymentStep \/ ManageStep
              \/ RateStep \/ QueryStep \/ RoleStep

Next == StreamStep \/ Tick \/ ConfigStep

Spec == Init /\ [][Next]_vars
-----------------------------------------------------------------------------
(* What must hold of every stream on its own.                              *)

\* Type invariant of the contract's storage and of the token balances.
TypeOK ==
    /\ now \in Nat
    /\ stream_count \in Nat
    /\ streams \in [Ids -> StreamRecord]
    /\ pending_employer \in [Ids -> Accounts \cup {None}]
    /\ pause_history \in [Ids -> Seq(PauseEvent)]
    /\ employer_streams \in [Accounts -> Seq(Nat)]
    /\ employee_streams \in [Accounts -> Seq(Nat)]
    /\ cfg \in Config
    /\ fee_recipient \in Accounts \cup {None}
    /\ admin \in Accounts
    /\ allowed_tokens \in SUBSET Tokens
    /\ fee_balance \in [Tokens -> Nat]
    /\ balance \in [Tokens -> [Parties -> Nat]]
    /\ paid \in [Ids -> Payouts]
    /\ fees_drawn \in [Tokens -> Nat]

\* Whatever interleaving of withdrawals, rate changes, top-ups, pauses and
\* settlements a stream goes through, the tokens it paid out (employee, fee
\* recipient, refund to the employer) never exceed what was deposited for it:
\* one stream cannot spend the escrow of another (withdraw, cancel_stream,
\* reclaim_expired).
NoOverpayment ==
    \A id \in Ids :
        paid[id].employee + paid[id].fee + paid[id].refund <= streams[id].deposit

\* total_withdrawn + claimable <= deposit at all times, and an employer is only
\* refunded when the stream ends, for no more than is then left
\* (invariant_tests.rs, invariant 1).
ClaimsCovered ==
    \A id \in Ids :
        LET s == streams[id]
        IN  /\ s.withdrawn + claimable_amount(s, now) + paid[id].refund <= s.deposit
            /\ paid[id].refund > 0 => is_terminal(s.status)

\* The accrual clock of a stream never runs ahead of the ledger nor falls
\* behind its creation, in spite of resume_stream moving it forward; while the
\* stream is paused it stays behind the pause, so that resuming cannot move it
\* past the present.
ClocksOrdered ==
    \A id \in Ids :
        LET s == streams[id]
        IN  /\ s.start_time <= s.last_withdraw_time
            /\ s.last_withdraw_time <= now
            /\ s.status = "Paused" => /\ s.last_withdraw_time <= s.paused_at
                                      /\ s.paused_at <= now

\* A cancelled stream has distributed its whole deposit, apart from what
\* update_rate or a fee without recipient counted as withdrawn (cancel_stream).
CancelSettles ==
    \A id \in Ids :
        streams[id].status = "Cancelled" =>
            streams[id].withdrawn + paid[id].refund = streams[id].deposit

\* Once a stream has ended (Cancelled or Exhausted) it never reopens, and no
\* call, repeated or delayed, moves another token on its account.
TerminalIsFinal ==
    [][\A id \in Ids :
          is_terminal(streams[id].status) =>
              /\ streams'[id].status = streams[id].status
              /\ streams'[id].deposit = streams[id].deposit
              /\ streams'[id].withdrawn = streams[id].withdrawn
              /\ paid'[id] = paid[id]]_vars

\* Only time earns: a step that does not advance the ledger never increases
\* what the employee has received plus what can still be claimed, other than a
\* top-up that lifts the deposit's cap; in particular pausing and resuming in
\* any order, at any moment, cannot be used to earn (resume_stream).
OnlyTimeEarns ==
    [][\A id \in Ids :
          now' = now =>
              \/ streams'[id].deposit > streams[id].deposit
              \/ streams'[id].withdrawn + claimable_amount(streams'[id], now)
                    <= streams[id].withdrawn + claimable_amount(streams[id], now)]_vars
=============================================================================
