------------------------------ MODULE Accrual -------------------------------
(***************************************************************************)
(* The arithmetic of a salary stream: what contracts/stream/src computes   *)
(* from one stream record and the ledger time, and the checks it makes     *)
(* before a record is created.  No state lives here.                       *)
(*                                                                         *)
(* Amounts and timestamps are naturals: validate_create_stream and         *)
(* validate_top_up only let positive amounts in, and MAX_RATE_PER_SECOND   *)
(* times a 64-bit number of seconds stays far below 2^127, so the checked  *)
(* 128-bit products of claimable_amount never panic.                       *)
(***************************************************************************)
EXTENDS Integers

CONSTANTS
    MAX_RATE_PER_SECOND,  \* validate.rs: largest rate, 10^9 in the code
    MAX_STREAM_DURATION,  \* validate.rs: longest stream, ten years in the code
    MIN_COVER_SECONDS,    \* validate.rs: seconds a deposit must cover, 60
    BPS_DENOMINATOR       \* basis points in the whole, 10 000 in the code

ASSUME AccrualAssumption ==
    /\ MAX_RATE_PER_SECOND \in Nat \ {0}
    /\ MAX_STREAM_DURATION \in Nat \ {0}
    /\ MIN_COVER_SECONDS \in Nat
    /\ BPS_DENOMINATOR \in Nat \ {0}

StreamStatus == {"Active", "Paused", "Cancelled", "Exhausted"}

\* Rust's saturating_sub on the unsigned timestamps, and
\* checked_sub(..).unwrap_or(0).max(0) on the amounts.
Monus(a, b) == IF a > b THEN a - b ELSE 0

Least(a, b) == IF a < b THEN a ELSE b

is_terminal(status) == status \in {"Cancelled", "Exhausted"}

is_valid_transition(from, to) ==
    <<from, to>> \in { <<"Active", "Paused">>, <<"Active", "Cancelled">>,
                       <<"Active", "Exhausted">>, <<"Paused", "Active">>,
                       <<"Paused", "Cancelled">> }

-----------------------------------------------------------------------------
\* Mutant: the hard stop is forgotten.
EffectiveEnd_unstopped(s, now) == now

\* Seconds of accrual end at the hard stop, when there is one.
EffectiveEnd(s, now) ==
    IF s.stop_time > 0 /\ now > s.stop_time THEN s.stop_time ELSE now

\* Mutant: the time already paid for is paid again.
Elapsed_fromStart(s, now) == Monus(EffectiveEnd(s, now), s.start_time)

Elapsed(s, now) == Monus(EffectiveEnd(s, now), s.last_withdraw_time)

Remaining(s) == Monus(s.deposit, s.withdrawn)

BeforeCliff(s, now) == s.cliff_time > 0 /\ now < s.cliff_time

\* Mutant: a stream that has ended keeps accruing.
claimable_amount_ended(s, now) ==
    IF BeforeCliff(s, now) THEN 0
    ELSE Least(Elapsed(s, now) * s.rate_per_second, Remaining(s))

\* Tokens the employee may claim at ledger time now.  A Paused stream is not
\* told apart from an Active one.
claimable_amount(s, now) ==
    IF is_terminal(s.status) \/ BeforeCliff(s, now)
    THEN 0
    ELSE Least(Elapsed(s, now) * s.rate_per_second, Remaining(s))

FeeOn(amount, fee_bps) == (amount * fee_bps) \div BPS_DENOMINATOR

\* The checks of a creation request p at time now.
validate_create_stream(p, min_deposit, now, employer) ==
    /\ p.deposit > 0
    /\ p.deposit >= min_deposit
    /\ p.rate_per_second > 0
    /\ p.rate_per_second <= MAX_RATE_PER_SECOND
    /\ p.deposit >= p.rate_per_second * MIN_COVER_SECONDS
    /\ p.deposit \div p.rate_per_second <= MAX_STREAM_DURATION
    /\ p.stop_time > 0 => /\ p.stop_time > now
                          /\ p.stop_time - now <= MAX_STREAM_DURATION
    /\ (p.cliff_time > 0 /\ p.stop_time > 0) => p.cliff_time <= p.stop_time
    /\ employer # p.employee
=============================================================================
