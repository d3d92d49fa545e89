------------------------- MODULE StreamMoneyProofs --------------------------
(***************************************************************************)
(* Proofs about the money of the streams, for any rates, deposits, times,  *)
(* accounts and tokens and any sequence of calls.                          *)
(*                                                                         *)
(* The first part is about single streams beyond one state: what a call    *)
(* may do to a stream (an ended stream is final, and only time earns), and *)
(* what a stream pays over its life, which follows its meter               *)
(* (AccrualAudit).  Legal says what one call may do to one stream; every   *)
(* entry point is shown to do only that.  Follows relates one stream to    *)
(* its meter; every entry point and the passing of time keep it.  Booked   *)
(* relates its pause history to the meter, and the payroll report, which   *)
(* is computed from the history alone, adds up to the meter because the    *)
(* seconds paused in adjacent periods add up.                              *)
(*                                                                         *)
(* The second part is about all streams together: the accounting           *)
(* identities of EscrowAccounting.  A call touches one stream, adds one or *)
(* two, or draws fees; Moved says for the first kind that the escrow and   *)
(* the fee ledger of its token change by what its record says, and the     *)
(* sums over all streams follow.                                           *)
(***************************************************************************)
EXTENDS AccrualAudit, EscrowAccounting, StreamContractProofs, SumTheorems

-----------------------------------------------------------------------------
(* One stream.                                                             *)

Worth(s, t) == s.withdrawn + claimable_amount(s, t)

\* A call at time t may turn stream s with payouts p into s2 with p2.
Legal(s, p, s2, p2, t) ==
    /\ is_terminal(s.status) => /\ s2.status = s.status
                                /\ s2.deposit = s.deposit
                                /\ s2.withdrawn = s.withdrawn
                                /\ p2 = p
    /\ s2.deposit > s.deposit \/ Worth(s2, t) <= Worth(s, t)

AllLegal == \A id \in Ids : Legal(streams[id], paid[id], streams'[id], paid'[id], now)

-----------------------------------------------------------------------------
\* Leaving a stream alone is legal.
LEMMA SameIsLegal ==
    ASSUME StreamsOK, NEW i \in Ids, streams'[i] = streams[i], paid'[i] = paid[i]
    PROVE  Legal(streams[i], paid[i], streams'[i], paid'[i], now)
<1>1. Worth(streams[i], now) \in Nat
  BY StreamFacts DEF Worth, StreamRecord
<1> QED
  BY <1>1 DEF Legal

\* A call that replaces one stream legally is legal for all.
LEMMA OneIsLegal ==
    ASSUME StreamsOK, NEW id \in Ids, NEW s, NEW p, Legal(streams[id], paid[id], s, p, now),
           streams' = [streams EXCEPT ![id] = s], paid' = [paid EXCEPT ![id] = p]
    PROVE  AllLegal
<1> SUFFICES ASSUME NEW i \in Ids
             PROVE  Legal(streams[i], paid[i], streams'[i], paid'[i], now)
  BY DEF AllLegal
<1>1. CASE i = id
  BY <1>1 DEF StreamsOK
<1>2. CASE i # id
  <2>1. streams'[i] = streams[i] /\ paid'[i] = paid[i]
    BY <1>2 DEF StreamsOK
  <2> QED
    BY <2>1, SameIsLegal
<1> QED
  BY <1>1, <1>2

\* The same when the payouts stay as they are.
LEMMA OneStreamIsLegal ==
    ASSUME StreamsOK, NEW id \in Ids, NEW s, Legal(streams[id], paid[id], s, paid[id], now),
           streams' = [streams EXCEPT ![id] = s], paid' = paid
    PROVE  AllLegal
<1>1. paid' = [paid EXCEPT ![id] = paid[id]]
  BY DEF StreamsOK
<1> QED
  BY <1>1, OneIsLegal

\* Nothing can be claimed of a stream whose clock stands at the present.
LEMMA NothingAtPresent ==
    ASSUME NEW s \in StreamRecord, NEW t \in Nat, s.last_withdraw_time = t
    PROVE  claimable_amount(s, t) = 0
<1>1. /\ s.withdrawn \in Nat /\ s.deposit \in Nat /\ s.rate_per_second \in Nat
      /\ s.stop_time \in Nat
  BY DEF StreamRecord
<1>2. Elapsed(s, t) = 0
  BY <1>1 DEF Elapsed, Monus, EffectiveEnd
<1>3. Elapsed(s, t) * s.rate_per_second = 0
  BY <1>1, <1>2
<1>4. Remaining(s) \in Nat
  BY <1>1 DEF Remaining, Monus
<1> QED
  BY <1>3, <1>4 DEF claimable_amount, Least

\* Moving the clock forward never lets the employee claim more.
LEMMA LaterClockClaimsLess ==
    ASSUME NEW s \in StreamRecord, NEW r \in StreamRecord, NEW t \in Nat,
           ~is_terminal(s.status), s.last_withdraw_time <= r.last_withdraw_time,
           r.stop_time = s.stop_time, r.cliff_time = s.cliff_time, r.deposit = s.deposit,
           r.withdrawn = s.withdrawn, r.rate_per_second = s.rate_per_second
    PROVE  claimable_amount(r, t) <= claimable_amount(s, t)
<1>1. /\ s.withdrawn \in Nat /\ s.deposit \in Nat /\ s.rate_per_second \in Nat
      /\ s.stop_time \in Nat /\ s.last_withdraw_time \in Nat /\ r.last_withdraw_time \in Nat
      /\ s.cliff_time \in Nat
  BY DEF StreamRecord
<1> DEFINE a == Elapsed(r, t)
           b == Elapsed(s, t)
           k == s.rate_per_second
<1>2. a \in Nat /\ b \in Nat /\ a <= b
  BY <1>1 DEF Elapsed, Monus, EffectiveEnd
<1>3. a * k \in Nat /\ b * k \in Nat /\ a * k <= b * k
  <2> HIDE DEF a, b
  <2>1. a * k \in Nat /\ b * k \in Nat
    BY <1>1, <1>2, ProductNat
  <2>2. PICK d \in Nat : b = a + d
    <3>1. b - a \in Nat /\ b = a + (b - a)
      BY <1>2
    <3> QED
      BY <3>1
  <2>3. d * k \in Nat /\ b * k = a * k + d * k
    BY <1>1, <1>2, <2>2, ProductNat
  <2> QED
    BY <2>1, <2>3
<1>4. Remaining(r) = Remaining(s) /\ Remaining(s) \in Nat
  BY <1>1 DEF Remaining, Monus
<1>5. Least(a * k, Remaining(s)) <= Least(b * k, Remaining(s)) /\ Least(b * k, Remaining(s)) \in Nat
  <2> DEFINE x == a * k
             y == b * k
  <2>1. x \in Nat /\ y \in Nat /\ x <= y
    BY <1>3
  <2> HIDE DEF x, y
  <2>2. Least(x, Remaining(s)) <= Least(y, Remaining(s)) /\ Least(y, Remaining(s)) \in Nat
    BY <1>4, <2>1 DEF Least
  <2> QED
    BY <2>2 DEF x, y
<1>6. /\ claimable_amount(s, t) = IF BeforeCliff(s, t) THEN 0 ELSE Least(b * k, Remaining(s))
      /\ claimable_amount(r, t) = 0 \/ claimable_amount(r, t) = Least(a * k, Remaining(s))
      /\ BeforeCliff(s, t) => claimable_amount(r, t) = 0
  BY <1>4 DEF claimable_amount, BeforeCliff
<1> HIDE DEF a, b, k
<1> QED
  BY <1>5, <1>6

-----------------------------------------------------------------------------
(* One lemma per shape of call.                                            *)

\* Creations leave the streams that exist alone.
LEMMA CreateLegal ==
    ASSUME IInv, CreateStep
    PROVE  AllLegal
<1>1. stream_count \in Nat
  BY DEF IInv, StreamsOK
<1>2. PICK n \in {1, 2} : \E new :
         /\ streams' = [i \in 1..(stream_count + n) |->
               IF i <= stream_count THEN streams[i] ELSE new[i]]
         /\ paid' = [i \in 1..(stream_count + n) |->
               IF i <= stream_count THEN paid[i] ELSE NoPayouts]
  <2>1. ASSUME NEW e \in Accounts, NEW p \in StreamParams, NEW c \in Cooldowns,
               create_stream(e, p, c)
        PROVE  /\ streams' = [i \in 1..(stream_count + 1) |->
                     IF i <= stream_count THEN streams[i] ELSE streams'[i]]
               /\ paid' = [i \in 1..(stream_count + 1) |->
                     IF i <= stream_count THEN paid[i] ELSE NoPayouts]
    BY <1>1, <2>1 DEF create_stream, AddStreams, Extended
  <2>2. ASSUME NEW e \in Accounts, NEW p \in StreamParams, NEW q \in StreamParams,
               create_streams_batch(e, p, q)
        PROVE  /\ streams' = [i \in 1..(stream_count + 2) |->
                     IF i <= stream_count THEN streams[i] ELSE streams'[i]]
               /\ paid' = [i \in 1..(stream_count + 2) |->
                     IF i <= stream_count THEN paid[i] ELSE NoPayouts]
    BY <1>1, <2>2 DEF create_streams_batch, AddStreams, Extended
  <2> QED
    BY <2>1, <2>2 DEF CreateStep
<1>3. ASSUME NEW i \in Ids PROVE streams'[i] = streams[i] /\ paid'[i] = paid[i]
  <2>1. i \in 1..(stream_count + n) /\ i <= stream_count
    BY <1>1 DEF Ids
  <2> QED
    BY <1>2, <2>1
<1> QED
  BY <1>3, SameIsLegal DEF AllLegal, IInv

LEMMA WithdrawLegal ==
    ASSUME IInv, NEW employee \in Accounts, NEW id \in Ids, withdraw(employee, id)
    PROVE  AllLegal
<1> DEFINE s     == streams[id]
           gross == claimable_amount(s, now)
           w     == s.withdrawn + gross
           s2    == [s EXCEPT !.withdrawn = w, !.last_withdraw_time = now,
                              !.status = IF w >= s.deposit THEN "Exhausted" ELSE @]
<1>1. /\ s \in StreamRecord /\ paid[id] \in Payouts /\ gross \in Nat
      /\ gross > 0 /\ now \in Nat
  BY StreamFacts DEF IInv, StreamsOK, withdraw
<1>2. ~is_terminal(s.status)
  BY <1>1 DEF claimable_amount
<1>3. streams' = [streams EXCEPT ![id] = s2] /\ \E p : paid' = [paid EXCEPT ![id] = p]
  BY DEF withdraw
<1>4. s2 \in StreamRecord /\ s2.last_withdraw_time = now /\ s2.withdrawn = w /\ w \in Nat
  <2> HIDE DEF gross, s
  <2>1. w \in Nat
    BY <1>1 DEF StreamRecord
  <2> HIDE DEF w
  <2> QED
    BY <1>1, <2>1 DEF StreamRecord, StreamStatus
<1>5. Worth(s2, now) <= Worth(s, now)
  <2>1. claimable_amount(s2, now) = 0
    BY <1>1, <1>4, NothingAtPresent
  <2>2. Worth(s, now) = w
    BY DEF Worth
  <2>3. Worth(s2, now) = w + 0
    BY <1>4, <2>1 DEF Worth
  <2> HIDE DEF w
  <2> QED
    BY <1>4, <2>2, <2>3
<1> HIDE DEF s2, w, gross
<1> QED
  BY <1>2, <1>3, <1>5, OneIsLegal DEF Legal, IInv

LEMMA SettleLegal ==
    ASSUME IInv, NEW employer \in Accounts, NEW id \in Ids,
           NEW final \in {"Cancelled", "Exhausted"}, Settle(employer, id, final)
    PROVE  AllLegal
<1> DEFINE s  == streams[id]
           w  == s.withdrawn + claimable_amount(s, now)
           s2 == [s EXCEPT !.withdrawn = w, !.status = final]
<1>1. s \in StreamRecord /\ claimable_amount(s, now) \in Nat /\ ~is_terminal(s.status)
  BY StreamFacts DEF IInv, Settle, is_terminal
<1>2. streams' = [streams EXCEPT ![id] = s2] /\ \E p : paid' = [paid EXCEPT ![id] = p]
  BY DEF Settle, SetStream
<1>3. w \in Nat
  BY <1>1 DEF StreamRecord
<1>4. Worth(s2, now) <= Worth(s, now)
  <2>1. s2.withdrawn = w /\ s2.status = final
    BY <1>1 DEF StreamRecord
  <2>2. claimable_amount(s2, now) = 0
    BY <2>1 DEF claimable_amount, is_terminal
  <2>3. Worth(s, now) = w /\ Worth(s2, now) = w + 0
    BY <2>1, <2>2 DEF Worth
  <2> HIDE DEF w
  <2> QED
    BY <1>3, <2>3
<1> HIDE DEF s2, w
<1> QED
  BY <1>1, <1>2, <1>4, OneIsLegal DEF Legal, IInv

LEMMA UpdateRateLegal ==
    ASSUME IInv, NEW employer \in Accounts, NEW id \in Ids, NEW new_rate \in Rates,
           update_rate(employer, id, new_rate)
    PROVE  AllLegal
<1> DEFINE s  == streams[id]
           w  == s.withdrawn + claimable_amount(s, now)
           s2 == [s EXCEPT !.withdrawn = w, !.last_withdraw_time = now,
                           !.rate_per_second = new_rate]
<1>1. /\ s \in StreamRecord /\ claimable_amount(s, now) \in Nat /\ now \in Nat
      /\ new_rate \in Nat /\ ~is_terminal(s.status)
  BY StreamFacts, ContractAssumption DEF IInv, StreamsOK, update_rate, is_terminal
<1>2. streams' = [streams EXCEPT ![id] = s2] /\ \E p : paid' = [paid EXCEPT ![id] = p]
  BY DEF update_rate, SetStream
<1>3. w \in Nat
  BY <1>1 DEF StreamRecord
<1>4. Worth(s2, now) <= Worth(s, now)
  <2>1. Worth(s, now) = w
    BY DEF Worth
  <2> HIDE DEF w
  <2>2. s2 \in StreamRecord /\ s2.withdrawn = w /\ s2.last_withdraw_time = now
    BY <1>1, <1>3 DEF StreamRecord
  <2>3. Worth(s2, now) = w + 0
    BY <1>1, <2>2, NothingAtPresent DEF Worth
  <2> QED
    BY <1>3, <2>1, <2>3
<1> HIDE DEF s2, w
<1> QED
  BY <1>1, <1>2, <1>4, OneIsLegal DEF Legal, IInv

\* top_up, pause_stream and resume_stream: an open stream, no payout.  A resumed
\* stream's clock has moved forward.
LEMMA ManageLegal ==
    ASSUME IInv, NEW a \in Accounts, NEW id \in Ids,
           \/ \E amount \in TopUps : top_up(a, id, amount)
           \/ pause_stream(a, id)
           \/ resume_stream(a, id)
    PROVE  AllLegal
<1> DEFINE s == streams[id]
<1>1. s \in StreamRecord /\ claimable_amount(s, now) \in Nat /\ now \in Nat
  BY StreamFacts DEF IInv, StreamsOK
<1>2. ASSUME NEW amount \in TopUps, top_up(a, id, amount) PROVE AllLegal
  <2> DEFINE s2 == [s EXCEPT !.deposit = @ + amount]
  <2>1. amount \in Nat /\ amount > 0 /\ ~is_terminal(s.status)
    BY <1>2, ContractAssumption DEF top_up, CanTransfer
  <2>2. s2.deposit > s.deposit
    BY <1>1, <2>1 DEF StreamRecord
  <2>3. streams' = [streams EXCEPT ![id] = s2] /\ paid' = paid
    BY <1>2 DEF top_up, SetStream
  <2> HIDE DEF s2
  <2> QED
    BY <2>1, <2>2, <2>3, OneStreamIsLegal DEF Legal, IInv
<1>3. ASSUME pause_stream(a, id) PROVE AllLegal
  <2> DEFINE s2 == [s EXCEPT !.paused_at = now, !.status = "Paused"]
  <2>1. ~is_terminal(s.status) /\ s2 \in StreamRecord
    BY <1>1, <1>3 DEF pause_stream, is_terminal, StreamRecord, StreamStatus
  <2>2. claimable_amount(s2, now) <= claimable_amount(s, now) /\ s2.withdrawn = s.withdrawn
    <3>1. /\ s2.last_withdraw_time = s.last_withdraw_time /\ s.last_withdraw_time \in Nat
          /\ s2.stop_time = s.stop_time /\ s2.cliff_time = s.cliff_time
          /\ s2.deposit = s.deposit /\ s2.withdrawn = s.withdrawn
          /\ s2.rate_per_second = s.rate_per_second
      BY <1>1 DEF StreamRecord
    <3>2. s.last_withdraw_time <= s2.last_withdraw_time
      BY <3>1
    <3> HIDE DEF s2, s
    <3> QED
      BY <1>1, <2>1, <3>1, <3>2, LaterClockClaimsLess
  <2>3. claimable_amount(s2, now) \in Nat
    BY <1>1, <2>1, ClaimableBounded
  <2>4. Worth(s2, now) <= Worth(s, now)
    BY <1>1, <2>2, <2>3 DEF Worth, StreamRecord
  <2>5. streams' = [streams EXCEPT ![id] = s2] /\ paid' = paid
    BY <1>3 DEF pause_stream, SetStream
  <2> HIDE DEF s2
  <2> QED
    BY <2>1, <2>4, <2>5, OneStreamIsLegal DEF Legal, IInv
<1>4. ASSUME resume_stream(a, id) PROVE AllLegal
  <2> DEFINE t  == s.last_withdraw_time + Monus(now, s.paused_at)
             s2 == [s EXCEPT !.last_withdraw_time = t, !.paused_at = 0, !.status = "Active"]
  <2>1. ~is_terminal(s.status)
    BY <1>4 DEF resume_stream, is_terminal
  <2>2. t \in Nat /\ s.last_withdraw_time <= t
    BY <1>1 DEF StreamRecord, Monus
  <2>3. streams' = [streams EXCEPT ![id] = s2] /\ paid' = paid
    BY <1>4 DEF resume_stream, SetStream, PausedFor
  <2> HIDE DEF t
  <2>4. s2 \in StreamRecord /\ s2.last_withdraw_time = t /\ s2.withdrawn = s.withdrawn
    BY <1>1, <2>2 DEF StreamRecord, StreamStatus
  <2>5. claimable_amount(s2, now) <= claimable_amount(s, now)
    BY <1>1, <2>1, <2>2, <2>4, LaterClockClaimsLess DEF StreamRecord
  <2>6. claimable_amount(s2, now) \in Nat
    BY <1>1, <2>4, ClaimableBounded
  <2>7. Worth(s2, now) <= Worth(s, now)
    <3> HIDE DEF s2
    <3> QED
      BY <1>1, <2>4, <2>5, <2>6 DEF Worth, StreamRecord
  <2> HIDE DEF s2
  <2> QED
    BY <2>1, <2>3, <2>7, OneStreamIsLegal DEF Legal, IInv
<1> QED
  BY <1>2, <1>3, <1>4

LEMMA GetStreamLegal ==
    ASSUME IInv, NEW id \in Ids, get_stream(id)
    PROVE  AllLegal
<1> DEFINE s  == streams[id]
           s2 == [s EXCEPT !.status = "Exhausted"]
<1>1. s \in StreamRecord /\ claimable_amount(s, now) \in Nat /\ ~is_terminal(s.status)
  BY StreamFacts DEF IInv, get_stream, is_terminal
<1>2. s2.withdrawn = s.withdrawn /\ claimable_amount(s2, now) = 0
  BY <1>1 DEF StreamRecord, claimable_amount, is_terminal
<1>3. Worth(s2, now) <= Worth(s, now)
  <2> HIDE DEF s2
  <2> QED
    BY <1>1, <1>2 DEF Worth, StreamRecord
<1>4. streams' = [streams EXCEPT ![id] = s2] /\ paid' = paid
  BY DEF get_stream, SetStream
<1> HIDE DEF s2
<1> QED
  BY <1>1, <1>3, <1>4, OneStreamIsLegal DEF Legal, IInv

\* Handing over a role touches nothing that Legal speaks of.
LEMMA RoleLegal ==
    ASSUME IInv, RoleStep
    PROVE  AllLegal
<1>1. PICK a \in Accounts, id \in Ids :
          \/ \E new \in NewParties : transfer_stream(a, id, new)
          \/ \E d \in NewParties \cup {None} : set_delegate(a, id, d)
          \/ \E new \in NewParties : propose_employer_transfer(a, id, new)
          \/ accept_employer_transfer(a, id)
  BY DEF RoleStep
<1>2. streams[id] \in StreamRecord /\ claimable_amount(streams[id], now) \in Nat
  BY StreamFacts DEF IInv
<1>3. ASSUME NEW x, NEW s2 \in { [streams[id] EXCEPT !.employee = x],
                                 [streams[id] EXCEPT !.employer = x],
                                 [streams[id] EXCEPT !.delegate = x] }
      PROVE  Legal(streams[id], paid[id], s2, paid[id], now)
  <2>1. /\ s2.status = streams[id].status /\ s2.deposit = streams[id].deposit
        /\ s2.withdrawn = streams[id].withdrawn /\ s2.stop_time = streams[id].stop_time
        /\ s2.cliff_time = streams[id].cliff_time
        /\ s2.last_withdraw_time = streams[id].last_withdraw_time
        /\ s2.rate_per_second = streams[id].rate_per_second
    BY <1>2, <1>3 DEF StreamRecord
  <2>2. Worth(s2, now) = Worth(streams[id], now)
    BY <2>1 DEF Worth, claimable_amount, Elapsed, EffectiveEnd, Remaining, BeforeCliff
  <2>3. Worth(streams[id], now) \in Nat
    BY <1>2 DEF Worth, StreamRecord
  <2> QED
    BY <2>1, <2>2, <2>3 DEF Legal
<1>4. ASSUME NEW new \in NewParties, transfer_stream(a, id, new) PROVE AllLegal
  BY <1>3, <1>4, OneStreamIsLegal DEF transfer_stream, SetStream, IInv
<1>5. ASSUME NEW d \in NewParties \cup {None}, set_delegate(a, id, d) PROVE AllLegal
  BY <1>3, <1>5, OneStreamIsLegal DEF set_delegate, SetStream, IInv
<1>6. ASSUME NEW new \in NewParties, propose_employer_transfer(a, id, new) PROVE AllLegal
  BY <1>6, SameIsLegal DEF propose_employer_transfer, AllLegal, IInv
<1>7. ASSUME accept_employer_transfer(a, id) PROVE AllLegal
  BY <1>3, <1>7, OneStreamIsLegal DEF accept_employer_transfer, SetStream, IInv
<1> QED
  BY <1>1, <1>4, <1>5, <1>6, <1>7

-----------------------------------------------------------------------------
\* Every call is legal for every stream; only the clock steps outside.
LEMMA CallsAreLegal ==
    ASSUME IInv, [Next]_vars
    PROVE  AllLegal \/ Tick
<1>1. CASE CreateStep
  BY <1>1, CreateLegal
<1>2. CASE PaymentStep
  <2>1. ASSUME NEW c \in Accounts, NEW t \in Tokens, NEW amount \in 1..fee_balance[t],
               withdraw_protocol_fees(c, t, amount)
        PROVE  AllLegal
    BY <2>1, SameIsLegal DEF withdraw_protocol_fees, AllLegal, IInv
  <2> QED
    BY <1>2, <2>1, WithdrawLegal DEF PaymentStep
<1>3. CASE ManageStep
  BY <1>3, ManageLegal, SettleLegal DEF ManageStep, cancel_stream, reclaim_expired
<1>4. CASE RateStep
  BY <1>4, UpdateRateLegal DEF RateStep
<1>5. CASE QueryStep
  BY <1>5, GetStreamLegal DEF QueryStep
<1>6. CASE RoleStep
  BY <1>6, RoleLegal
<1>7. CASE ConfigStep
  BY <1>7, SameIsLegal DEF ConfigStep, AllLegal, IInv
<1>8. CASE UNCHANGED vars
  BY <1>8, SameIsLegal DEF vars, AllLegal, IInv
<1> QED
  BY <1>1, <1>2, <1>3, <1>4, <1>5, <1>6, <1>7, <1>8 DEF Next, StreamStep

\* An ended stream never reopens and never moves another token, for any number
\* of streams, accounts and tokens (state_machine.rs, require_not_terminal and
\* the status checks of every entry point).
THEOREM EndedStreamsAreFinal == Spec => TerminalIsFinal
<1>1. IInv /\ [Next]_vars =>
        [\A id \in Ids : is_terminal(streams[id].status) =>
              /\ streams'[id].status = streams[id].status
              /\ streams'[id].deposit = streams[id].deposit
              /\ streams'[id].withdrawn = streams[id].withdrawn
              /\ paid'[id] = paid[id]]_vars
  BY CallsAreLegal DEF AllLegal, Legal, Tick
<1> QED
  BY <1>1, Invariance, PTL DEF Spec, TerminalIsFinal

\* No call earns: what a stream has paid and lets the employee claim grows only
\* with the ledger's time or with a top-up (withdraw, update_rate,
\* pause_stream, resume_stream, and every other entry point).
THEOREM CallsNeverEarn == Spec => OnlyTimeEarns
<1>1. IInv /\ [Next]_vars =>
        [\A id \in Ids : now' = now =>
              \/ streams'[id].deposit > streams[id].deposit
              \/ streams'[id].withdrawn + claimable_amount(streams'[id], now)
                    <= streams[id].withdrawn + claimable_amount(streams[id], now)]_vars
  <2> SUFFICES ASSUME IInv, [Next]_vars, now' = now, NEW id \in Ids
               PROVE  \/ streams'[id].deposit > streams[id].deposit
                      \/ streams'[id].withdrawn + claimable_amount(streams'[id], now)
                            <= streams[id].withdrawn + claimable_amount(streams[id], now)
    OBVIOUS
  <2>1. ~Tick
    BY DEF Tick, IInv, StreamsOK
  <2> QED
    BY <2>1, CallsAreLegal DEF AllLegal, Legal, Worth
<1> QED
  BY <1>1, Invariance, PTL DEF Spec, OnlyTimeEarns

-----------------------------------------------------------------------------
\* The time up to which a stream accrues: a Paused stream stands still.
Clock(s, t) == IF s.status = "Paused" THEN s.paused_at ELSE t

\* What a stream has counted as withdrawn, and what its clocks add to it.
Counted(s, t) == s.withdrawn + Elapsed(s, Clock(s, t)) * s.rate_per_second

\* Whether history h shows a resumption after the stop of s.
LateResume(s, h) ==
    /\ s.stop_time > 0
    /\ \E i \in 1..Len(h) : ~h[i].is_pause /\ h[i].timestamp > s.stop_time

\* The history h of a Paused stream ends with its pause.
Standing(s, h) ==
    s.status = "Paused" =>
        Len(h) > 0 /\ h[Len(h)].is_pause /\ h[Len(h)].timestamp = s.paused_at

\* One stream s with history h and meter m at time t; changed says whether its
\* rate was ever updated.
Follows(s, h, m, changed, t) ==
    /\ m \in Nat
    /\ Standing(s, h)
    /\ ~is_terminal(s.status) =>
          /\ Counted(s, t) <= m
          /\ ~changed /\ ~LateResume(s, h) => Counted(s, t) = m

MeterOK ==
    \A id \in Ids : Follows(streams[id], pause_history[id], metered[id], id \in rerated, now)

AInv == IInv /\ MeterOK

-----------------------------------------------------------------------------
(* Arithmetic.                                                             *)

\* One more second earns the rate once more.
LEMMA OneMoreSecond ==
    ASSUME NEW e \in Nat, NEW r \in Nat
    PROVE  (e + 1) * r = e * r + r
OBVIOUS

\* No seconds earn nothing.
LEMMA NoSeconds ==
    ASSUME NEW r \in Nat
    PROVE  0 * r = 0
OBVIOUS

\* Fewer seconds earn no more.
LEMMA FewerSeconds ==
    ASSUME NEW e \in Nat, NEW f \in Nat, NEW r \in Nat, e <= f
    PROVE  e * r <= f * r
<1>1. PICK d \in Nat : f = e + d
  <2>1. f - e \in Nat /\ f = e + (f - e)
    OBVIOUS
  <2> QED
    BY <2>1
<1>2. (e + d) * r = e * r + d * r
  OBVIOUS
<1>3. d * r \in Nat /\ e * r \in Nat
  BY ProductNat
<1> QED
  BY <1>1, <1>2, <1>3

\* The fields the meter depends on are naturals.
LEMMA RecordNats ==
    ASSUME NEW s \in StreamRecord, NEW t \in Nat
    PROVE  /\ s.withdrawn \in Nat /\ s.deposit \in Nat /\ s.rate_per_second \in Nat
           /\ s.stop_time \in Nat /\ s.last_withdraw_time \in Nat /\ s.paused_at \in Nat
           /\ s.status \in StreamStatus
           /\ EffectiveEnd(s, t) \in Nat /\ EffectiveEnd(s, t) <= t
           /\ Elapsed(s, t) \in Nat
           /\ Elapsed(s, t) * s.rate_per_second \in Nat
<1>1. /\ s.withdrawn \in Nat /\ s.deposit \in Nat /\ s.rate_per_second \in Nat
      /\ s.stop_time \in Nat /\ s.last_withdraw_time \in Nat /\ s.paused_at \in Nat
      /\ s.status \in StreamStatus
  BY DEF StreamRecord
<1>2. EffectiveEnd(s, t) \in Nat /\ EffectiveEnd(s, t) <= t
  BY <1>1 DEF EffectiveEnd
<1>3. Elapsed(s, t) \in Nat
  BY <1>1, <1>2 DEF Elapsed, Monus
<1> QED
  BY <1>1, <1>2, <1>3, ProductNat

\* A claim is at most what the clock says, and exactly that when it does not
\* use up the deposit.
LEMMA ClaimByClock ==
    ASSUME NEW s \in StreamRecord, NEW t \in Nat, s.withdrawn <= s.deposit
    PROVE  LET x == Elapsed(s, t) * s.rate_per_second
               c == claimable_amount(s, t)
           IN  /\ c \in Nat /\ c <= x
               /\ c > 0 /\ s.withdrawn + c < s.deposit => c = x
               /\ ~is_terminal(s.status) /\ ~BeforeCliff(s, t) => s.withdrawn + c = Least(s.withdrawn + x, s.deposit)
<1> DEFINE x == Elapsed(s, t) * s.rate_per_second
           c == claimable_amount(s, t)
<1>1. x \in Nat /\ s.withdrawn \in Nat /\ s.deposit \in Nat
  BY RecordNats
<1>2. c = 0 \/ c = Least(x, Remaining(s))
  BY DEF claimable_amount
<1>3. ~is_terminal(s.status) /\ ~BeforeCliff(s, t) => c = Least(x, Remaining(s))
  BY DEF claimable_amount
<1>4. Remaining(s) = s.deposit - s.withdrawn
  BY <1>1 DEF Remaining, Monus
<1> HIDE DEF x, c
<1>5. /\ c \in Nat /\ c <= x
      /\ c > 0 /\ s.withdrawn + c < s.deposit => c = x
  BY <1>1, <1>2, <1>4 DEF Least
<1>6. ~is_terminal(s.status) /\ ~BeforeCliff(s, t) => s.withdrawn + c = Least(s.withdrawn + x, s.deposit)
  BY <1>1, <1>3, <1>4 DEF Least
<1> QED
  BY <1>5, <1>6 DEF x, c

-----------------------------------------------------------------------------
(* What the calls do to one stream.                                        *)

\* A record whose clocks are not touched follows its meter as before.
LEMMA SameClocks ==
    ASSUME NEW s, NEW s2, NEW h, NEW m, NEW c, NEW t, Follows(s, h, m, c, t),
           s2.withdrawn = s.withdrawn, s2.rate_per_second = s.rate_per_second,
           s2.stop_time = s.stop_time, s2.last_withdraw_time = s.last_withdraw_time,
           s2.paused_at = s.paused_at, s2.status = s.status
    PROVE  Follows(s2, h, m, c, t)
BY DEF Follows, Standing, Counted, Clock, Elapsed, EffectiveEnd, LateResume

\* A stream that has ended is no longer compared.
LEMMA EndedFollows ==
    ASSUME NEW s, NEW s2, NEW h, NEW m, NEW c, NEW t, Follows(s, h, m, c, t),
           s2.status \in {"Cancelled", "Exhausted"}
    PROVE  Follows(s2, h, m, c, t)
BY DEF Follows, Standing, is_terminal

\* A clock set to the present counts nothing beyond what was withdrawn.
LEMMA ClockReset ==
    ASSUME NEW s \in StreamRecord, NEW t \in Nat, s.last_withdraw_time = t, s.status # "Paused"
    PROVE  Counted(s, t) = s.withdrawn
<1>1. Elapsed(s, t) = 0 /\ s.withdrawn \in Nat /\ s.rate_per_second \in Nat
  BY RecordNats DEF Elapsed, Monus
<1>2. Clock(s, t) = t
  BY DEF Clock
<1> QED
  BY <1>1, <1>2, NoSeconds DEF Counted

\* An appended pause event keeps late resumptions late.
LEMMA LateStays ==
    ASSUME NEW s, NEW s2, NEW h \in Seq(PauseEvent), NEW e \in PauseEvent,
           s2.stop_time = s.stop_time
    PROVE  /\ LateResume(s, h) => LateResume(s2, Append(h, e))
           /\ s.stop_time > 0 /\ ~e.is_pause /\ e.timestamp > s.stop_time => LateResume(s2, Append(h, e))
<1> DEFINE g == Append(h, e)
<1>1. /\ Len(g) = Len(h) + 1 /\ Len(h) \in Nat /\ g[Len(h) + 1] = e
      /\ \A i \in 1..Len(h) : g[i] = h[i]
  OBVIOUS
<1> HIDE DEF g
<1>2. LateResume(s, h) => LateResume(s2, g)
  <2> SUFFICES ASSUME LateResume(s, h) PROVE LateResume(s2, g)
    OBVIOUS
  <2>1. PICK i \in 1..Len(h) : ~h[i].is_pause /\ h[i].timestamp > s.stop_time
    BY DEF LateResume
  <2>2. i \in 1..Len(g) /\ g[i] = h[i]
    BY <1>1
  <2> QED
    BY <2>1, <2>2 DEF LateResume
<1>3. s.stop_time > 0 /\ ~e.is_pause /\ e.timestamp > s.stop_time => LateResume(s2, g)
  <2>1. Len(h) + 1 \in 1..Len(g)
    BY <1>1
  <2> QED
    BY <1>1, <2>1 DEF LateResume
<1> QED
  BY <1>2, <1>3 DEF g

\* A stream that is not paused was last withdrawn from by now (from IInv).
Sound(s, t) ==
    /\ s.withdrawn <= s.deposit
    /\ s.last_withdraw_time <= t
    /\ s.status = "Paused" => s.last_withdraw_time <= s.paused_at /\ s.paused_at <= t

\* withdraw, on the record.
LEMMA WithdrawFollows ==
    ASSUME NEW s \in StreamRecord, NEW s2 \in StreamRecord, NEW h, NEW m, NEW c \in BOOLEAN, NEW t \in Nat,
           Follows(s, h, m, c, t), Sound(s, t), s.status = "Active", claimable_amount(s, t) > 0,
           s2.withdrawn = s.withdrawn + claimable_amount(s, t), s2.last_withdraw_time = t,
           s2.status = (IF s2.withdrawn >= s.deposit THEN "Exhausted" ELSE "Active"),
           s2.stop_time = s.stop_time
    PROVE  Follows(s2, h, m, c, t)
<1> DEFINE x == Elapsed(s, t) * s.rate_per_second
           g == claimable_amount(s, t)
<1>1. CASE s2.withdrawn >= s.deposit
  BY <1>1, EndedFollows
<1>2. CASE ~(s2.withdrawn >= s.deposit)
  <2>1. s2.status = "Active" /\ s.withdrawn \in Nat /\ s.deposit \in Nat /\ s2.withdrawn \in Nat /\ x \in Nat
    BY <1>2, RecordNats
  <2>2. g = x
    <3>1. s.withdrawn <= s.deposit
      BY DEF Sound
    <3>2. g > 0 /\ s.withdrawn + g < s.deposit
      BY <1>2, <2>1
    <3> QED
      BY <3>1, <3>2, ClaimByClock
  <2>3. Counted(s, t) = s.withdrawn + x
    BY DEF Counted, Clock
  <2>4. Counted(s2, t) = s2.withdrawn
    BY <2>1, ClockReset
  <2>5. LateResume(s2, h) <=> LateResume(s, h)
    BY DEF LateResume
  <2>6. Counted(s2, t) = Counted(s, t) /\ ~is_terminal(s.status)
    BY <2>2, <2>3, <2>4 DEF is_terminal
  <2> QED
    BY <2>1, <2>5, <2>6 DEF Follows, Standing
<1> QED
  BY <1>1, <1>2

\* update_rate, on the record.
LEMMA UpdateRateFollows ==
    ASSUME NEW s \in StreamRecord, NEW s2 \in StreamRecord, NEW h, NEW m, NEW c \in BOOLEAN, NEW t \in Nat,
           Follows(s, h, m, c, t), Sound(s, t), s.status = "Active",
           s2.withdrawn = s.withdrawn + claimable_amount(s, t), s2.last_withdraw_time = t,
           s2.status = "Active"
    PROVE  Follows(s2, h, m, TRUE, t)
<1> DEFINE x == Elapsed(s, t) * s.rate_per_second
           g == claimable_amount(s, t)
<1>1. s.withdrawn \in Nat /\ x \in Nat /\ g \in Nat /\ g <= x
  BY RecordNats, ClaimByClock DEF Sound
<1>2. Counted(s, t) = s.withdrawn + x /\ Counted(s2, t) = s.withdrawn + g
  BY ClockReset DEF Counted, Clock
<1>3. Counted(s, t) <= m /\ m \in Nat
  BY DEF Follows, is_terminal
<1> HIDE DEF x, g
<1>4. Counted(s2, t) <= m
  BY <1>1, <1>2, <1>3
<1> QED
  BY <1>3, <1>4 DEF Follows, Standing

\* pause_stream, on the record.
LEMMA PauseFollows ==
    ASSUME NEW s \in StreamRecord, NEW s2 \in StreamRecord, NEW h \in Seq(PauseEvent), NEW e \in PauseEvent,
           NEW m, NEW c \in BOOLEAN, NEW t \in Nat,
           Follows(s, h, m, c, t), s.status = "Active", e.is_pause, e.timestamp = t,
           s2.withdrawn = s.withdrawn, s2.rate_per_second = s.rate_per_second,
           s2.stop_time = s.stop_time, s2.last_withdraw_time = s.last_withdraw_time,
           s2.paused_at = t, s2.status = "Paused"
    PROVE  Follows(s2, Append(h, e), m, c, t)
<1>1. Counted(s2, t) = Counted(s, t)
  BY DEF Counted, Clock, Elapsed, EffectiveEnd
<1>2. ~is_terminal(s.status)
  BY DEF is_terminal
<1>3. LateResume(s, h) => LateResume(s2, Append(h, e))
  BY LateStays
<1>4. Len(Append(h, e)) > 0 /\ Append(h, e)[Len(Append(h, e))] = e
  OBVIOUS
<1>5. Standing(s2, Append(h, e))
  BY <1>4 DEF Standing
<1> QED
  BY <1>1, <1>2, <1>3, <1>5 DEF Follows

\* resume_stream, on the record: the clock moves on by the length of the pause,
\* so that it shows no more than at its start, and exactly that if the stop has
\* not passed.
LEMMA ResumeFollows ==
    ASSUME NEW s \in StreamRecord, NEW s2 \in StreamRecord, NEW h \in Seq(PauseEvent), NEW e \in PauseEvent,
           NEW m, NEW c \in BOOLEAN, NEW t \in Nat,
           Follows(s, h, m, c, t), Sound(s, t), s.status = "Paused", ~e.is_pause, e.timestamp = t,
           s2.withdrawn = s.withdrawn, s2.rate_per_second = s.rate_per_second,
           s2.stop_time = s.stop_time, s2.last_withdraw_time = s.last_withdraw_time + (t - s.paused_at),
           s2.status = "Active"
    PROVE  Follows(s2, Append(h, e), m, c, t)
<1>1. /\ s.last_withdraw_time \in Nat /\ s.paused_at \in Nat /\ s.stop_time \in Nat
      /\ s.withdrawn \in Nat /\ s.rate_per_second \in Nat
      /\ s.last_withdraw_time <= s.paused_at /\ s.paused_at <= t
  BY RecordNats DEF Sound
<1>2. Elapsed(s2, t) \in Nat /\ Elapsed(s, s.paused_at) \in Nat
  BY <1>1, RecordNats
<1>3. Elapsed(s2, t) <= Elapsed(s, s.paused_at)
  <2>1. CASE s.stop_time = 0
    BY <1>1, <2>1 DEF Elapsed, EffectiveEnd, Monus
  <2>2. CASE s.stop_time # 0 /\ t < s.stop_time
    BY <1>1, <2>2 DEF Elapsed, EffectiveEnd, Monus
  <2>3. CASE s.stop_time # 0 /\ t >= s.stop_time
    <3>1. Elapsed(s2, t) = Monus(s.stop_time, s.last_withdraw_time + (t - s.paused_at))
      BY <1>1, <2>3 DEF Elapsed, EffectiveEnd
    <3>2. CASE s.paused_at >= s.stop_time
      <4>1. Elapsed(s, s.paused_at) = Monus(s.stop_time, s.last_withdraw_time)
        BY <1>1, <2>3, <3>2 DEF Elapsed, EffectiveEnd
      <4> QED
        BY <1>1, <3>1, <4>1, SMTT(30) DEF Monus
    <3>3. CASE s.paused_at < s.stop_time
      BY <1>1, <2>3, <3>1, <3>3 DEF Elapsed, EffectiveEnd, Monus
    <3> QED
      BY <1>1, <3>2, <3>3
  <2> QED
    BY <1>1, <2>1, <2>2, <2>3
<1>4. s.stop_time = 0 \/ t <= s.stop_time => Elapsed(s2, t) = Elapsed(s, s.paused_at)
  BY <1>1 DEF Elapsed, EffectiveEnd, Monus
<1>5. /\ Counted(s, t) = s.withdrawn + Elapsed(s, s.paused_at) * s.rate_per_second
      /\ Counted(s2, t) = s.withdrawn + Elapsed(s2, t) * s.rate_per_second
  BY DEF Counted, Clock
<1>6. /\ Elapsed(s2, t) * s.rate_per_second <= Elapsed(s, s.paused_at) * s.rate_per_second
      /\ Elapsed(s2, t) * s.rate_per_second \in Nat /\ Elapsed(s, s.paused_at) * s.rate_per_second \in Nat
  BY <1>1, <1>2, <1>3, FewerSeconds, ProductNat
<1>7. /\ m \in Nat /\ Counted(s, t) <= m
      /\ ~c /\ ~LateResume(s, h) => Counted(s, t) = m
  BY DEF Follows, is_terminal
<1>8. Counted(s2, t) <= m
  <2> DEFINE x == Elapsed(s2, t) * s.rate_per_second
             y == Elapsed(s, s.paused_at) * s.rate_per_second
  <2>1. x <= y /\ x \in Nat /\ y \in Nat /\ Counted(s, t) = s.withdrawn + y /\ Counted(s2, t) = s.withdrawn + x
    BY <1>5, <1>6
  <2> HIDE DEF x, y
  <2> QED
    BY <1>1, <1>7, <2>1
<1>9. ASSUME ~c, ~LateResume(s2, Append(h, e)) PROVE Counted(s2, t) = m
  <2>1. ~LateResume(s, h) /\ ~(s.stop_time > 0 /\ t > s.stop_time)
    BY <1>9, LateStays
  <2>2. s.stop_time = 0 \/ t <= s.stop_time
    BY <1>1, <2>1
  <2>3. Elapsed(s2, t) = Elapsed(s, s.paused_at)
    BY <1>4, <2>2
  <2> QED
    BY <1>5, <1>7, <1>9, <2>1, <2>3
<1> QED
  BY <1>7, <1>8, <1>9 DEF Follows, Standing

\* A second passes: an accruing stream and its meter advance together.
LEMMA TickFollows ==
    ASSUME NEW s \in StreamRecord, NEW h, NEW m, NEW c \in BOOLEAN, NEW t \in Nat,
           Follows(s, h, m, c, t), Sound(s, t), NEW m2,
           m2 = IF s.status = "Active" /\ (s.stop_time > 0 => t < s.stop_time)
                THEN m + s.rate_per_second ELSE m
    PROVE  Follows(s, h, m2, c, t + 1)
<1>1. /\ s.last_withdraw_time \in Nat /\ s.stop_time \in Nat
      /\ s.withdrawn \in Nat /\ s.rate_per_second \in Nat
      /\ s.last_withdraw_time <= t /\ m \in Nat
      /\ Elapsed(s, t) \in Nat /\ Elapsed(s, t) * s.rate_per_second \in Nat /\ s.status \in StreamStatus
  BY RecordNats DEF Sound, Follows
<1>2. CASE s.status = "Active" /\ (s.stop_time > 0 => t < s.stop_time)
  <2>1. Elapsed(s, t + 1) = Elapsed(s, t) + 1
    BY <1>1, <1>2 DEF Elapsed, EffectiveEnd, Monus
  <2>2. Elapsed(s, t + 1) * s.rate_per_second = Elapsed(s, t) * s.rate_per_second + s.rate_per_second
    BY <1>1, <2>1, OneMoreSecond
  <2>3. /\ Counted(s, t) = s.withdrawn + Elapsed(s, t) * s.rate_per_second
        /\ Counted(s, t + 1) = s.withdrawn + Elapsed(s, t + 1) * s.rate_per_second
    BY <1>2 DEF Counted, Clock
  <2>4. Counted(s, t + 1) = Counted(s, t) + s.rate_per_second /\ Counted(s, t) \in Nat
    <3> DEFINE x == Elapsed(s, t) * s.rate_per_second
    <3>1. x \in Nat /\ Counted(s, t) = s.withdrawn + x
          /\ Counted(s, t + 1) = s.withdrawn + (x + s.rate_per_second)
      BY <1>1, <2>2, <2>3
    <3> HIDE DEF x
    <3> QED
      BY <1>1, <3>1
  <2>5. m2 = m + s.rate_per_second /\ m2 \in Nat
    BY <1>1, <1>2
  <2>6. Counted(s, t) <= m /\ (~c /\ ~LateResume(s, h) => Counted(s, t) = m)
    BY <1>2 DEF Follows, is_terminal
  <2>7. Counted(s, t) <= m => Counted(s, t + 1) <= m2
    BY <1>1, <2>4, <2>5
  <2>8. Counted(s, t) = m => Counted(s, t + 1) = m2
    BY <1>1, <2>4, <2>5
  <2> QED
    BY <1>2, <2>5, <2>6, <2>7, <2>8 DEF Follows, Standing
<1>3. CASE ~(s.status = "Active" /\ (s.stop_time > 0 => t < s.stop_time))
  <2>1. m2 = m
    BY <1>3
  <2>2. CASE s.status = "Active"
    <3>1. Elapsed(s, t + 1) = Elapsed(s, t)
      BY <1>1, <1>3, <2>2 DEF Elapsed, EffectiveEnd, Monus
    <3> QED
      BY <2>1, <2>2, <3>1 DEF Follows, Counted, Clock
  <2>3. CASE s.status # "Active"
    BY <1>1, <2>1, <2>3 DEF Follows, Counted, Clock, is_terminal, StreamStatus
  <2> QED
    BY <2>2, <2>3
<1> QED
  BY <1>2, <1>3

-----------------------------------------------------------------------------
(* What the calls do to all streams.                                       *)

\* A step in which only stream id changes keeps MeterOK if that one follows.
LEMMA OneFollows ==
    ASSUME IInv, MeterOK, NEW id \in Ids, stream_count' = stream_count, now' = now, metered' = Metered,
           \A i \in Ids \ {id} : /\ streams'[i] = streams[i] /\ pause_history'[i] = pause_history[i]
                                 /\ (i \in rerated') <=> (i \in rerated),
           Follows(streams'[id], pause_history'[id], metered[id], id \in rerated', now)
    PROVE  MeterOK'
<1>1. Ids' = Ids /\ Ids = 1..stream_count /\ stream_count \in Nat /\ now \in Nat
  BY DEF Ids, IInv, StreamsOK
<1>2. \A i \in Ids : metered'[i] = metered[i]
  BY <1>1 DEF Metered
<1> SUFFICES ASSUME NEW i \in Ids
             PROVE  Follows(streams'[i], pause_history'[i], metered'[i], i \in rerated', now')
  BY <1>1 DEF MeterOK
<1>3. CASE i = id
  BY <1>2, <1>3
<1>4. CASE i # id
  <2>1. Follows(streams[i], pause_history[i], metered[i], i \in rerated, now)
    BY DEF MeterOK
  <2>2. (i \in rerated') = (i \in rerated)
    BY <1>4
  <2> QED
    BY <1>2, <1>4, <2>1, <2>2
<1> QED
  BY <1>3, <1>4

\* A step that leaves the streams alone, other than by the passing of time.
LEMMA NoneFollows ==
    ASSUME IInv, MeterOK, stream_count' = stream_count, now' = now, metered' = Metered,
           streams' = streams, pause_history' = pause_history, rerated' = rerated
    PROVE  MeterOK'
<1>1. Ids' = Ids /\ Ids = 1..stream_count /\ stream_count \in Nat /\ now \in Nat
  BY DEF Ids, IInv, StreamsOK
<1>2. \A i \in Ids : metered'[i] = metered[i]
  BY <1>1 DEF Metered
<1> QED
  BY <1>1, <1>2 DEF MeterOK

\* What IInv says of one stream, in the form used here.
LEMMA StreamSound ==
    ASSUME IInv, NEW id \in Ids
    PROVE  /\ streams[id] \in StreamRecord /\ Sound(streams[id], now) /\ now \in Nat
           /\ pause_history[id] \in Seq(PauseEvent)
           /\ streams \in [Ids -> StreamRecord] /\ pause_history \in [Ids -> Seq(PauseEvent)]
<1>1. /\ streams[id] \in StreamRecord /\ paid[id] \in Payouts
      /\ SoundStream(streams[id], paid[id], now) /\ now \in Nat
  BY StreamFacts DEF IInv, StreamsOK
<1>2. streams[id].withdrawn \in Nat /\ streams[id].deposit \in Nat /\ paid[id].refund \in Nat
  BY <1>1 DEF StreamRecord, Payouts
<1>3. Sound(streams[id], now)
  BY <1>1, <1>2 DEF Sound, SoundStream
<1> QED
  BY <1>1, <1>3 DEF IInv, StreamsOK, RolesOK
\* withdraw keeps every stream on its meter.
LEMMA WithdrawMeter ==
    ASSUME IInv, MeterOK, NEW a \in Accounts, NEW id \in Ids, withdraw(a, id), IInv',
           metered' = Metered, rerated' = rerated
    PROVE  MeterOK'
<1> DEFINE s == streams[id]
           w == s.withdrawn + claimable_amount(s, now)
           s2 == [s EXCEPT !.withdrawn = w, !.last_withdraw_time = now,
                           !.status = IF w >= s.deposit THEN "Exhausted" ELSE @]
<1>1. s \in StreamRecord /\ Sound(s, now) /\ now \in Nat /\ streams \in [Ids -> StreamRecord]
  BY StreamSound
<1>2. /\ streams' = [streams EXCEPT ![id] = s2] /\ pause_history' = pause_history
      /\ stream_count' = stream_count /\ now' = now /\ claimable_amount(s, now) > 0
      /\ s.status \in {"Active", "Exhausted"}
  BY DEF withdraw
<1>3. s.status = "Active"
  <2>1. is_terminal(s.status) => claimable_amount(s, now) = 0
    BY DEF claimable_amount
  <2> QED
    BY <1>2, <2>1 DEF is_terminal
<1>4. streams'[id] = s2 /\ streams'[id] \in StreamRecord /\ \A i \in Ids \ {id} : streams'[i] = streams[i]
  <2>1. streams'[id] \in StreamRecord
    BY <1>2 DEF IInv, StreamsOK, Ids
  <2> HIDE DEF s2
  <2> QED
    BY <1>1, <1>2, <2>1
<1>5. /\ s2.withdrawn = w /\ s2.last_withdraw_time = now /\ s2.stop_time = s.stop_time
      /\ s2.status = (IF w >= s.deposit THEN "Exhausted" ELSE "Active")
  BY <1>1, <1>3 DEF StreamRecord
<1>6. Follows(s, pause_history[id], metered[id], id \in rerated, now)
  BY DEF MeterOK
<1> HIDE DEF s2
<1>7. Follows(s2, pause_history[id], metered[id], id \in rerated, now)
  <2> DEFINE c == id \in rerated
             h == pause_history[id]
             m == metered[id]
  <2>1. c \in BOOLEAN /\ Follows(s, h, m, c, now) /\ s2 \in StreamRecord
    BY <1>4, <1>6
  <2> HIDE DEF c, s, h, m
  <2>2. Follows(s2, h, m, c, now)
    BY <1>1, <1>2, <1>3, <1>5, <2>1, WithdrawFollows DEF w
  <2> QED
    BY <2>2 DEF c, h, m
<1> QED
  BY <1>2, <1>4, <1>7, OneFollows

\* update_rate keeps every stream on its meter.
LEMMA UpdateRateMeter ==
    ASSUME IInv, MeterOK, NEW a \in Accounts, NEW id \in Ids, NEW r \in Rates, update_rate(a, id, r), IInv',
           metered' = Metered, rerated' = rerated \cup {id}
    PROVE  MeterOK'
<1> DEFINE s == streams[id]
           s2 == [s EXCEPT !.withdrawn = @ + claimable_amount(s, now), !.last_withdraw_time = now,
                           !.rate_per_second = r]
<1>1. s \in StreamRecord /\ Sound(s, now) /\ now \in Nat /\ streams \in [Ids -> StreamRecord]
  BY StreamSound
<1>2. /\ streams' = [streams EXCEPT ![id] = s2] /\ pause_history' = pause_history
      /\ stream_count' = stream_count /\ now' = now /\ s.status = "Active"
  BY DEF update_rate, SetStream
<1>4. streams'[id] = s2 /\ streams'[id] \in StreamRecord /\ \A i \in Ids \ {id} : streams'[i] = streams[i]
  <2>1. streams'[id] \in StreamRecord
    BY <1>2 DEF IInv, StreamsOK, Ids
  <2> HIDE DEF s2
  <2> QED
    BY <1>1, <1>2, <2>1
<1>5. /\ s2.withdrawn = s.withdrawn + claimable_amount(s, now) /\ s2.last_withdraw_time = now
      /\ s2.status = "Active"
  BY <1>1, <1>2 DEF StreamRecord
<1>6. Follows(s, pause_history[id], metered[id], id \in rerated, now)
  BY DEF MeterOK
<1> HIDE DEF s2
<1>7. Follows(s2, pause_history[id], metered[id], TRUE, now)
  <2> DEFINE c == id \in rerated
             h == pause_history[id]
             m == metered[id]
  <2>1. c \in BOOLEAN /\ Follows(s, h, m, c, now) /\ s2 \in StreamRecord
    BY <1>4, <1>6
  <2> HIDE DEF c, s, h, m
  <2>2. Follows(s2, h, m, TRUE, now)
    BY <1>1, <1>2, <1>5, <2>1, UpdateRateFollows
  <2> QED
    BY <2>2 DEF h, m
<1>8. (id \in rerated') = TRUE /\ \A i \in Ids \ {id} : (i \in rerated') <=> (i \in rerated)
  OBVIOUS
<1> QED
  BY <1>2, <1>4, <1>7, <1>8, OneFollows

\* pause_stream and resume_stream keep every stream on its meter.
LEMMA PauseMeter ==
    ASSUME IInv, MeterOK, NEW a \in Accounts, NEW id \in Ids, IInv',
           pause_stream(a, id) \/ resume_stream(a, id), metered' = Metered, rerated' = rerated
    PROVE  MeterOK'
<1> DEFINE s == streams[id]
           h == pause_history[id]
<1>1. /\ s \in StreamRecord /\ Sound(s, now) /\ now \in Nat /\ h \in Seq(PauseEvent)
      /\ streams \in [Ids -> StreamRecord] /\ pause_history \in [Ids -> Seq(PauseEvent)]
  BY StreamSound
<1>2. Follows(s, h, metered[id], id \in rerated, now)
  BY DEF MeterOK
<1>3. stream_count' = stream_count /\ now' = now
  BY DEF pause_stream, resume_stream, SetStream
<1>4. streams'[id] \in StreamRecord
  BY <1>3 DEF IInv, StreamsOK, Ids
<1>5. CASE pause_stream(a, id)
  <2> DEFINE s2 == [s EXCEPT !.paused_at = now, !.status = "Paused"]
             e == [timestamp |-> now, is_pause |-> TRUE]
  <2>1. /\ streams' = [streams EXCEPT ![id] = s2] /\ s.status = "Active"
        /\ pause_history' = [pause_history EXCEPT ![id] = Append(h, e)]
    BY <1>5 DEF pause_stream, SetStream, add_pause_event
  <2>2. e \in PauseEvent /\ e.is_pause /\ e.timestamp = now
    BY <1>1 DEF PauseEvent
  <2>3. /\ s2.withdrawn = s.withdrawn /\ s2.rate_per_second = s.rate_per_second
        /\ s2.stop_time = s.stop_time /\ s2.last_withdraw_time = s.last_withdraw_time
        /\ s2.paused_at = now /\ s2.status = "Paused"
    BY <1>1 DEF StreamRecord
  <2> HIDE DEF s2, e
  <2>4. /\ streams'[id] = s2 /\ pause_history'[id] = Append(h, e)
        /\ \A i \in Ids \ {id} : streams'[i] = streams[i] /\ pause_history'[i] = pause_history[i]
    BY <1>1, <2>1
  <2>5. Follows(s2, Append(h, e), metered[id], id \in rerated, now)
    <3> DEFINE c == id \in rerated
               m == metered[id]
    <3>1. c \in BOOLEAN /\ Follows(s, h, m, c, now) /\ s2 \in StreamRecord
      BY <1>2, <1>4, <2>4
    <3> HIDE DEF c, s, h, m
    <3>2. Follows(s2, Append(h, e), m, c, now)
      BY <1>1, <2>1, <2>2, <2>3, <3>1, PauseFollows
    <3> QED
      BY <3>2 DEF c, h, m
  <2> QED
    BY <1>3, <2>4, <2>5, OneFollows
<1>6. CASE resume_stream(a, id)
  <2> DEFINE s2 == [s EXCEPT !.last_withdraw_time = @ + PausedFor(s), !.paused_at = 0, !.status = "Active"]
             e == [timestamp |-> now, is_pause |-> FALSE]
  <2>1. /\ streams' = [streams EXCEPT ![id] = s2] /\ s.status = "Paused"
        /\ pause_history' = [pause_history EXCEPT ![id] = Append(h, e)]
    BY <1>6 DEF resume_stream, SetStream, add_pause_event
  <2>2. e \in PauseEvent /\ ~e.is_pause /\ e.timestamp = now
    BY <1>1 DEF PauseEvent
  <2>3. /\ s2.withdrawn = s.withdrawn /\ s2.rate_per_second = s.rate_per_second
        /\ s2.stop_time = s.stop_time /\ s2.last_withdraw_time = s.last_withdraw_time + PausedFor(s)
        /\ s2.status = "Active"
    BY <1>1 DEF StreamRecord
  <2>6. PausedFor(s) = now - s.paused_at
    <3>1. s.paused_at \in Nat /\ s.paused_at <= now
      BY <1>1, <2>1, RecordNats DEF Sound
    <3> QED
      BY <1>1, <3>1 DEF PausedFor, Monus
  <2> HIDE DEF s2, e
  <2>4. /\ streams'[id] = s2 /\ pause_history'[id] = Append(h, e)
        /\ \A i \in Ids \ {id} : streams'[i] = streams[i] /\ pause_history'[i] = pause_history[i]
    BY <1>1, <2>1
  <2>5. Follows(s2, Append(h, e), metered[id], id \in rerated, now)
    <3> DEFINE c == id \in rerated
               m == metered[id]
    <3>1. c \in BOOLEAN /\ Follows(s, h, m, c, now) /\ s2 \in StreamRecord
      BY <1>2, <1>4, <2>4
    <3> HIDE DEF c, s, h, m
    <3>2. Follows(s2, Append(h, e), m, c, now)
      BY <1>1, <2>1, <2>2, <2>3, <2>6, <3>1, ResumeFollows
    <3> QED
      BY <3>2 DEF c, h, m
  <2> QED
    BY <1>3, <2>4, <2>5, OneFollows
<1> QED
  BY <1>5, <1>6

\* So do the calls that end a stream, top it up or change its parties.
LEMMA OtherMeter ==
    ASSUME IInv, MeterOK, NEW id \in Ids, NEW s2, streams' = [streams EXCEPT ![id] = s2],
           pause_history' = pause_history, stream_count' = stream_count, now' = now,
           metered' = Metered, rerated' = rerated,
           \/ s2.status \in {"Cancelled", "Exhausted"}
           \/ /\ s2.withdrawn = streams[id].withdrawn /\ s2.rate_per_second = streams[id].rate_per_second
              /\ s2.stop_time = streams[id].stop_time
              /\ s2.last_withdraw_time = streams[id].last_withdraw_time
              /\ s2.paused_at = streams[id].paused_at /\ s2.status = streams[id].status
    PROVE  MeterOK'
<1>1. streams \in [Ids -> StreamRecord]
  BY DEF IInv, StreamsOK
<1>2. streams'[id] = s2 /\ \A i \in Ids \ {id} : streams'[i] = streams[i]
  BY <1>1
<1>3. Follows(streams[id], pause_history[id], metered[id], id \in rerated, now)
  BY DEF MeterOK
<1>4. Follows(s2, pause_history[id], metered[id], id \in rerated, now)
  BY <1>3, SameClocks, EndedFollows
<1> QED
  BY <1>2, <1>4, OneFollows

\* A settlement ends the stream.
LEMMA SettleMeter ==
    ASSUME IInv, MeterOK, NEW a \in Accounts, NEW id \in Ids, NEW final \in {"Cancelled", "Exhausted"},
           Settle(a, id, final), metered' = Metered, rerated' = rerated
    PROVE  MeterOK'
<1> DEFINE s == streams[id]
           s2 == [s EXCEPT !.withdrawn = @ + claimable_amount(s, now), !.status = final]
<1>1. /\ streams' = [streams EXCEPT ![id] = s2] /\ pause_history' = pause_history
      /\ stream_count' = stream_count /\ now' = now
  BY DEF Settle, SetStream
<1>2. s \in StreamRecord
  BY StreamSound
<1>3. s2.status \in {"Cancelled", "Exhausted"}
  BY <1>2 DEF StreamRecord
<1> HIDE DEF s2
<1> QED
  BY <1>1, <1>3, OtherMeter

\* top_up leaves the clocks alone.
LEMMA TopUpMeter ==
    ASSUME IInv, MeterOK, NEW a \in Accounts, NEW id \in Ids, NEW amount, top_up(a, id, amount),
           metered' = Metered, rerated' = rerated
    PROVE  MeterOK'
<1> DEFINE s == streams[id]
           s2 == [s EXCEPT !.deposit = @ + amount]
<1>1. /\ streams' = [streams EXCEPT ![id] = s2] /\ pause_history' = pause_history
      /\ stream_count' = stream_count /\ now' = now
  BY DEF top_up, SetStream
<1>2. s \in StreamRecord
  BY StreamSound
<1>3. /\ s2.withdrawn = s.withdrawn /\ s2.rate_per_second = s.rate_per_second /\ s2.stop_time = s.stop_time
      /\ s2.last_withdraw_time = s.last_withdraw_time /\ s2.paused_at = s.paused_at /\ s2.status = s.status
  BY <1>2 DEF StreamRecord
<1> HIDE DEF s2
<1> QED
  BY <1>1, <1>3, OtherMeter

\* get_stream only ever ends a stream.
LEMMA GetStreamMeter ==
    ASSUME IInv, MeterOK, NEW id \in Ids, get_stream(id), metered' = Metered, rerated' = rerated
    PROVE  MeterOK'
<1> DEFINE s2 == [streams[id] EXCEPT !.status = "Exhausted"]
<1>1. /\ streams' = [streams EXCEPT ![id] = s2] /\ pause_history' = pause_history
      /\ stream_count' = stream_count /\ now' = now
  BY DEF get_stream, SetStream
<1>2. streams[id] \in StreamRecord
  BY StreamSound
<1>3. s2.status = "Exhausted"
  BY <1>2 DEF StreamRecord
<1> HIDE DEF s2
<1> QED
  BY <1>1, <1>3, OtherMeter

\* A call that changes roles replaces a party of one stream, or no stream at all.
LEMMA RoleChange ==
    ASSUME IInv, RoleStep
    PROVE  /\ pause_history' = pause_history /\ stream_count' = stream_count /\ now' = now
           /\ \/ streams' = streams
              \/ \E id \in Ids : \E s2 :
                    LET s == streams[id]
                    IN  /\ streams' = [streams EXCEPT ![id] = s2]
                        /\ s2.withdrawn = s.withdrawn /\ s2.rate_per_second = s.rate_per_second
                        /\ s2.start_time = s.start_time /\ s2.stop_time = s.stop_time
                        /\ s2.last_withdraw_time = s.last_withdraw_time
                        /\ s2.paused_at = s.paused_at /\ s2.status = s.status
<1>1. PICK a \in Accounts, id \in Ids :
        \/ \E new \in NewParties : transfer_stream(a, id, new)
        \/ \E d \in NewParties \cup {None} : set_delegate(a, id, d)
        \/ \E new \in NewParties : propose_employer_transfer(a, id, new)
        \/ accept_employer_transfer(a, id)
  BY DEF RoleStep
<1> DEFINE s == streams[id]
           Parts(x) == {[s EXCEPT !.employee = x], [s EXCEPT !.delegate = x], [s EXCEPT !.employer = x]}
           Goal == \E i \in Ids : \E s2 :
                      LET r == streams[i]
                      IN  /\ streams' = [streams EXCEPT ![i] = s2]
                          /\ s2.withdrawn = r.withdrawn /\ s2.rate_per_second = r.rate_per_second
                          /\ s2.start_time = r.start_time /\ s2.stop_time = r.stop_time
                          /\ s2.last_withdraw_time = r.last_withdraw_time
                          /\ s2.paused_at = r.paused_at /\ s2.status = r.status
<1>2. s \in StreamRecord
  BY StreamSound
<1>3. ASSUME NEW x, NEW s2 \in Parts(x), streams' = [streams EXCEPT ![id] = s2]
      PROVE  Goal
  <2>1. /\ s2.withdrawn = s.withdrawn /\ s2.rate_per_second = s.rate_per_second
        /\ s2.start_time = s.start_time /\ s2.stop_time = s.stop_time
        /\ s2.last_withdraw_time = s.last_withdraw_time
        /\ s2.paused_at = s.paused_at /\ s2.status = s.status
    BY <1>2 DEF StreamRecord
  <2> HIDE DEF Parts
  <2> QED
    BY <1>3, <2>1
<1> HIDE DEF Goal
<1> SUFFICES /\ pause_history' = pause_history /\ stream_count' = stream_count /\ now' = now
             /\ streams' = streams \/ Goal
  BY DEF Goal
<1>4. CASE \E new \in NewParties : transfer_stream(a, id, new)
  <2>1. PICK x \in NewParties : transfer_stream(a, id, x)
    BY <1>4
  <2> DEFINE s2 == [s EXCEPT !.employee = x]
  <2>2. /\ streams' = [streams EXCEPT ![id] = s2] /\ s2 \in Parts(x)
        /\ pause_history' = pause_history /\ stream_count' = stream_count /\ now' = now
    BY <2>1 DEF transfer_stream, SetStream
  <2> HIDE DEF s2, Parts
  <2> QED
    BY <1>3, <2>2
<1>5. CASE \E d \in NewParties \cup {None} : set_delegate(a, id, d)
  <2>1. PICK x \in NewParties \cup {None} : set_delegate(a, id, x)
    BY <1>5
  <2> DEFINE s2 == [s EXCEPT !.delegate = x]
  <2>2. /\ streams' = [streams EXCEPT ![id] = s2] /\ s2 \in Parts(x)
        /\ pause_history' = pause_history /\ stream_count' = stream_count /\ now' = now
    BY <2>1 DEF set_delegate, SetStream
  <2> HIDE DEF s2, Parts
  <2> QED
    BY <1>3, <2>2
<1>6. CASE \E new \in NewParties : propose_employer_transfer(a, id, new)
  BY <1>6 DEF propose_employer_transfer
<1>7. CASE accept_employer_transfer(a, id)
  <2> DEFINE s2 == [s EXCEPT !.employer = a]
  <2>2. /\ streams' = [streams EXCEPT ![id] = s2] /\ s2 \in Parts(a)
        /\ pause_history' = pause_history /\ stream_count' = stream_count /\ now' = now
    BY <1>7 DEF accept_employer_transfer, SetStream
  <2> HIDE DEF s2, Parts
  <2> QED
    BY <1>3, <2>2
<1> QED
  BY <1>1, <1>4, <1>5, <1>6, <1>7

\* The calls that change roles leave the clocks alone.
LEMMA RoleMeter ==
    ASSUME IInv, MeterOK, RoleStep, metered' = Metered, rerated' = rerated
    PROVE  MeterOK'
BY RoleChange, NoneFollows, OtherMeter

\* New streams start with an empty meter and the clock at the present.
LEMMA AddedMeter ==
    ASSUME IInv, MeterOK, IInv', NEW n \in 1..2, NEW new, AddStreams(n, new), now' = now,
           \A k \in 1..n : /\ new[k].withdrawn = 0 /\ new[k].last_withdraw_time = now
                           /\ new[k].status = "Active",
           metered' = Metered, rerated' = rerated
    PROVE  MeterOK'
<1>1. /\ stream_count \in Nat /\ now \in Nat /\ stream_count' = stream_count + n
      /\ Ids = 1..stream_count /\ Ids' = 1..(stream_count + n)
  BY DEF IInv, StreamsOK, Ids, AddStreams
<1>2. /\ streams' = Extended(streams, n, new)
      /\ pause_history' = Extended(pause_history, n, [i \in 1..n |-> <<>>])
  BY DEF AddStreams
<1> SUFFICES ASSUME NEW i \in 1..(stream_count + n)
             PROVE  Follows(streams'[i], pause_history'[i], metered'[i], i \in rerated', now')
  BY <1>1 DEF MeterOK
<1>3. CASE i <= stream_count
  <2>1. streams'[i] = streams[i] /\ pause_history'[i] = pause_history[i]
    BY <1>1, <1>2, <1>3 DEF Extended
  <2>2. metered'[i] = metered[i]
    BY <1>1, <1>3 DEF Metered
  <2>3. Follows(streams[i], pause_history[i], metered[i], i \in rerated, now)
    BY <1>1, <1>3 DEF MeterOK
  <2> QED
    BY <2>1, <2>2, <2>3
<1>4. CASE i > stream_count
  <2>1. i - stream_count \in 1..n
    BY <1>1, <1>4
  <2>2. streams'[i] = new[i - stream_count]
    BY <1>1, <1>2, <1>4 DEF Extended
  <2>3. metered'[i] = 0
    BY <1>1, <1>4 DEF Metered
  <2>4. streams'[i] \in StreamRecord
    BY <1>1 DEF IInv, StreamsOK
  <2>5. /\ streams'[i].withdrawn = 0 /\ streams'[i].last_withdraw_time = now
        /\ streams'[i].status = "Active"
    BY <2>1, <2>2
  <2>6. Counted(streams'[i], now) = 0
    BY <1>1, <2>4, <2>5, ClockReset
  <2> QED
    BY <2>3, <2>5, <2>6 DEF Follows, Standing
<1> QED
  BY <1>1, <1>3, <1>4

\* create_stream and create_streams_batch keep every stream on its meter.
LEMMA CreateMeter ==
    ASSUME IInv, MeterOK, IInv', CreateStep, metered' = Metered, rerated' = rerated
    PROVE  MeterOK'
<1>1. PICK e \in Accounts, p \in StreamParams :
          \/ \E c \in Cooldowns : create_stream(e, p, c)
          \/ \E q \in StreamParams : create_streams_batch(e, p, q)
  BY DEF CreateStep
<1>2. \A x, y : LET z == NewStream(e, x, y)
                IN  z.withdrawn = 0 /\ z.last_withdraw_time = now /\ z.status = "Active"
  BY DEF NewStream
<1>3. ASSUME NEW c \in Cooldowns, create_stream(e, p, c) PROVE MeterOK'
  <2> DEFINE new == [i \in 1..1 |-> NewStream(e, p, c)]
  <2>1. AddStreams(1, new) /\ now' = now
    BY <1>3 DEF create_stream
  <2>2. \A k \in 1..1 : new[k].withdrawn = 0 /\ new[k].last_withdraw_time = now /\ new[k].status = "Active"
    BY <1>2
  <2> HIDE DEF new
  <2> QED
    BY <2>1, <2>2, AddedMeter
<1>4. ASSUME NEW q \in StreamParams, create_streams_batch(e, p, q) PROVE MeterOK'
  <2> DEFINE new == [i \in 1..2 |-> NewStream(e, IF i = 1 THEN p ELSE q, 0)]
  <2>1. AddStreams(2, new) /\ now' = now
    BY <1>4 DEF create_streams_batch
  <2>2. \A k \in 1..2 : new[k].withdrawn = 0 /\ new[k].last_withdraw_time = now /\ new[k].status = "Active"
    BY <1>2
  <2> HIDE DEF new
  <2> QED
    BY <2>1, <2>2, AddedMeter
<1> QED
  BY <1>1, <1>3, <1>4

\* The passing of a second keeps every stream on its meter.
LEMMA TickMeter ==
    ASSUME IInv, MeterOK, Tick, metered' = Metered, rerated' = rerated
    PROVE  MeterOK'
<1>1. /\ now \in Nat /\ stream_count \in Nat /\ now' = now + 1 /\ Ids' = Ids /\ Ids = 1..stream_count
      /\ streams' = streams /\ pause_history' = pause_history /\ stream_count' = stream_count
  BY DEF IInv, StreamsOK, Tick, Ids
<1> SUFFICES ASSUME NEW id \in Ids
             PROVE  Follows(streams'[id], pause_history'[id], metered'[id], id \in rerated', now')
  BY <1>1 DEF MeterOK
<1> DEFINE s == streams[id]
           h == pause_history[id]
           c == id \in rerated
           m == metered[id]
           m2 == metered'[id]
<1>2. s \in StreamRecord /\ Sound(s, now) /\ Follows(s, h, m, c, now) /\ c \in BOOLEAN
  BY StreamSound DEF MeterOK
<1>3. s.rate_per_second \in Nat /\ now' - now = 1 /\ now' > now
  <2>1. now' - now = 1 /\ now' > now
    BY <1>1
  <2> QED
    BY <1>2, <2>1 DEF StreamRecord
<1>4. m2 = IF Accrues(s) THEN m + (now' - now) * s.rate_per_second ELSE m
  BY <1>1, <1>3 DEF Metered
<1>5. (now' - now) * s.rate_per_second = s.rate_per_second
  BY <1>3
<1>6. m2 = IF s.status = "Active" /\ (s.stop_time > 0 => now < s.stop_time)
           THEN m + s.rate_per_second ELSE m
  BY <1>4, <1>5 DEF Accrues
<1> HIDE DEF s, h, c, m, m2
<1>7. Follows(s, h, m2, c, now + 1)
  BY <1>1, <1>2, <1>6, TickFollows
<1> QED
  BY <1>1, <1>7 DEF s, h, c, m, m2

\* AInv is inductive.
LEMMA AuditInv == AInv /\ [AuditNext]_audit_vars => AInv'
<1> SUFFICES ASSUME IInv, MeterOK, [AuditNext]_audit_vars PROVE IInv' /\ MeterOK'
  BY DEF AInv
<1>1. [Next]_vars
  BY DEF AuditNext, audit_vars, Next, StreamStep, RateStep
<1>2. IInv'
  BY <1>1, NextInv
<1> SUFFICES MeterOK'
  BY <1>2
<1>3. CASE UNCHANGED audit_vars
  BY <1>3 DEF audit_vars, vars, MeterOK, Ids
<1>4. CASE AuditNext
  <2>1. metered' = Metered
    BY <1>4 DEF AuditNext
  <2>2. ASSUME NEW a \in Accounts, NEW id \in Ids, NEW r \in Rates, update_rate(a, id, r),
               rerated' = rerated \cup {id}
        PROVE  MeterOK'
    BY <1>2, <2>1, <2>2, UpdateRateMeter
  <2>3. CASE CreateStep /\ rerated' = rerated
    BY <1>2, <2>1, <2>3, CreateMeter
  <2>4. CASE PaymentStep /\ rerated' = rerated
    <3>1. PICK a \in Accounts : \/ \E id \in Ids : withdraw(a, id)
                                \/ \E t \in Tokens : \E amount \in 1..fee_balance[t] :
                                       withdraw_protocol_fees(a, t, amount)
      BY <2>4 DEF PaymentStep
    <3>2. CASE \E id \in Ids : withdraw(a, id)
      BY <1>2, <2>1, <2>4, <3>2, WithdrawMeter
    <3>3. CASE \E t \in Tokens : \E amount \in 1..fee_balance[t] : withdraw_protocol_fees(a, t, amount)
      BY <2>1, <2>4, <3>3, NoneFollows DEF withdraw_protocol_fees
    <3> QED
      BY <3>1, <3>2, <3>3
  <2>5. CASE ManageStep /\ rerated' = rerated
    <3>1. PICK a \in Accounts, id \in Ids :
              \/ \E amount \in TopUps : top_up(a, id, amount)
              \/ pause_stream(a, id) \/ resume_stream(a, id)
              \/ cancel_stream(a, id) \/ reclaim_expired(a, id)
      BY <2>5 DEF ManageStep
    <3>2. CASE \E amount \in TopUps : top_up(a, id, amount)
      BY <2>1, <2>5, <3>2, TopUpMeter
    <3>3. CASE pause_stream(a, id) \/ resume_stream(a, id)
      BY <1>2, <2>1, <2>5, <3>3, PauseMeter
    <3>4. CASE cancel_stream(a, id) \/ reclaim_expired(a, id)
      BY <2>1, <2>5, <3>4, SettleMeter DEF cancel_stream, reclaim_expired
    <3> QED
      BY <3>1, <3>2, <3>3, <3>4
  <2>6. CASE QueryStep /\ rerated' = rerated
    BY <2>1, <2>6, GetStreamMeter DEF QueryStep
  <2>7. CASE RoleStep /\ rerated' = rerated
    BY <2>1, <2>7, RoleMeter
  <2>8. CASE Tick /\ rerated' = rerated
    BY <2>1, <2>8, TickMeter
  <2>9. CASE ConfigStep /\ rerated' = rerated
    BY <2>1, <2>9, NoneFollows DEF ConfigStep
  <2> QED
    BY <1>4, <2>2, <2>3, <2>4, <2>5, <2>6, <2>7, <2>8, <2>9 DEF AuditNext
<1> QED
  BY <1>2, <1>3, <1>4

\* Every stream follows its meter, in every behaviour of the metered contract.
THEOREM MeterInvariance == AuditSpec => []AInv
<1>1. AuditInit => AInv
  BY InitInv DEF AuditInit, AInv, MeterOK, Init, Ids
<1> QED
  BY <1>1, AuditInv, PTL DEF AuditSpec

\* No stream pays or promises more than it earned, through any sequence of pauses,
\* resumptions, withdrawals and rate changes (claimable_amount, resume_stream).
THEOREM StreamsStayWithinMeter == AuditSpec => []NeverAheadOfMeter
<1>1. ASSUME AInv PROVE NeverAheadOfMeter
  <2> SUFFICES ASSUME NEW id \in Ids
               PROVE  LET s == streams[id]
                      IN  /\ s.status = "Active" => s.withdrawn + claimable_amount(s, now) <= metered[id]
                          /\ s.status = "Paused" => s.withdrawn <= metered[id]
    BY DEF NeverAheadOfMeter
  <2> DEFINE s == streams[id]
             m == metered[id]
             x == Elapsed(s, now) * s.rate_per_second
             y == Elapsed(s, s.paused_at) * s.rate_per_second
             g == claimable_amount(s, now)
  <2>1. s \in StreamRecord /\ Sound(s, now) /\ now \in Nat
    BY <1>1, StreamSound DEF AInv
  <2>2. s.withdrawn \in Nat /\ x \in Nat /\ y \in Nat
    BY <2>1, RecordNats
  <2>3. g \in Nat /\ g <= x
    BY <2>1, ClaimByClock DEF Sound
  <2>4. m \in Nat /\ (~is_terminal(s.status) => Counted(s, now) <= m)
    BY <1>1 DEF AInv, MeterOK, Follows
  <2>5. (s.status = "Active" => Counted(s, now) = s.withdrawn + x)
        /\ (s.status = "Paused" => Counted(s, now) = s.withdrawn + y)
    BY DEF Counted, Clock
  <2>6. s.status \in {"Active", "Paused"} => ~is_terminal(s.status)
    BY DEF is_terminal
  <2> HIDE DEF s, m, x, y, g
  <2>7. (s.status = "Active" => s.withdrawn + g <= m) /\ (s.status = "Paused" => s.withdrawn <= m)
    BY <2>2, <2>3, <2>4, <2>5, <2>6
  <2> QED
    BY <2>7 DEF s, m, g
<1> QED
  BY <1>1, MeterInvariance, PTL

\* Nothing earned is lost: past its cliff an Active stream has paid or offers all it
\* earned, up to the deposit, unless its rate was updated or it was resumed after its
\* stop (claimable_amount, withdraw, resume_stream).
THEOREM EarningsAreKept == AuditSpec => []NothingEarnedIsLost
<1>1. ASSUME AInv PROVE NothingEarnedIsLost
  <2> SUFFICES ASSUME NEW id \in Ids, streams[id].status = "Active", ~BeforeCliff(streams[id], now),
                      id \notin rerated, ~ResumedAfterStop(id)
               PROVE  streams[id].withdrawn + claimable_amount(streams[id], now)
                          >= Least(metered[id], streams[id].deposit)
    BY DEF NothingEarnedIsLost
  <2> DEFINE s == streams[id]
             m == metered[id]
             x == Elapsed(s, now) * s.rate_per_second
             g == claimable_amount(s, now)
  <2>1. s \in StreamRecord /\ Sound(s, now) /\ now \in Nat
    BY <1>1, StreamSound DEF AInv
  <2>2. s.withdrawn \in Nat /\ x \in Nat /\ s.deposit \in Nat
    BY <2>1, RecordNats
  <2>3. ~is_terminal(s.status) /\ ~LateResume(s, pause_history[id])
    BY DEF is_terminal, ResumedAfterStop, LateResume
  <2>4. s.withdrawn + g = Least(s.withdrawn + x, s.deposit)
    BY <2>1, <2>3, ClaimByClock DEF Sound
  <2>5. Counted(s, now) = m
    BY <1>1, <2>3 DEF AInv, MeterOK, Follows
  <2>6. Counted(s, now) = s.withdrawn + x
    BY DEF Counted, Clock
  <2> HIDE DEF s, m, x, g
  <2>7. s.withdrawn + g >= Least(m, s.deposit)
    BY <2>2, <2>4, <2>5, <2>6 DEF Least
  <2> QED
    BY <2>7 DEF s, m, g
<1> QED
  BY <1>1, MeterInvariance, PTL
-----------------------------------------------------------------------------
(* What the balance service computes from the history.                     *)

\* What the fold of calcPausedSeconds carries along up to time to.
PauseAcc(to) == {acc \in [paused: Nat, start: Int] : acc.start <= to}

\* One event keeps it.
LEMMA PauseStepType ==
    ASSUME NEW from \in Nat, NEW to \in Nat, from <= to, NEW acc \in PauseAcc(to), NEW e \in PauseEvent
    PROVE  PauseStep(acc, e, from, to) \in PauseAcc(to)
<1>1. acc.paused \in Nat /\ acc.start \in Int /\ acc.start <= to /\ acc \in [paused: Nat, start: Int]
  BY DEF PauseAcc
<1>2. e.timestamp \in Nat /\ e.is_pause \in BOOLEAN
  BY DEF PauseEvent
<1>3. CASE e.is_pause /\ e.timestamp < to
  <2> DEFINE m == Most(e.timestamp, from)
  <2>1. m \in Int /\ m <= to
    BY <1>2, <1>3 DEF Most
  <2>2. PauseStep(acc, e, from, to) = [acc EXCEPT !.start = m]
    BY <1>3 DEF PauseStep
  <2> HIDE DEF m
  <2> QED
    BY <1>1, <2>1, <2>2 DEF PauseAcc
<1>4. CASE ~e.is_pause /\ acc.start >= 0
  <2> DEFINE d == Monus(Least(e.timestamp, to), acc.start)
  <2>1. d \in Nat /\ acc.paused + d \in Nat
    BY <1>1, <1>2 DEF Monus, Least
  <2>2. PauseStep(acc, e, from, to) = [paused |-> acc.paused + d, start |-> -1]
    BY <1>4 DEF PauseStep
  <2> HIDE DEF d
  <2> QED
    BY <2>1, <2>2 DEF PauseAcc
<1>5. CASE ~(e.is_pause /\ e.timestamp < to) /\ ~(~e.is_pause /\ acc.start >= 0)
  BY <1>1, <1>5 DEF PauseStep
<1> QED
  BY <1>3, <1>4, <1>5

\* f is what calcPausedSeconds carries along over h, one event after the other.
PauseRun(f, h, from, to) ==
    /\ f \in [0..Len(h) -> PauseAcc(to)]
    /\ f[0] = [paused |-> 0, start |-> -1]
    /\ \A i \in 1..Len(h) : f[i] = PauseStep(f[i - 1], h[i], from, to)

\* The seconds paused up to to.
Tally(acc, to) == acc.paused + (IF acc.start >= 0 THEN to - acc.start ELSE 0)

\* calcPausedSeconds returns what such a run ends with.
LEMMA PauseRuns ==
    ASSUME NEW h \in Seq(PauseEvent), NEW from \in Nat, NEW to \in Nat, from <= to
    PROVE  \E f : PauseRun(f, h, from, to) /\ calcPausedSeconds(h, from, to) = Tally(f[Len(h)], to)
<1> DEFINE A == PauseAcc(to)
           base == [paused |-> 0, start |-> -1]
           st == [p \in A \X PauseEvent |-> PauseStep(p[1], p[2], from, to)]
           S == 1..Len(h)
           Rhs(g, s) == IF s = {} THEN base ELSE PauseStep(g[s \ {Max(s)}], h[Max(s)], from, to)
           it == CHOOSE g : g = [s \in SUBSET S |-> Rhs(g, s)]
<1>0. Len(h) \in Nat /\ DOMAIN h = S /\ \A i \in S : h[i] \in PauseEvent
  OBVIOUS
<1>1. base \in A /\ st \in [A \X PauseEvent -> A]
  <2>1. base \in A
    BY DEF PauseAcc
  <2>2. \A p \in A \X PauseEvent : PauseStep(p[1], p[2], from, to) \in A
    BY PauseStepType
  <2> HIDE DEF A
  <2> QED
    BY <2>1, <2>2
<1>2. \A s \in SUBSET S : s # {} => Max(s) \in s /\ Max(s) \in S /\ s \ {Max(s)} \in SUBSET S
  BY <1>0, LastPosition
<1>10. \A x \in A, e \in PauseEvent : st[<<x, e>>] = PauseStep(x, e, from, to)
  <2> HIDE DEF A
  <2> QED
    OBVIOUS
<1> HIDE DEF A, base
<1>3. it = [s \in SUBSET S |-> Rhs(it, s)]
  <2> HIDE DEF st
  <2>0. PICK g : Folded(g, A, st, base, h)
    BY <1>1, FoldExists
  <2>1. /\ g \in [SUBSET S -> A]
        /\ \A s \in SUBSET S : g[s] = IF s = {} THEN base ELSE st[<<g[s \ {Max(s)}], h[Max(s)]>>]
    BY <2>0, Zenon DEF Folded
  <2>2. \A s \in SUBSET S : g[s] = Rhs(g, s)
    <3> SUFFICES ASSUME NEW s \in SUBSET S, s # {} PROVE g[s] = Rhs(g, s)
      BY <2>1
    <3>1. g[s \ {Max(s)}] \in A /\ h[Max(s)] \in PauseEvent
      BY <1>0, <1>2, <2>1
    <3> QED
      BY <1>10, <2>1, <3>1
  <2> HIDE DEF Rhs, S
  <2>3. g = [s \in SUBSET S |-> Rhs(g, s)]
    BY <2>1, <2>2
  <2> QED
    BY <2>3, Zenon
<1>4. \A s \in SUBSET S : it[s] = Rhs(it, s)
  <2> HIDE DEF it, Rhs, S
  <2> QED
    BY <1>3, Zenon
<1>5. calcPausedSeconds(h, from, to) = Tally(it[S], to)
  <2>1. FoldLeft(LAMBDA acc, e : PauseStep(acc, e, from, to), base, h) = it[S]
    BY <1>0, Zenon DEF FoldLeft, MapThenFoldSet
  <2> HIDE DEF it, S
  <2> QED
    BY <2>1, Zenon DEF calcPausedSeconds, Tally, base
<1>6. Folded(it, A, st, base, h)
  <2> DEFINE Good == {s \in SUBSET S : it[s] \in A}
  <2> HIDE DEF it, st
  <2>1. {} \in Good
    BY <1>1, <1>4
  <2>2. ASSUME NEW s \in SUBSET S, s # {}, \A x \in s : s \ {x} \in Good PROVE s \in Good
    <3>1. it[s \ {Max(s)}] \in A /\ h[Max(s)] \in PauseEvent
      BY <1>0, <1>2, <2>2
    <3>2. it[s] = PauseStep(it[s \ {Max(s)}], h[Max(s)], from, to)
      BY <1>4, <2>2
    <3> QED
      BY <3>1, <3>2, PauseStepType DEF A
  <2>3. IsFiniteSet(S)
    BY <1>0, FS_Interval
  <2>4. \A s \in SUBSET S : it[s] \in A
    <3> HIDE DEF Good
    <3>1. SUBSET S \subseteq Good
      <4> HIDE DEF S
      <4> QED
        BY <2>1, <2>2, <2>3, SubsetInduction
    <3> QED
      BY <3>1 DEF Good
  <2>5. ASSUME NEW s \in SUBSET S
        PROVE  it[s] = IF s = {} THEN base ELSE st[<<it[s \ {Max(s)}], h[Max(s)]>>]
    <3>1. CASE s = {}
      BY <1>4, <3>1
    <3>2. CASE s # {}
      <4>1. it[s \ {Max(s)}] \in A /\ h[Max(s)] \in PauseEvent
        BY <1>0, <1>2, <2>4, <3>2
      <4> QED
        BY <1>10, <1>4, <3>2, <4>1
    <3> QED
      BY <3>1, <3>2
  <2>6. it \in [SUBSET S -> A]
    <3> HIDE DEF S, Rhs
    <3>1. it = [s \in SUBSET S |-> it[s]]
      BY <1>3, <1>4, Zenon
    <3> QED
      BY <2>4, <3>1
  <2> HIDE DEF Rhs, S
  <2>7. Folded(it, A, st, base, h) <=>
          /\ it \in [SUBSET S -> A]
          /\ \A s \in SUBSET S : it[s] = IF s = {} THEN base ELSE st[<<it[s \ {Max(s)}], h[Max(s)]>>]
    BY Zenon DEF Folded, S
  <2> QED
    BY <2>5, <2>6, <2>7, Zenon
<1> DEFINE f == [i \in 0..Len(h) |-> it[1..i]]
<1>7. /\ it[1..0] = base
      /\ \A i \in 0..Len(h) : it[1..i] \in A
      /\ \A i \in 1..Len(h) : it[1..i] = st[<<it[1..(i - 1)], h[i]>>]
  <2> HIDE DEF it, st
  <2>1. Steps(it, A, st, base, h)
    BY <1>1, <1>6, FoldSteps
  <2> QED
    BY <2>1, Zenon DEF Steps
<1> HIDE DEF it, st
<1>8. PauseRun(f, h, from, to)
  <2>1. f \in [0..Len(h) -> A] /\ f[0] = base
    BY <1>0, <1>7
  <2>2. ASSUME NEW i \in 1..Len(h) PROVE f[i] = PauseStep(f[i - 1], h[i], from, to)
    <3>1. i \in 0..Len(h) /\ i - 1 \in 0..Len(h) /\ h[i] \in PauseEvent
      BY <1>0
    <3>2. f[i] = it[1..i] /\ f[i - 1] = it[1..(i - 1)] /\ it[1..(i - 1)] \in A
      BY <1>7, <3>1
    <3>3. it[1..i] = st[<<it[1..(i - 1)], h[i]>>]
      BY <1>7
    <3> HIDE DEF f
    <3> QED
      BY <1>10, <3>1, <3>2, <3>3
  <2> HIDE DEF f
  <2> QED
    BY <2>1, <2>2 DEF PauseRun, A, base
<1>9. f[Len(h)] = it[S]
  BY <1>0
<1> HIDE DEF f, S
<1> QED
  BY <1>5, <1>8, <1>9

\* The fold: its result, and its last step if that is a pause before the end.
LEMMA PauseFold ==
    ASSUME NEW h \in Seq(PauseEvent), NEW from \in Nat, NEW to \in Nat, from <= to
    PROVE  \E acc \in PauseAcc(to) :
              /\ calcPausedSeconds(h, from, to) = acc.paused + (IF acc.start >= 0 THEN to - acc.start ELSE 0)
              /\ Len(h) > 0 /\ h[Len(h)].is_pause /\ h[Len(h)].timestamp < to
                    => acc.start = Most(h[Len(h)].timestamp, from)
<1> DEFINE n == Len(h)
<1>1. PICK f : PauseRun(f, h, from, to) /\ calcPausedSeconds(h, from, to) = Tally(f[n], to)
  BY PauseRuns
<1>2. n \in Nat /\ f \in [0..n -> PauseAcc(to)]
  BY <1>1 DEF PauseRun
<1>3. f[n] \in PauseAcc(to)
  BY <1>2
<1>4. ASSUME n > 0, h[n].is_pause, h[n].timestamp < to
      PROVE  f[n].start = Most(h[n].timestamp, from)
  <2>1. n \in 1..n /\ n - 1 \in 0..n
    BY <1>2, <1>4
  <2>2. f[n] = PauseStep(f[n - 1], h[n], from, to) /\ f[n - 1] \in PauseAcc(to)
    BY <1>1, <1>2, <2>1 DEF PauseRun
  <2>3. PauseStep(f[n - 1], h[n], from, to) = [f[n - 1] EXCEPT !.start = Most(h[n].timestamp, from)]
    BY <1>4 DEF PauseStep
  <2>4. f[n - 1] \in [paused: Nat, start: Int]
    BY <2>2 DEF PauseAcc
  <2> QED
    BY <2>2, <2>3, <2>4
<1> QED
  BY <1>1, <1>3, <1>4 DEF Tally

\* The service counts no more seconds than the clock of the stream.
LEMMA ReportedSeconds ==
    ASSUME NEW s \in StreamRecord, NEW h \in Seq(PauseEvent), NEW t \in Nat, Sound(s, t), Standing(s, h)
    PROVE  ActiveElapsed(s, h, t) \in Nat /\ ActiveElapsed(s, h, t) <= Elapsed(s, Clock(s, t))
<1> DEFINE end == EffectiveEnd(s, t)
           from == s.last_withdraw_time
           p == calcPausedSeconds(h, from, end)
           last == h[Len(h)].timestamp
<1>1. end \in Nat /\ from \in Nat /\ s.stop_time \in Nat /\ s.paused_at \in Nat
  BY RecordNats
<1>2. s.status = "Paused" => from <= s.paused_at /\ s.paused_at <= t /\ Clock(s, t) = s.paused_at
  BY DEF Sound, Clock
<1>3. s.status # "Paused" => Clock(s, t) = t
  BY DEF Clock
<1>4. Clock(s, t) \in Nat
  BY <1>1, <1>2, <1>3
<1>5. Elapsed(s, Clock(s, t)) \in Nat
  BY <1>4, RecordNats
<1>6. CASE ActiveElapsed(s, h, t) = 0
  BY <1>5, <1>6
<1>7. CASE ActiveElapsed(s, h, t) = Monus(end - from, p) /\ ~(end <= from)
  <2>1. PICK acc \in PauseAcc(end) :
              /\ p = acc.paused + (IF acc.start >= 0 THEN end - acc.start ELSE 0)
              /\ Len(h) > 0 /\ h[Len(h)].is_pause /\ last < end => acc.start = Most(last, from)
    <3>1. from <= end
      BY <1>1, <1>7
    <3> HIDE DEF end, from
    <3> QED
      BY <1>1, <3>1, PauseFold
  <2>2. acc.paused \in Nat /\ acc.start \in Int /\ acc.start <= end
    BY DEF PauseAcc
  <2> HIDE DEF p, end, from, last
  <2>3. p \in Nat /\ (acc.start >= 0 => p >= end - acc.start)
    BY <1>1, <2>1, <2>2, SMTT(30)
  <2>4. Monus(end - from, p) \in Nat /\ Monus(end - from, p) <= end - from
    BY <1>1, <1>7, <2>3 DEF Monus
  <2>5. CASE s.status # "Paused"
    <3>1. Elapsed(s, Clock(s, t)) = end - from
      BY <1>1, <1>3, <1>7, <2>5 DEF Elapsed, Monus, end, from
    <3> QED
      BY <1>7, <2>4, <3>1
  <2>6. CASE s.status = "Paused" /\ s.paused_at < end
    <3>1. Len(h) > 0 /\ h[Len(h)].is_pause /\ last = s.paused_at
      BY <2>6 DEF Standing, last
    <3>2. acc.start = s.paused_at
      BY <1>1, <1>2, <2>1, <2>6, <3>1 DEF Most
    <3>3. p >= end - s.paused_at
      BY <1>1, <2>3, <3>2
    <3>4. EffectiveEnd(s, s.paused_at) = s.paused_at
      BY <1>1, <2>6 DEF EffectiveEnd, end
    <3>5. Elapsed(s, Clock(s, t)) = s.paused_at - from
      BY <1>1, <1>2, <2>6, <3>4 DEF Elapsed, Monus, from
    <3>6. Monus(end - from, p) <= s.paused_at - from
      BY <1>1, <1>2, <2>3, <2>6, <3>3 DEF Monus
    <3> QED
      BY <1>7, <2>4, <3>5, <3>6
  <2>7. CASE s.status = "Paused" /\ ~(s.paused_at < end)
    <3>1. EffectiveEnd(s, s.paused_at) = end
      BY <1>1, <1>2, <2>7 DEF EffectiveEnd, end
    <3>2. Elapsed(s, Clock(s, t)) = end - from
      BY <1>1, <1>2, <1>7, <2>7, <3>1 DEF Elapsed, Monus, from
    <3> QED
      BY <1>7, <2>4, <3>2
  <2> QED
    BY <2>5, <2>6, <2>7
<1> QED
  BY <1>6, <1>7 DEF ActiveElapsed

\* Running or paused, after any pauses, withdrawals and rate changes, the balance that
\* the service recomputes from the stream and its pause history, added to what was
\* withdrawn, stays within what the stream earned (balance.js, calculateBalance and
\* calcPausedSeconds).
THEOREM ReportsStayWithinEarned == AuditSpec => []ReportWithinEarned
<1>1. ASSUME AInv PROVE ReportWithinEarned
  <2> SUFFICES ASSUME NEW id \in Ids, ~is_terminal(streams[id].status)
               PROVE  streams[id].withdrawn + calculateBalance(streams[id], pause_history[id], now) <= metered[id]
    BY DEF ReportWithinEarned
  <2> DEFINE s == streams[id]
             h == pause_history[id]
             m == metered[id]
             e == ActiveElapsed(s, h, now)
             f == Elapsed(s, Clock(s, now))
             x == e * s.rate_per_second
             y == f * s.rate_per_second
  <2>1. s \in StreamRecord /\ Sound(s, now) /\ now \in Nat /\ h \in Seq(PauseEvent)
    BY <1>1, StreamSound DEF AInv
  <2>2. m \in Nat /\ Standing(s, h) /\ s.withdrawn + y <= m
    BY <1>1 DEF AInv, MeterOK, Follows, Counted
  <2>3. s.withdrawn \in Nat /\ s.deposit \in Nat /\ s.rate_per_second \in Nat /\ s.paused_at \in Nat
    BY <2>1, RecordNats
  <2>4. e \in Nat /\ e <= f
    <3> HIDE DEF s, h
    <3> QED
      BY <2>1, <2>2, ReportedSeconds
  <2>5. f \in Nat
    <3>1. Clock(s, now) \in Nat
      BY <2>1, <2>3 DEF Clock
    <3> QED
      BY <2>1, <3>1, RecordNats
  <2>6. x \in Nat /\ y \in Nat /\ x <= y
    <3> HIDE DEF e, f, s
    <3> QED
      BY <2>3, <2>4, <2>5, FewerSeconds, ProductNat
  <2>7. calculateBalance(s, h, now) = Least(x, Remaining(s))
    BY DEF calculateBalance
  <2>8. Remaining(s) \in Nat
    BY <2>3 DEF Remaining, Monus
  <2> HIDE DEF x, y, s, h, m
  <2>9. s.withdrawn + calculateBalance(s, h, now) <= m
    BY <2>2, <2>3, <2>6, <2>7, <2>8 DEF Least
  <2> QED
    BY <2>9 DEF s, h, m
<1> QED
  BY <1>1, MeterInvariance, PTL

-----------------------------------------------------------------------------
(* The seconds a history pauses in a period, and the payroll report.       *)

\* A history alternates, beginning with a pause.
Alternates(h) == \A i \in 1..Len(h) : h[i].is_pause <=> (i = 1 \/ ~h[i - 1].is_pause)

\* Its times do not decrease and are not after t.
Ordered(h, t) ==
    \A i \in 1..Len(h) : h[i].timestamp <= t /\ (i > 1 => h[i - 1].timestamp <= h[i].timestamp)

\* Its last event is a pause.
Open(h) == Len(h) > 0 /\ h[Len(h)].is_pause

\* The seconds of a pause from p to r that lie between from and to.
Overlap(p, r, from, to) == IF p < to THEN Monus(Least(r, to), Most(p, from)) ELSE 0

\* What event i adds to the paused seconds between from and to.
Gained(h, i, from, to) ==
    IF h[i].is_pause THEN 0 ELSE Overlap(h[i - 1].timestamp, h[i].timestamp, from, to)

\* The start of the pause in progress after event i.
Began(h, i, from, to) ==
    IF i > 0 /\ h[i].is_pause /\ h[i].timestamp < to THEN Most(h[i].timestamp, from) ELSE -1

\* The fields of a history are naturals and truth values.
LEMMA EventFields ==
    ASSUME NEW h \in Seq(PauseEvent)
    PROVE  Len(h) \in Nat /\ \A i \in 1..Len(h) : h[i].timestamp \in Nat /\ h[i].is_pause \in BOOLEAN
<1>1. \A i \in 1..Len(h) : h[i] \in PauseEvent
  OBVIOUS
<1> QED
  BY <1>1 DEF PauseEvent

\* One event of an alternating history.
LEMMA AlternatingStep ==
    ASSUME NEW h \in Seq(PauseEvent), Alternates(h), NEW from \in Nat, NEW to \in Nat, from <= to,
           NEW i \in 1..Len(h), NEW acc \in PauseAcc(to), acc.start = Began(h, i - 1, from, to)
    PROVE  LET next == PauseStep(acc, h[i], from, to)
           IN  next.start = Began(h, i, from, to) /\ next.paused = acc.paused + Gained(h, i, from, to)
<1> DEFINE t == h[i].timestamp
           u == h[i - 1].timestamp
<1>1. /\ Len(h) \in Nat /\ t \in Nat /\ h[i].is_pause \in BOOLEAN
      /\ i > 1 => u \in Nat /\ h[i - 1].is_pause \in BOOLEAN
  <2>1. i > 1 => i - 1 \in 1..Len(h)
    BY EventFields
  <2> QED
    BY <2>1, EventFields
<1>2. h[i].is_pause <=> (i = 1 \/ ~h[i - 1].is_pause)
  BY DEF Alternates
<1>3. acc.paused \in Nat /\ acc.start \in Int /\ acc \in [paused: Nat, start: Int]
  BY DEF PauseAcc
<1>4. CASE h[i].is_pause
  <2>1. acc.start = -1
    BY <1>1, <1>2, <1>4 DEF Began
  <2>2. Gained(h, i, from, to) = 0
    BY <1>4 DEF Gained
  <2>3. CASE t < to
    <3>1. PauseStep(acc, h[i], from, to) = [acc EXCEPT !.start = Most(t, from)]
      BY <1>4, <2>3 DEF PauseStep
    <3>2. Began(h, i, from, to) = Most(t, from)
      BY <1>1, <1>4, <2>3 DEF Began
    <3> QED
      BY <1>3, <2>2, <3>1, <3>2
  <2>4. CASE ~(t < to)
    <3>1. PauseStep(acc, h[i], from, to) = acc
      BY <1>4, <2>4 DEF PauseStep
    <3>2. Began(h, i, from, to) = -1
      BY <1>4, <2>4 DEF Began
    <3> QED
      BY <1>3, <2>1, <2>2, <3>1, <3>2
  <2> QED
    BY <2>3, <2>4
<1>5. CASE ~h[i].is_pause
  <2>1. i > 1 /\ h[i - 1].is_pause /\ u \in Nat
    BY <1>1, <1>2, <1>5
  <2>2. Began(h, i, from, to) = -1
    BY <1>5 DEF Began
  <2>3. CASE u < to
    <3>1. acc.start = Most(u, from) /\ acc.start >= 0
      BY <2>1, <2>3 DEF Began, Most
    <3>2. PauseStep(acc, h[i], from, to) = [paused |-> acc.paused + Monus(Least(t, to), acc.start), start |-> -1]
      BY <1>5, <3>1 DEF PauseStep
    <3>3. Gained(h, i, from, to) = Monus(Least(t, to), Most(u, from))
      BY <1>5, <2>3 DEF Gained, Overlap
    <3> QED
      BY <2>2, <3>1, <3>2, <3>3
  <2>4. CASE ~(u < to)
    <3>1. acc.start = -1
      BY <2>4 DEF Began
    <3>2. PauseStep(acc, h[i], from, to) = acc
      BY <1>5, <3>1 DEF PauseStep
    <3>3. Gained(h, i, from, to) = 0
      BY <2>4 DEF Gained, Overlap
    <3> QED
      BY <1>3, <2>2, <3>1, <3>2, <3>3
  <2> QED
    BY <2>3, <2>4
<1> QED
  BY <1>1, <1>4, <1>5

\* The run over an alternating history.
LEMMA AlternatingRun ==
    ASSUME NEW h \in Seq(PauseEvent), Alternates(h), NEW from \in Nat, NEW to \in Nat, from <= to,
           NEW f, PauseRun(f, h, from, to)
    PROVE  /\ \A i \in 0..Len(h) : f[i].start = Began(h, i, from, to) /\ f[i].paused \in Nat
           /\ f[0].paused = 0
           /\ \A i \in 1..Len(h) : f[i].paused = f[i - 1].paused + Gained(h, i, from, to)
<1>0. /\ f \in [0..Len(h) -> PauseAcc(to)] /\ f[0].paused = 0 /\ f[0].start = -1 /\ Len(h) \in Nat
      /\ \A i \in 1..Len(h) : f[i] = PauseStep(f[i - 1], h[i], from, to)
  BY EventFields DEF PauseRun
<1> DEFINE Good == {i \in 0..Len(h) : f[i].start = Began(h, i, from, to)}
<1>1. 0 \in Good
  BY <1>0 DEF Began
<1>2. ASSUME NEW i \in 1..Len(h), i - 1 \in Good
      PROVE  i \in Good /\ f[i].paused = f[i - 1].paused + Gained(h, i, from, to)
  <2>1. f[i - 1] \in PauseAcc(to) /\ i \in 0..Len(h)
    BY <1>0
  <2>2. f[i - 1].start = Began(h, i - 1, from, to)
    BY <1>2
  <2>3. f[i].start = Began(h, i, from, to) /\ f[i].paused = f[i - 1].paused + Gained(h, i, from, to)
    BY <1>0, <2>1, <2>2, AlternatingStep
  <2> QED
    BY <2>1, <2>3
<1> HIDE DEF Good
<1>3. \A i \in 0..Len(h) : i \in Good
  BY <1>0, <1>1, <1>2, UpTo
<1>4. \A i \in 0..Len(h) : f[i].start = Began(h, i, from, to) /\ f[i].paused \in Nat
  <2>1. \A i \in 0..Len(h) : f[i].paused \in Nat
    BY <1>0 DEF PauseAcc
  <2> QED
    BY <1>3, <2>1 DEF Good
<1>5. \A i \in 1..Len(h) : i - 1 \in Good
  BY <1>0, <1>3
<1> QED
  BY <1>0, <1>2, <1>4, <1>5

\* A pause from p to r is shared out between the periods from a to b and from b to c.
Shared(p, r, a, b, c) ==
    /\ Overlap(p, r, a, b) \in Nat /\ Overlap(p, r, b, c) \in Nat /\ Overlap(p, r, a, c) \in Nat
    /\ Overlap(p, r, a, b) + Overlap(p, r, b, c) = Overlap(p, r, a, c)

\* Adjacent periods share a pause.
LEMMA OverlapsAdd ==
    ASSUME NEW p \in Nat, NEW r \in Nat, NEW a \in Nat, NEW b \in Nat, NEW c \in Nat, a <= b, b <= c
    PROVE  Shared(p, r, a, b, c)
<1> USE DEF Shared
<1> DEFINE m == Most(p, a)
<1>1. m \in Nat /\ m >= p /\ m >= a /\ (m = p \/ m = a)
  BY DEF Most
<1>2. CASE p < b
  <2>1. m <= b /\ Most(p, b) = b /\ p < c
    BY <1>1, <1>2 DEF Most
  <2>2. /\ Overlap(p, r, a, b) = Monus(Least(r, b), m)
        /\ Overlap(p, r, b, c) = Monus(Least(r, c), b)
        /\ Overlap(p, r, a, c) = Monus(Least(r, c), m)
    BY <1>2, <2>1 DEF Overlap
  <2> HIDE DEF m
  <2>3. CASE r <= b
    <3>1. Least(r, b) = r /\ Least(r, c) = r /\ Monus(r, b) = 0
      BY <2>3 DEF Least, Monus
    <3> QED
      BY <1>1, <2>2, <3>1 DEF Monus
  <2>4. CASE r > b
    <3>1. Least(r, b) = b /\ Least(r, c) \in Nat /\ Least(r, c) >= b
      BY <2>4 DEF Least
    <3>2. Monus(b, m) = b - m
      BY <1>1, <2>1 DEF Monus
    <3>3. Monus(Least(r, c), b) = Least(r, c) - b /\ Monus(Least(r, c), m) = Least(r, c) - m
      BY <1>1, <2>1, <3>1 DEF Monus
    <3> QED
      BY <1>1, <2>1, <2>2, <3>1, <3>2, <3>3
  <2> QED
    BY <2>3, <2>4
<1>3. CASE ~(p < b)
  <2>1. Overlap(p, r, a, b) = 0
    BY <1>3 DEF Overlap
  <2>2. Most(p, b) = p /\ m = p
    BY <1>3 DEF Most
  <2>3. Overlap(p, r, b, c) = Overlap(p, r, a, c)
    BY <2>2 DEF Overlap
  <2>4. Overlap(p, r, a, c) \in Nat
    BY <1>1 DEF Overlap, Monus, Least
  <2> QED
    BY <2>1, <2>3, <2>4
<1> QED
  BY <1>2, <1>3

\* A pause adds no more than the time that goes by with it.
LEMMA OverlapBounded ==
    ASSUME NEW p \in Nat, NEW r \in Nat, p <= r, NEW a \in Nat, NEW b \in Nat
    PROVE  /\ Overlap(p, r, a, b) \in Nat
           /\ Monus(Least(p, b), a) + Overlap(p, r, a, b) <= Monus(Least(r, b), a)
           /\ Monus(Least(p, b), a) \in Nat /\ Monus(Least(r, b), a) \in Nat
           /\ Monus(Least(p, b), a) <= Monus(Least(r, b), a)
<1>1. /\ Least(p, b) \in Nat /\ Least(r, b) \in Nat /\ Least(p, b) <= Least(r, b)
      /\ p < b => Least(p, b) = p
  BY DEF Least
<1>2. Most(p, a) \in Nat /\ Most(p, a) >= p /\ Most(p, a) >= a /\ (Most(p, a) = p \/ Most(p, a) = a)
  BY DEF Most
<1>3. /\ Monus(Least(p, b), a) \in Nat /\ Monus(Least(r, b), a) \in Nat
      /\ Monus(Least(p, b), a) <= Monus(Least(r, b), a)
  BY <1>1 DEF Monus
<1>4. CASE p < b
  <2>1. Overlap(p, r, a, b) = Monus(Least(r, b), Most(p, a))
    BY <1>4 DEF Overlap
  <2>2. Monus(p, a) + Monus(Least(r, b), Most(p, a)) <= Monus(Least(r, b), a) /\ Monus(Least(r, b), Most(p, a)) \in Nat
    BY <1>1, <1>2, <1>4 DEF Monus
  <2> QED
    BY <1>1, <1>3, <1>4, <2>1, <2>2
<1>5. CASE ~(p < b)
  BY <1>3, <1>5 DEF Overlap
<1> QED
  BY <1>3, <1>4, <1>5

\* The paused seconds of two adjacent periods are those of both together.
LEMMA PausedSecondsAdd ==
    ASSUME NEW h \in Seq(PauseEvent), Alternates(h),
           NEW a \in Nat, NEW b \in Nat, NEW c \in Nat, a <= b, b <= c
    PROVE  calcPausedSeconds(h, a, b) + calcPausedSeconds(h, b, c) = calcPausedSeconds(h, a, c)
<1>0. Len(h) \in Nat /\ a <= c
  BY EventFields
<1>1. PICK x : PauseRun(x, h, a, b) /\ calcPausedSeconds(h, a, b) = Tally(x[Len(h)], b)
  BY PauseRuns
<1>2. PICK y : PauseRun(y, h, b, c) /\ calcPausedSeconds(h, b, c) = Tally(y[Len(h)], c)
  BY PauseRuns
<1>3. PICK z : PauseRun(z, h, a, c) /\ calcPausedSeconds(h, a, c) = Tally(z[Len(h)], c)
  BY <1>0, PauseRuns
<1>4. /\ \A i \in 0..Len(h) : x[i].start = Began(h, i, a, b) /\ x[i].paused \in Nat
      /\ x[0].paused = 0
      /\ \A i \in 1..Len(h) : x[i].paused = x[i - 1].paused + Gained(h, i, a, b)
  BY <1>1, AlternatingRun
<1>5. /\ \A i \in 0..Len(h) : y[i].start = Began(h, i, b, c) /\ y[i].paused \in Nat
      /\ y[0].paused = 0
      /\ \A i \in 1..Len(h) : y[i].paused = y[i - 1].paused + Gained(h, i, b, c)
  BY <1>2, AlternatingRun
<1>6. /\ \A i \in 0..Len(h) : z[i].start = Began(h, i, a, c) /\ z[i].paused \in Nat
      /\ z[0].paused = 0
      /\ \A i \in 1..Len(h) : z[i].paused = z[i - 1].paused + Gained(h, i, a, c)
  BY <1>0, <1>3, AlternatingRun
<1>7. ASSUME NEW i \in 1..Len(h)
      PROVE  /\ Gained(h, i, a, b) + Gained(h, i, b, c) = Gained(h, i, a, c)
             /\ Gained(h, i, a, b) \in Nat /\ Gained(h, i, b, c) \in Nat /\ Gained(h, i, a, c) \in Nat
  <2>1. h[i].timestamp \in Nat
    BY EventFields
  <2>2. CASE h[i].is_pause
    BY <2>2 DEF Gained
  <2>3. CASE ~h[i].is_pause
    <3>1. i # 1
      BY <2>3 DEF Alternates
    <3>2. i - 1 \in 1..Len(h)
      BY <1>0, <3>1
    <3>3. h[i - 1].timestamp \in Nat
      BY <3>2, EventFields
    <3> QED
      <4> DEFINE p == h[i - 1].timestamp
                 r == h[i].timestamp
      <4>1. /\ Gained(h, i, a, b) = Overlap(p, r, a, b) /\ Gained(h, i, b, c) = Overlap(p, r, b, c)
            /\ Gained(h, i, a, c) = Overlap(p, r, a, c)
        BY <2>3 DEF Gained
      <4>2. p \in Nat /\ r \in Nat
        BY <2>1, <3>3
      <4> HIDE DEF p, r
      <4>3. Shared(p, r, a, b, c)
        BY <4>2, OverlapsAdd
      <4> QED
        BY <4>1, <4>3 DEF Shared
  <2> QED
    BY <2>2, <2>3
<1> DEFINE Good == {i \in 0..Len(h) : x[i].paused + y[i].paused = z[i].paused}
<1>8. 0 \in Good
  <2>1. 0 \in 0..Len(h) /\ x[0].paused + y[0].paused = z[0].paused
    BY <1>0, <1>4, <1>5, <1>6
  <2> QED
    BY <2>1
<1>9. ASSUME NEW i \in 1..Len(h), i - 1 \in Good PROVE i \in Good
  <2>1. i \in 0..Len(h) /\ i - 1 \in 0..Len(h)
    BY <1>0
  <2>2. x[i - 1].paused + y[i - 1].paused = z[i - 1].paused
    BY <1>9
  <2>3. x[i - 1].paused \in Nat /\ y[i - 1].paused \in Nat /\ z[i - 1].paused \in Nat
    BY <1>4, <1>5, <1>6, <2>1
  <2> DEFINE u == Gained(h, i, a, b)
             v == Gained(h, i, b, c)
             w == Gained(h, i, a, c)
  <2>5. /\ x[i].paused = x[i - 1].paused + u /\ y[i].paused = y[i - 1].paused + v
        /\ z[i].paused = z[i - 1].paused + w
    BY <1>4, <1>5, <1>6
  <2>6. u \in Nat /\ v \in Nat /\ w \in Nat /\ u + v = w
    BY <1>7
  <2> DEFINE k == x[i - 1].paused
             l == y[i - 1].paused
             m == z[i - 1].paused
  <2>7. /\ x[i].paused = k + u /\ y[i].paused = l + v /\ z[i].paused = m + w
        /\ k \in Nat /\ l \in Nat /\ m \in Nat /\ k + l = m
    BY <2>2, <2>3, <2>5
  <2> HIDE DEF u, v, w, k, l, m
  <2>8. (k + u) + (l + v) = m + w
    BY <2>6, <2>7
  <2>4. x[i].paused + y[i].paused = z[i].paused
    BY <2>7, <2>8
  <2> QED
    BY <2>1, <2>4
<1> HIDE DEF Good
<1>10. \A i \in 0..Len(h) : i \in Good
  BY <1>0, <1>8, <1>9, UpTo
<1> DEFINE n == Len(h)
<1>11. n \in 0..Len(h) /\ x[n].paused + y[n].paused = z[n].paused
  BY <1>0, <1>10 DEF Good
<1>12. n = 0 \/ h[n].timestamp \in Nat
  BY <1>0, EventFields
<1>13. /\ x[n].start = Began(h, n, a, b) /\ x[n].paused \in Nat
       /\ y[n].start = Began(h, n, b, c) /\ y[n].paused \in Nat
       /\ z[n].start = Began(h, n, a, c) /\ z[n].paused \in Nat
  BY <1>4, <1>5, <1>6, <1>11
<1> HIDE DEF n
<1>14. Tally(x[n], b) + Tally(y[n], c) = Tally(z[n], c)
  <2>1. CASE n > 0 /\ h[n].is_pause
    <3> DEFINE p == h[n].timestamp
    <3>1. p \in Nat
      BY <1>12, <2>1
    <3>2. /\ x[n].start = IF p < b THEN Most(p, a) ELSE -1
          /\ y[n].start = IF p < c THEN Most(p, b) ELSE -1
          /\ z[n].start = IF p < c THEN Most(p, a) ELSE -1
      BY <1>13, <2>1 DEF Began
    <3> HIDE DEF p
    <3>3. Most(p, a) \in Nat /\ Most(p, b) \in Nat
      BY <3>1 DEF Most
    <3>4. CASE p < b
      <4>1. p < c /\ Most(p, b) = b
        BY <3>1, <3>4 DEF Most
      <4>2. Tally(x[n], b) = x[n].paused + (b - Most(p, a)) /\ Tally(z[n], c) = z[n].paused + (c - Most(p, a))
        BY <3>2, <3>3, <3>4, <4>1 DEF Tally
      <4>3. Tally(y[n], c) = y[n].paused + (c - b)
        BY <3>2, <3>3, <4>1 DEF Tally
      <4> QED
        <5> DEFINE k == x[n].paused
                   l == y[n].paused
                   m == z[n].paused
                   o == Most(p, a)
        <5>1. k \in Nat /\ l \in Nat /\ m \in Nat /\ o \in Nat /\ k + l = m
          BY <1>11, <1>13, <3>3
        <5>2. Tally(x[n], b) = k + (b - o) /\ Tally(y[n], c) = l + (c - b) /\ Tally(z[n], c) = m + (c - o)
          BY <4>2, <4>3
        <5> HIDE DEF k, l, m, o
        <5>3. (k + (b - o)) + (l + (c - b)) = m + (c - o)
          BY <5>1
        <5> QED
          BY <5>2, <5>3
    <3>5. CASE ~(p < b) /\ p < c
      <4>1. Most(p, b) = p /\ Most(p, a) = p
        BY <1>0, <3>1, <3>5 DEF Most
      <4>2. Tally(x[n], b) = x[n].paused
        BY <1>13, <3>2, <3>5 DEF Tally
      <4>3. Tally(y[n], c) = y[n].paused + (c - p) /\ Tally(z[n], c) = z[n].paused + (c - p)
        BY <3>1, <3>2, <3>5, <4>1 DEF Tally
      <4> QED
        BY <1>11, <1>13, <3>1, <4>2, <4>3
    <3>6. CASE ~(p < c)
      <4>1. ~(p < b)
        BY <1>0, <3>1, <3>6
      <4>2. Tally(x[n], b) = x[n].paused /\ Tally(y[n], c) = y[n].paused /\ Tally(z[n], c) = z[n].paused
        BY <1>13, <3>2, <3>6, <4>1 DEF Tally
      <4> QED
        BY <1>11, <4>2
    <3> QED
      BY <3>4, <3>5, <3>6
  <2>2. CASE ~(n > 0 /\ h[n].is_pause)
    BY <1>11, <1>13, <2>2 DEF Tally, Began
  <2> QED
    BY <2>1, <2>2
<1> QED
  BY <1>1, <1>2, <1>3, <1>14 DEF n

\* A history in order pauses no more seconds than there are.
LEMMA PausedSecondsBounded ==
    ASSUME NEW h \in Seq(PauseEvent), Alternates(h), NEW t, Ordered(h, t),
           NEW a \in Nat, NEW b \in Nat, a <= b
    PROVE  calcPausedSeconds(h, a, b) \in 0..(b - a)
<1>0. Len(h) \in Nat
  BY EventFields
<1>1. PICK x : PauseRun(x, h, a, b) /\ calcPausedSeconds(h, a, b) = Tally(x[Len(h)], b)
  BY PauseRuns
<1>2. /\ \A i \in 0..Len(h) : x[i].start = Began(h, i, a, b) /\ x[i].paused \in Nat
      /\ x[0].paused = 0
      /\ \A i \in 1..Len(h) : x[i].paused = x[i - 1].paused + Gained(h, i, a, b)
  BY <1>1, AlternatingRun
<1> DEFINE Reached(i) == IF i = 0 THEN 0 ELSE Monus(Least(h[i].timestamp, b), a)
           Good == {i \in 0..Len(h) : x[i].paused <= Reached(i)}
<1>3. 0 \in Good
  BY <1>0, <1>2
<1>4. ASSUME NEW i \in 1..Len(h), i - 1 \in Good PROVE i \in Good
  <2>1. i \in 0..Len(h) /\ i - 1 \in 0..Len(h) /\ h[i].timestamp \in Nat
    BY <1>0, EventFields
  <2>2. x[i - 1].paused <= Reached(i - 1) /\ x[i - 1].paused \in Nat
    BY <1>2, <1>4, <2>1
  <2>3. i # 1 => h[i - 1].timestamp \in Nat /\ h[i - 1].timestamp <= h[i].timestamp
    <3>1. i # 1 => i - 1 \in 1..Len(h)
      BY <1>0
    <3> QED
      BY <1>0, <3>1, EventFields DEF Ordered
  <2>4. i = 1 => h[i].is_pause
    BY DEF Alternates
  <2>5. x[i].paused = x[i - 1].paused + Gained(h, i, a, b)
    BY <1>2
  <2>6. x[i].paused <= Reached(i)
    <3>1. CASE h[i].is_pause
      <4>1. x[i].paused = x[i - 1].paused
        BY <2>2, <2>5, <3>1 DEF Gained
      <4>2. CASE i = 1
        BY <2>1, <2>2, <4>1, <4>2 DEF Monus, Least
      <4>3. CASE i # 1
        BY <2>1, <2>2, <2>3, <4>1, <4>3, SMTT(30) DEF Monus, Least
      <4> QED
        BY <4>2, <4>3
    <3>2. CASE ~h[i].is_pause
      <4>1. i # 1 /\ i - 1 # 0 /\ Gained(h, i, a, b) = Overlap(h[i - 1].timestamp, h[i].timestamp, a, b)
        BY <2>4, <3>2 DEF Gained
      <4> DEFINE u == Monus(Least(h[i - 1].timestamp, b), a)
                 v == Overlap(h[i - 1].timestamp, h[i].timestamp, a, b)
                 w == Monus(Least(h[i].timestamp, b), a)
      <4>2. u \in Nat /\ v \in Nat /\ w \in Nat /\ u + v <= w
        BY <2>1, <2>3, <4>1, OverlapBounded
      <4>3. Reached(i - 1) = u /\ Reached(i) = w /\ x[i].paused = x[i - 1].paused + v
        BY <2>5, <4>1
      <4> HIDE DEF u, v, w, Reached
      <4> QED
        BY <2>2, <4>2, <4>3
    <3> QED
      BY <3>1, <3>2
  <2> QED
    BY <2>1, <2>6
<1> HIDE DEF Good
<1>5. \A i \in 0..Len(h) : i \in Good
  BY <1>0, <1>3, <1>4, UpTo
<1> DEFINE n == Len(h)
<1>6. n \in 0..Len(h) /\ x[n].paused <= Reached(n)
  BY <1>0, <1>5 DEF Good
<1>7. n = 0 \/ h[n].timestamp \in Nat
  BY <1>0, EventFields
<1>8. x[n].start = Began(h, n, a, b) /\ x[n].paused \in Nat
  BY <1>2, <1>6
<1>9. n \in Nat
  BY <1>0
<1> HIDE DEF n
<1>10. Tally(x[n], b) \in 0..(b - a)
  <2>1. CASE n > 0 /\ h[n].is_pause
    BY <1>6, <1>7, <1>8, <2>1, SMTT(30) DEF Tally, Began, Most, Monus, Least
  <2>2. CASE ~(n > 0 /\ h[n].is_pause)
    BY <1>6, <1>7, <1>8, <1>9, <2>2 DEF Tally, Began, Monus, Least
  <2> QED
    BY <2>1, <2>2
<1> QED
  BY <1>1, <1>10 DEF n

\* After its last event, a history pauses every second if that was a pause, or none.
LEMMA PausedInNextSecond ==
    ASSUME NEW h \in Seq(PauseEvent), Alternates(h), NEW t \in Nat, Ordered(h, t)
    PROVE  calcPausedSeconds(h, t, t + 1) = IF Open(h) THEN 1 ELSE 0
<1>0. Len(h) \in Nat /\ t + 1 \in Nat /\ t <= t + 1
  BY EventFields
<1>1. PICK x : PauseRun(x, h, t, t + 1) /\ calcPausedSeconds(h, t, t + 1) = Tally(x[Len(h)], t + 1)
  BY <1>0, PauseRuns
<1>2. /\ \A i \in 0..Len(h) : x[i].start = Began(h, i, t, t + 1) /\ x[i].paused \in Nat
      /\ x[0].paused = 0
      /\ \A i \in 1..Len(h) : x[i].paused = x[i - 1].paused + Gained(h, i, t, t + 1)
  BY <1>0, <1>1, AlternatingRun
<1>3. ASSUME NEW i \in 1..Len(h) PROVE Gained(h, i, t, t + 1) = 0
  <2>1. h[i].timestamp \in Nat /\ h[i].timestamp <= t
    BY EventFields DEF Ordered
  <2>2. CASE h[i].is_pause
    BY <2>2 DEF Gained
  <2>3. CASE ~h[i].is_pause
    <3>1. i # 1
      BY <2>3 DEF Alternates
    <3>2. i - 1 \in 1..Len(h)
      BY <1>0, <3>1
    <3>3. h[i - 1].timestamp \in Nat
      BY <3>2, EventFields
    <3> QED
      BY <2>1, <2>3, <3>3 DEF Gained, Overlap, Monus, Least, Most
  <2> QED
    BY <2>2, <2>3
<1> DEFINE Good == {i \in 0..Len(h) : x[i].paused = 0}
<1>4. 0 \in Good
  BY <1>0, <1>2
<1>5. ASSUME NEW i \in 1..Len(h), i - 1 \in Good PROVE i \in Good
  <2>1. i \in 0..Len(h) /\ x[i - 1].paused = 0
    BY <1>0, <1>5
  <2>2. x[i].paused = x[i - 1].paused + Gained(h, i, t, t + 1)
    BY <1>2
  <2> QED
    BY <1>3, <2>1, <2>2
<1> HIDE DEF Good
<1>6. \A i \in 0..Len(h) : i \in Good
  BY <1>0, <1>4, <1>5, UpTo
<1> DEFINE n == Len(h)
<1>7. x[n].paused = 0 /\ x[n].start = Began(h, n, t, t + 1)
  BY <1>0, <1>2, <1>6 DEF Good
<1>8. CASE Open(h)
  <2>1. n > 0 /\ h[n].is_pause /\ h[n].timestamp \in Nat /\ h[n].timestamp <= t
    BY <1>0, <1>8, EventFields DEF Open, Ordered
  <2>2. Tally(x[n], t + 1) = 1
    BY <1>7, <2>1 DEF Tally, Began, Most
  <2> QED
    BY <1>1, <1>8, <2>2
<1>9. CASE ~Open(h)
  <2>1. ~(n > 0 /\ h[n].is_pause)
    BY <1>9 DEF Open
  <2>2. Tally(x[n], t + 1) = 0
    BY <1>7, <2>1 DEF Tally, Began
  <2> QED
    BY <1>1, <1>9, <2>2
<1> QED
  BY <1>8, <1>9

\* An event does not change the paused seconds of a period that has ended.
LEMMA PausedBeforeEvent ==
    ASSUME NEW h \in Seq(PauseEvent), NEW e \in PauseEvent,
           NEW from \in Nat, NEW to \in Nat, from <= to, to <= e.timestamp
    PROVE  calcPausedSeconds(Append(h, e), from, to) = calcPausedSeconds(h, from, to)
<1> DEFINE g == Append(h, e)
           n == Len(h)
<1>0. /\ g \in Seq(PauseEvent) /\ n \in Nat /\ Len(g) = n + 1 /\ g[n + 1] = e
      /\ \A i \in 1..n : g[i] = h[i]
      /\ e.timestamp \in Nat /\ e.is_pause \in BOOLEAN
  BY DEF PauseEvent
<1> HIDE DEF g
<1>1. PICK x : PauseRun(x, h, from, to) /\ calcPausedSeconds(h, from, to) = Tally(x[n], to)
  BY PauseRuns
<1>2. PICK y : PauseRun(y, g, from, to) /\ calcPausedSeconds(g, from, to) = Tally(y[n + 1], to)
  <2>1. \E y : PauseRun(y, g, from, to) /\ calcPausedSeconds(g, from, to) = Tally(y[Len(g)], to)
    BY <1>0, PauseRuns
  <2> HIDE DEF n
  <2> QED
    BY <1>0, <2>1
<1>3. /\ x[0] = [paused |-> 0, start |-> -1] /\ x[n] \in PauseAcc(to)
      /\ \A i \in 1..n : x[i] = PauseStep(x[i - 1], h[i], from, to)
  BY <1>0, <1>1 DEF PauseRun
<1>4. /\ y[0] = [paused |-> 0, start |-> -1] /\ y[n + 1] = PauseStep(y[n], e, from, to)
      /\ \A i \in 1..n : y[i] = PauseStep(y[i - 1], h[i], from, to)
  <2>1. /\ y[0] = [paused |-> 0, start |-> -1]
        /\ \A i \in 1..(n + 1) : y[i] = PauseStep(y[i - 1], g[i], from, to)
    BY <1>0, <1>2 DEF PauseRun
  <2>2. n + 1 \in 1..(n + 1) /\ (n + 1) - 1 = n /\ \A i \in 1..n : i \in 1..(n + 1)
    BY <1>0
  <2> HIDE DEF n
  <2> QED
    BY <1>0, <2>1, <2>2
<1> HIDE DEF n
<1>5. y[n] = x[n]
  <2> DEFINE Good == {i \in 0..n : y[i] = x[i]}
  <2>1. 0 \in Good
    BY <1>0, <1>3, <1>4
  <2>2. ASSUME NEW i \in 1..n, i - 1 \in Good PROVE i \in Good
    <3>1. i \in 0..n /\ y[i - 1] = x[i - 1]
      BY <1>0, <2>2
    <3>2. y[i] = x[i]
      BY <1>3, <1>4, <3>1
    <3> QED
      BY <3>1, <3>2
  <2> HIDE DEF Good
  <2>3. \A i \in 0..n : i \in Good
    BY <1>0, <2>1, <2>2, UpTo
  <2> QED
    BY <1>0, <2>3 DEF Good
<1> DEFINE acc == x[n]
<1>6. acc.paused \in Nat /\ acc.start \in Int /\ acc.start <= to
  BY <1>3 DEF PauseAcc
<1>7. y[n + 1] = PauseStep(acc, e, from, to)
  BY <1>4, <1>5
<1> HIDE DEF acc
<1>8. Tally(PauseStep(acc, e, from, to), to) = Tally(acc, to)
  <2>1. CASE e.is_pause \/ ~(acc.start >= 0)
    <3>1. PauseStep(acc, e, from, to) = acc
      BY <1>0, <2>1 DEF PauseStep
    <3> QED
      BY <3>1
  <2>2. CASE ~e.is_pause /\ acc.start >= 0
    <3>1. Monus(Least(e.timestamp, to), acc.start) = to - acc.start
      BY <1>0, <1>6, <2>2 DEF Monus, Least
    <3>2. PauseStep(acc, e, from, to) = [paused |-> acc.paused + (to - acc.start), start |-> -1]
      BY <2>2, <3>1 DEF PauseStep
    <3>3. acc.paused + (to - acc.start) \in Int
      BY <1>6
    <3>4. Tally(PauseStep(acc, e, from, to), to) = acc.paused + (to - acc.start)
      BY <3>2, <3>3 DEF Tally
    <3> QED
      BY <2>2, <3>4 DEF Tally
  <2> QED
    BY <1>0, <2>1, <2>2
<1> QED
  BY <1>1, <1>2, <1>7, <1>8 DEF acc, g

\* f adds up q, one element after the other.
SumRun(f, q) ==
    /\ f \in [0..Len(q) -> Nat]
    /\ f[0] = 0
    /\ \A i \in 1..Len(q) : f[i] = f[i - 1] + q[i]

\* SumOf returns what such a run ends with.
LEMMA SumRuns ==
    ASSUME NEW q \in Seq(Nat)
    PROVE  \E f : SumRun(f, q) /\ SumOf(q) = f[Len(q)]
<1> DEFINE st == [p \in Nat \X Nat |-> p[1] + p[2]]
           S == 1..Len(q)
           Rhs(g, s) == IF s = {} THEN 0 ELSE g[s \ {Max(s)}] + q[Max(s)]
           it == CHOOSE g : g = [s \in SUBSET S |-> Rhs(g, s)]
<1>0. Len(q) \in Nat /\ DOMAIN q = S /\ \A i \in S : q[i] \in Nat
  OBVIOUS
<1>1. 0 \in Nat /\ st \in [Nat \X Nat -> Nat]
  OBVIOUS
<1>2. \A s \in SUBSET S : s # {} => Max(s) \in s /\ Max(s) \in S /\ s \ {Max(s)} \in SUBSET S
  BY <1>0, LastPosition
<1>a. \A x \in Nat, e \in Nat : st[<<x, e>>] = x + e
  OBVIOUS
<1>3. it = [s \in SUBSET S |-> Rhs(it, s)]
  <2> HIDE DEF st
  <2>0. PICK g : Folded(g, Nat, st, 0, q)
    BY <1>1, FoldExists
  <2>1. /\ g \in [SUBSET S -> Nat]
        /\ \A s \in SUBSET S : g[s] = IF s = {} THEN 0 ELSE st[<<g[s \ {Max(s)}], q[Max(s)]>>]
    BY <2>0, Zenon DEF Folded
  <2>2. \A s \in SUBSET S : g[s] = Rhs(g, s)
    <3> SUFFICES ASSUME NEW s \in SUBSET S, s # {} PROVE g[s] = Rhs(g, s)
      BY <2>1
    <3>1. g[s \ {Max(s)}] \in Nat /\ q[Max(s)] \in Nat
      BY <1>0, <1>2, <2>1
    <3> QED
      BY <1>a, <2>1, <3>1
  <2> HIDE DEF Rhs, S
  <2>3. g = [s \in SUBSET S |-> Rhs(g, s)]
    BY <2>1, <2>2
  <2> QED
    BY <2>3, Zenon
<1>4. \A s \in SUBSET S : it[s] = Rhs(it, s)
  <2> HIDE DEF it, Rhs, S
  <2> QED
    BY <1>3, Zenon
<1>5. SumOf(q) = it[S]
  BY <1>0, Zenon DEF SumOf, FoldLeft, MapThenFoldSet
<1> HIDE DEF it
<1> DEFINE f == [i \in 0..Len(q) |-> it[1..i]]
<1>6. f[0] = 0
  <2>1. 1..0 = {} /\ {} \in SUBSET S /\ 0 \in 0..Len(q)
    BY <1>0
  <2> HIDE DEF S
  <2> QED
    BY <1>4, <2>1
<1>7. ASSUME NEW i \in 1..Len(q) PROVE f[i] = f[i - 1] + q[i]
  <2> DEFINE s == 1..i
  <2>1. /\ s \in SUBSET S /\ s # {} /\ Max(s) = i /\ s \ {i} = 1..(i - 1)
        /\ i \in 0..Len(q) /\ i - 1 \in 0..Len(q)
    <3>0. i \in Nat /\ i # 0 /\ i \in 0..Len(q) /\ i - 1 \in 0..Len(q)
      BY <1>0
    <3>3. \A j \in 1..i : j \in 1..Len(q)
      BY <1>0
    <3>1. /\ i \in Nat /\ i # 0 /\ i \in 0..Len(q) /\ i - 1 \in 0..Len(q)
          /\ s \in SUBSET S /\ s # {}
      <4>1. s \subseteq S
        BY <3>3
      <4>2. i \in s
        BY <3>0
      <4> HIDE DEF s, S
      <4> QED
        BY <3>0, <4>1, <4>2
    <3>2. Max(1..i) = i /\ (1..i) \ {i} = 1..(i - 1)
      BY <3>1, LastOfAll
    <3> QED
      BY <3>1, <3>2
  <2>2. f[i] = it[s] /\ f[i - 1] = it[1..(i - 1)]
    BY <2>1
  <2> HIDE DEF s, f, S
  <2>3. it[s] = it[s \ {Max(s)}] + q[Max(s)]
    BY <1>4, <2>1
  <2> QED
    BY <2>1, <2>2, <2>3
<1>8. f = [i \in 0..Len(q) |-> f[i]]
  OBVIOUS
<1>9. f[Len(q)] = it[S]
  BY <1>0
<1> HIDE DEF f, S
<1> DEFINE Good == {i \in 0..Len(q) : f[i] \in Nat}
<1>10. 0 \in Good
  BY <1>0, <1>6
<1>11. ASSUME NEW i \in 1..Len(q), i - 1 \in Good PROVE i \in Good
  <2>1. i \in 0..Len(q) /\ f[i - 1] \in Nat /\ q[i] \in Nat /\ f[i] = f[i - 1] + q[i]
    BY <1>0, <1>7, <1>11 DEF S
  <2> QED
    BY <2>1
<1> HIDE DEF Good
<1>12. \A i \in 0..Len(q) : i \in Good
  BY <1>0, <1>10, <1>11, UpTo
<1>13. f \in [0..Len(q) -> Nat]
  BY <1>8, <1>12 DEF Good
<1>14. SumRun(f, q)
  BY <1>6, <1>7, <1>13 DEF SumRun
<1> QED
  BY <1>5, <1>9, <1>14

\* The end of period k of length l, and so the start of the next, from a to e.
Cut(a, e, l, k) == Least(a + k * l, e)

\* The periods that buildPeriods returns follow one another from a to e.
LEMMA PeriodsCover ==
    ASSUME NEW a \in Nat, NEW e \in Nat, a < e, NEW l \in Nat \ {0}
    PROVE  LET p == buildPeriods(a, e, l)
           IN  /\ Len(p) \in Nat /\ Cut(a, e, l, 0) = a /\ Cut(a, e, l, Len(p)) = e
               /\ \A k \in 0..Len(p) : Cut(a, e, l, k) \in Nat /\ a <= Cut(a, e, l, k) /\ Cut(a, e, l, k) <= e
               /\ \A k \in 1..Len(p) : /\ p[k].start = Cut(a, e, l, k - 1) /\ p[k].end = Cut(a, e, l, k)
                                       /\ Cut(a, e, l, k - 1) < Cut(a, e, l, k)
<1> DEFINE x == (e - a) + l - 1
           n == x \div l
           p == buildPeriods(a, e, l)
<1>1. x \in Nat
  OBVIOUS
<1>2. n \in Nat /\ n * l <= x /\ x < n * l + l
  <2> HIDE DEF x
  <2> QED
    BY <1>1
<1>3. e - a <= n * l /\ n # 0
  <2> HIDE DEF n
  <2> QED
    BY <1>2, n * l \in Nat
<1>4. p = [k \in 1..n |-> [start |-> a + (k - 1) * l, end |-> Cut(a, e, l, k)]]
  BY DEF buildPeriods, Cut
<1> HIDE DEF n, p
<1>5. Len(p) = n
  BY <1>2, <1>4
<1>6. \A k \in 0..n : k * l \in Nat
  BY <1>2, ProductNat
<1>7. \A k \in 0..n : Cut(a, e, l, k) \in Nat /\ a <= Cut(a, e, l, k) /\ Cut(a, e, l, k) <= e
  BY <1>6 DEF Cut, Least
<1>8. Cut(a, e, l, 0) = a
  BY DEF Cut, Least
<1>9. Cut(a, e, l, n) = e
  <2>1. n * l \in Nat
    BY <1>2, ProductNat
  <2> DEFINE m == n * l
  <2>2. m \in Nat /\ e - a <= m
    BY <1>3, <2>1
  <2>3. Cut(a, e, l, n) = Least(a + m, e)
    BY DEF Cut
  <2> HIDE DEF m
  <2> QED
    BY <2>2, <2>3 DEF Least
<1>10. ASSUME NEW k \in 1..n
       PROVE  /\ p[k].start = Cut(a, e, l, k - 1) /\ p[k].end = Cut(a, e, l, k)
              /\ Cut(a, e, l, k - 1) < Cut(a, e, l, k)
  <2> DEFINE u == (k - 1) * l
             m == (n - 1) * l
  <2>1. k \in Nat /\ k - 1 \in Nat /\ n - 1 \in Nat /\ k - 1 <= n - 1
    BY <1>2
  <2>2. u \in Nat /\ m \in Nat /\ u <= m
    BY <2>1, FewerSeconds, ProductNat
  <2>3. k * l = u + l /\ n * l = m + l
    <3>1. ((k - 1) + 1) * l = (k - 1) * l + l /\ ((n - 1) + 1) * l = (n - 1) * l + l
      BY <2>1, OneMoreSecond
    <3>2. (k - 1) + 1 = k /\ (n - 1) + 1 = n
      BY <1>2, <2>1
    <3> QED
      BY <3>1, <3>2
  <2>4. p[k].start = a + u /\ p[k].end = Cut(a, e, l, k)
    BY <1>4
  <2>5. Cut(a, e, l, k - 1) = Least(a + u, e) /\ Cut(a, e, l, k) = Least(a + (u + l), e)
    BY <2>3 DEF Cut
  <2>6. m + l <= (e - a) + l - 1
    BY <1>2, <2>3 DEF x
  <2> HIDE DEF u, m
  <2>7. a + u < e
    BY <2>2, <2>6
  <2> QED
    BY <2>2, <2>4, <2>5, <2>7 DEF Least
<1> HIDE DEF x
<1> QED
  BY <1>2, <1>5, <1>7, <1>8, <1>9, <1>10 DEF p

\* The seconds from a to b that are not paused.
Unpaused(h, a, b) == (b - a) - calcPausedSeconds(h, a, b)

\* Those from a to b and from b to c are those from a to c.
Adjoin(h, a, b, c) ==
    /\ Unpaused(h, a, b) \in Nat /\ Unpaused(h, b, c) \in Nat
    /\ Unpaused(h, a, c) = Unpaused(h, a, b) + Unpaused(h, b, c)

\* Adjacent periods adjoin.
LEMMA UnpausedAdd ==
    ASSUME NEW h \in Seq(PauseEvent), Alternates(h), NEW t, Ordered(h, t),
           NEW a \in Nat, NEW b \in Nat, NEW c \in Nat, a <= b, b <= c
    PROVE  Adjoin(h, a, b, c)
<1> DEFINE x == calcPausedSeconds(h, a, b)
           y == calcPausedSeconds(h, b, c)
           z == calcPausedSeconds(h, a, c)
<1>1. x \in 0..(b - a) /\ y \in 0..(c - b)
  BY PausedSecondsBounded
<1>2. x + y = z
  BY PausedSecondsAdd
<1>3. Unpaused(h, a, b) = (b - a) - x /\ Unpaused(h, b, c) = (c - b) - y /\ Unpaused(h, a, c) = (c - a) - z
  BY DEF Unpaused
<1> HIDE DEF x, y, z
<1> QED
  BY <1>1, <1>2, <1>3 DEF Adjoin

\* The seconds stream s has worked by time t, from its start on.
Worked(s, h, t) == Unpaused(h, s.start_time, EffectiveEnd(s, t))

\* What the report says of the period from a to b.
LEMMA PeriodEarned ==
    ASSUME NEW s \in StreamRecord, ~is_terminal(s.status),
           NEW h \in Seq(PauseEvent), Alternates(h), NEW t, Ordered(h, t),
           NEW a \in Nat, NEW b \in Nat, a < b, NEW period, period.start = a, period.end = b
    PROVE  LET q == calculateBalance(Slice(s, period), h, b)
               x == Unpaused(h, a, b) * s.rate_per_second
           IN  /\ q \in Nat /\ x \in Nat /\ q <= x
               /\ s.withdrawn = 0 /\ s.cliff_time = 0 /\ x <= s.deposit => q = x
<1> DEFINE sl == Slice(s, period)
           w == Unpaused(h, a, b)
           r == s.rate_per_second
           e == ActiveElapsed(sl, h, b)
<1>1. /\ s.withdrawn \in Nat /\ s.deposit \in Nat /\ r \in Nat /\ s.cliff_time \in Nat
  BY DEF StreamRecord
<1>2. /\ sl.last_withdraw_time = a /\ sl.stop_time = b /\ sl.rate_per_second = r /\ sl.cliff_time = s.cliff_time
      /\ sl.status = s.status /\ sl.deposit = s.deposit /\ sl.withdrawn = s.withdrawn
  BY DEF Slice, StreamRecord
<1> HIDE DEF sl
<1>3. EffectiveEnd(sl, b) = b
  BY <1>2 DEF EffectiveEnd
<1>4. calcPausedSeconds(h, a, b) \in 0..(b - a)
  <2>1. a <= b
    OBVIOUS
  <2> QED
    BY <2>1, PausedSecondsBounded
<1>5. w \in Nat /\ w = Monus(b - a, calcPausedSeconds(h, a, b))
  <2> DEFINE p == calcPausedSeconds(h, a, b)
  <2>1. p \in 0..(b - a) /\ w = (b - a) - p
    BY <1>4 DEF Unpaused
  <2> HIDE DEF p, w
  <2>2. w \in Nat /\ w = Monus(b - a, p)
    BY <2>1 DEF Monus
  <2> QED
    BY <2>2 DEF p
<1>6. e = IF BeforeCliff(sl, b) THEN 0 ELSE w
  BY <1>2, <1>3, <1>5 DEF ActiveElapsed
<1>7. s.cliff_time = 0 => ~BeforeCliff(sl, b)
  BY <1>2 DEF BeforeCliff
<1> HIDE DEF w, r, e
<1> DEFINE x == w * r
           y == e * r
           m == Remaining(sl)
<1>8. e \in Nat /\ e <= w
  BY <1>5, <1>6
<1>9. x \in Nat /\ y \in Nat /\ y <= x
  BY <1>1, <1>5, <1>8, FewerSeconds, ProductNat
<1>10. m \in Nat /\ (s.withdrawn = 0 => m = s.deposit)
  BY <1>1, <1>2 DEF Remaining, Monus
<1>11. calculateBalance(sl, h, b) = Least(y, m)
  BY <1>2 DEF calculateBalance, e
<1>12. s.cliff_time = 0 => y = x
  BY <1>6, <1>7
<1> HIDE DEF x, y, m
<1>13. /\ Least(y, m) \in Nat /\ Least(y, m) <= x
       /\ s.withdrawn = 0 /\ s.cliff_time = 0 /\ x <= s.deposit => Least(y, m) = x
  BY <1>1, <1>9, <1>10, <1>12 DEF Least
<1> QED
  BY <1>9, <1>11, <1>13 DEF x, w, r, sl

\* The report adds up to no more than the seconds worked are worth, and to exactly
\* that when neither a withdrawal nor the cliff nor the deposit cuts a period short.
LEMMA PayrollSum ==
    ASSUME NEW s \in StreamRecord, ~is_terminal(s.status),
           NEW h \in Seq(PauseEvent), Alternates(h), NEW t \in Nat, Ordered(h, t),
           s.start_time <= EffectiveEnd(s, t)
    PROVE  LET total == SumOf(calculateBalanceByDuration(s, h, PeriodLength, t))
               m == Worked(s, h, t) * s.rate_per_second
           IN  /\ total <= m
               /\ s.withdrawn = 0 /\ s.cliff_time = 0 /\ m <= s.deposit => total = m
<1> DEFINE a == s.start_time
           e == EffectiveEnd(s, t)
           r == s.rate_per_second
           q == calculateBalanceByDuration(s, h, PeriodLength, t)
           U(u, v) == Unpaused(h, u, v) * r
<1>1. a \in Nat /\ e \in Nat /\ r \in Nat /\ s.deposit \in Nat /\ a <= e
  BY RecordNats DEF StreamRecord
<1>2. \A u, v, w \in Nat : u <= v /\ v <= w =>
          U(u, v) \in Nat /\ U(v, w) \in Nat /\ U(u, w) = U(u, v) + U(v, w)
  <2> SUFFICES ASSUME NEW u \in Nat, NEW v \in Nat, NEW w \in Nat, u <= v, v <= w
               PROVE  U(u, v) \in Nat /\ U(v, w) \in Nat /\ U(u, w) = U(u, v) + U(v, w)
    BY Zenon
  <2> DEFINE x == Unpaused(h, u, v)
             y == Unpaused(h, v, w)
  <2>1. x \in Nat /\ y \in Nat /\ Unpaused(h, u, w) = x + y
    <3>1. Adjoin(h, u, v, w)
      BY UnpausedAdd
    <3> QED
      BY <3>1 DEF Adjoin
  <2>2. U(u, v) = x * r /\ U(v, w) = y * r /\ U(u, w) = (x + y) * r
    BY <2>1
  <2> HIDE DEF x, y, U, r
  <2>3. (x + y) * r = x * r + y * r /\ x * r \in Nat /\ y * r \in Nat
    BY <1>1, <2>1, ProductNat
  <2> QED
    BY <2>2, <2>3
<1>3. U(a, a) = 0
  <2>1. Unpaused(h, a, a) = Unpaused(h, a, a) + Unpaused(h, a, a) /\ Unpaused(h, a, a) \in Nat
    <3>1. a \in Nat /\ a <= a
      BY <1>1
    <3> HIDE DEF a
    <3>2. Adjoin(h, a, a, a)
      BY <3>1, UnpausedAdd
    <3> QED
      BY <3>2 DEF Adjoin
  <2>2. Unpaused(h, a, a) = 0
    BY <2>1
  <2> QED
    BY <1>1, <2>2, NoSeconds
<1>4. Worked(s, h, t) * s.rate_per_second = U(a, e)
  BY DEF Worked
<1>5. CASE e <= a
  <2>1. q = <<>> /\ e = a
    BY <1>1, <1>5 DEF calculateBalanceByDuration
  <2>2. <<>> \in Seq(Nat) /\ Len(<<>>) = 0
    OBVIOUS
  <2>3. PICK f : SumRun(f, <<>>) /\ SumOf(<<>>) = f[Len(<<>>)]
    BY <2>2, SumRuns
  <2>4. SumOf(q) = 0
    BY <2>1, <2>2, <2>3 DEF SumRun
  <2> HIDE DEF U, q, a, e, r
  <2> QED
    BY <1>1, <1>3, <1>4, <2>1, <2>4 DEF q
<1>6. CASE a < e
  <2> DEFINE p == buildPeriods(a, e, PeriodLength)
             n == Len(p)
             C(k) == Cut(a, e, PeriodLength, k)
  <2>1. /\ n \in Nat /\ C(0) = a /\ C(n) = e
        /\ \A k \in 0..n : C(k) \in Nat /\ a <= C(k) /\ C(k) <= e
        /\ \A k \in 1..n : p[k].start = C(k - 1) /\ p[k].end = C(k) /\ C(k - 1) < C(k)
    <3> HIDE DEF a, e
    <3> QED
      BY <1>1, <1>6, AuditAssumption, PeriodsCover
  <2>2. q = [k \in 1..n |-> calculateBalance(Slice(s, p[k]), h, p[k].end)]
    BY <1>1, <1>6 DEF calculateBalanceByDuration
  <2> HIDE DEF p, n, C, a, e, r, q
  <2>3. ASSUME NEW k \in 1..n
        PROVE  /\ q[k] \in Nat /\ U(C(k - 1), C(k)) \in Nat /\ q[k] <= U(C(k - 1), C(k))
               /\ s.withdrawn = 0 /\ s.cliff_time = 0 /\ U(C(k - 1), C(k)) <= s.deposit
                     => q[k] = U(C(k - 1), C(k))
    <3>1. k \in 0..n /\ k - 1 \in 0..n
      BY <2>1
    <3>2. C(k - 1) \in Nat /\ C(k) \in Nat /\ C(k - 1) < C(k) /\ p[k].start = C(k - 1) /\ p[k].end = C(k)
      BY <2>1, <3>1
    <3>3. q[k] = calculateBalance(Slice(s, p[k]), h, C(k))
      BY <2>2, <3>2
    <3> QED
      BY <3>2, <3>3, PeriodEarned DEF r
  <2> HIDE DEF U
  <2>4. q \in Seq(Nat) /\ Len(q) = n
    <3>1. \A k \in 1..n : q[k] \in Nat
      BY <2>3
    <3>2. q \in [1..n -> Nat]
      BY <2>2, <3>1
    <3> QED
      BY <2>1, <3>2
  <2>5. PICK f : SumRun(f, q) /\ SumOf(q) = f[n]
    BY <2>4, SumRuns
  <2>6. /\ f[0] = 0 /\ \A k \in 0..n : f[k] \in Nat
        /\ \A k \in 1..n : f[k] = f[k - 1] + q[k]
    BY <2>4, <2>5 DEF SumRun
  <2>7. ASSUME NEW k \in 1..n
        PROVE  /\ U(a, C(k - 1)) \in Nat /\ U(C(k - 1), C(k)) \in Nat /\ U(C(k), e) \in Nat
               /\ U(a, C(k)) = U(a, C(k - 1)) + U(C(k - 1), C(k)) /\ U(a, e) = U(a, C(k)) + U(C(k), e)
    <3>1. k \in 0..n /\ k - 1 \in 0..n
      BY <2>1
    <3>2. /\ C(k - 1) \in Nat /\ C(k) \in Nat /\ a <= C(k - 1) /\ C(k - 1) <= C(k) /\ a <= C(k) /\ C(k) <= e
      BY <2>1, <3>1
    <3>3. /\ U(a, C(k - 1)) \in Nat /\ U(C(k - 1), C(k)) \in Nat
          /\ U(a, C(k)) = U(a, C(k - 1)) + U(C(k - 1), C(k))
      BY <1>1, <1>2, <3>2
    <3>4. U(C(k), e) \in Nat /\ U(a, e) = U(a, C(k)) + U(C(k), e)
      BY <1>1, <1>2, <3>2
    <3> QED
      BY <3>3, <3>4
  <2> DEFINE Full == s.withdrawn = 0 /\ s.cliff_time = 0 /\ U(a, e) <= s.deposit
             Good == {k \in 0..n : f[k] <= U(a, C(k)) /\ (Full => f[k] = U(a, C(k)))}
  <2>8. 0 \in Good
    BY <1>3, <2>1, <2>6
  <2>9. ASSUME NEW k \in 1..n, k - 1 \in Good PROVE k \in Good
    <3> DEFINE x == U(a, C(k - 1))
               y == U(C(k - 1), C(k))
               z == U(C(k), e)
               w == U(a, e)
    <3>1. x \in Nat /\ y \in Nat /\ z \in Nat /\ U(a, C(k)) = x + y /\ w = (x + y) + z
      BY <2>7
    <3>2. k \in 0..n /\ k - 1 \in 0..n /\ f[k] = f[k - 1] + q[k] /\ f[k - 1] \in Nat
      BY <2>1, <2>6
    <3>3. f[k - 1] <= x /\ (Full => f[k - 1] = x)
      BY <2>9
    <3>4. q[k] \in Nat /\ q[k] <= y /\ (s.withdrawn = 0 /\ s.cliff_time = 0 /\ y <= s.deposit => q[k] = y)
      BY <2>3
    <3> DEFINE g == f[k - 1]
               i == q[k]
    <3>5. f[k] = g + i /\ g \in Nat /\ i \in Nat /\ g <= x /\ i <= y /\ (Full => g = x)
      BY <3>2, <3>3, <3>4
    <3>6. Full => i = y
      <4> SUFFICES ASSUME Full PROVE y <= s.deposit
        BY <3>4
      <4>1. w <= s.deposit
        OBVIOUS
      <4> HIDE DEF w, x, y, z, Full
      <4> QED
        BY <1>1, <3>1, <4>1
    <3> HIDE DEF g, i, x, y, z, w, Full
    <3>7. g + i <= x + y /\ (Full => g + i = x + y)
      BY <3>1, <3>5, <3>6
    <3>8. f[k] <= U(a, C(k)) /\ (Full => f[k] = U(a, C(k)))
      BY <3>1, <3>5, <3>7
    <3> QED
      BY <3>2, <3>8
  <2> HIDE DEF Good
  <2>10. \A k \in 0..n : k \in Good
    BY <2>1, <2>8, <2>9, UpTo
  <2>11. SumOf(q) <= U(a, e) /\ (Full => SumOf(q) = U(a, e))
    BY <2>1, <2>5, <2>10 DEF Good
  <2> QED
    BY <1>4, <2>11 DEF q
<1>7. a < e \/ e <= a
  BY <1>1
<1> QED
  BY <1>5, <1>6, <1>7

-----------------------------------------------------------------------------
(* The pause history and the meter of one stream.                          *)

\* The history of stream s alternates and is in order, is open exactly while s is
\* paused, and, unless the rate was updated (c), meter m holds what the seconds
\* worked by time t are worth.
Booked(s, h, m, c, t) ==
    /\ Alternates(h) /\ Ordered(h, t)
    /\ s.start_time <= t /\ (s.stop_time > 0 => s.start_time <= s.stop_time)
    /\ ~is_terminal(s.status) => (Open(h) <=> s.status = "Paused")
    /\ ~is_terminal(s.status) /\ ~c => m = Worked(s, h, t) * s.rate_per_second

BooksOK == \A id \in Ids : Booked(streams[id], pause_history[id], metered[id], id \in rerated, now)

\* A call that keeps the times of the stream, and its status and rate or ends it.
LEMMA SameBooked ==
    ASSUME NEW s, NEW s2, NEW h, NEW m, NEW c, NEW c2, NEW t, Booked(s, h, m, c, t),
           s2.start_time = s.start_time, s2.stop_time = s.stop_time,
           \/ is_terminal(s2.status)
           \/ s2.status = s.status /\ (c2 \/ ((c <=> c2) /\ s2.rate_per_second = s.rate_per_second))
    PROVE  Booked(s2, h, m, c2, t)
<1>1. Worked(s2, h, t) = Worked(s, h, t)
  BY DEF Worked, EffectiveEnd
<1> QED
  BY <1>1 DEF Booked

\* The end of a stream is not before its start.
LEMMA EndAfterStart ==
    ASSUME NEW s \in StreamRecord, NEW h, NEW m, NEW c, NEW t \in Nat, Booked(s, h, m, c, t)
    PROVE  /\ s.start_time \in Nat /\ EffectiveEnd(s, t) \in Nat
           /\ s.start_time <= EffectiveEnd(s, t) /\ EffectiveEnd(s, t) <= t
BY RecordNats DEF StreamRecord, Booked, EffectiveEnd

\* An event that continues the alternation, now, keeps the history in order.
LEMMA AppendedHistory ==
    ASSUME NEW h \in Seq(PauseEvent), Alternates(h), NEW t \in Nat, Ordered(h, t),
           NEW e \in PauseEvent, e.timestamp = t, e.is_pause <=> ~Open(h)
    PROVE  /\ Append(h, e) \in Seq(PauseEvent) /\ Alternates(Append(h, e)) /\ Ordered(Append(h, e), t)
           /\ Open(Append(h, e)) <=> e.is_pause
<1> DEFINE g == Append(h, e)
           n == Len(h)
<1>1. /\ g \in Seq(PauseEvent) /\ n \in Nat /\ Len(g) = n + 1 /\ g[n + 1] = e
      /\ \A i \in 1..n : g[i] = h[i]
  OBVIOUS
<1> HIDE DEF g, n
<1>2. ASSUME NEW i \in 1..(n + 1), i \in 1..n
      PROVE  /\ g[i].is_pause <=> (i = 1 \/ ~g[i - 1].is_pause)
             /\ g[i].timestamp <= t /\ (i > 1 => g[i - 1].timestamp <= g[i].timestamp)
  <2>1. g[i] = h[i] /\ (i > 1 => g[i - 1] = h[i - 1])
    BY <1>1, <1>2
  <2>2. /\ h[i].is_pause <=> (i = 1 \/ ~h[i - 1].is_pause)
        /\ h[i].timestamp <= t /\ (i > 1 => h[i - 1].timestamp <= h[i].timestamp)
    BY <1>2 DEF Alternates, Ordered, n
  <2>3. i = 1 \/ i > 1
    BY <1>1, <1>2
  <2> QED
    BY <2>1, <2>2, <2>3
<1>3. ASSUME NEW i \in 1..(n + 1), i = n + 1
      PROVE  /\ g[i].is_pause <=> (i = 1 \/ ~g[i - 1].is_pause)
             /\ g[i].timestamp <= t /\ (i > 1 => g[i - 1].timestamp <= g[i].timestamp)
  <2>1. g[i] = e /\ e.timestamp <= t
    BY <1>1, <1>3
  <2>2. CASE n = 0
    <3>1. i = 1 /\ ~Open(h)
      BY <1>3, <2>2 DEF Open, n
    <3> QED
      BY <2>1, <3>1
  <2>3. CASE n > 0
    <3>1. n \in 1..n /\ i - 1 = n /\ i # 1
      BY <1>1, <1>3, <2>3
    <3>2. g[i - 1] = h[n]
      BY <1>1, <3>1
    <3>3. (Open(h) <=> h[n].is_pause) /\ h[n].timestamp <= t
      BY <2>3, <3>1 DEF Open, Ordered, n
    <3> QED
      BY <2>1, <3>1, <3>2, <3>3
  <2> QED
    BY <1>1, <2>2, <2>3
<1>4. \A i \in 1..(n + 1) : i \in 1..n \/ i = n + 1
  BY <1>1
<1>5. Alternates(g) /\ Ordered(g, t)
  BY <1>1, <1>2, <1>3, <1>4 DEF Alternates, Ordered
<1>6. Open(g) <=> e.is_pause
  BY <1>1 DEF Open
<1> QED
  BY <1>1, <1>5, <1>6 DEF g

\* pause_stream and resume_stream, on the record and its history.
LEMMA EventBooked ==
    ASSUME NEW s \in StreamRecord, NEW s2, NEW h \in Seq(PauseEvent), NEW m, NEW c, NEW t \in Nat,
           Booked(s, h, m, c, t), ~is_terminal(s.status), NEW e \in PauseEvent, e.timestamp = t,
           e.is_pause <=> s.status # "Paused", e.is_pause <=> s2.status = "Paused",
           s2.start_time = s.start_time, s2.stop_time = s.stop_time, s2.rate_per_second = s.rate_per_second
    PROVE  Booked(s2, Append(h, e), m, c, t)
<1>1. /\ Alternates(h) /\ Ordered(h, t) /\ (e.is_pause <=> ~Open(h))
      /\ ~c => m = Worked(s, h, t) * s.rate_per_second
  BY DEF Booked
<1>2. /\ Alternates(Append(h, e)) /\ Ordered(Append(h, e), t)
      /\ Open(Append(h, e)) <=> e.is_pause
  BY <1>1, AppendedHistory
<1>3. /\ s.start_time \in Nat /\ EffectiveEnd(s, t) \in Nat
      /\ s.start_time <= EffectiveEnd(s, t) /\ EffectiveEnd(s, t) <= e.timestamp
  BY EndAfterStart
<1>4. calcPausedSeconds(Append(h, e), s.start_time, EffectiveEnd(s, t))
         = calcPausedSeconds(h, s.start_time, EffectiveEnd(s, t))
  BY <1>3, PausedBeforeEvent
<1>5. EffectiveEnd(s2, t) = EffectiveEnd(s, t)
  BY DEF EffectiveEnd
<1>6. Worked(s2, Append(h, e), t) = Worked(s, h, t)
  BY <1>4, <1>5 DEF Worked, Unpaused
<1> QED
  BY <1>1, <1>2, <1>6 DEF Booked

\* A second passes: it counts as worked exactly when the stream accrues.
LEMMA TickBooked ==
    ASSUME NEW s \in StreamRecord, NEW h \in Seq(PauseEvent), NEW m, NEW c, NEW t \in Nat,
           Booked(s, h, m, c, t), NEW m2,
           m2 = IF s.status = "Active" /\ (s.stop_time > 0 => t < s.stop_time)
                THEN m + s.rate_per_second ELSE m
    PROVE  Booked(s, h, m2, c, t + 1)
<1> DEFINE a == s.start_time
           e == EffectiveEnd(s, t)
           f == EffectiveEnd(s, t + 1)
           r == s.rate_per_second
<1>1. /\ Alternates(h) /\ Ordered(h, t) /\ a <= t /\ (s.stop_time > 0 => a <= s.stop_time)
      /\ ~is_terminal(s.status) => (Open(h) <=> s.status = "Paused")
      /\ ~is_terminal(s.status) /\ ~c => m = Worked(s, h, t) * r
  BY DEF Booked
<1>2. /\ a \in Nat /\ e \in Nat /\ a <= e /\ e <= t /\ s.stop_time \in Nat /\ r \in Nat
      /\ s.status \in StreamStatus
  BY EndAfterStart, RecordNats
<1>3. Ordered(h, t + 1)
  <2>1. \A i \in 1..Len(h) : h[i].timestamp \in Nat
    BY EventFields
  <2> QED
    BY <1>1, <2>1 DEF Ordered
<1>4. a <= t + 1
  BY <1>1, <1>2
<1>5. ASSUME ~is_terminal(s.status), ~c PROVE m2 = Worked(s, h, t + 1) * r
  <2>1. s.status \in {"Active", "Paused"}
    BY <1>2, <1>5 DEF is_terminal, StreamStatus
  <2>2. CASE s.stop_time > 0 /\ ~(t < s.stop_time)
    <3>1. f = e /\ m2 = m
      BY <1>2, <2>2 DEF EffectiveEnd
    <3> QED
      BY <1>1, <1>5, <3>1 DEF Worked
  <2>3. CASE s.stop_time > 0 => t < s.stop_time
    <3> DEFINE x == Unpaused(h, a, t)
               y == Unpaused(h, t, t + 1)
    <3>1. e = t /\ f = t + 1
      BY <1>2, <2>3 DEF EffectiveEnd
    <3>2. t + 1 \in Nat /\ t <= t + 1 /\ a <= t
      BY <1>1
    <3>3. Adjoin(h, a, t, t + 1)
      <4> HIDE DEF a
      <4> QED
        BY <1>1, <1>2, <3>2, UnpausedAdd
    <3>4. x \in Nat /\ y \in Nat /\ Worked(s, h, t + 1) = x + y /\ Worked(s, h, t) = x
      BY <3>1, <3>3 DEF Adjoin, Worked
    <3>5. y = IF s.status = "Active" THEN 1 ELSE 0
      <4>1. calcPausedSeconds(h, t, t + 1) = IF Open(h) THEN 1 ELSE 0
        BY <1>1, PausedInNextSecond
      <4>2. Open(h) <=> s.status # "Active"
        BY <1>1, <1>5, <2>1
      <4>3. y = ((t + 1) - t) - calcPausedSeconds(h, t, t + 1)
        BY DEF Unpaused
      <4>4. y = ((t + 1) - t) - (IF s.status = "Active" THEN 0 ELSE 1)
        BY <4>1, <4>2, <4>3
      <4> QED
        BY <4>4
    <3>6. m = x * r /\ m2 = IF s.status = "Active" THEN m + r ELSE m
      BY <1>1, <1>5, <2>3, <3>4
    <3> HIDE DEF x, y, r
    <3>7. (x + 1) * r = x * r + r /\ x + 0 = x
      BY <1>2, <3>4, OneMoreSecond
    <3>8. m2 = (x + y) * r
      BY <3>5, <3>6, <3>7
    <3> QED
      BY <3>4, <3>8
  <2> QED
    BY <2>2, <2>3
<1> QED
  BY <1>1, <1>3, <1>4, <1>5 DEF Booked

\* A stream is created now, with an empty history and nothing on its meter.
LEMMA NewBooked ==
    ASSUME NEW s, NEW c, NEW t \in Nat, s.start_time = t, s.stop_time \in Nat,
           s.stop_time > 0 => s.stop_time > t, s.status = "Active", s.rate_per_second \in Nat
    PROVE  Booked(s, <<>>, 0, c, t)
<1> DEFINE h == <<>>
           x == Unpaused(h, t, t)
<1>1. h \in Seq(PauseEvent) /\ Alternates(h) /\ Ordered(h, t) /\ ~Open(h)
  BY DEF Alternates, Ordered, Open
<1>2. EffectiveEnd(s, t) = t /\ s.start_time <= t /\ (s.stop_time > 0 => s.start_time <= s.stop_time)
  BY DEF EffectiveEnd
<1> HIDE DEF h
<1>3. Adjoin(h, t, t, t)
  <2>1. t <= t
    OBVIOUS
  <2> QED
    BY <1>1, <2>1, UnpausedAdd
<1>4. x \in Nat /\ x = x + x
  BY <1>3 DEF Adjoin
<1>5. Worked(s, h, t) = x
  BY <1>2 DEF Worked
<1> HIDE DEF x
<1>6. x = 0
  BY <1>4
<1>7. 0 = Worked(s, h, t) * s.rate_per_second
  BY <1>5, <1>6, NoSeconds
<1> QED
  BY <1>1, <1>2, <1>7 DEF Booked, h, is_terminal

-----------------------------------------------------------------------------
(* The pause histories and meters of all streams.                          *)

\* A call that changes stream id only keeps BooksOK if that one's books stay in order.
LEMMA OneBooked ==
    ASSUME IInv, BooksOK, NEW id \in Ids, stream_count' = stream_count, now' = now, metered' = Metered,
           \A i \in Ids \ {id} : /\ streams'[i] = streams[i] /\ pause_history'[i] = pause_history[i]
                                 /\ (i \in rerated') <=> (i \in rerated),
           Booked(streams'[id], pause_history'[id], metered[id], id \in rerated', now)
    PROVE  BooksOK'
<1>1. Ids' = Ids /\ Ids = 1..stream_count /\ stream_count \in Nat /\ now \in Nat
  BY DEF Ids, IInv, StreamsOK
<1>2. \A i \in Ids : metered'[i] = metered[i]
  BY <1>1 DEF Metered
<1> SUFFICES ASSUME NEW i \in Ids
             PROVE  Booked(streams'[i], pause_history'[i], metered'[i], i \in rerated', now')
  BY <1>1 DEF BooksOK
<1>3. CASE i = id
  BY <1>2, <1>3
<1>4. CASE i # id
  <2>1. Booked(streams[i], pause_history[i], metered[i], i \in rerated, now)
    BY DEF BooksOK
  <2>2. (i \in rerated') = (i \in rerated)
    BY <1>4
  <2> QED
    BY <1>2, <1>4, <2>1, <2>2
<1> QED
  BY <1>3, <1>4

\* A call that leaves streams and time alone.
LEMMA NoneBooked ==
    ASSUME IInv, BooksOK, stream_count' = stream_count, now' = now, metered' = Metered,
           streams' = streams, pause_history' = pause_history, rerated' = rerated
    PROVE  BooksOK'
<1>1. Ids' = Ids /\ Ids = 1..stream_count /\ stream_count \in Nat /\ now \in Nat
  BY DEF Ids, IInv, StreamsOK
<1>2. \A i \in Ids : metered'[i] = metered[i]
  BY <1>1 DEF Metered
<1> QED
  BY <1>1, <1>2 DEF BooksOK

\* A call that leaves the history of stream id and its start and stop times alone.
LEMMA OtherBooked ==
    ASSUME IInv, BooksOK, NEW id \in Ids, NEW s2, streams' = [streams EXCEPT ![id] = s2],
           pause_history' = pause_history, stream_count' = stream_count, now' = now, metered' = Metered,
           s2.start_time = streams[id].start_time, s2.stop_time = streams[id].stop_time,
           \/ /\ rerated' = rerated /\ s2.rate_per_second = streams[id].rate_per_second
              /\ s2.status = streams[id].status \/ is_terminal(s2.status)
           \/ rerated' = rerated \cup {id} /\ s2.status = streams[id].status
    PROVE  BooksOK'
<1>1. streams \in [Ids -> StreamRecord]
  BY DEF IInv, StreamsOK
<1>2. streams'[id] = s2 /\ \A i \in Ids \ {id} : streams'[i] = streams[i]
  BY <1>1
<1> DEFINE s == streams[id]
           h == pause_history[id]
           m == metered[id]
           c == id \in rerated
           c2 == id \in rerated'
<1>3. Booked(s, h, m, c, now)
  BY DEF BooksOK
<1>4. \/ is_terminal(s2.status)
      \/ s2.status = s.status /\ (c2 \/ ((c <=> c2) /\ s2.rate_per_second = s.rate_per_second))
  OBVIOUS
<1> HIDE DEF h, m, c, c2
<1>5. Booked(s2, h, m, c2, now)
  BY <1>3, <1>4, SameBooked
<1>6. \A i \in Ids \ {id} : (i \in rerated') <=> (i \in rerated)
  OBVIOUS
<1> QED
  BY <1>2, <1>5, <1>6, OneBooked DEF h, m, c2

\* withdraw leaves the history and the meter alone.
LEMMA WithdrawBooked ==
    ASSUME IInv, BooksOK, NEW a \in Accounts, NEW id \in Ids, withdraw(a, id),
           metered' = Metered, rerated' = rerated
    PROVE  BooksOK'
<1> DEFINE s == streams[id]
           w == s.withdrawn + claimable_amount(s, now)
           s2 == [s EXCEPT !.withdrawn = w, !.last_withdraw_time = now,
                           !.status = IF w >= s.deposit THEN "Exhausted" ELSE @]
<1>1. s \in StreamRecord
  BY StreamSound
<1>2. /\ streams' = [streams EXCEPT ![id] = s2] /\ pause_history' = pause_history
      /\ stream_count' = stream_count /\ now' = now
  BY DEF withdraw
<1>3. /\ s2.start_time = s.start_time /\ s2.stop_time = s.stop_time
      /\ s2.rate_per_second = s.rate_per_second
      /\ s2.status = s.status \/ s2.status = "Exhausted"
  BY <1>1 DEF StreamRecord
<1> HIDE DEF s2
<1> QED
  BY <1>2, <1>3, OtherBooked DEF is_terminal

\* After update_rate the meter is no longer compared with the rate.
LEMMA UpdateRateBooked ==
    ASSUME IInv, BooksOK, NEW a \in Accounts, NEW id \in Ids, NEW r \in Rates, update_rate(a, id, r),
           metered' = Metered, rerated' = rerated \cup {id}
    PROVE  BooksOK'
<1> DEFINE s == streams[id]
           s2 == [s EXCEPT !.withdrawn = @ + claimable_amount(s, now), !.last_withdraw_time = now,
                           !.rate_per_second = r]
<1>1. s \in StreamRecord
  BY StreamSound
<1>2. /\ streams' = [streams EXCEPT ![id] = s2] /\ pause_history' = pause_history
      /\ stream_count' = stream_count /\ now' = now
  BY DEF update_rate, SetStream
<1>3. s2.start_time = s.start_time /\ s2.stop_time = s.stop_time /\ s2.status = s.status
  BY <1>1 DEF StreamRecord
<1> HIDE DEF s2
<1> QED
  BY <1>2, <1>3, OtherBooked

\* pause_stream and resume_stream add one event to the history.
LEMMA PauseBooked ==
    ASSUME IInv, BooksOK, NEW a \in Accounts, NEW id \in Ids,
           pause_stream(a, id) \/ resume_stream(a, id), metered' = Metered, rerated' = rerated
    PROVE  BooksOK'
<1> DEFINE s == streams[id]
           h == pause_history[id]
           c == id \in rerated
           m == metered[id]
<1>1. /\ s \in StreamRecord /\ now \in Nat /\ h \in Seq(PauseEvent)
      /\ streams \in [Ids -> StreamRecord] /\ pause_history \in [Ids -> Seq(PauseEvent)]
  BY StreamSound
<1>2. Booked(s, h, m, c, now)
  BY DEF BooksOK
<1>3. stream_count' = stream_count /\ now' = now
  BY DEF pause_stream, resume_stream, SetStream
<1>4. ASSUME NEW s2, NEW e \in PauseEvent, streams' = [streams EXCEPT ![id] = s2],
             pause_history' = [pause_history EXCEPT ![id] = Append(h, e)],
             s2.start_time = s.start_time, s2.stop_time = s.stop_time, s2.rate_per_second = s.rate_per_second,
             s.status \in {"Active", "Paused"}, e.timestamp = now,
             e.is_pause <=> s.status # "Paused", e.is_pause <=> s2.status = "Paused"
      PROVE  BooksOK'
  <2>1. /\ streams'[id] = s2 /\ pause_history'[id] = Append(h, e)
        /\ \A i \in Ids \ {id} : streams'[i] = streams[i] /\ pause_history'[i] = pause_history[i]
    BY <1>1, <1>4
  <2>2. ~is_terminal(s.status)
    BY <1>4 DEF is_terminal
  <2>3. Booked(s2, Append(h, e), m, c, now)
    <3> HIDE DEF s, h, m, c
    <3> QED
      BY <1>1, <1>2, <1>4, <2>2, EventBooked
  <2> QED
    BY <1>3, <2>1, <2>3, OneBooked
<1>5. CASE pause_stream(a, id)
  <2> DEFINE s2 == [s EXCEPT !.paused_at = now, !.status = "Paused"]
             e == [timestamp |-> now, is_pause |-> TRUE]
  <2>1. /\ streams' = [streams EXCEPT ![id] = s2] /\ s.status = "Active"
        /\ pause_history' = [pause_history EXCEPT ![id] = Append(h, e)]
    BY <1>5 DEF pause_stream, SetStream, add_pause_event
  <2>2. e \in PauseEvent /\ e.is_pause /\ e.timestamp = now
    BY <1>1 DEF PauseEvent
  <2>3. /\ s2.rate_per_second = s.rate_per_second /\ s2.start_time = s.start_time
        /\ s2.stop_time = s.stop_time /\ s2.status = "Paused"
    BY <1>1 DEF StreamRecord
  <2> HIDE DEF s2, e
  <2> QED
    BY <1>4, <2>1, <2>2, <2>3
<1>6. CASE resume_stream(a, id)
  <2> DEFINE s2 == [s EXCEPT !.last_withdraw_time = @ + PausedFor(s), !.paused_at = 0, !.status = "Active"]
             e == [timestamp |-> now, is_pause |-> FALSE]
  <2>1. /\ streams' = [streams EXCEPT ![id] = s2] /\ s.status = "Paused"
        /\ pause_history' = [pause_history EXCEPT ![id] = Append(h, e)]
    BY <1>6 DEF resume_stream, SetStream, add_pause_event
  <2>2. e \in PauseEvent /\ ~e.is_pause /\ e.timestamp = now
    BY <1>1 DEF PauseEvent
  <2>3. /\ s2.rate_per_second = s.rate_per_second /\ s2.start_time = s.start_time
        /\ s2.stop_time = s.stop_time /\ s2.status = "Active"
    BY <1>1 DEF StreamRecord
  <2> HIDE DEF s2, e
  <2> QED
    BY <1>4, <2>1, <2>2, <2>3
<1> QED
  BY <1>5, <1>6

\* The calls that end a stream, top it up or read it leave the history alone.
LEMMA ManageBooked ==
    ASSUME IInv, BooksOK, NEW id \in Ids, metered' = Metered, rerated' = rerated,
           \/ \E a \in Accounts, final \in {"Cancelled", "Exhausted"} : Settle(a, id, final)
           \/ \E a \in Accounts, amount \in TopUps : top_up(a, id, amount)
           \/ get_stream(id)
    PROVE  BooksOK'
<1> DEFINE s == streams[id]
           Settled(final) == [s EXCEPT !.withdrawn = @ + claimable_amount(s, now), !.status = final]
           Added(amount) == [s EXCEPT !.deposit = @ + amount]
           Marked == [s EXCEPT !.status = "Exhausted"]
<1>1. s \in StreamRecord
  BY StreamSound
<1>2. PICK s2 : /\ streams' = [streams EXCEPT ![id] = s2] /\ pause_history' = pause_history
                /\ stream_count' = stream_count /\ now' = now
                /\ \/ s2 = Settled("Cancelled") \/ s2 = Settled("Exhausted")
                   \/ \E amount : s2 = Added(amount)
                   \/ s2 = Marked
  <2>1. CASE \E a \in Accounts, final \in {"Cancelled", "Exhausted"} : Settle(a, id, final)
    <3>1. PICK final \in {"Cancelled", "Exhausted"} : \E a \in Accounts : Settle(a, id, final)
      BY <2>1
    <3>2. /\ streams' = [streams EXCEPT ![id] = Settled(final)] /\ pause_history' = pause_history
          /\ stream_count' = stream_count /\ now' = now
      BY <3>1 DEF Settle, SetStream
    <3> HIDE DEF Settled
    <3> QED
      BY <3>2
  <2>2. CASE \E a \in Accounts, amount \in TopUps : top_up(a, id, amount)
    <3>1. PICK amount \in TopUps : \E a \in Accounts : top_up(a, id, amount)
      BY <2>2
    <3>2. /\ streams' = [streams EXCEPT ![id] = Added(amount)] /\ pause_history' = pause_history
          /\ stream_count' = stream_count /\ now' = now
      BY <3>1 DEF top_up, SetStream
    <3> HIDE DEF Added
    <3> QED
      BY <3>2
  <2>3. CASE get_stream(id)
    <3>1. /\ streams' = [streams EXCEPT ![id] = Marked] /\ pause_history' = pause_history
          /\ stream_count' = stream_count /\ now' = now
      BY <2>3 DEF get_stream, SetStream
    <3> HIDE DEF Marked
    <3> QED
      BY <3>1
  <2> QED
    BY <2>1, <2>2, <2>3
<1>3. /\ s2.start_time = s.start_time /\ s2.stop_time = s.stop_time
      /\ s2.rate_per_second = s.rate_per_second
      /\ s2.status = s.status \/ is_terminal(s2.status)
  BY <1>1, <1>2 DEF StreamRecord, is_terminal
<1> QED
  BY <1>2, <1>3, OtherBooked

\* The calls that change roles leave the books alone.
LEMMA RoleBooked ==
    ASSUME IInv, BooksOK, RoleStep, metered' = Metered, rerated' = rerated
    PROVE  BooksOK'
BY RoleChange, NoneBooked, OtherBooked

\* New streams start now, with an empty history and an empty meter.
LEMMA AddedBooked ==
    ASSUME IInv, BooksOK, IInv', NEW n \in 1..2, NEW new, AddStreams(n, new), now' = now,
           \A k \in 1..n : /\ new[k].start_time = now /\ new[k].status = "Active"
                           /\ new[k].stop_time > 0 => new[k].stop_time > now,
           metered' = Metered, rerated' = rerated
    PROVE  BooksOK'
<1>1. /\ stream_count \in Nat /\ now \in Nat /\ stream_count' = stream_count + n
      /\ Ids = 1..stream_count /\ Ids' = 1..(stream_count + n)
  BY DEF IInv, StreamsOK, Ids, AddStreams
<1>2. /\ streams' = Extended(streams, n, new)
      /\ pause_history' = Extended(pause_history, n, [i \in 1..n |-> <<>>])
  BY DEF AddStreams
<1> SUFFICES ASSUME NEW i \in 1..(stream_count + n)
             PROVE  Booked(streams'[i], pause_history'[i], metered'[i], i \in rerated', now')
  BY <1>1 DEF BooksOK
<1>3. CASE i <= stream_count
  <2>1. streams'[i] = streams[i] /\ pause_history'[i] = pause_history[i]
    BY <1>1, <1>2, <1>3 DEF Extended
  <2>2. metered'[i] = metered[i]
    BY <1>1, <1>3 DEF Metered
  <2>3. Booked(streams[i], pause_history[i], metered[i], i \in rerated, now)
    BY <1>1, <1>3 DEF BooksOK
  <2> QED
    BY <2>1, <2>2, <2>3
<1>4. CASE i > stream_count
  <2> DEFINE s == streams'[i]
             c == i \in rerated'
  <2>1. i - stream_count \in 1..n
    BY <1>1, <1>4
  <2>2. s = new[i - stream_count] /\ pause_history'[i] = <<>>
    BY <1>1, <1>2, <1>4, <2>1 DEF Extended
  <2>3. metered'[i] = 0
    BY <1>1, <1>4 DEF Metered
  <2>4. s \in StreamRecord
    BY <1>1 DEF IInv, StreamsOK
  <2>5. s.start_time = now /\ s.status = "Active" /\ (s.stop_time > 0 => s.stop_time > now)
    BY <2>1, <2>2
  <2>6. s.stop_time \in Nat /\ s.rate_per_second \in Nat
    BY <2>4 DEF StreamRecord
  <2> HIDE DEF s, c
  <2>7. Booked(s, <<>>, 0, c, now)
    BY <1>1, <2>5, <2>6, NewBooked
  <2> QED
    BY <2>2, <2>3, <2>7 DEF s, c
<1> QED
  BY <1>1, <1>3, <1>4

\* create_stream and create_streams_batch open the books of their streams.
LEMMA CreateBooked ==
    ASSUME IInv, BooksOK, IInv', CreateStep, metered' = Metered, rerated' = rerated
    PROVE  BooksOK'
<1>1. PICK e \in Accounts, p \in StreamParams :
          \/ \E c \in Cooldowns : create_stream(e, p, c)
          \/ \E q \in StreamParams : create_streams_batch(e, p, q)
  BY DEF CreateStep
<1>2. ASSUME NEW x, NEW y, validate_create_stream(x, cfg.min_deposit, now, e)
      PROVE  LET z == NewStream(e, x, y)
             IN  /\ z.start_time = now /\ z.status = "Active"
                 /\ z.stop_time > 0 => z.stop_time > now
  BY <1>2 DEF NewStream, validate_create_stream
<1>3. ASSUME NEW c \in Cooldowns, create_stream(e, p, c) PROVE BooksOK'
  <2> DEFINE new == [i \in 1..1 |-> NewStream(e, p, c)]
  <2>1. AddStreams(1, new) /\ now' = now /\ validate_create_stream(p, cfg.min_deposit, now, e)
    BY <1>3 DEF create_stream
  <2>2. \A k \in 1..1 : /\ new[k].start_time = now /\ new[k].status = "Active"
                        /\ new[k].stop_time > 0 => new[k].stop_time > now
    BY <1>2, <2>1
  <2> HIDE DEF new
  <2> QED
    BY <2>1, <2>2, AddedBooked
<1>4. ASSUME NEW q \in StreamParams, create_streams_batch(e, p, q) PROVE BooksOK'
  <2> DEFINE new == [i \in 1..2 |-> NewStream(e, IF i = 1 THEN p ELSE q, 0)]
  <2>1. /\ AddStreams(2, new) /\ now' = now /\ validate_create_stream(p, cfg.min_deposit, now, e)
        /\ validate_create_stream(q, cfg.min_deposit, now, e)
    BY <1>4 DEF create_streams_batch
  <2>2. \A k \in 1..2 : /\ new[k].start_time = now /\ new[k].status = "Active"
                        /\ new[k].stop_time > 0 => new[k].stop_time > now
    BY <1>2, <2>1
  <2> HIDE DEF new
  <2> QED
    BY <2>1, <2>2, AddedBooked
<1> QED
  BY <1>1, <1>3, <1>4

\* The passing of a second keeps the books in order.
LEMMA TicksBooked ==
    ASSUME IInv, BooksOK, Tick, metered' = Metered, rerated' = rerated
    PROVE  BooksOK'
<1>1. /\ now \in Nat /\ stream_count \in Nat /\ now' = now + 1 /\ Ids' = Ids /\ Ids = 1..stream_count
      /\ streams' = streams /\ pause_history' = pause_history /\ stream_count' = stream_count
  BY DEF IInv, StreamsOK, Tick, Ids
<1> SUFFICES ASSUME NEW id \in Ids
             PROVE  Booked(streams'[id], pause_history'[id], metered'[id], id \in rerated', now')
  BY <1>1 DEF BooksOK
<1> DEFINE s == streams[id]
           h == pause_history[id]
           c == id \in rerated
           m == metered[id]
           m2 == metered'[id]
<1>2. s \in StreamRecord /\ h \in Seq(PauseEvent) /\ Booked(s, h, m, c, now)
  BY StreamSound DEF BooksOK
<1>3. s.rate_per_second \in Nat /\ now' - now = 1 /\ now' > now
  <2>1. now' - now = 1 /\ now' > now
    BY <1>1
  <2> QED
    BY <1>2, <2>1 DEF StreamRecord
<1>4. m2 = IF Accrues(s) THEN m + (now' - now) * s.rate_per_second ELSE m
  BY <1>1, <1>3 DEF Metered
<1>5. (now' - now) * s.rate_per_second = s.rate_per_second
  BY <1>3
<1>6. m2 = IF s.status = "Active" /\ (s.stop_time > 0 => now < s.stop_time)
           THEN m + s.rate_per_second ELSE m
  BY <1>4, <1>5 DEF Accrues
<1> HIDE DEF s, h, c, m, m2
<1>7. Booked(s, h, m2, c, now + 1)
  BY <1>1, <1>2, <1>6, TickBooked
<1> QED
  BY <1>1, <1>7 DEF s, h, c, m, m2

\* The books stay in order in every step of the metered contract.
LEMMA BooksInv == IInv /\ BooksOK /\ [AuditNext]_audit_vars => IInv' /\ BooksOK'
<1> SUFFICES ASSUME IInv, BooksOK, [AuditNext]_audit_vars PROVE IInv' /\ BooksOK'
  OBVIOUS
<1>1. [Next]_vars
  BY DEF AuditNext, audit_vars, Next, StreamStep, RateStep
<1>2. IInv'
  BY <1>1, NextInv
<1> SUFFICES BooksOK'
  BY <1>2
<1>3. CASE UNCHANGED audit_vars
  BY <1>3 DEF audit_vars, vars, BooksOK, Ids
<1>4. CASE AuditNext
  <2>1. metered' = Metered
    BY <1>4 DEF AuditNext
  <2>2. ASSUME NEW a \in Accounts, NEW id \in Ids, NEW r \in Rates, update_rate(a, id, r),
               rerated' = rerated \cup {id}
        PROVE  BooksOK'
    BY <2>1, <2>2, UpdateRateBooked
  <2>3. CASE CreateStep /\ rerated' = rerated
    BY <1>2, <2>1, <2>3, CreateBooked
  <2>4. CASE PaymentStep /\ rerated' = rerated
    <3>1. PICK a \in Accounts : \/ \E id \in Ids : withdraw(a, id)
                                \/ \E t \in Tokens : \E amount \in 1..fee_balance[t] :
                                       withdraw_protocol_fees(a, t, amount)
      BY <2>4 DEF PaymentStep
    <3>2. CASE \E id \in Ids : withdraw(a, id)
      BY <2>1, <2>4, <3>2, WithdrawBooked
    <3>3. CASE \E t \in Tokens : \E amount \in 1..fee_balance[t] : withdraw_protocol_fees(a, t, amount)
      BY <2>1, <2>4, <3>3, NoneBooked DEF withdraw_protocol_fees
    <3> QED
      BY <3>1, <3>2, <3>3
  <2>5. CASE ManageStep /\ rerated' = rerated
    <3>1. PICK a \in Accounts, id \in Ids :
              \/ \E amount \in TopUps : top_up(a, id, amount)
              \/ pause_stream(a, id) \/ resume_stream(a, id)
              \/ cancel_stream(a, id) \/ reclaim_expired(a, id)
      BY <2>5 DEF ManageStep
    <3>2. CASE \E amount \in TopUps : top_up(a, id, amount)
      BY <2>1, <2>5, <3>2, ManageBooked
    <3>3. CASE pause_stream(a, id) \/ resume_stream(a, id)
      BY <2>1, <2>5, <3>3, PauseBooked
    <3>4. CASE cancel_stream(a, id) \/ reclaim_expired(a, id)
      BY <2>1, <2>5, <3>4, ManageBooked DEF cancel_stream, reclaim_expired
    <3> QED
      BY <3>1, <3>2, <3>3, <3>4
  <2>6. CASE QueryStep /\ rerated' = rerated
    BY <2>1, <2>6, ManageBooked DEF QueryStep
  <2>7. CASE RoleStep /\ rerated' = rerated
    BY <2>1, <2>7, RoleBooked
  <2>8. CASE Tick /\ rerated' = rerated
    BY <2>1, <2>8, TicksBooked
  <2>9. CASE ConfigStep /\ rerated' = rerated
    BY <2>1, <2>9, NoneBooked DEF ConfigStep
  <2> QED
    BY <1>4, <2>2, <2>3, <2>4, <2>5, <2>6, <2>7, <2>8, <2>9 DEF AuditNext
<1> QED
  BY <1>2, <1>3, <1>4

\* Every pause history alternates between pauses and resumptions, in the order of time,
\* and is open exactly while its stream is paused (pause_stream, resume_stream,
\* add_pause_event); the meter is the rate times the unpaused seconds since the start.
THEOREM BooksInvariance == AuditSpec => []BooksOK
<1>1. AuditInit => IInv /\ BooksOK
  BY InitInv DEF AuditInit, BooksOK, Init, Ids
<1> QED
  BY <1>1, BooksInv, PTL DEF AuditSpec

\* The payroll report adds up: cut at any period length, the earnings it shows for the
\* periods of a running or paused stream total no more than was earned, and exactly that
\* while nothing is withdrawn and neither the deposit nor the cliff cuts a period short
\* (calculateBalanceByDuration, buildPeriods and calcPausedSeconds of balance.js).
THEOREM PayrollIsExact == AuditSpec => []PayrollAddsUp
<1>1. ASSUME AInv, BooksOK PROVE PayrollAddsUp
  <2> SUFFICES ASSUME NEW id \in Ids, id \notin rerated, ~is_terminal(streams[id].status)
               PROVE  LET s == streams[id]
                          total == SumOf(calculateBalanceByDuration(s, pause_history[id], PeriodLength, now))
                      IN  /\ total <= metered[id]
                          /\ s.withdrawn = 0 /\ s.cliff_time = 0 /\ metered[id] <= s.deposit
                                => total = metered[id]
    BY DEF PayrollAddsUp
  <2> DEFINE s == streams[id]
             h == pause_history[id]
             m == metered[id]
             c == id \in rerated
  <2>1. s \in StreamRecord /\ h \in Seq(PauseEvent) /\ now \in Nat /\ Booked(s, h, m, c, now)
    BY <1>1, StreamSound DEF AInv, BooksOK
  <2>2. ~is_terminal(s.status) /\ ~c
    OBVIOUS
  <2> HIDE DEF s, h, m, c
  <2>3. /\ Alternates(h) /\ Ordered(h, now) /\ m = Worked(s, h, now) * s.rate_per_second
        /\ s.start_time <= EffectiveEnd(s, now)
    BY <2>1, <2>2, EndAfterStart DEF Booked
  <2>4. LET total == SumOf(calculateBalanceByDuration(s, h, PeriodLength, now))
            w == Worked(s, h, now) * s.rate_per_second
        IN  /\ total <= w
            /\ s.withdrawn = 0 /\ s.cliff_time = 0 /\ w <= s.deposit => total = w
    BY <2>1, <2>2, <2>3, PayrollSum
  <2> QED
    BY <2>3, <2>4 DEF s, h, m
<1> QED
  BY <1>1, MeterInvariance, BooksInvariance, PTL

-----------------------------------------------------------------------------
(* All streams of a token.                                                 *)

\* The two identities that are inductive together with IInv.
LedgerExact == EscrowConserved /\ FeeLedgerExact

\* A step moves tokens on account of stream id only, as recorded there.
Moved(id) ==
    /\ stream_count' = stream_count
    /\ \A i \in Ids : streams'[i].token = streams[i].token
    /\ \A i \in Ids \ {id} : Undistributed'[i] = Undistributed[i] /\ FeesSent'[i] = FeesSent[i]
    /\ \A t \in Tokens :
          balance'[t][Escrow] = balance[t][Escrow]
             + (IF t = streams[id].token THEN Undistributed'[id] - Undistributed[id] ELSE 0)
    /\ \A t \in Tokens :
          fee_balance'[t] = fee_balance[t]
             + (IF t = streams[id].token THEN FeesSent'[id] - FeesSent[id] ELSE 0)
    /\ fees_drawn' = fees_drawn

-----------------------------------------------------------------------------
(* What transfers do to the escrow and to an account.                      *)

\* A payment out of escrow takes exactly its amount from it.
LEMMA EscrowPays ==
    ASSUME NEW b \in [Parties -> Nat], NEW amount \in Nat, NEW to, amount > 0 => to \in Accounts
    PROVE  /\ Pay(b, Escrow, to, amount)[Escrow] = b[Escrow] - amount
           /\ amount > 0 => Transfer(b, Escrow, to, amount)[Escrow] = b[Escrow] - amount
<1>1. amount > 0 => to # Escrow /\ to \in Parties
  BY ContractAssumption DEF Parties
<1>2. Escrow \in Parties /\ b[Escrow] \in Nat
  BY DEF Parties
<1>3. amount > 0 => Transfer(b, Escrow, to, amount)[Escrow] = b[Escrow] - amount
  BY <1>1, <1>2 DEF Transfer
<1> QED
  BY <1>2, <1>3 DEF Pay

\* A deposit adds its amount, a transfer between accounts nothing.
LEMMA EscrowReceives ==
    ASSUME NEW b \in [Parties -> Nat], NEW from \in Accounts, NEW amount \in Int
    PROVE  /\ Transfer(b, from, Escrow, amount)[Escrow] = b[Escrow] + amount
           /\ \A to \in Accounts : Transfer(b, from, to, amount)[Escrow] = b[Escrow]
<1>1. from # Escrow /\ from \in Parties /\ Escrow \in Parties
      /\ \A to \in Accounts : to # Escrow /\ to \in Parties
  BY ContractAssumption DEF Parties
<1> QED
  BY <1>1 DEF Transfer

\* Only the payee of a transfer gains.
LEMMA TransferGains ==
    ASSUME NEW b \in [Parties -> Nat], NEW from \in Parties, NEW to \in Parties,
           NEW amount \in Nat, NEW a \in Parties, a # to
    PROVE  Transfer(b, from, to, amount)[a] <= b[a]
BY DEF Transfer

\* The deposit of a new stream reaches the escrow net of its fee.
LEMMA DepositReaches ==
    ASSUME ConfigOK, NEW b \in [Tokens -> [Parties -> Nat]], NEW employer \in Accounts,
           NEW p \in StreamParams, CanDeposit(b, employer, p), NEW t \in Tokens
    PROVE  Deposited(b, employer, p)[t][Escrow] = b[t][Escrow]
              + (IF t = p.token THEN p.deposit - DepositFee(p) ELSE 0)
<1> DEFINE net == p.deposit - DepositFee(p)
           b1  == Transfer(b[p.token], employer, Escrow, net)
           b2  == IF ChargesDepositFee THEN Transfer(b1, employer, fee_recipient, DepositFee(p)) ELSE b1
<1>1. p.token \in Tokens /\ net \in Nat /\ DepositFee(p) \in Nat /\ b[p.token] \in [Parties -> Nat]
  BY DepositFacts, FeeNat, ContractAssumption DEF StreamParams, DepositFee, ConfigOK, Config
<1>2. employer \in Parties /\ Escrow \in Parties
  BY DEF Parties
<1>3. b1[Escrow] = b[p.token][Escrow] + net
  <2>1. net \in Int
    BY <1>1
  <2> HIDE DEF net
  <2> QED
    BY <1>1, <2>1, EscrowReceives
<1>4. b1 \in [Parties -> Nat]
  <2>1. CanTransfer(b[p.token], employer, net)
    BY DEF CanDeposit
  <2> HIDE DEF net
  <2> QED
    BY <1>1, <1>2, <2>1, TransferNat
<1>5. b2[Escrow] = b[p.token][Escrow] + net
  <2>1. ASSUME ChargesDepositFee PROVE fee_recipient \in Accounts
    BY <2>1 DEF ChargesDepositFee, ConfigOK
  <2>2. ASSUME ChargesDepositFee
        PROVE  Transfer(b1, employer, fee_recipient, DepositFee(p))[Escrow] = b1[Escrow]
    <3>1. DepositFee(p) \in Int /\ fee_recipient \in Accounts
      BY <1>1, <2>1, <2>2
    <3> HIDE DEF b1
    <3> QED
      BY <3>1, <1>4, EscrowReceives
  <2> HIDE DEF b1
  <2> QED
    BY <1>3, <2>2
<1>6. Deposited(b, employer, p) = [b EXCEPT ![p.token] = b2]
  BY DEF Deposited
<1>7. b[t][Escrow] \in Nat
  BY <1>2
<1> HIDE DEF b1, b2, net
<1>8. Deposited(b, employer, p)[t][Escrow] = b[t][Escrow] + (IF t = p.token THEN net ELSE 0)
  BY <1>1, <1>5, <1>6, <1>7
<1> QED
  BY <1>8 DEF net

-----------------------------------------------------------------------------
(* Sums over the streams of a token.                                       *)

\* The summands are integers.
LEMMA SummandTyped ==
    ASSUME NEW s \in StreamRecord, NEW p \in Payouts
    PROVE  s.deposit - (p.employee + p.fee + p.refund) \in Int /\ p.fee \in Nat
<1>1. s.deposit \in Nat
  BY DEF StreamRecord
<1>2. p.employee \in Nat /\ p.fee \in Nat /\ p.refund \in Nat
  BY DEF Payouts
<1> QED
  BY <1>1, <1>2

LEMMA SummandsTyped ==
    ASSUME IInv
    PROVE  /\ \A t : IsFiniteSet(StreamsOf(t)) /\ StreamsOf(t) \subseteq Ids
           /\ \A id \in Ids : Undistributed[id] \in Int /\ FeesSent[id] \in Int
           /\ \A t \in Tokens : /\ balance[t][Escrow] \in Nat
                                /\ fee_balance[t] \in Nat /\ fees_drawn[t] \in Nat
<1>1. IsFiniteSet(Ids)
  BY FS_Interval DEF Ids, IInv, StreamsOK
<1>2. \A t : StreamsOf(t) \subseteq Ids
  BY DEF StreamsOf
<1>3. ASSUME NEW id \in Ids PROVE Undistributed[id] \in Int /\ FeesSent[id] \in Int
  <2>1. streams[id] \in StreamRecord /\ paid[id] \in Payouts
    BY StreamFacts DEF IInv
  <2> QED
    BY <2>1, SummandTyped DEF Undistributed, FeesSent
<1>4. Escrow \in Parties
  BY DEF Parties
<1> QED
  BY <1>1, <1>2, <1>3, <1>4, FS_Subset DEF IInv, LedgerOK

\* A call on one stream that moves what it records keeps both identities.
LEMMA MovedKeeps ==
    ASSUME IInv, IInv', LedgerExact, NEW id \in Ids, Moved(id)
    PROVE  LedgerExact'
<1> SUFFICES ASSUME NEW t \in Tokens
             PROVE  /\ balance'[t][Escrow] + fees_drawn'[t]
                          = SumFunctionOnSet(Undistributed', StreamsOf(t)')
                    /\ fee_balance'[t] + fees_drawn'[t]
                          = SumFunctionOnSet(FeesSent', StreamsOf(t)')
  BY DEF LedgerExact, EscrowConserved, FeeLedgerExact, TotalOver
<1> DEFINE S == StreamsOf(t)
<1>1. Ids' = Ids /\ StreamsOf(t)' = S
  BY DEF Moved, Ids, StreamsOf
<1>2. /\ IsFiniteSet(S) /\ S \subseteq Ids
      /\ \A i \in Ids : Undistributed[i] \in Int /\ FeesSent[i] \in Int
      /\ balance[t][Escrow] \in Nat /\ fee_balance[t] \in Nat /\ fees_drawn[t] \in Nat
  BY SummandsTyped
<1>3. \A i \in Ids : Undistributed'[i] \in Int /\ FeesSent'[i] \in Int
  BY <1>1, SummandTyped DEF Undistributed, FeesSent, IInv, StreamsOK
<1>4. /\ balance[t][Escrow] + fees_drawn[t] = SumFunctionOnSet(Undistributed, S)
      /\ fee_balance[t] + fees_drawn[t] = SumFunctionOnSet(FeesSent, S)
  BY DEF LedgerExact, EscrowConserved, FeeLedgerExact, TotalOver
<1>5. SumFunctionOnSet(Undistributed, S) \in Int /\ SumFunctionOnSet(FeesSent, S) \in Int
  BY <1>2, <1>4
<1>6. id \in S <=> t = streams[id].token
  BY DEF StreamsOf
<1> HIDE DEF S
<1>7. CASE id \in S
  <2> DEFINE u == Undistributed
             v == Undistributed'
             f == FeesSent
             g == FeesSent'
  <2>1. /\ IsFiniteSet(S) /\ id \in S
        /\ \A i \in S : u[i] \in Int /\ v[i] \in Int
        /\ \A i \in S : f[i] \in Int /\ g[i] \in Int
        /\ \A i \in S \ {id} : v[i] = u[i]
        /\ \A i \in S \ {id} : g[i] = f[i]
    BY <1>2, <1>3, <1>7 DEF Moved
  <2> HIDE DEF u, v, f, g
  <2>2. SumFunctionOnSet(v, S) = SumFunctionOnSet(u, S) + (v[id] - u[id])
    BY <2>1, SumUpdate
  <2>3. SumFunctionOnSet(g, S) = SumFunctionOnSet(f, S) + (g[id] - f[id])
    BY <2>1, SumUpdate
  <2> USE DEF u, v, f, g
  <2> QED
    BY <1>1, <1>2, <1>3, <1>4, <1>5, <1>6, <1>7, <2>2, <2>3 DEF Moved
<1>8. CASE id \notin S
  <2>1. /\ SumFunctionOnSet(Undistributed', S) = SumFunctionOnSet(Undistributed, S)
        /\ SumFunctionOnSet(FeesSent', S) = SumFunctionOnSet(FeesSent, S)
    BY <1>2, <1>3, <1>8, SumSame DEF Moved
  <2> QED
    BY <1>1, <1>2, <1>4, <1>6, <1>8, <2>1 DEF Moved
<1> QED
  BY <1>7, <1>8

\* A sum over a set that may have got one element more.
LEMMA SumOneMore ==
    ASSUME NEW S, IsFiniteSet(S), NEW x, x \notin S, NEW T, T \in {S, S \cup {x}}, NEW f,
           \A y \in T : f[y] \in Int
    PROVE  /\ IsFiniteSet(T)
           /\ SumFunctionOnSet(f, T) = SumFunctionOnSet(f, S) + (IF x \in T THEN f[x] ELSE 0)
           /\ SumFunctionOnSet(f, S) \in Int
<1>1. S \subseteq T /\ \A y \in S : f[y] \in Int
  OBVIOUS
<1>2. SumFunctionOnSet(f, S) \in Int
  BY <1>1, SumType
<1>3. CASE T = S
  BY <1>2, <1>3
<1>4. CASE T = S \cup {x}
  <2>1. SumFunctionOnSet(f, S \cup {x}) = f[x] + SumFunctionOnSet(f, S)
    BY <1>4, SumAdd
  <2>2. f[x] \in Int /\ IsFiniteSet(S \cup {x})
    BY <1>4, FS_AddElement
  <2> QED
    BY <1>2, <1>4, <2>1, <2>2
<1> QED
  BY <1>3, <1>4

\* What new stream i adds to the escrow of token t.
Brought(i, t) == IF i <= stream_count' /\ streams'[i].token = t THEN Undistributed'[i] ELSE 0

\* One or two new streams that bring their deposits keep both identities.
LEMMA GrownKeeps ==
    ASSUME IInv, IInv', LedgerExact, NEW n \in 1..2, stream_count' = stream_count + n,
           \A i \in Ids : /\ streams'[i].token = streams[i].token
                          /\ Undistributed'[i] = Undistributed[i] /\ FeesSent'[i] = FeesSent[i],
           \A i \in Ids' \ Ids : FeesSent'[i] = 0,
           \A t \in Tokens : balance'[t][Escrow] = balance[t][Escrow]
               + (Brought(stream_count + 1, t) + Brought(stream_count + 2, t)),
           fee_balance' = fee_balance, fees_drawn' = fees_drawn
    PROVE  LedgerExact'
<1> SUFFICES ASSUME NEW t \in Tokens
             PROVE  /\ balance'[t][Escrow] + fees_drawn'[t]
                          = SumFunctionOnSet(Undistributed', StreamsOf(t)')
                    /\ fee_balance'[t] + fees_drawn'[t]
                          = SumFunctionOnSet(FeesSent', StreamsOf(t)')
  BY DEF LedgerExact, EscrowConserved, FeeLedgerExact, TotalOver
<1> DEFINE x == stream_count + 1
           y == stream_count + 2
           S == StreamsOf(t)
           S2 == StreamsOf(t)'
           S1 == S2 \ {y}
           u == Undistributed
           v == Undistributed'
           f == FeesSent
           g == FeesSent'
<1>1. /\ IsFiniteSet(S) /\ S \subseteq Ids
      /\ \A i \in Ids : u[i] \in Int /\ f[i] \in Int
      /\ balance[t][Escrow] \in Nat /\ fee_balance[t] \in Nat /\ fees_drawn[t] \in Nat
  BY SummandsTyped
<1>2. \A i \in Ids' : v[i] \in Int /\ g[i] \in Int
  BY SummandTyped DEF Undistributed, FeesSent, IInv, StreamsOK
<1>3. /\ balance[t][Escrow] + fees_drawn[t] = SumFunctionOnSet(u, S)
      /\ fee_balance[t] + fees_drawn[t] = SumFunctionOnSet(f, S)
  BY DEF LedgerExact, EscrowConserved, FeeLedgerExact, TotalOver
<1>4. stream_count \in Nat /\ Ids = 1..stream_count /\ Ids' = 1..(stream_count + n)
  BY DEF IInv, StreamsOK, Ids
<1>5. x \notin Ids /\ y \notin Ids /\ Ids \subseteq Ids' /\ Ids' \subseteq Ids \cup {x, y}
  BY <1>4
<1>6. S2 \subseteq Ids' /\ S2 \cap Ids = S
  BY <1>5 DEF StreamsOf
<1>7. S1 \in {S, S \cup {x}} /\ S2 \in {S1, S1 \cup {y}} /\ x \notin S /\ y \notin S1
  BY <1>1, <1>5, <1>6
<1>8. /\ Brought(x, t) = IF x \in S1 THEN v[x] ELSE 0
      /\ Brought(y, t) = IF y \in S2 THEN v[y] ELSE 0
  BY <1>4, <1>5 DEF Brought, StreamsOf
<1>9. /\ \A i \in S : v[i] = u[i] /\ g[i] = f[i]
      /\ x \in S1 => g[x] = 0
      /\ y \in S2 => g[y] = 0
  BY <1>1, <1>5, <1>6
<1>10. /\ \A i \in S2 : v[i] \in Int
       /\ \A i \in S2 : g[i] \in Int
       /\ \A i \in S1 : v[i] \in Int
       /\ \A i \in S1 : g[i] \in Int
       /\ \A i \in S : u[i] \in Int
       /\ \A i \in S : f[i] \in Int
  BY <1>1, <1>2, <1>6
<1>11. /\ balance'[t][Escrow] = balance[t][Escrow] + (Brought(x, t) + Brought(y, t))
       /\ fee_balance'[t] = fee_balance[t] /\ fees_drawn'[t] = fees_drawn[t]
  OBVIOUS
<1> HIDE DEF S, S1, S2, u, v, f, g, x, y
<1>12. SumFunctionOnSet(v, S) = SumFunctionOnSet(u, S) /\ SumFunctionOnSet(g, S) = SumFunctionOnSet(f, S)
  BY <1>1, <1>9, <1>10, SumSame
<1>13. /\ IsFiniteSet(S1)
       /\ SumFunctionOnSet(v, S1) = SumFunctionOnSet(v, S) + (IF x \in S1 THEN v[x] ELSE 0)
       /\ SumFunctionOnSet(v, S) \in Int
  BY <1>1, <1>7, <1>10, SumOneMore
<1>14. /\ SumFunctionOnSet(g, S1) = SumFunctionOnSet(g, S) + (IF x \in S1 THEN g[x] ELSE 0)
       /\ SumFunctionOnSet(g, S) \in Int
  BY <1>1, <1>7, <1>10, SumOneMore
<1>15. SumFunctionOnSet(v, S2) = SumFunctionOnSet(v, S1) + (IF y \in S2 THEN v[y] ELSE 0)
  BY <1>7, <1>10, <1>13, SumOneMore
<1>16. SumFunctionOnSet(g, S2) = SumFunctionOnSet(g, S1) + (IF y \in S2 THEN g[y] ELSE 0)
  BY <1>7, <1>10, <1>13, SumOneMore
<1>17. balance'[t][Escrow] + fees_drawn'[t] = SumFunctionOnSet(v, S2)
  BY <1>1, <1>3, <1>8, <1>10, <1>11, <1>12, <1>13, <1>15
<1>18. fee_balance'[t] + fees_drawn'[t] = SumFunctionOnSet(g, S2)
  BY <1>1, <1>3, <1>9, <1>11, <1>12, <1>14, <1>16
<1> QED
  BY <1>17, <1>18 DEF v, g, S2

-----------------------------------------------------------------------------
(* Every entry point moves what it records.                                *)

Left(s, p) == s.deposit - (p.employee + p.fee + p.refund)

\* A call that replaces one stream and its payouts, and moves what they say.
LEMMA OneMoves ==
    ASSUME IInv, NEW id \in Ids, NEW s \in StreamRecord, NEW p \in Payouts,
           streams' = [streams EXCEPT ![id] = s], paid' = [paid EXCEPT ![id] = p],
           stream_count' = stream_count, fees_drawn' = fees_drawn,
           s.token = streams[id].token,
           \A t \in Tokens : balance'[t][Escrow] = balance[t][Escrow]
               + (IF t = s.token THEN Left(s, p) - Left(streams[id], paid[id]) ELSE 0),
           \A t \in Tokens : fee_balance'[t] = fee_balance[t]
               + (IF t = s.token THEN p.fee - paid[id].fee ELSE 0)
    PROVE  Moved(id)
<1>1. Ids' = Ids
  BY DEF Ids
<1>2. streams \in [Ids -> StreamRecord] /\ paid \in [Ids -> Payouts]
  BY DEF IInv, StreamsOK
<1>3. /\ streams'[id] = s /\ paid'[id] = p
      /\ \A i \in Ids \ {id} : streams'[i] = streams[i] /\ paid'[i] = paid[i]
  BY <1>2
<1>4. /\ Undistributed' = [i \in Ids |-> Left(streams'[i], paid'[i])]
      /\ Undistributed = [i \in Ids |-> Left(streams[i], paid[i])]
      /\ FeesSent' = [i \in Ids |-> paid'[i].fee]
      /\ FeesSent = [i \in Ids |-> paid[i].fee]
  BY <1>1 DEF Undistributed, FeesSent, Left
<1>5. /\ Undistributed'[id] = Left(s, p) /\ Undistributed[id] = Left(streams[id], paid[id])
      /\ FeesSent'[id] = p.fee /\ FeesSent[id] = paid[id].fee
      /\ \A i \in Ids \ {id} : Undistributed'[i] = Undistributed[i] /\ FeesSent'[i] = FeesSent[i]
  BY <1>3, <1>4
<1>6. \A i \in Ids : streams'[i].token = streams[i].token
  BY <1>3
<1> QED
  BY <1>5, <1>6 DEF Moved

\* A call that moves no token and leaves the stream's deposit alone.
LEMMA QuietMoves ==
    ASSUME IInv, NEW id \in Ids, NEW s \in StreamRecord,
           streams' = [streams EXCEPT ![id] = s], paid' = paid,
           stream_count' = stream_count, fees_drawn' = fees_drawn,
           s.token = streams[id].token, s.deposit = streams[id].deposit,
           balance' = balance, fee_balance' = fee_balance
    PROVE  Moved(id)
<1>1. paid' = [paid EXCEPT ![id] = paid[id]] /\ paid[id] \in Payouts /\ streams[id] \in StreamRecord
  BY DEF IInv, StreamsOK
<1>2. Left(s, paid[id]) = Left(streams[id], paid[id]) /\ Left(s, paid[id]) \in Int /\ paid[id].fee \in Nat
  BY <1>1, SummandTyped DEF Left
<1>3. \A t \in Tokens : balance[t][Escrow] \in Nat /\ fee_balance[t] \in Nat
  BY SummandsTyped
<1>4. \A t \in Tokens :
         /\ balance'[t][Escrow] = balance[t][Escrow]
               + (IF t = s.token THEN Left(s, paid[id]) - Left(streams[id], paid[id]) ELSE 0)
         /\ fee_balance'[t] = fee_balance[t] + (IF t = s.token THEN paid[id].fee - paid[id].fee ELSE 0)
  BY <1>2, <1>3
<1> QED
  BY <1>1, <1>4, OneMoves

\* withdraw: the gross claim leaves the escrow, split as recorded, but for a fee
\* that has no recipient.
LEMMA WithdrawMoves ==
    ASSUME IInv, NEW employee \in Accounts, NEW id \in Ids, withdraw(employee, id)
    PROVE  Moved(id)
<1> USE DEF IInv
<1> DEFINE s     == streams[id]
           q     == paid[id]
           gross == claimable_amount(s, now)
           fee   == FeeOn(gross, cfg.fee_bps)
           net   == Monus(gross, fee)
           sent  == IF fee_recipient # None THEN fee ELSE 0
           b1    == Pay(balance[s.token], Escrow, fee_recipient, sent)
           w     == s.withdrawn + gross
           s2    == [s EXCEPT !.withdrawn = w, !.last_withdraw_time = now,
                              !.status = IF w >= s.deposit THEN "Exhausted" ELSE @]
           p2    == [q EXCEPT !.employee = @ + net, !.fee = @ + sent,
                              !.withheld = @ + (fee - sent)]
<1>1. /\ s \in StreamRecord /\ q \in Payouts
      /\ streams' = [streams EXCEPT ![id] = s2] /\ paid' = [paid EXCEPT ![id] = p2]
      /\ stream_count' = stream_count /\ fees_drawn' = fees_drawn
  BY StreamFacts DEF withdraw
<1>2. net > 0 /\ fee \in Nat /\ net \in Nat /\ sent \in Nat
  <2>1. gross \in Nat /\ cfg.fee_bps \in Nat
    BY StreamFacts DEF ConfigOK, Config
  <2>2. fee \in Nat
    BY <2>1, FeeNat
  <2>3. net > 0
    BY DEF withdraw, CanTransfer
  <2> HIDE DEF gross, fee
  <2> QED
    BY <2>1, <2>2, <2>3 DEF Monus
<1>3. s2 \in StreamRecord /\ p2 \in Payouts /\ s2.token = s.token /\ s2.deposit = s.deposit
  <2>1. streams'[id] \in StreamRecord /\ paid'[id] \in Payouts
    <3>1. IInv'
      BY WithdrawInv
    <3> QED
      BY <3>1, <1>1 DEF StreamsOK, Ids
  <2>2. streams'[id] = s2 /\ paid'[id] = p2
    BY <1>1 DEF StreamsOK
  <2>3. s2.token = s.token /\ s2.deposit = s.deposit
    BY <1>1 DEF StreamRecord
  <2> QED
    BY <2>1, <2>2, <2>3
<1>4. Left(s2, p2) - Left(s, q) = -(net + sent) /\ p2.fee - q.fee = sent
  <2> HIDE DEF s, q, gross, fee, net, sent
  <2>1. /\ p2.employee = q.employee + net /\ p2.fee = q.fee + sent /\ p2.refund = q.refund
        /\ q.employee \in Nat /\ q.fee \in Nat /\ q.refund \in Nat
    BY <1>1 DEF Payouts
  <2>2. s2.deposit = s.deposit /\ s.deposit \in Nat
    BY <1>1, <1>3 DEF StreamRecord
  <2> HIDE DEF s2, p2
  <2> QED
    BY <1>2, <2>1, <2>2 DEF Left
<1>5. s.token \in Tokens /\ balance \in [Tokens -> [Parties -> Nat]] /\ fee_balance \in [Tokens -> Nat]
  BY <1>1 DEF StreamRecord, LedgerOK
<1>6. b1[Escrow] = balance[s.token][Escrow] - sent /\ b1 \in [Parties -> Nat]
  <2>1. (sent > 0 => fee_recipient \in Accounts) /\ Escrow \in Parties
    BY <1>2 DEF ConfigOK, Parties
  <2>2. sent > 0 => fee_recipient \in Parties
    BY <2>1 DEF Parties
  <2>3. CanPay(balance[s.token], Escrow, sent) /\ balance[s.token] \in [Parties -> Nat]
    BY <1>5 DEF withdraw
  <2> HIDE DEF sent, s
  <2> QED
    BY <1>2, <2>1, <2>2, <2>3, EscrowPays, PayNat
<1>7. Transfer(b1, Escrow, employee, net)[Escrow] = b1[Escrow] - net
  <2> HIDE DEF b1, net
  <2> QED
    BY <1>2, <1>6, EscrowPays
<1>8. /\ balance' = [balance EXCEPT ![s.token] = Transfer(b1, Escrow, employee, net)]
      /\ fee_balance' = [fee_balance EXCEPT ![s.token] = @ + sent]
  BY DEF withdraw, add_fee_balance
<1>9. \A t \in Tokens : balance[t][Escrow] \in Nat /\ fee_balance[t] \in Nat
  BY SummandsTyped
<1>10. \A t \in Tokens :
          /\ balance'[t][Escrow] = balance[t][Escrow] + (IF t = s2.token THEN Left(s2, p2) - Left(s, q) ELSE 0)
          /\ fee_balance'[t] = fee_balance[t] + (IF t = s2.token THEN p2.fee - q.fee ELSE 0)
  <2> HIDE DEF s, q, b1, net, sent, s2, p2
  <2> QED
    BY <1>2, <1>3, <1>4, <1>5, <1>6, <1>7, <1>8, <1>9
<1> HIDE DEF s2, p2
<1> QED
  BY <1>1, <1>3, <1>10, OneMoves

\* top_up: the deposit grows by what arrives.
LEMMA TopUpMoves ==
    ASSUME IInv, NEW caller \in Accounts, NEW id \in Ids, NEW amount \in TopUps,
           top_up(caller, id, amount)
    PROVE  Moved(id)
<1> USE DEF IInv
<1> DEFINE s  == streams[id]
           q  == paid[id]
           s2 == [s EXCEPT !.deposit = @ + amount]
<1>1. /\ s \in StreamRecord /\ q \in Payouts /\ amount \in Nat
      /\ streams' = [streams EXCEPT ![id] = s2] /\ paid' = [paid EXCEPT ![id] = q]
      /\ stream_count' = stream_count /\ fees_drawn' = fees_drawn /\ fee_balance' = fee_balance
  BY StreamFacts, ContractAssumption DEF top_up, SetStream, StreamsOK
<1>2. s2 \in StreamRecord /\ s2.token = s.token /\ s2.deposit = s.deposit + amount /\ s.deposit \in Nat
  <2> HIDE DEF s
  <2> QED
    BY <1>1 DEF StreamRecord
<1>3. s.token \in Tokens /\ balance \in [Tokens -> [Parties -> Nat]] /\ fee_balance \in [Tokens -> Nat]
  BY <1>1 DEF StreamRecord, LedgerOK
<1>4. Transfer(balance[s.token], caller, Escrow, amount)[Escrow] = balance[s.token][Escrow] + amount
  <2>1. amount \in Int /\ balance[s.token] \in [Parties -> Nat]
    BY <1>1, <1>3
  <2> HIDE DEF s
  <2> QED
    BY <2>1, EscrowReceives
<1>5. balance' = [balance EXCEPT ![s.token] = Transfer(balance[s.token], caller, Escrow, amount)]
  BY DEF top_up
<1>6. Left(s2, q) - Left(s, q) = amount /\ q.fee \in Nat
  <2>1. q.employee \in Nat /\ q.fee \in Nat /\ q.refund \in Nat
    BY <1>1 DEF Payouts
  <2> HIDE DEF s, q, s2
  <2> QED
    BY <1>1, <1>2, <2>1 DEF Left
<1>7. \A t \in Tokens : balance[t][Escrow] \in Nat /\ fee_balance[t] \in Nat
  BY SummandsTyped
<1>8. \A t \in Tokens :
          /\ balance'[t][Escrow] = balance[t][Escrow] + (IF t = s2.token THEN Left(s2, q) - Left(s, q) ELSE 0)
          /\ fee_balance'[t] = fee_balance[t] + (IF t = s2.token THEN q.fee - q.fee ELSE 0)
  <2> HIDE DEF s, q, s2
  <2> QED
    BY <1>1, <1>2, <1>3, <1>4, <1>5, <1>6, <1>7
<1> HIDE DEF s2
<1> QED
  BY <1>1, <1>2, <1>8, OneMoves

\* cancel_stream and reclaim_expired: the claim and the refund leave the escrow.
LEMMA SettleMoves ==
    ASSUME IInv, NEW employer \in Accounts, NEW id \in Ids,
           NEW final \in {"Cancelled", "Exhausted"}, Settle(employer, id, final)
    PROVE  Moved(id)
<1> USE DEF IInv
<1> DEFINE s      == streams[id]
           q      == paid[id]
           earned == claimable_amount(s, now)
           refund == Unearned(s, earned)
           b1     == Pay(balance[s.token], Escrow, s.employee, earned)
           s2     == [s EXCEPT !.withdrawn = @ + earned, !.status = final]
           p2     == [q EXCEPT !.employee = @ + earned, !.refund = @ + refund]
<1>1. /\ s \in StreamRecord /\ q \in Payouts
      /\ streams' = [streams EXCEPT ![id] = s2] /\ paid' = [paid EXCEPT ![id] = p2]
      /\ stream_count' = stream_count /\ fees_drawn' = fees_drawn /\ fee_balance' = fee_balance
  BY StreamFacts DEF Settle, SetStream
<1>2. earned \in Nat /\ refund \in Nat
  <2>1. earned \in Nat
    BY StreamFacts
  <2> HIDE DEF earned
  <2> QED
    BY <1>1, <2>1 DEF Unearned, Monus, StreamRecord
<1>3. s2 \in StreamRecord /\ p2 \in Payouts /\ s2.token = s.token /\ s2.deposit = s.deposit
  <2>1. streams'[id] \in StreamRecord /\ paid'[id] \in Payouts
    <3>1. IInv'
      BY SettleInv
    <3> QED
      BY <3>1, <1>1 DEF StreamsOK, Ids
  <2>2. streams'[id] = s2 /\ paid'[id] = p2
    BY <1>1 DEF StreamsOK
  <2>3. s2.token = s.token /\ s2.deposit = s.deposit
    BY <1>1 DEF StreamRecord
  <2> QED
    BY <2>1, <2>2, <2>3
<1>4. Left(s2, p2) - Left(s, q) = -(earned + refund) /\ p2.fee = q.fee /\ q.fee \in Nat
  <2> HIDE DEF s, q, earned, refund
  <2>1. /\ p2.employee = q.employee + earned /\ p2.fee = q.fee /\ p2.refund = q.refund + refund
        /\ q.employee \in Nat /\ q.fee \in Nat /\ q.refund \in Nat
    BY <1>1 DEF Payouts
  <2>2. s2.deposit = s.deposit /\ s.deposit \in Nat
    BY <1>1, <1>3 DEF StreamRecord
  <2> HIDE DEF s2, p2
  <2> QED
    BY <1>2, <2>1, <2>2 DEF Left
<1>5. /\ s.token \in Tokens /\ balance \in [Tokens -> [Parties -> Nat]] /\ fee_balance \in [Tokens -> Nat]
      /\ s.employee \in Accounts
  BY <1>1 DEF StreamRecord, LedgerOK
<1>6. b1[Escrow] = balance[s.token][Escrow] - earned /\ b1 \in [Parties -> Nat]
  <2>1. CanPay(balance[s.token], Escrow, earned) /\ balance[s.token] \in [Parties -> Nat]
    BY <1>5 DEF Settle
  <2>2. s.employee \in Parties /\ Escrow \in Parties
    BY <1>5 DEF Parties
  <2> HIDE DEF earned, s
  <2> QED
    BY <1>2, <1>5, <2>1, <2>2, EscrowPays, PayNat
<1>7. Pay(b1, Escrow, employer, refund)[Escrow] = b1[Escrow] - refund
  <2> HIDE DEF b1, refund
  <2> QED
    BY <1>2, <1>6, EscrowPays
<1>8. balance' = [balance EXCEPT ![s.token] = Pay(b1, Escrow, employer, refund)]
  BY DEF Settle
<1>9. \A t \in Tokens : balance[t][Escrow] \in Nat /\ fee_balance[t] \in Nat
  BY SummandsTyped
<1>10. \A t \in Tokens :
          /\ balance'[t][Escrow] = balance[t][Escrow] + (IF t = s2.token THEN Left(s2, p2) - Left(s, q) ELSE 0)
          /\ fee_balance'[t] = fee_balance[t] + (IF t = s2.token THEN p2.fee - q.fee ELSE 0)
  <2> HIDE DEF s, q, b1, earned, refund, s2, p2
  <2> QED
    BY <1>1, <1>2, <1>3, <1>4, <1>5, <1>6, <1>7, <1>8, <1>9
<1> HIDE DEF s2, p2
<1> QED
  BY <1>1, <1>3, <1>10, OneMoves

\* update_rate only counts the accrued amount as withdrawn.
LEMMA UpdateRateMoves ==
    ASSUME IInv, NEW employer \in Accounts, NEW id \in Ids, NEW new_rate \in Rates,
           update_rate(employer, id, new_rate)
    PROVE  Moved(id)
<1> USE DEF IInv
<1> DEFINE s       == streams[id]
           q       == paid[id]
           accrued == claimable_amount(s, now)
           s2      == [s EXCEPT !.withdrawn = @ + accrued, !.last_withdraw_time = now,
                                !.rate_per_second = new_rate]
           p2      == [q EXCEPT !.withheld = @ + accrued]
<1>1. /\ s \in StreamRecord /\ q \in Payouts
      /\ streams' = [streams EXCEPT ![id] = s2] /\ paid' = [paid EXCEPT ![id] = p2]
      /\ stream_count' = stream_count /\ fees_drawn' = fees_drawn /\ fee_balance' = fee_balance
      /\ balance' = balance
  BY StreamFacts DEF update_rate, SetStream
<1>2. s2 \in StreamRecord /\ p2 \in Payouts /\ s2.token = s.token /\ s2.deposit = s.deposit
  <2>1. streams'[id] \in StreamRecord /\ paid'[id] \in Payouts
    <3>1. IInv'
      BY UpdateRateInv
    <3> QED
      BY <3>1, <1>1 DEF StreamsOK, Ids
  <2>2. streams'[id] = s2 /\ paid'[id] = p2
    BY <1>1 DEF StreamsOK
  <2>3. s2.token = s.token /\ s2.deposit = s.deposit
    BY <1>1 DEF StreamRecord
  <2> QED
    BY <2>1, <2>2, <2>3
<1>3. Left(s2, p2) = Left(s, q) /\ p2.fee = q.fee /\ q.fee \in Nat /\ Left(s, q) \in Int
  <2>1. p2.employee = q.employee /\ p2.fee = q.fee /\ p2.refund = q.refund
    BY <1>1 DEF Payouts
  <2>2. Left(s, q) \in Int /\ q.fee \in Nat
    BY <1>1, SummandTyped DEF Left
  <2> QED
    BY <1>2, <2>1, <2>2 DEF Left
<1>4. \A t \in Tokens : balance[t][Escrow] \in Nat /\ fee_balance[t] \in Nat
  BY SummandsTyped
<1>5. \A t \in Tokens :
          /\ balance'[t][Escrow] = balance[t][Escrow] + (IF t = s2.token THEN Left(s2, p2) - Left(s, q) ELSE 0)
          /\ fee_balance'[t] = fee_balance[t] + (IF t = s2.token THEN p2.fee - q.fee ELSE 0)
  <2> HIDE DEF s, q, s2, p2
  <2> QED
    BY <1>1, <1>3, <1>4
<1> HIDE DEF s2, p2
<1> QED
  BY <1>1, <1>2, <1>5, OneMoves

\* Pausing, resuming, marking as exhausted and changing roles move nothing.
LEMMA QuietCalls ==
    ASSUME IInv, IInv', NEW id \in Ids, NEW s, SetStream(id, s),
           s.token = streams[id].token, s.deposit = streams[id].deposit,
           paid' = paid, balance' = balance
    PROVE  Moved(id)
<1>1. streams' = [streams EXCEPT ![id] = s] /\ stream_count' = stream_count
      /\ fees_drawn' = fees_drawn /\ fee_balance' = fee_balance
  BY DEF SetStream
<1>2. s \in StreamRecord
  <2>1. streams'[id] = s /\ id \in Ids'
    BY <1>1 DEF IInv, StreamsOK, Ids
  <2> QED
    BY <2>1 DEF IInv, StreamsOK
<1> QED
  BY <1>1, <1>2, QuietMoves

LEMMA PauseMoves ==
    ASSUME IInv, IInv', NEW a \in Accounts, NEW id \in Ids,
           \/ pause_stream(a, id) \/ resume_stream(a, id) \/ get_stream(id)
           \/ \E new \in NewParties : transfer_stream(a, id, new)
           \/ \E d \in NewParties \cup {None} : set_delegate(a, id, d)
           \/ accept_employer_transfer(a, id)
    PROVE  Moved(id)
<1> DEFINE s == streams[id]
<1>0. s \in StreamRecord
  BY DEF IInv, StreamsOK
<1>1. CASE pause_stream(a, id)
  <2> DEFINE s2 == [s EXCEPT !.paused_at = now, !.status = "Paused"]
  <2>1. SetStream(id, s2) /\ paid' = paid /\ balance' = balance
    BY <1>1 DEF pause_stream
  <2>2. s2.token = s.token /\ s2.deposit = s.deposit
    BY <1>0 DEF StreamRecord
  <2> HIDE DEF s2
  <2> QED
    BY <2>1, <2>2, QuietCalls
<1>2. CASE resume_stream(a, id)
  <2> DEFINE s2 == [s EXCEPT !.last_withdraw_time = @ + PausedFor(s), !.paused_at = 0, !.status = "Active"]
  <2>1. SetStream(id, s2) /\ paid' = paid /\ balance' = balance
    BY <1>2 DEF resume_stream
  <2>2. s2.token = s.token /\ s2.deposit = s.deposit
    BY <1>0 DEF StreamRecord
  <2> HIDE DEF s2
  <2> QED
    BY <2>1, <2>2, QuietCalls
<1>3. CASE get_stream(id)
  <2> DEFINE s2 == [s EXCEPT !.status = "Exhausted"]
  <2>1. SetStream(id, s2) /\ paid' = paid /\ balance' = balance
    BY <1>3 DEF get_stream
  <2>2. s2.token = s.token /\ s2.deposit = s.deposit
    BY <1>0 DEF StreamRecord
  <2> HIDE DEF s2
  <2> QED
    BY <2>1, <2>2, QuietCalls
<1>4. ASSUME NEW new \in NewParties, transfer_stream(a, id, new) PROVE Moved(id)
  <2> DEFINE s2 == [s EXCEPT !.employee = new]
  <2>1. SetStream(id, s2) /\ paid' = paid /\ balance' = balance
    BY <1>4 DEF transfer_stream
  <2>2. s2.token = s.token /\ s2.deposit = s.deposit
    BY <1>0 DEF StreamRecord
  <2> HIDE DEF s2
  <2> QED
    BY <2>1, <2>2, QuietCalls
<1>5. ASSUME NEW d \in NewParties \cup {None}, set_delegate(a, id, d) PROVE Moved(id)
  <2> DEFINE s2 == [s EXCEPT !.delegate = d]
  <2>1. SetStream(id, s2) /\ paid' = paid /\ balance' = balance
    BY <1>5 DEF set_delegate
  <2>2. s2.token = s.token /\ s2.deposit = s.deposit
    BY <1>0 DEF StreamRecord
  <2> HIDE DEF s2
  <2> QED
    BY <2>1, <2>2, QuietCalls
<1>6. CASE accept_employer_transfer(a, id)
  <2> DEFINE s2 == [s EXCEPT !.employer = a]
  <2>1. SetStream(id, s2) /\ paid' = paid /\ balance' = balance
    BY <1>6 DEF accept_employer_transfer
  <2>2. s2.token = s.token /\ s2.deposit = s.deposit
    BY <1>0 DEF StreamRecord
  <2> HIDE DEF s2
  <2> QED
    BY <2>1, <2>2, QuietCalls
<1> QED
  BY <1>1, <1>2, <1>3, <1>4, <1>5, <1>6

-----------------------------------------------------------------------------
(* Creation.                                                               *)

\* n new streams, with their records in new.
LEMMA AddedKeeps ==
    ASSUME IInv, IInv', LedgerExact, NEW n \in 1..2, NEW new, AddStreams(n, new),
           \A t \in Tokens : balance'[t][Escrow] = balance[t][Escrow]
               + ((IF new[1].token = t THEN new[1].deposit ELSE 0)
                  + (IF n = 2 /\ new[2].token = t THEN new[2].deposit ELSE 0)),
           fee_balance' = fee_balance, fees_drawn' = fees_drawn
    PROVE  LedgerExact'
<1>1. /\ stream_count \in Nat /\ stream_count' = stream_count + n
      /\ streams' = Extended(streams, n, new)
      /\ paid' = Extended(paid, n, [i \in 1..n |-> NoPayouts])
  BY DEF AddStreams, IInv, StreamsOK
<1>2. \A i \in Ids : i \in Ids' /\ streams'[i] = streams[i] /\ paid'[i] = paid[i]
  BY <1>1 DEF Extended, Ids
<1>3. \A k \in 1..n : /\ stream_count + k \in Ids' /\ streams'[stream_count + k] = new[k]
                      /\ paid'[stream_count + k] = NoPayouts
  BY <1>1 DEF Extended, Ids
<1>4. \A i \in Ids : /\ streams'[i].token = streams[i].token
                     /\ Undistributed'[i] = Undistributed[i] /\ FeesSent'[i] = FeesSent[i]
  BY <1>2 DEF Undistributed, FeesSent
<1>5. \A k \in 1..n : /\ Undistributed'[stream_count + k] = new[k].deposit
                      /\ FeesSent'[stream_count + k] = 0
  <2> SUFFICES ASSUME NEW k \in 1..n
               PROVE  /\ Undistributed'[stream_count + k] = new[k].deposit
                      /\ FeesSent'[stream_count + k] = 0
    OBVIOUS
  <2>1. new[k].deposit \in Nat
    <3>1. streams'[stream_count + k] \in StreamRecord
      BY <1>3 DEF IInv, StreamsOK
    <3> QED
      BY <1>3, <3>1 DEF StreamRecord
  <2> QED
    BY <1>3, <2>1 DEF Undistributed, FeesSent, NoPayouts
<1>6. \A i \in Ids' \ Ids : FeesSent'[i] = 0
  <2>1. \A i \in Ids' \ Ids : i - stream_count \in 1..n /\ i = stream_count + (i - stream_count)
    BY <1>1 DEF Ids
  <2> QED
    BY <1>5, <2>1
<1>7. \A t \in Tokens :
         /\ Brought(stream_count + 1, t) = IF new[1].token = t THEN new[1].deposit ELSE 0
         /\ Brought(stream_count + 2, t) = IF n = 2 /\ new[2].token = t THEN new[2].deposit ELSE 0
  <2>1. 1 \in 1..n /\ stream_count + 1 <= stream_count'
    BY <1>1
  <2>2. n = 2 => 2 \in 1..n /\ stream_count + 2 <= stream_count'
    BY <1>1
  <2>3. n # 2 => ~(stream_count + 2 <= stream_count')
    BY <1>1
  <2> QED
    BY <1>3, <1>5, <2>1, <2>2, <2>3 DEF Brought
<1> QED
  BY <1>1, <1>4, <1>6, <1>7, GrownKeeps

LEMMA CreateKeeps ==
    ASSUME IInv, IInv', LedgerExact, CreateStep
    PROVE  LedgerExact'
<1>1. PICK e \in Accounts, p \in StreamParams :
          \/ \E c \in Cooldowns : create_stream(e, p, c)
          \/ \E q \in StreamParams : create_streams_batch(e, p, q)
  BY DEF CreateStep
<1>2. balance \in [Tokens -> [Parties -> Nat]] /\ ConfigOK /\ p.token \in Tokens
  BY DEF IInv, LedgerOK, StreamParams
<1>3. \A t \in Tokens : balance[t][Escrow] \in Nat
  BY SummandsTyped
<1>4. ASSUME NEW c \in Cooldowns, create_stream(e, p, c) PROVE LedgerExact'
  <2> DEFINE new == [i \in 1..1 |-> NewStream(e, p, c)]
  <2>1. /\ AddStreams(1, new) /\ fee_balance' = fee_balance /\ fees_drawn' = fees_drawn
        /\ balance' = Deposited(balance, e, p) /\ CanDeposit(balance, e, p)
    BY <1>4 DEF create_stream
  <2>2. new[1].token = p.token /\ new[1].deposit = p.deposit - DepositFee(p)
    BY DEF NewStream
  <2>3. p.deposit - DepositFee(p) \in Nat
    BY <1>2, <2>1, DepositFacts
  <2>4. \A t \in Tokens : balance'[t][Escrow] = balance[t][Escrow]
               + (IF t = p.token THEN p.deposit - DepositFee(p) ELSE 0)
    BY <1>2, <2>1, DepositReaches
  <2> HIDE DEF new
  <2>5. \A t \in Tokens : balance'[t][Escrow] = balance[t][Escrow]
               + ((IF new[1].token = t THEN new[1].deposit ELSE 0)
                  + (IF 1 = 2 /\ new[2].token = t THEN new[2].deposit ELSE 0))
    BY <1>3, <2>2, <2>3, <2>4
  <2> QED
    BY <2>1, <2>5, AddedKeeps
<1>5. ASSUME NEW q \in StreamParams, create_streams_batch(e, p, q) PROVE LedgerExact'
  <2> DEFINE new == [i \in 1..2 |-> NewStream(e, IF i = 1 THEN p ELSE q, 0)]
             b1 == Deposited(balance, e, p)
  <2>1. /\ AddStreams(2, new) /\ fee_balance' = fee_balance /\ fees_drawn' = fees_drawn
        /\ balance' = Deposited(b1, e, q) /\ CanDeposit(balance, e, p) /\ CanDeposit(b1, e, q)
    BY <1>5 DEF create_streams_batch
  <2>2. /\ new[1].token = p.token /\ new[1].deposit = p.deposit - DepositFee(p)
        /\ new[2].token = q.token /\ new[2].deposit = q.deposit - DepositFee(q)
    BY DEF NewStream
  <2>3. p.deposit - DepositFee(p) \in Nat /\ b1 \in [Tokens -> [Parties -> Nat]]
    BY <1>2, <2>1, DepositFacts
  <2>4. \A t \in Tokens : b1[t][Escrow] = balance[t][Escrow]
               + (IF t = p.token THEN p.deposit - DepositFee(p) ELSE 0)
    BY <1>2, <2>1, DepositReaches
  <2> HIDE DEF new, b1
  <2>5. q.deposit - DepositFee(q) \in Nat
    BY <1>2, <2>1, <2>3, DepositFacts
  <2>6. \A t \in Tokens : balance'[t][Escrow] = b1[t][Escrow]
               + (IF t = q.token THEN q.deposit - DepositFee(q) ELSE 0)
    BY <1>2, <2>1, <2>3, DepositReaches
  <2>7. \A t \in Tokens : balance'[t][Escrow] = balance[t][Escrow]
               + ((IF new[1].token = t THEN new[1].deposit ELSE 0)
                  + (IF 2 = 2 /\ new[2].token = t THEN new[2].deposit ELSE 0))
    BY <1>3, <2>2, <2>3, <2>4, <2>5, <2>6
  <2> QED
    BY <2>1, <2>7, AddedKeeps
<1> QED
  BY <1>1, <1>4, <1>5

-----------------------------------------------------------------------------
(* The identities.                                                         *)

\* withdraw_protocol_fees takes the same amount from the escrow and the ledger.
LEMMA DrawKeeps ==
    ASSUME IInv, LedgerExact, NEW caller \in Accounts, NEW token \in Tokens, NEW amount \in Nat,
           withdraw_protocol_fees(caller, token, amount)
    PROVE  LedgerExact'
<1> DEFINE recipient == IF fee_recipient # None THEN fee_recipient ELSE caller
<1>1. /\ balance' = [balance EXCEPT ![token] = Transfer(balance[token], Escrow, recipient, amount)]
      /\ fee_balance' = [fee_balance EXCEPT ![token] = @ - amount]
      /\ fees_drawn' = [fees_drawn EXCEPT ![token] = @ + amount]
      /\ streams' = streams /\ paid' = paid /\ stream_count' = stream_count /\ amount > 0
  BY DEF withdraw_protocol_fees, CanTransfer
<1>2. /\ balance \in [Tokens -> [Parties -> Nat]] /\ balance[token] \in [Parties -> Nat]
      /\ fee_balance \in [Tokens -> Nat] /\ fees_drawn \in [Tokens -> Nat]
      /\ recipient \in Accounts
  BY DEF IInv, LedgerOK, ConfigOK
<1>3. Transfer(balance[token], Escrow, recipient, amount)[Escrow] = balance[token][Escrow] - amount
  <2> HIDE DEF recipient
  <2> QED
    BY <1>1, <1>2, EscrowPays
<1>4. /\ Undistributed' = Undistributed /\ FeesSent' = FeesSent
      /\ \A t : StreamsOf(t)' = StreamsOf(t)
  BY <1>1 DEF Undistributed, FeesSent, StreamsOf, Ids
<1>5. \A t \in Tokens : balance[t][Escrow] \in Nat
  BY SummandsTyped
<1> HIDE DEF recipient
<1>6. \A t \in Tokens : /\ balance'[t][Escrow] + fees_drawn'[t] = balance[t][Escrow] + fees_drawn[t]
                        /\ fee_balance'[t] + fees_drawn'[t] = fee_balance[t] + fees_drawn[t]
  BY <1>1, <1>2, <1>3, <1>5
<1>7. EscrowConserved'
  BY <1>4, <1>6 DEF LedgerExact, EscrowConserved, TotalOver
<1>8. FeeLedgerExact'
  BY <1>4, <1>6 DEF LedgerExact, FeeLedgerExact, TotalOver
<1> QED
  BY <1>7, <1>8 DEF LedgerExact

LEMMA UntouchedKeeps ==
    ASSUME LedgerExact, UNCHANGED <<stream_count, streams, paid, balance, fee_balance, fees_drawn>>
    PROVE  LedgerExact'
BY DEF LedgerExact, EscrowConserved, FeeLedgerExact, TotalOver, Undistributed, FeesSent, StreamsOf, Ids

LEMMA LedgerInit == Init => LedgerExact
<1> SUFFICES ASSUME Init, NEW t \in Tokens
             PROVE  /\ balance[t][Escrow] + fees_drawn[t] = SumFunctionOnSet(Undistributed, StreamsOf(t))
                    /\ fee_balance[t] + fees_drawn[t] = SumFunctionOnSet(FeesSent, StreamsOf(t))
  BY DEF LedgerExact, EscrowConserved, FeeLedgerExact, TotalOver
<1>1. StreamsOf(t) = {}
  BY DEF Init, StreamsOf, Ids
<1>2. balance[t][Escrow] = 0 /\ fees_drawn[t] = 0 /\ fee_balance[t] = 0
  BY DEF Init, Parties
<1> QED
  BY <1>1, <1>2, SumEmpty

LEMMA LedgerNext == IInv /\ IInv' /\ LedgerExact /\ [Next]_vars => LedgerExact'
<1> SUFFICES ASSUME IInv, IInv', LedgerExact, [Next]_vars PROVE LedgerExact'
  OBVIOUS
<1>1. CASE CreateStep
  BY <1>1, CreateKeeps
<1>2. CASE PaymentStep
  <2>1. ASSUME NEW t \in Tokens, NEW amount \in 1..fee_balance[t] PROVE amount \in Nat
    BY DEF IInv, LedgerOK
  <2> QED
    BY <1>2, <2>1, WithdrawMoves, MovedKeeps, DrawKeeps DEF PaymentStep
<1>3. CASE ManageStep
  <2>1. PICK a \in Accounts, id \in Ids :
            \/ \E amount \in TopUps : top_up(a, id, amount)
            \/ pause_stream(a, id) \/ resume_stream(a, id)
            \/ cancel_stream(a, id) \/ reclaim_expired(a, id)
    BY <1>3 DEF ManageStep
  <2>2. Moved(id)
    BY <2>1, TopUpMoves, PauseMoves, SettleMoves DEF cancel_stream, reclaim_expired
  <2> QED
    BY <2>2, MovedKeeps
<1>4. CASE RateStep
  BY <1>4, UpdateRateMoves, MovedKeeps DEF RateStep
<1>5. CASE QueryStep
  <2>1. admin \in Accounts
    BY DEF IInv, ConfigOK
  <2> QED
    BY <1>5, <2>1, PauseMoves, MovedKeeps DEF QueryStep
<1>6. CASE RoleStep
  <2>1. PICK a \in Accounts, id \in Ids :
            \/ \E new \in NewParties : transfer_stream(a, id, new)
            \/ \E d \in NewParties \cup {None} : set_delegate(a, id, d)
            \/ \E new \in NewParties : propose_employer_transfer(a, id, new)
            \/ accept_employer_transfer(a, id)
    BY <1>6 DEF RoleStep
  <2>2. CASE \E new \in NewParties : propose_employer_transfer(a, id, new)
    BY <2>2, UntouchedKeeps DEF propose_employer_transfer
  <2> QED
    BY <2>1, <2>2, PauseMoves, MovedKeeps
<1>7. CASE Tick
  BY <1>7, UntouchedKeeps DEF Tick
<1>8. CASE ConfigStep
  BY <1>8, UntouchedKeeps DEF ConfigStep
<1>9. CASE UNCHANGED vars
  BY <1>9, UntouchedKeeps DEF vars
<1> QED
  BY <1>1, <1>2, <1>3, <1>4, <1>5, <1>6, <1>7, <1>8, <1>9 DEF Next, StreamStep

LEMMA LedgerInvariance == Spec => []LedgerExact
<1>1. Spec => []IInv
  BY Invariance
<1> QED
  BY <1>1, LedgerInit, LedgerNext, PTL DEF Spec

\* The escrow of every token is what its streams have not distributed, less the
\* fees drawn from it: for any number of streams and any order of calls no token
\* enters or leaves the contract unrecorded (all entry points that move tokens).
THEOREM EscrowIsConserved == Spec => []EscrowConserved
BY LedgerInvariance, PTL DEF LedgerExact

\* The fee ledger holds every fee sent and not yet drawn, once (add_fee_balance,
\* withdraw_protocol_fees).
THEOREM FeeLedgerIsExact == Spec => []FeeLedgerExact
BY LedgerInvariance, PTL DEF LedgerExact

\* A stream owes no more than it has not distributed.
LEMMA OwesWhatIsLeft ==
    ASSUME IInv, NEW id \in Ids
    PROVE  Owed[id] \in Int /\ Undistributed[id] \in Int /\ Owed[id] <= Undistributed[id]
<1> DEFINE s == streams[id]
           q == paid[id]
<1>1. s \in StreamRecord /\ q \in Payouts /\ SoundStream(s, q, now)
  BY StreamFacts DEF IInv
<1>2. /\ Owed[id] = IF is_terminal(s.status) THEN 0 ELSE Remaining(s)
      /\ Undistributed[id] = s.deposit - (q.employee + q.fee + q.refund)
  BY DEF Owed, Undistributed
<1> HIDE DEF s, q
<1>3. s.deposit \in Nat /\ s.withdrawn \in Nat
  BY <1>1 DEF StreamRecord
<1>4. q.employee \in Nat /\ q.fee \in Nat /\ q.withheld \in Nat /\ q.refund \in Nat
  BY <1>1 DEF Payouts
<1>5. /\ q.employee + q.fee + q.withheld = s.withdrawn
      /\ s.withdrawn + q.refund <= s.deposit
      /\ q.refund > 0 => is_terminal(s.status)
  BY <1>1 DEF SoundStream
<1> QED
  BY <1>2, <1>3, <1>4, <1>5 DEF Remaining, Monus

\* Until fees are drawn the escrow covers everything the open streams of a token
\* owe, whatever was withdrawn, settled, topped up or re-rated in between
\* (withdraw, cancel_stream, reclaim_expired, update_rate).
THEOREM EscrowCoversBeforeDraws == Spec => []SolventBeforeDraws
<1>1. ASSUME IInv, LedgerExact PROVE SolventBeforeDraws
  <2> SUFFICES ASSUME NEW t \in Tokens, fees_drawn[t] = 0
               PROVE  balance[t][Escrow] >= SumFunctionOnSet(Owed, StreamsOf(t))
    BY DEF SolventBeforeDraws, TotalOwed, TotalOver
  <2>1. IsFiniteSet(StreamsOf(t)) /\ StreamsOf(t) \subseteq Ids /\ balance[t][Escrow] \in Nat
    BY <1>1, SummandsTyped
  <2>2. \A id \in StreamsOf(t) :
            Owed[id] \in Int /\ Undistributed[id] \in Int /\ Owed[id] <= Undistributed[id]
    BY <1>1, <2>1, OwesWhatIsLeft
  <2>3. SumFunctionOnSet(Owed, StreamsOf(t)) <= SumFunctionOnSet(Undistributed, StreamsOf(t))
    BY <2>1, <2>2, SumMonotone
  <2>4. balance[t][Escrow] + fees_drawn[t] = SumFunctionOnSet(Undistributed, StreamsOf(t))
    BY <1>1 DEF LedgerExact, EscrowConserved, TotalOver
  <2>5. SumFunctionOnSet(Owed, StreamsOf(t)) \in Int
    BY <2>1, <2>2, SumType
  <2> QED
    BY <2>1, <2>3, <2>4, <2>5
<1> QED
  BY <1>1, Invariance, LedgerInvariance, PTL

-----------------------------------------------------------------------------
(* The employer index.                                                     *)

Lengths == [a \in Accounts |-> Len(employer_streams[a])]

\* The index only lists streams there are, so that new ids come last; the lists
\* are as long as there are streams, which bounds each of them.
IndexOK ==
    /\ stream_count <= MaxStreams
    /\ \A a \in Accounts : \A i \in 1..Len(employer_streams[a]) : employer_streams[a][i] \in Ids
    /\ \A id \in Ids : \E a \in Accounts :
          \E i \in 1..Len(employer_streams[a]) : employer_streams[a][i] = id
    /\ \A a \in Accounts : \A i \in 1..(Len(employer_streams[a]) - 1) :
          employer_streams[a][i] < employer_streams[a][i + 1]
    /\ SumFunctionOnSet(Lengths, Accounts) = stream_count

\* A list with ids put behind it.
LEMMA ListExtended ==
    ASSUME NEW s \in Seq(Nat), NEW t \in Seq(Nat)
    PROVE  /\ s \o t \in Seq(Nat) /\ Len(s \o t) = Len(s) + Len(t)
           /\ Len(s) \in Nat /\ Len(t) \in Nat
           /\ \A i \in 1..Len(s) : (s \o t)[i] = s[i]
           /\ \A i \in 1..Len(t) : (s \o t)[Len(s) + i] = t[i]
OBVIOUS

\* Indexing n new ids, in order, under their employer keeps the index exact
\* (index_employer_stream, index_employer_streams_batch).
LEMMA IndexedKeeps ==
    ASSUME IInv, IndexOK, NEW e \in Accounts, NEW n \in 1..2, NEW ids \in Seq(Nat),
           Len(ids) = n, \A k \in 1..n : ids[k] = stream_count + k,
           stream_count' = stream_count + n, stream_count' <= MaxStreams,
           employer_streams' = Indexed(employer_streams, e, ids)
    PROVE  IndexOK'
<1> DEFINE l == employer_streams[e]
           m == l \o ids
<1>1. stream_count \in Nat /\ employer_streams \in [Accounts -> Seq(Nat)] /\ l \in Seq(Nat)
  BY DEF IInv, StreamsOK, RolesOK
<1>2. /\ Len(m) = Len(l) + n /\ Len(l) \in Nat
      /\ \A i \in 1..Len(l) : m[i] = l[i]
      /\ \A i \in 1..n : m[Len(l) + i] = stream_count + i
  BY <1>1, ListExtended
<1>3. /\ employer_streams'[e] = m
      /\ \A a \in Accounts \ {e} : employer_streams'[a] = employer_streams[a]
  BY <1>1 DEF Indexed
<1>4. Ids = 1..stream_count /\ Ids' = 1..(stream_count + n)
  BY DEF Ids
<1>5. \A i \in 1..Len(m) : i \in 1..Len(l) \/ (i - Len(l) \in 1..n /\ i = Len(l) + (i - Len(l)))
  BY <1>2
<1>6. \A i \in 1..Len(l) : l[i] \in 1..stream_count
  BY <1>4 DEF IndexOK
<1>7. \A i \in 1..Len(m) : m[i] \in 1..(stream_count + n)
  <2> SUFFICES ASSUME NEW i \in 1..Len(m) PROVE m[i] \in 1..(stream_count + n)
    OBVIOUS
  <2>1. CASE i \in 1..Len(l)
    <3>1. m[i] = l[i] /\ l[i] \in 1..stream_count
      BY <1>2, <1>6, <2>1
    <3> QED
      BY <1>1, <3>1
  <2>2. CASE i - Len(l) \in 1..n /\ i = Len(l) + (i - Len(l))
    <3>1. m[i] = stream_count + (i - Len(l))
      BY <1>2, <2>2
    <3> QED
      BY <1>1, <2>2, <3>1
  <2> QED
    BY <1>5, <2>1, <2>2
<1>8. \A i \in 1..(Len(m) - 1) : m[i] < m[i + 1]
  <2> SUFFICES ASSUME NEW i \in 1..(Len(m) - 1) PROVE m[i] < m[i + 1]
    OBVIOUS
  <2>1. CASE i \in 1..(Len(l) - 1)
    <3>1. i \in 1..Len(l) /\ i + 1 \in 1..Len(l) /\ l[i] < l[i + 1]
      BY <1>2, <2>1 DEF IndexOK
    <3>2. m[i] = l[i] /\ m[i + 1] = l[i + 1]
      BY <1>2, <3>1
    <3> QED
      BY <3>1, <3>2
  <2>2. CASE i = Len(l)
    <3>1. i \in 1..Len(l) /\ m[i] = l[i] /\ l[i] \in 1..stream_count
      BY <1>2, <1>6, <2>2
    <3>2. m[Len(l) + 1] = stream_count + 1
      BY <1>2
    <3> QED
      BY <1>1, <2>2, <3>1, <3>2
  <2>3. CASE i > Len(l)
    <3>1. i - Len(l) \in 1..n /\ (i - Len(l)) + 1 \in 1..n
      BY <1>2, <2>3
    <3>2. i = Len(l) + (i - Len(l)) /\ i + 1 = Len(l) + ((i - Len(l)) + 1)
      BY <1>2
    <3>3. m[i] = stream_count + (i - Len(l)) /\ m[i + 1] = stream_count + ((i - Len(l)) + 1)
      BY <1>2, <3>1, <3>2
    <3> QED
      BY <1>1, <1>2, <3>3
  <2> HIDE DEF m, l
  <2>4. i \in 1..(Len(l) - 1) \/ i = Len(l) \/ i > Len(l)
    BY <1>2
  <2> QED
    BY <2>1, <2>2, <2>3, <2>4
<1>9. ASSUME NEW id \in 1..(stream_count + n)
      PROVE  \E a \in Accounts : \E i \in 1..Len(employer_streams'[a]) : employer_streams'[a][i] = id
  <2>1. CASE id \in Ids
    <3>1. PICK a \in Accounts : \E i \in 1..Len(employer_streams[a]) : employer_streams[a][i] = id
      BY <2>1 DEF IndexOK
    <3>2. PICK i \in 1..Len(employer_streams[a]) : employer_streams[a][i] = id
      BY <3>1
    <3>3. CASE a = e
      <4>1. i \in 1..Len(m) /\ m[i] = id
        BY <1>2, <3>2, <3>3
      <4> QED
        BY <1>3, <4>1
    <3>4. CASE a # e
      BY <1>3, <3>2, <3>4
    <3> QED
      BY <3>3, <3>4
  <2>2. CASE id \notin Ids
    <3>1. id - stream_count \in 1..n /\ Len(l) + (id - stream_count) \in 1..Len(m)
      BY <1>1, <1>2, <1>4, <2>2
    <3>2. m[Len(l) + (id - stream_count)] = stream_count + (id - stream_count)
      BY <1>2, <3>1
    <3>3. stream_count + (id - stream_count) = id
      BY <1>1
    <3> QED
      BY <1>3, <3>1, <3>2, <3>3
  <2> QED
    BY <2>1, <2>2
<1>10. SumFunctionOnSet(Lengths', Accounts) = stream_count'
  <2> DEFINE f == Lengths
             g == Lengths'
  <2>1. \A a \in Accounts : f[a] \in Int /\ g[a] \in Int
    BY <1>1, <1>2, <1>3 DEF Lengths
  <2>5. \A a \in Accounts \ {e} : g[a] = f[a]
    BY <1>1, <1>3 DEF Lengths
  <2>6. g[e] = Len(l) + n /\ f[e] = Len(l)
    BY <1>1, <1>2, <1>3 DEF Lengths
  <2>2. SumFunctionOnSet(f, Accounts) = stream_count
    BY DEF IndexOK
  <2>7. /\ IsFiniteSet(Accounts) /\ e \in Accounts
        /\ \A a \in Accounts : f[a] \in Int /\ g[a] \in Int
        /\ \A a \in Accounts \ {e} : g[a] = f[a]
    BY <2>1, <2>5, AccountsAssumption
  <2> HIDE DEF f, g, l, m
  <2>3. SumFunctionOnSet(g, Accounts) = SumFunctionOnSet(f, Accounts) + (g[e] - f[e])
    BY ONLY <2>7, SumUpdate
  <2>4. SumFunctionOnSet(g, Accounts) = stream_count'
    BY <1>1, <1>2, <2>2, <2>3, <2>6
  <2> QED
    BY <2>4 DEF g
<1>11. /\ \A a \in Accounts : \A i \in 1..Len(employer_streams'[a]) : employer_streams'[a][i] \in Ids'
       /\ \A a \in Accounts : \A i \in 1..(Len(employer_streams'[a]) - 1) :
             employer_streams'[a][i] < employer_streams'[a][i + 1]
  <2> SUFFICES ASSUME NEW a \in Accounts
               PROVE  /\ \A i \in 1..Len(employer_streams'[a]) : employer_streams'[a][i] \in Ids'
                      /\ \A i \in 1..(Len(employer_streams'[a]) - 1) :
                            employer_streams'[a][i] < employer_streams'[a][i + 1]
    OBVIOUS
  <2> HIDE DEF m
  <2>1. CASE a = e
    BY <1>3, <1>4, <1>7, <1>8, <2>1
  <2>2. CASE a # e
    <3>1. Ids \subseteq Ids'
      BY <1>1, <1>4
    <3> QED
      BY <1>3, <2>2, <3>1 DEF IndexOK
  <2> QED
    BY <2>1, <2>2
<1> QED
  BY <1>4, <1>9, <1>10, <1>11 DEF IndexOK

LEMMA IndexInit == Init => IndexOK
<1> SUFFICES ASSUME Init PROVE IndexOK
  OBVIOUS
<1>1. Ids = {} /\ stream_count = 0 /\ MaxStreams \in Nat /\ \A a \in Accounts : employer_streams[a] = <<>>
  BY ContractAssumption DEF Init, Ids
<1>2. SumFunctionOnSet(Lengths, Accounts) = 0
  <2> DEFINE f == Lengths
             z == [a \in Accounts |-> 0]
  <2>1. \A S \in SUBSET Accounts : SumFunctionOnSet(f, S) = 0
    <3> DEFINE Good == {S \in SUBSET Accounts : SumFunctionOnSet(f, S) = 0}
    <3>1. {} \in Good
      BY SumEmpty
    <3>2. \A a \in Accounts : f[a] = 0
      BY <1>1 DEF Lengths
    <3> HIDE DEF f
    <3>3. ASSUME NEW S \in SUBSET Accounts, S # {}, \A a \in S : S \ {a} \in Good
          PROVE  S \in Good
      <4>1. PICK a \in S : TRUE
        BY <3>3
      <4>2. IsFiniteSet(S) /\ \A x \in S : f[x] \in Int
        BY <3>2, AccountsAssumption, FS_Subset
      <4>3. SumFunctionOnSet(f, S) = f[a] + SumFunctionOnSet(f, S \ {a})
        BY <4>2, SumRemove
      <4> QED
        BY <3>2, <3>3, <4>3
    <3> HIDE DEF Good
    <3>4. SUBSET Accounts \subseteq Good
      BY <3>1, <3>3, AccountsAssumption, SubsetInduction
    <3> QED
      BY <3>4 DEF Good
  <2> QED
    BY <2>1
<1> QED
  BY <1>1, <1>2 DEF IndexOK

LEMMA IndexNext == IInv /\ IndexOK /\ [Next]_vars => IndexOK'
<1> SUFFICES ASSUME IInv, IndexOK, [Next]_vars PROVE IndexOK'
  OBVIOUS
<1>1. CASE CreateStep
  <2>1. PICK e \in Accounts, p \in StreamParams :
            \/ \E c \in Cooldowns : create_stream(e, p, c)
            \/ \E q \in StreamParams : create_streams_batch(e, p, q)
    BY <1>1 DEF CreateStep
  <2>2. stream_count \in Nat
    BY DEF IInv, StreamsOK
  <2>3. ASSUME NEW c \in Cooldowns, create_stream(e, p, c) PROVE IndexOK'
    <3> DEFINE ids == <<stream_count + 1>>
    <3>1. /\ stream_count' = stream_count + 1 /\ stream_count' <= MaxStreams
          /\ employer_streams' = Indexed(employer_streams, e, ids)
      BY <2>3 DEF create_stream, AddStreams
    <3>2. ids \in Seq(Nat) /\ Len(ids) = 1 /\ \A k \in 1..1 : ids[k] = stream_count + k
      BY <2>2
    <3> HIDE DEF ids
    <3> QED
      BY <3>1, <3>2, IndexedKeeps
  <2>4. ASSUME NEW q \in StreamParams, create_streams_batch(e, p, q) PROVE IndexOK'
    <3> DEFINE ids == <<stream_count + 1, stream_count + 2>>
    <3>1. /\ stream_count' = stream_count + 2 /\ stream_count' <= MaxStreams
          /\ employer_streams' = Indexed(employer_streams, e, ids)
      BY <2>4 DEF create_streams_batch, AddStreams
    <3>2. ids \in Seq(Nat) /\ Len(ids) = 2 /\ \A k \in 1..2 : ids[k] = stream_count + k
      BY <2>2
    <3> HIDE DEF ids
    <3> QED
      BY <3>1, <3>2, IndexedKeeps
  <2> QED
    BY <2>1, <2>3, <2>4
<1>2. ASSUME stream_count' = stream_count, employer_streams' = employer_streams PROVE IndexOK'
  BY <1>2 DEF IndexOK, Lengths, Ids
<1>3. CASE PaymentStep
  BY <1>2, <1>3 DEF PaymentStep, withdraw, withdraw_protocol_fees, index_vars
<1>4. CASE ManageStep
  <2>1. PICK a \in Accounts, id \in Ids :
              \/ \E amount \in TopUps : top_up(a, id, amount)
              \/ pause_stream(a, id) \/ resume_stream(a, id)
              \/ Settle(a, id, "Cancelled") \/ Settle(a, id, "Exhausted")
    BY <1>4 DEF ManageStep, cancel_stream, reclaim_expired
  <2>2. ASSUME NEW s, SetStream(id, s)
        PROVE  stream_count' = stream_count /\ employer_streams' = employer_streams
    BY ONLY <2>2 DEF SetStream, index_vars
  <2>3. ASSUME NEW amount, top_up(a, id, amount)
        PROVE  stream_count' = stream_count /\ employer_streams' = employer_streams
    BY ONLY <2>2, <2>3 DEF top_up
  <2>4. CASE pause_stream(a, id) \/ resume_stream(a, id)
    BY ONLY <1>2, <2>2, <2>4 DEF pause_stream, resume_stream
  <2>5. ASSUME NEW final, Settle(a, id, final)
        PROVE  stream_count' = stream_count /\ employer_streams' = employer_streams
    BY ONLY <2>2, <2>5 DEF Settle
  <2> QED
    BY <1>2, <2>1, <2>3, <2>4, <2>5
<1>5. CASE RateStep \/ QueryStep \/ RoleStep
  BY <1>2, <1>5 DEF RateStep, QueryStep, RoleStep, update_rate, get_stream, transfer_stream, set_delegate,
                    propose_employer_transfer, accept_employer_transfer, SetStream, index_vars
<1>6. CASE Tick \/ ConfigStep \/ UNCHANGED vars
  BY <1>2, <1>6 DEF Tick, ConfigStep, vars, index_vars
<1> QED
  BY <1>1, <1>3, <1>4, <1>5, <1>6 DEF Next, StreamStep

\* No list is longer than there are streams.
LEMMA ListsBounded ==
    ASSUME IInv, IndexOK, NEW a \in Accounts
    PROVE  Len(employer_streams[a]) <= MaxStreams
<1> DEFINE f == Lengths
<1>1. /\ IsFiniteSet(Accounts) /\ IsFiniteSet(Accounts \ {a})
      /\ \A x \in Accounts : f[x] \in Nat
      /\ f[a] = Len(employer_streams[a])
  BY AccountsAssumption, FS_RemoveElement DEF IInv, RolesOK, Lengths
<1>2. SumFunctionOnSet(f, Accounts) = stream_count /\ stream_count <= MaxStreams /\ stream_count \in Nat
  BY DEF IndexOK, IInv, StreamsOK
<1> HIDE DEF f
<1>3. SumFunctionOnSet(f, Accounts) = f[a] + SumFunctionOnSet(f, Accounts \ {a})
  <2>1. \A x \in Accounts : f[x] \in Int
    BY <1>1
  <2> QED
    BY <1>1, <2>1, SumRemove
<1>4. SumFunctionOnSet(f, Accounts \ {a}) \in Nat
  <2>1. \A x \in Accounts \ {a} : f[x] \in Nat
    BY <1>1
  <2> QED
    BY <1>1, <2>1, SumType
<1>5. f[a] \in Nat /\ MaxStreams \in Nat
  BY <1>1, ContractAssumption
<1> QED
  BY <1>1, <1>2, <1>3, <1>4, <1>5

\* The index stays with the account that created a stream.  The role leaves it by
\* an accepted proposal only, and proposals name NewParties.
OwnersOK ==
    /\ \A id \in Ids : pending_employer[id] \in NewParties \cup {None}
    /\ \A a \in Accounts : \A i \in 1..Len(employer_streams[a]) :
          streams[employer_streams[a][i]].employer \in {a} \cup NewParties

\* A step that creates nothing leaves the role or hands it to a proposed party.
RoleKept(id) == /\ streams'[id].employer \in {streams[id].employer} \cup NewParties
                /\ pending_employer'[id] \in NewParties \cup {None}

LEMMA OwnersStay ==
    ASSUME IInv, IndexOK, OwnersOK, stream_count' = stream_count,
           employer_streams' = employer_streams, \A id \in Ids : RoleKept(id)
    PROVE  OwnersOK'
<1>1. Ids' = Ids
  BY DEF Ids
<1>2. ASSUME NEW a \in Accounts, NEW i \in 1..Len(employer_streams[a])
      PROVE  streams'[employer_streams[a][i]].employer \in {a} \cup NewParties
  <2>1. employer_streams[a][i] \in Ids
    BY DEF IndexOK
  <2> QED
    BY <2>1 DEF OwnersOK, RoleKept
<1> QED
  BY <1>1, <1>2 DEF OwnersOK, RoleKept

\* n new streams of e, filed behind e's others.
LEMMA OwnersExtended ==
    ASSUME IInv, IndexOK, OwnersOK, NEW e \in Accounts, NEW n \in 1..2, NEW ids \in Seq(Nat),
           Len(ids) = n, \A k \in 1..n : ids[k] = stream_count + k,
           NEW new, \A k \in 1..n : new[k].employer = e,
           AddStreams(n, new),
           employer_streams' = Indexed(employer_streams, e, ids)
    PROVE  OwnersOK'
<1> DEFINE l == employer_streams[e]
           m == l \o ids
<1>1. stream_count \in Nat /\ employer_streams \in [Accounts -> Seq(Nat)] /\ l \in Seq(Nat)
  BY DEF IInv, StreamsOK, RolesOK
<1>2. /\ Len(m) = Len(l) + n /\ Len(l) \in Nat
      /\ \A i \in 1..Len(l) : m[i] = l[i]
      /\ \A i \in 1..n : m[Len(l) + i] = stream_count + i
  BY <1>1, ListExtended
<1>3. /\ employer_streams'[e] = m
      /\ \A a \in Accounts \ {e} : employer_streams'[a] = employer_streams[a]
  BY <1>1 DEF Indexed
<1>4. /\ Ids = 1..stream_count /\ Ids' = 1..(stream_count + n)
      /\ \A id \in Ids : streams'[id] = streams[id] /\ pending_employer'[id] = pending_employer[id]
      /\ \A k \in 1..n : streams'[stream_count + k].employer = e
      /\ \A k \in 1..n : pending_employer'[stream_count + k] = None
  BY <1>1 DEF AddStreams, Extended, Ids
<1>5. ASSUME NEW id \in Ids' PROVE pending_employer'[id] \in NewParties \cup {None}
  <2>1. CASE id \in Ids
    BY <1>4, <2>1 DEF OwnersOK
  <2>2. CASE id \notin Ids
    <3>1. id - stream_count \in 1..n /\ id = stream_count + (id - stream_count)
      BY <1>1, <1>4, <2>2
    <3> QED
      BY <1>4, <3>1
  <2> QED
    BY <2>1, <2>2
<1>6. ASSUME NEW a \in Accounts, NEW i \in 1..Len(employer_streams[a])
      PROVE  streams'[employer_streams[a][i]].employer \in {a} \cup NewParties
  <2>1. employer_streams[a][i] \in Ids
    BY DEF IndexOK
  <2> QED
    BY <1>4, <2>1 DEF OwnersOK
<1>7. ASSUME NEW a \in Accounts, NEW i \in 1..Len(employer_streams'[a])
      PROVE  streams'[employer_streams'[a][i]].employer \in {a} \cup NewParties
  <2>1. CASE a # e
    BY <1>3, <1>6, <2>1
  <2>2. CASE a = e /\ i \in 1..Len(l)
    <3>1. employer_streams'[a][i] = employer_streams[a][i]
      BY <1>2, <1>3, <2>2
    <3> QED
      BY <1>6, <2>2, <3>1
  <2>3. CASE a = e /\ i \notin 1..Len(l)
    <3>1. i \in 1..(Len(l) + n)
      BY <1>2, <1>3, <2>3
    <3>2. i - Len(l) \in 1..n /\ i = Len(l) + (i - Len(l))
      BY <1>2, <2>3, <3>1
    <3>3. employer_streams'[a][i] = stream_count + (i - Len(l))
      BY <1>2, <1>3, <2>3, <3>2
    <3> QED
      BY <1>4, <2>3, <3>2, <3>3
  <2> QED
    BY <2>1, <2>2, <2>3
<1> QED
  BY <1>5, <1>7 DEF OwnersOK

LEMMA OwnersInit == Init => OwnersOK
BY DEF Init, OwnersOK, Ids

LEMMA OwnersNext == IInv /\ IndexOK /\ OwnersOK /\ [Next]_vars => OwnersOK'
<1> SUFFICES ASSUME IInv, IndexOK, OwnersOK, [Next]_vars PROVE OwnersOK'
  OBVIOUS
<1>0. /\ stream_count \in Nat /\ streams \in [Ids -> StreamRecord]
      /\ pending_employer \in [Ids -> Accounts \cup {None}]
  BY DEF IInv, StreamsOK, RolesOK
<1>1. CASE CreateStep
  <2>1. PICK e \in Accounts, p \in StreamParams :
            \/ \E c \in Cooldowns : create_stream(e, p, c)
            \/ \E q \in StreamParams : create_streams_batch(e, p, q)
    BY <1>1 DEF CreateStep
  <2>2. ASSUME NEW c \in Cooldowns, create_stream(e, p, c) PROVE OwnersOK'
    <3> DEFINE ids == <<stream_count + 1>>
               new == [i \in 1..1 |-> NewStream(e, p, c)]
    <3>1. /\ AddStreams(1, new)
          /\ employer_streams' = Indexed(employer_streams, e, ids)
      BY <2>2 DEF create_stream
    <3>2. /\ ids \in Seq(Nat) /\ Len(ids) = 1 /\ \A k \in 1..1 : ids[k] = stream_count + k
          /\ \A k \in 1..1 : new[k].employer = e
      BY <1>0 DEF NewStream
    <3> HIDE DEF ids, new
    <3> QED
      BY <3>1, <3>2, OwnersExtended
  <2>3. ASSUME NEW q \in StreamParams, create_streams_batch(e, p, q) PROVE OwnersOK'
    <3> DEFINE ids == <<stream_count + 1, stream_count + 2>>
               new == [i \in 1..2 |-> NewStream(e, IF i = 1 THEN p ELSE q, 0)]
    <3>1. /\ AddStreams(2, new)
          /\ employer_streams' = Indexed(employer_streams, e, ids)
      BY <2>3 DEF create_streams_batch
    <3>2. /\ ids \in Seq(Nat) /\ Len(ids) = 2 /\ \A k \in 1..2 : ids[k] = stream_count + k
          /\ \A k \in 1..2 : new[k].employer = e
      BY <1>0 DEF NewStream
    <3> HIDE DEF ids, new
    <3> QED
      BY <3>1, <3>2, OwnersExtended
  <2> QED
    BY <2>1, <2>2, <2>3
<1>2. ASSUME stream_count' = stream_count, employer_streams' = employer_streams,
             \A id \in Ids : RoleKept(id)
      PROVE  OwnersOK'
  BY <1>2, OwnersStay
<1>3. ASSUME pending_employer' = pending_employer, stream_count' = stream_count,
             employer_streams' = employer_streams,
             \A id \in Ids : streams'[id].employer = streams[id].employer
      PROVE  OwnersOK'
  BY <1>2, <1>3 DEF RoleKept, OwnersOK
<1>4. ASSUME NEW id \in Ids, NEW s, SetStream(id, s), s.employer = streams[id].employer,
             pending_employer' = pending_employer
      PROVE  OwnersOK'
  BY <1>0, <1>3, <1>4 DEF SetStream, index_vars
<1>5. CASE PaymentStep
  <2>1. ASSUME NEW a \in Accounts, NEW id \in Ids, withdraw(a, id) PROVE OwnersOK'
    <3>1. streams[id] \in StreamRecord
      BY <1>0
    <3> DEFINE w == streams[id].withdrawn + claimable_amount(streams[id], now)
               st == IF w >= streams[id].deposit THEN "Exhausted" ELSE streams[id].status
    <3>2. streams' = [streams EXCEPT ![id] =
                 [streams[id] EXCEPT !.withdrawn = w, !.last_withdraw_time = now, !.status = st]]
      BY <2>1 DEF withdraw
    <3> HIDE DEF w, st
    <3>3. \A j \in Ids : streams'[j].employer = streams[j].employer
      BY <1>0, <3>1, <3>2 DEF StreamRecord
    <3> QED
      BY <1>3, <2>1, <3>3 DEF withdraw, index_vars
  <2>2. ASSUME NEW a \in Accounts, NEW t \in Tokens, NEW amount, withdraw_protocol_fees(a, t, amount)
        PROVE  OwnersOK'
    BY <1>3, <2>2 DEF withdraw_protocol_fees, index_vars
  <2> QED
    BY <1>5, <2>1, <2>2 DEF PaymentStep
<1>6. CASE ManageStep
  <2>1. PICK a \in Accounts, id \in Ids :
              \/ \E amount \in TopUps : top_up(a, id, amount)
              \/ pause_stream(a, id) \/ resume_stream(a, id)
              \/ Settle(a, id, "Cancelled") \/ Settle(a, id, "Exhausted")
    BY <1>6 DEF ManageStep, cancel_stream, reclaim_expired
  <2>2. streams[id] \in StreamRecord
    BY <1>0
  <2>3. ASSUME NEW amount \in TopUps, top_up(a, id, amount) PROVE OwnersOK'
    BY <1>4, <2>2, <2>3 DEF top_up, StreamRecord
  <2>4. CASE pause_stream(a, id)
    BY <1>4, <2>2, <2>4 DEF pause_stream, StreamRecord
  <2>5. CASE resume_stream(a, id)
    BY <1>4, <2>2, <2>5 DEF resume_stream, StreamRecord
  <2>6. ASSUME NEW final, Settle(a, id, final) PROVE OwnersOK'
    BY <1>4, <2>2, <2>6 DEF Settle, StreamRecord
  <2> QED
    BY <2>1, <2>3, <2>4, <2>5, <2>6
<1>7. ASSUME NEW a \in Accounts, NEW id \in Ids, NEW r, update_rate(a, id, r) PROVE OwnersOK'
  BY <1>0, <1>4, <1>7 DEF update_rate, StreamRecord
<1>8. ASSUME NEW id \in Ids, get_stream(id) PROVE OwnersOK'
  BY <1>0, <1>4, <1>8 DEF get_stream, StreamRecord
<1>9. CASE RoleStep
  <2>1. PICK a \in Accounts, id \in Ids :
              \/ \E x \in NewParties : transfer_stream(a, id, x)
              \/ \E d \in NewParties \cup {None} : set_delegate(a, id, d)
              \/ \E x \in NewParties : propose_employer_transfer(a, id, x)
              \/ accept_employer_transfer(a, id)
    BY <1>9 DEF RoleStep
  <2>2. streams[id] \in StreamRecord /\ None \notin Accounts
    BY <1>0, ContractAssumption
  <2>3. ASSUME NEW x \in NewParties, transfer_stream(a, id, x) PROVE OwnersOK'
    BY <1>4, <2>2, <2>3 DEF transfer_stream, StreamRecord
  <2>4. ASSUME NEW d \in NewParties \cup {None}, set_delegate(a, id, d) PROVE OwnersOK'
    BY <1>4, <2>2, <2>4 DEF set_delegate, StreamRecord
  <2>5. ASSUME NEW x \in NewParties, propose_employer_transfer(a, id, x) PROVE OwnersOK'
    BY <1>0, <1>2, <2>5 DEF propose_employer_transfer, index_vars, RoleKept, OwnersOK
  <2>6. CASE accept_employer_transfer(a, id)
    <3>1. a \in NewParties
      BY <2>2, <2>6 DEF accept_employer_transfer, OwnersOK
    <3>2. /\ streams' = [streams EXCEPT ![id] = [streams[id] EXCEPT !.employer = a]]
          /\ pending_employer' = [pending_employer EXCEPT ![id] = None]
          /\ stream_count' = stream_count /\ employer_streams' = employer_streams
      BY <2>6 DEF accept_employer_transfer, SetStream, index_vars
    <3>3. \A j \in Ids : RoleKept(j)
      BY <1>0, <2>2, <3>1, <3>2 DEF RoleKept, OwnersOK, StreamRecord
    <3> QED
      BY <1>2, <3>2, <3>3
  <2> QED
    BY <2>1, <2>3, <2>4, <2>5, <2>6
<1>10. CASE Tick \/ ConfigStep \/ UNCHANGED vars
  BY <1>3, <1>10 DEF Tick, ConfigStep, vars, index_vars
<1> QED
  BY <1>1, <1>5, <1>6, <1>7, <1>8, <1>9, <1>10 DEF Next, StreamStep, RateStep, QueryStep

\* The employer index holds every stream once, in the order of creation, under the
\* account that created it as long as the role was not handed over, through any mix of single and batch creations
\* (index_employer_stream, index_employer_streams_batch).
THEOREM EmployerIndexIsExact == Spec => []EmployerIndexExact
<1>1. Spec => [](IndexOK /\ OwnersOK)
  BY Invariance, IndexInit, IndexNext, OwnersInit, OwnersNext, PTL DEF Spec
<1>2. ASSUME IInv, IndexOK, OwnersOK PROVE EmployerIndexExact
  <2>1. ASSUME NEW id \in Ids
        PROVE  \E a \in Accounts, i \in 1..MaxStreams :
                   i <= Len(employer_streams[a]) /\ employer_streams[a][i] = id
    <3>1. PICK a \in Accounts : \E i \in 1..Len(employer_streams[a]) : employer_streams[a][i] = id
      BY <1>2 DEF IndexOK
    <3>2. PICK i \in 1..Len(employer_streams[a]) : employer_streams[a][i] = id
      BY <3>1
    <3>3. Len(employer_streams[a]) <= MaxStreams /\ Len(employer_streams[a]) \in Nat /\ MaxStreams \in Nat
      BY <1>2, ListsBounded, ContractAssumption DEF IInv, RolesOK
    <3>4. i \in 1..MaxStreams /\ i <= Len(employer_streams[a])
      BY <3>3
    <3> QED
      BY <3>2, <3>4
  <2> QED
    BY <1>2, <2>1 DEF EmployerIndexExact, IndexOK, OwnersOK, TotalOver, Lengths
<1> QED
  BY <1>1, <1>2, Invariance, PTL
-----------------------------------------------------------------------------
(* Who a step may pay.                                                     *)

FeeReceiver == IF fee_recipient = None THEN admin ELSE fee_recipient

\* One step of PaymentsReachParties.
Reaches ==
    \A t \in Tokens, a \in Accounts :
        balance'[t][a] > balance[t][a] =>
            \/ \E id \in StreamsOf(t) :
                   /\ paid'[id] # paid[id]
                   /\ a \in {streams[id].employee, streams[id].employer}
            \/ a = FeeReceiver

\* Only the payee of a payment gains, and only when it is made.
LEMMA PayGains ==
    ASSUME NEW b \in [Parties -> Nat], NEW amount \in Nat, NEW to, amount > 0 => to \in Parties,
           NEW a \in Accounts
    PROVE  Pay(b, Escrow, to, amount)[a] > b[a] => a = to /\ amount > 0
<1>1. a \in Parties /\ Escrow \in Parties /\ b[a] \in Nat
  BY DEF Parties
<1>2. CASE amount > 0 /\ a # to
  <2>1. Transfer(b, Escrow, to, amount)[a] <= b[a]
    BY <1>1, <1>2, TransferGains
  <2>2. Transfer(b, Escrow, to, amount)[a] \in Int
    BY <1>1, <1>2 DEF Transfer
  <2> QED
    BY <1>1, <1>2, <2>1, <2>2 DEF Pay
<1>3. CASE amount > 0 /\ a = to
  BY <1>3
<1>4. CASE ~(amount > 0)
  BY <1>1, <1>4 DEF Pay
<1> QED
  BY <1>2, <1>3, <1>4

\* A deposit only pays the fee recipient.
LEMMA DepositGains ==
    ASSUME ConfigOK, NEW b \in [Tokens -> [Parties -> Nat]], NEW employer \in Accounts,
           NEW p \in StreamParams, CanDeposit(b, employer, p), NEW t \in Tokens,
           NEW a \in Accounts, a # FeeReceiver
    PROVE  Deposited(b, employer, p)[t][a] <= b[t][a]
<1> DEFINE net == p.deposit - DepositFee(p)
           b1  == Transfer(b[p.token], employer, Escrow, net)
           b2  == IF ChargesDepositFee THEN Transfer(b1, employer, fee_recipient, DepositFee(p)) ELSE b1
<1>1. p.token \in Tokens /\ net \in Nat /\ DepositFee(p) \in Nat /\ b[p.token] \in [Parties -> Nat]
  BY DepositFacts, FeeNat, ContractAssumption DEF StreamParams, DepositFee, ConfigOK, Config
<1>2. employer \in Parties /\ Escrow \in Parties /\ a \in Parties /\ a # Escrow
  BY ContractAssumption DEF Parties
<1>3. b1[a] <= b[p.token][a]
  <2> HIDE DEF net
  <2> QED
    BY <1>1, <1>2, TransferGains
<1>4. b1 \in [Parties -> Nat]
  <2>1. CanTransfer(b[p.token], employer, net) /\ net \in Int
    BY <1>1 DEF CanDeposit
  <2> HIDE DEF net
  <2> QED
    BY <1>1, <1>2, <2>1, TransferNat
<1>5. ChargesDepositFee => Transfer(b1, employer, fee_recipient, DepositFee(p))[a] <= b1[a]
  <2>1. ASSUME ChargesDepositFee PROVE fee_recipient \in Parties /\ a # fee_recipient
    BY <2>1 DEF ChargesDepositFee, ConfigOK, FeeReceiver, Parties
  <2> HIDE DEF b1
  <2> QED
    BY <1>1, <1>2, <1>4, <2>1, TransferGains
<1>6. Deposited(b, employer, p)[p.token] = b2 /\ \A u \in Tokens \ {p.token} : Deposited(b, employer, p)[u] = b[u]
  BY <1>1 DEF Deposited
<1>7. b2 \in [Parties -> Nat]
  BY <1>1, <1>6, DepositFacts
<1>8. b2[a] <= b[p.token][a]
  <2>1. b1[a] \in Nat /\ b2[a] \in Nat /\ b[p.token][a] \in Nat
    BY <1>1, <1>2, <1>4, <1>7
  <2>2. b2[a] <= b1[a]
    <3>1. CASE ChargesDepositFee
      BY <1>5, <3>1
    <3>2. CASE ~ChargesDepositFee
      BY <2>1, <3>2
    <3> QED
      BY <3>1, <3>2
  <2> HIDE DEF b1, b2
  <2> QED
    BY <1>3, <2>1, <2>2
<1> HIDE DEF b1, b2
<1>9. b[t][a] \in Nat
  BY <1>2
<1> QED
  BY <1>6, <1>8, <1>9

\* withdraw pays the employee, and the fee recipient.
LEMMA WithdrawReaches ==
    ASSUME IInv, NEW employee \in Accounts, NEW id \in Ids, withdraw(employee, id)
    PROVE  Reaches
<1> USE DEF IInv
<1> DEFINE s     == streams[id]
           q     == paid[id]
           gross == claimable_amount(s, now)
           fee   == FeeOn(gross, cfg.fee_bps)
           net   == Monus(gross, fee)
           sent  == IF fee_recipient # None THEN fee ELSE 0
           b1    == Pay(balance[s.token], Escrow, fee_recipient, sent)
           p2    == [q EXCEPT !.employee = @ + net, !.fee = @ + sent,
                              !.withheld = @ + (fee - sent)]
<1>1. /\ s \in StreamRecord /\ q \in Payouts /\ employee = s.employee
      /\ paid' = [paid EXCEPT ![id] = p2]
      /\ balance' = [balance EXCEPT ![s.token] = Transfer(b1, Escrow, employee, net)]
  BY StreamFacts DEF withdraw
<1>2. net > 0 /\ fee \in Nat /\ net \in Nat /\ sent \in Nat
  <2>1. gross \in Nat /\ cfg.fee_bps \in Nat
    BY StreamFacts DEF ConfigOK, Config
  <2>2. fee \in Nat
    BY <2>1, FeeNat
  <2>3. net > 0
    BY DEF withdraw, CanTransfer
  <2> HIDE DEF gross, fee
  <2> QED
    BY <2>1, <2>2, <2>3 DEF Monus
<1>3. paid'[id] # paid[id]
  <2>1. paid'[id] = p2
    BY <1>1 DEF StreamsOK
  <2> HIDE DEF q, net, sent, fee
  <2>2. p2.employee = q.employee + net /\ q.employee \in Nat
    BY <1>1 DEF Payouts
  <2>3. p2.employee # q.employee
    BY <1>2, <2>2
  <2> QED
    BY <2>1, <2>3 DEF q
<1>4. s.token \in Tokens /\ balance[s.token] \in [Parties -> Nat] /\ balance \in [Tokens -> [Parties -> Nat]]
  BY <1>1 DEF StreamRecord, LedgerOK
<1>5. (sent > 0 => fee_recipient \in Parties /\ fee_recipient = FeeReceiver) /\ Escrow \in Parties /\ employee \in Parties
  BY <1>2 DEF ConfigOK, Parties, FeeReceiver
<1>6. b1 \in [Parties -> Nat]
  <2>1. CanPay(balance[s.token], Escrow, sent)
    BY DEF withdraw
  <2> HIDE DEF sent, s
  <2> QED
    BY <1>2, <1>4, <1>5, <2>1, PayNat
<1>7. id \in StreamsOf(s.token)
  BY DEF StreamsOf
<1> SUFFICES ASSUME NEW t \in Tokens, NEW a \in Accounts, balance'[t][a] > balance[t][a],
                    a # FeeReceiver
             PROVE  t = s.token /\ a = employee
  BY <1>1, <1>3, <1>7 DEF Reaches
<1>8. a \in Parties /\ balance[s.token][a] \in Nat /\ balance[t][a] \in Nat /\ b1[a] \in Nat
  BY <1>4, <1>6 DEF Parties
<1>9. b1[a] <= balance[s.token][a]
  <2>1. ~(b1[a] > balance[s.token][a])
    <3>1. /\ balance[s.token] \in [Parties -> Nat] /\ sent \in Nat
          /\ sent > 0 => fee_recipient \in Parties /\ a # fee_recipient
      BY <1>2, <1>4, <1>5
    <3> HIDE DEF s, sent
    <3> QED
      BY ONLY <3>1, PayGains
  <2> HIDE DEF b1, s
  <2> QED
    BY <1>8, <2>1
<1>10. a # employee => Transfer(b1, Escrow, employee, net)[a] <= b1[a]
  <2> HIDE DEF b1, net
  <2> QED
    BY <1>2, <1>5, <1>6, <1>8, TransferGains
<1>11. Transfer(b1, Escrow, employee, net)[a] \in Int
  <2> HIDE DEF b1, net
  <2> QED
    BY <1>2, <1>5, <1>6, <1>8 DEF Transfer
<1> HIDE DEF b1, net, s
<1> QED
  BY <1>1, <1>4, <1>8, <1>9, <1>10, <1>11

\* A settlement pays the employee and refunds the employer.
LEMMA SettleReaches ==
    ASSUME IInv, NEW employer \in Accounts, NEW id \in Ids, NEW final, Settle(employer, id, final)
    PROVE  Reaches
<1> USE DEF IInv
<1> DEFINE s      == streams[id]
           q      == paid[id]
           earned == claimable_amount(s, now)
           refund == Unearned(s, earned)
           b1     == Pay(balance[s.token], Escrow, s.employee, earned)
           p2     == [q EXCEPT !.employee = @ + earned, !.refund = @ + refund]
<1>1. /\ s \in StreamRecord /\ q \in Payouts /\ employer = s.employer
      /\ paid' = [paid EXCEPT ![id] = p2]
      /\ balance' = [balance EXCEPT ![s.token] = Pay(b1, Escrow, employer, refund)]
  BY StreamFacts DEF Settle, require_employer
<1>2. earned \in Nat /\ refund \in Nat
  <2>1. earned \in Nat
    BY StreamFacts
  <2> HIDE DEF earned
  <2> QED
    BY <1>1, <2>1 DEF Unearned, Monus, StreamRecord
<1>3. earned > 0 \/ refund > 0 => paid'[id] # paid[id]
  <2>1. paid'[id] = p2
    BY <1>1 DEF StreamsOK
  <2> HIDE DEF q, earned, refund
  <2>2. /\ p2.employee = q.employee + earned /\ q.employee \in Nat
        /\ p2.refund = q.refund + refund /\ q.refund \in Nat
    BY <1>1 DEF Payouts
  <2>3. earned > 0 \/ refund > 0 => p2.employee # q.employee \/ p2.refund # q.refund
    BY <1>2, <2>2
  <2> QED
    BY <2>1, <2>3 DEF q
<1>4. /\ s.token \in Tokens /\ balance[s.token] \in [Parties -> Nat]
      /\ balance \in [Tokens -> [Parties -> Nat]] /\ s.employee \in Parties
      /\ employer \in Parties /\ Escrow \in Parties
  BY <1>1 DEF StreamRecord, LedgerOK, Parties
<1>6. b1 \in [Parties -> Nat]
  <2>1. CanPay(balance[s.token], Escrow, earned)
    BY DEF Settle
  <2> HIDE DEF earned, s
  <2> QED
    BY <1>2, <1>4, <2>1, PayNat
<1>7. id \in StreamsOf(s.token)
  BY DEF StreamsOf
<1> SUFFICES ASSUME NEW t \in Tokens, NEW a \in Accounts, balance'[t][a] > balance[t][a]
             PROVE  t = s.token /\ a \in {s.employee, employer} /\ (earned > 0 \/ refund > 0)
  BY <1>1, <1>3, <1>7 DEF Reaches
<1>8. a \in Parties /\ balance[s.token][a] \in Nat /\ balance[t][a] \in Nat /\ b1[a] \in Nat
  BY <1>4, <1>6 DEF Parties
<1>9. b1[a] > balance[s.token][a] => a = s.employee /\ earned > 0
  <2> DEFINE e == s.employee
             b == balance[s.token]
  <2>1. b \in [Parties -> Nat] /\ e \in Parties
    BY <1>4
  <2> HIDE DEF e, b, earned
  <2>2. Pay(b, Escrow, e, earned)[a] > b[a] => a = e /\ earned > 0
    BY <1>2, <2>1, PayGains
  <2> QED
    BY <2>2 DEF e, b
<1>10. Pay(b1, Escrow, employer, refund)[a] > b1[a] => a = employer /\ refund > 0
  <2> HIDE DEF b1, refund
  <2> QED
    BY <1>2, <1>4, <1>6, PayGains
<1>11. Pay(b1, Escrow, employer, refund)[a] \in Int
  <2> HIDE DEF b1, refund
  <2> QED
    BY <1>2, <1>4, <1>6, <1>8 DEF Transfer, Pay
<1> HIDE DEF b1, refund, earned, s
<1> QED
  BY <1>1, <1>4, <1>8, <1>9, <1>10, <1>11

\* A draw of fees pays the fee recipient, or the admin when there is none.
LEMMA DrawReaches ==
    ASSUME IInv, NEW caller \in Accounts, NEW token \in Tokens, NEW amount \in Nat,
           withdraw_protocol_fees(caller, token, amount)
    PROVE  Reaches
<1> DEFINE recipient == IF fee_recipient # None THEN fee_recipient ELSE caller
<1>1. /\ balance' = [balance EXCEPT ![token] = Transfer(balance[token], Escrow, recipient, amount)]
      /\ recipient = FeeReceiver
  BY DEF withdraw_protocol_fees, FeeReceiver
<1>2. /\ balance \in [Tokens -> [Parties -> Nat]] /\ balance[token] \in [Parties -> Nat]
      /\ recipient \in Parties /\ Escrow \in Parties
  BY DEF IInv, LedgerOK, ConfigOK, Parties
<1> HIDE DEF recipient
<1> SUFFICES ASSUME NEW t \in Tokens, NEW a \in Accounts, balance'[t][a] > balance[t][a], a # recipient
             PROVE  FALSE
  BY <1>1 DEF Reaches
<1>3. a \in Parties /\ balance[t][a] \in Nat
  BY <1>2 DEF Parties
<1>4. Transfer(balance[token], Escrow, recipient, amount)[a] <= balance[token][a]
  BY <1>2, <1>3, TransferGains
<1>5. Transfer(balance[token], Escrow, recipient, amount)[a] \in Int
  BY <1>2, <1>3 DEF Transfer
<1> QED
  BY <1>1, <1>2, <1>3, <1>4, <1>5

\* A top-up pays the escrow only.
LEMMA TopUpReaches ==
    ASSUME IInv, NEW caller \in Accounts, NEW id \in Ids, NEW amount \in Nat, top_up(caller, id, amount)
    PROVE  Reaches
<1> DEFINE token == streams[id].token
<1>1. balance' = [balance EXCEPT ![token] = Transfer(balance[token], caller, Escrow, amount)]
  BY DEF top_up
<1>2. token \in Tokens
  <2>1. streams[id] \in StreamRecord
    BY StreamFacts DEF IInv
  <2> QED
    BY <2>1 DEF StreamRecord
<1>3. /\ balance \in [Tokens -> [Parties -> Nat]] /\ balance[token] \in [Parties -> Nat]
      /\ caller \in Parties /\ Escrow \in Parties
  BY <1>2 DEF IInv, LedgerOK, Parties
<1> HIDE DEF token
<1> SUFFICES ASSUME NEW t \in Tokens, NEW a \in Accounts, balance'[t][a] > balance[t][a]
             PROVE  FALSE
  BY DEF Reaches
<1>4. a \in Parties /\ balance[t][a] \in Nat /\ a # Escrow
  BY <1>3, ContractAssumption DEF Parties
<1>5. Transfer(balance[token], caller, Escrow, amount)[a] <= balance[token][a]
  BY <1>3, <1>4, TransferGains
<1>6. Transfer(balance[token], caller, Escrow, amount)[a] \in Int
  BY <1>3, <1>4 DEF Transfer
<1> QED
  BY <1>1, <1>2, <1>3, <1>4, <1>5, <1>6

\* A creation, of one stream or of two, pays the fee recipient.
LEMMA CreateReaches ==
    ASSUME IInv, CreateStep
    PROVE  Reaches
<1>1. PICK e \in Accounts, p \in StreamParams :
          \/ \E c \in Cooldowns : create_stream(e, p, c)
          \/ \E q \in StreamParams : create_streams_batch(e, p, q)
  BY DEF CreateStep
<1>2. ConfigOK /\ balance \in [Tokens -> [Parties -> Nat]]
  BY DEF IInv, LedgerOK
<1> DEFINE d == Deposited(balance, e, p)
<1>3. CanDeposit(balance, e, p)
  BY <1>1 DEF create_stream, create_streams_batch
<1>4. d \in [Tokens -> [Parties -> Nat]]
  BY <1>2, <1>3, DepositFacts
<1> SUFFICES ASSUME NEW t \in Tokens, NEW a \in Accounts, a # FeeReceiver
             PROVE  ~(balance'[t][a] > balance[t][a])
  BY DEF Reaches
<1>5. a \in Parties /\ balance[t][a] \in Nat /\ d[t][a] \in Nat
  BY <1>2, <1>4 DEF Parties
<1>6. d[t][a] <= balance[t][a]
  BY <1>2, <1>3, DepositGains
<1>7. ASSUME NEW c \in Cooldowns, create_stream(e, p, c) PROVE ~(balance'[t][a] > balance[t][a])
  <2>1. balance' = d
    BY <1>7 DEF create_stream
  <2> HIDE DEF d
  <2> QED
    BY <1>5, <1>6, <2>1
<1>8. ASSUME NEW q \in StreamParams, create_streams_batch(e, p, q) PROVE ~(balance'[t][a] > balance[t][a])
  <2>1. balance' = Deposited(d, e, q) /\ CanDeposit(d, e, q)
    BY <1>8 DEF create_streams_batch
  <2> HIDE DEF d
  <2>2. Deposited(d, e, q)[t][a] <= d[t][a] /\ Deposited(d, e, q) \in [Tokens -> [Parties -> Nat]]
    BY <1>2, <1>4, <2>1, DepositGains, DepositFacts
  <2>3. Deposited(d, e, q)[t][a] \in Nat
    BY <1>5, <2>2
  <2> QED
    BY <1>5, <1>6, <2>1, <2>2, <2>3
<1> QED
  BY <1>1, <1>7, <1>8

\* Whoever holds a role when a payment is made is paid: an account gains tokens
\* only as a party of a stream that pays out in this step, or as the receiver of
\* protocol fees, after any chain of hand-overs (withdraw, cancel_stream,
\* reclaim_expired, withdraw_protocol_fees, transfer_stream, set_delegate).
THEOREM PaymentsReachTheirParties == Spec => PaymentsReachParties
<1>1. ASSUME IInv, [Next]_vars PROVE Reaches
  <2>1. ASSUME balance' = balance PROVE Reaches
    <3> SUFFICES ASSUME NEW t \in Tokens, NEW a \in Accounts PROVE ~(balance'[t][a] > balance[t][a])
      BY DEF Reaches
    <3>1. balance[t][a] \in Nat
      BY <1>1 DEF IInv, LedgerOK, Parties
    <3> QED
      BY <2>1, <3>1
  <2>2. CASE CreateStep
    BY <1>1, <2>2, CreateReaches
  <2>3. CASE PaymentStep
    <3>1. fee_balance \in [Tokens -> Nat]
      BY <1>1 DEF IInv, LedgerOK
    <3>2. PICK a \in Accounts : \/ \E id \in Ids : withdraw(a, id)
                                \/ \E t \in Tokens : \E amount \in 1..fee_balance[t] :
                                       withdraw_protocol_fees(a, t, amount)
      BY <2>3 DEF PaymentStep
    <3>3. ASSUME NEW t \in Tokens, NEW amount \in 1..fee_balance[t], withdraw_protocol_fees(a, t, amount)
          PROVE  Reaches
      BY <1>1, <3>1, <3>3, DrawReaches
    <3> QED
      BY <1>1, <3>2, <3>3, WithdrawReaches
  <2>4. CASE ManageStep
    <3>1. PICK a \in Accounts, id \in Ids :
              \/ \E amount \in TopUps : top_up(a, id, amount)
              \/ pause_stream(a, id) \/ resume_stream(a, id)
              \/ cancel_stream(a, id) \/ reclaim_expired(a, id)
      BY <2>4 DEF ManageStep
    <3>2. ASSUME NEW amount \in TopUps, top_up(a, id, amount) PROVE Reaches
      BY <1>1, <3>2, TopUpReaches, ContractAssumption
    <3>3. CASE pause_stream(a, id) \/ resume_stream(a, id)
      BY <2>1, <3>3 DEF pause_stream, resume_stream
    <3>4. CASE cancel_stream(a, id) \/ reclaim_expired(a, id)
      BY <1>1, <3>4, SettleReaches DEF cancel_stream, reclaim_expired
    <3> QED
      BY <3>1, <3>2, <3>3, <3>4
  <2>5. CASE RateStep \/ QueryStep \/ RoleStep
    BY <2>1, <2>5 DEF RateStep, QueryStep, RoleStep, update_rate, get_stream, transfer_stream,
                      set_delegate, propose_employer_transfer, accept_employer_transfer
  <2>6. CASE Tick \/ ConfigStep \/ UNCHANGED vars
    BY <2>1, <2>6 DEF Tick, ConfigStep, vars
  <2> QED
    BY <1>1, <2>2, <2>3, <2>4, <2>5, <2>6 DEF Next, StreamStep
<1>2. ASSUME IInv, [Next]_vars
      PROVE  [\A t \in Tokens, a \in Accounts :
                 balance'[t][a] > balance[t][a] =>
                     \/ \E id \in StreamsOf(t) :
                            /\ paid'[id] # paid[id]
                            /\ a \in {streams[id].employee, streams[id].employer}
                     \/ a = (IF fee_recipient = None THEN admin ELSE fee_recipient)]_vars
  BY <1>1, <1>2 DEF Reaches, FeeReceiver
<1> QED
  BY <1>2, Invariance, PTL DEF Spec, PaymentsReachParties
=============================================================================
