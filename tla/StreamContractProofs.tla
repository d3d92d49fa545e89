------------------------ MODULE StreamContractProofs ------------------------
(***************************************************************************)
(* Proofs about StreamContract, for every set of accounts, tokens,         *)
(* arguments and configurations.  The inductive invariant IInv puts the    *)
(* contract's types together with SoundStream, which says of one stream    *)
(* and the record of its payouts what the safety properties say of all.    *)
(***************************************************************************)
EXTENDS StreamContract, TLAPS

\* One stream s with its payouts p at time t.
SoundStream(s, p, t) ==
    /\ p.employee + p.fee + p.withheld = s.withdrawn
    /\ s.withdrawn + p.refund <= s.deposit
    /\ p.refund > 0 => is_terminal(s.status)
    /\ s.status = "Cancelled" => s.withdrawn + p.refund = s.deposit
    /\ s.start_time <= s.last_withdraw_time
    /\ s.last_withdraw_time <= t
    /\ s.status = "Paused" => s.last_withdraw_time <= s.paused_at /\ s.paused_at <= t

StreamsOK ==
    /\ now \in Nat
    /\ stream_count \in Nat
    /\ streams \in [Ids -> StreamRecord]
    /\ paid \in [Ids -> Payouts]
    /\ \A id \in Ids : SoundStream(streams[id], paid[id], now)

LedgerOK ==
    /\ fee_balance \in [Tokens -> Nat]
    /\ balance \in [Tokens -> [Parties -> Nat]]
    /\ fees_drawn \in [Tokens -> Nat]

RolesOK ==
    /\ pending_employer \in [Ids -> Accounts \cup {None}]
    /\ pause_history \in [Ids -> Seq(PauseEvent)]
    /\ employer_streams \in [Accounts -> Seq(Nat)]
    /\ employee_streams \in [Accounts -> Seq(Nat)]

ConfigOK ==
    /\ cfg \in Config
    /\ fee_recipient \in Accounts \cup {None}
    /\ admin \in Accounts
    /\ allowed_tokens \in SUBSET Tokens

IInv == StreamsOK /\ LedgerOK /\ RolesOK /\ ConfigOK

-----------------------------------------------------------------------------
(* Arithmetic.                                                             *)

\* Products of naturals are naturals (the checked products of the contract).
LEMMA ProductNat ==
    ASSUME NEW a \in Nat, NEW b \in Nat
    PROVE  a * b \in Nat
    OBVIOUS

\* What can be claimed is a natural and never more than what remains.
LEMMA ClaimableBounded ==
    ASSUME NEW s \in StreamRecord, NEW t \in Nat
    PROVE  /\ claimable_amount(s, t) \in Nat
           /\ s.withdrawn <= s.deposit => s.withdrawn + claimable_amount(s, t) <= s.deposit
<1>1. /\ s.withdrawn \in Nat /\ s.deposit \in Nat /\ s.rate_per_second \in Nat
      /\ s.stop_time \in Nat /\ s.last_withdraw_time \in Nat
  BY DEF StreamRecord
<1>2. Elapsed(s, t) \in Nat
  BY <1>1 DEF Elapsed, Monus, EffectiveEnd
<1>3. Elapsed(s, t) * s.rate_per_second \in Nat
  BY <1>1, <1>2, ProductNat
<1>4. /\ Remaining(s) \in Nat
      /\ s.withdrawn <= s.deposit => s.withdrawn + Remaining(s) = s.deposit
  BY <1>1 DEF Remaining, Monus
<1>5. claimable_amount(s, t) \in Nat /\ claimable_amount(s, t) <= Remaining(s)
  <2> DEFINE x == Elapsed(s, t) * s.rate_per_second
  <2>1. x \in Nat
    BY <1>3
  <2>2. Least(x, Remaining(s)) \in Nat /\ Least(x, Remaining(s)) <= Remaining(s)
    BY <2>1, <1>4 DEF Least
  <2> QED
    BY <2>2, <1>4 DEF claimable_amount
<1> QED
  BY <1>1, <1>4, <1>5

\* A fee is a natural.
LEMMA FeeNat ==
    ASSUME NEW amount \in Nat, NEW bps \in Nat
    PROVE  FeeOn(amount, bps) \in Nat
<1>1. amount * bps \in Nat
  BY ProductNat
<1>2. ASSUME NEW x \in Nat PROVE x \div BPS_DENOMINATOR \in Nat
  BY AccrualAssumption
<1> QED
  BY <1>1, <1>2 DEF FeeOn

\* A transfer that the token contract accepts leaves natural balances.
LEMMA TransferNat ==
    ASSUME NEW b \in [Parties -> Nat], NEW from \in Parties, NEW to \in Parties,
           NEW amount \in Int, CanTransfer(b, from, amount)
    PROVE  Transfer(b, from, to, amount) \in [Parties -> Nat]
<1> DEFINE b1 == [b EXCEPT ![from] = @ - amount]
<1>1. b1 \in [Parties -> Nat]
  BY DEF CanTransfer
<1>2. amount \in Nat
  BY DEF CanTransfer
<1>3. [b1 EXCEPT ![to] = @ + amount] \in [Parties -> Nat]
  BY <1>1, <1>2
<1> QED
  BY <1>3 DEF Transfer

\* The same of a transfer that is only made for a positive amount.
LEMMA PayNat ==
    ASSUME NEW b \in [Parties -> Nat], NEW from \in Parties, NEW to,
           NEW amount \in Nat, CanPay(b, from, amount), amount > 0 => to \in Parties
    PROVE  Pay(b, from, to, amount) \in [Parties -> Nat]
BY TransferNat DEF Pay, CanPay

-----------------------------------------------------------------------------
(* Frames: how the parts of IInv survive the few shapes of writes.         *)

\* A stream that was sound stays sound as time goes by.
LEMMA SoundLater ==
    ASSUME NEW s \in StreamRecord, NEW p, NEW t \in Nat, NEW u \in Nat,
           t <= u, SoundStream(s, p, t)
    PROVE  SoundStream(s, p, u)
BY DEF SoundStream, StreamRecord

\* Replacing one stream and its payouts by a sound pair.
LEMMA UpdateOne ==
    ASSUME StreamsOK, NEW id \in Ids, NEW s \in StreamRecord, NEW p \in Payouts,
           SoundStream(s, p, now),
           streams' = [streams EXCEPT ![id] = s], paid' = [paid EXCEPT ![id] = p],
           stream_count' = stream_count, now' = now
    PROVE  StreamsOK'
<1>1. Ids' = Ids
  BY DEF Ids
<1>2. streams' \in [Ids -> StreamRecord] /\ paid' \in [Ids -> Payouts]
  BY DEF StreamsOK
<1>3. ASSUME NEW i \in Ids PROVE SoundStream(streams'[i], paid'[i], now)
  <2>1. CASE i = id
    BY <2>1 DEF StreamsOK
  <2>2. CASE i # id
    BY <2>2 DEF StreamsOK
  <2> QED
    BY <2>1, <2>2
<1> QED
  BY <1>1, <1>2, <1>3 DEF StreamsOK

\* The same when the payouts stay as they are.
LEMMA UpdateStream ==
    ASSUME StreamsOK, NEW id \in Ids, NEW s \in StreamRecord,
           SoundStream(s, paid[id], now),
           streams' = [streams EXCEPT ![id] = s], paid' = paid,
           stream_count' = stream_count, now' = now
    PROVE  StreamsOK'
<1>1. paid[id] \in Payouts /\ paid' = [paid EXCEPT ![id] = paid[id]]
  BY DEF StreamsOK
<1> QED
  BY <1>1, UpdateOne

\* What is known of one stream of a sound contract.
LEMMA StreamFacts ==
    ASSUME StreamsOK, NEW id \in Ids
    PROVE  /\ streams[id] \in StreamRecord
           /\ paid[id] \in Payouts
           /\ SoundStream(streams[id], paid[id], now)
           /\ claimable_amount(streams[id], now) \in Nat
           /\ streams[id].withdrawn + claimable_amount(streams[id], now)
                 <= streams[id].deposit
<1>1. /\ streams[id] \in StreamRecord
      /\ paid[id] \in Payouts
      /\ SoundStream(streams[id], paid[id], now)
      /\ now \in Nat
  BY DEF StreamsOK
<1>2. streams[id].withdrawn <= streams[id].deposit
  BY <1>1 DEF SoundStream, StreamRecord, Payouts
<1> QED
  BY <1>1, <1>2, ClaimableBounded

\* Adding n sound streams.
LEMMA ExtendStreams ==
    ASSUME StreamsOK, NEW n \in Nat, NEW new,
           \A i \in 1..n : new[i] \in StreamRecord /\ SoundStream(new[i], NoPayouts, now),
           stream_count' = stream_count + n, now' = now,
           streams' = [i \in 1..(stream_count + n) |->
                          IF i <= stream_count THEN streams[i] ELSE new[i - stream_count]],
           paid' = [i \in 1..(stream_count + n) |->
                       IF i <= stream_count THEN paid[i] ELSE NoPayouts]
    PROVE  StreamsOK'
<1>1. Ids' = 1..(stream_count + n) /\ stream_count \in Nat /\ now \in Nat
  BY DEF Ids, StreamsOK
<1>2. NoPayouts \in Payouts
  BY DEF NoPayouts, Payouts
<1>3. ASSUME NEW i \in 1..(stream_count + n)
      PROVE  /\ streams'[i] \in StreamRecord
             /\ paid'[i] \in Payouts
             /\ SoundStream(streams'[i], paid'[i], now)
  <2>1. CASE i <= stream_count
    <3>1. i \in Ids
      BY <1>1, <2>1 DEF Ids
    <3>2. streams'[i] = streams[i] /\ paid'[i] = paid[i]
      BY <2>1
    <3> QED
      BY <3>1, <3>2 DEF StreamsOK
  <2>2. CASE ~(i <= stream_count)
    <3>1. i - stream_count \in 1..n
      BY <1>1, <2>2
    <3>2. streams'[i] = new[i - stream_count] /\ paid'[i] = NoPayouts
      BY <2>2
    <3> QED
      BY <3>1, <3>2, <1>2
  <2> QED
    BY <2>1, <2>2
<1>4. streams' \in [1..(stream_count + n) -> StreamRecord]
      /\ paid' \in [1..(stream_count + n) -> Payouts]
  BY <1>3
<1> QED
  BY <1>1, <1>3, <1>4 DEF StreamsOK

-----------------------------------------------------------------------------
(* One lemma per entry point: it preserves IInv.                           *)

\* Entering new ids keeps an index typed.
LEMMA IndexTyped ==
    ASSUME NEW index \in [Accounts -> Seq(Nat)], NEW a \in Accounts, NEW ids \in Seq(Nat)
    PROVE  Indexed(index, a, ids) \in [Accounts -> Seq(Nat)]
BY DEF Indexed

\* What an allowed deposit leaves behind: natural balances and a positive net.
LEMMA DepositFacts ==
    ASSUME ConfigOK, NEW b \in [Tokens -> [Parties -> Nat]], NEW employer \in Accounts,
           NEW p \in StreamParams, CanDeposit(b, employer, p)
    PROVE  /\ Deposited(b, employer, p) \in [Tokens -> [Parties -> Nat]]
           /\ p.deposit - DepositFee(p) \in Nat
<1> DEFINE net == p.deposit - DepositFee(p)
           b1  == Transfer(b[p.token], employer, Escrow, net)
<1>1. p.deposit \in Nat /\ p.token \in Tokens
  BY ContractAssumption DEF StreamParams
<1>2. DepositFee(p) \in Nat
  BY <1>1, FeeNat DEF DepositFee, ConfigOK, Config
<1>3. net \in Int
  BY <1>1, <1>2
<1>4. CanTransfer(b[p.token], employer, net)
  BY DEF CanDeposit
<1>5. employer \in Parties /\ Escrow \in Parties /\ b[p.token] \in [Parties -> Nat]
  BY <1>1 DEF Parties
<1>6. b1 \in [Parties -> Nat]
  BY <1>3, <1>4, <1>5, TransferNat
<1>7. ChargesDepositFee => Transfer(b1, employer, fee_recipient, DepositFee(p)) \in [Parties -> Nat]
  <2>1. ASSUME ChargesDepositFee
        PROVE  CanTransfer(b1, employer, DepositFee(p)) /\ fee_recipient \in Parties
    BY <2>1 DEF CanDeposit, ChargesDepositFee, ConfigOK, Parties
  <2> QED
    BY <2>1, <1>2, <1>5, <1>6, TransferNat
<1>8. Deposited(b, employer, p) \in [Tokens -> [Parties -> Nat]]
  BY <1>6, <1>7 DEF Deposited
<1>9. net \in Nat
  BY <1>3, <1>4 DEF CanTransfer
<1> QED
  BY <1>8, <1>9

\* A new stream is sound.
LEMMA NewStreamSound ==
    ASSUME now \in Nat, NEW employer \in Accounts, NEW p \in StreamParams, NEW c \in Nat,
           p.deposit - DepositFee(p) \in Nat
    PROVE  /\ NewStream(employer, p, c) \in StreamRecord
           /\ SoundStream(NewStream(employer, p, c), NoPayouts, now)
<1>1. /\ p.employee \in Accounts /\ p.token \in Tokens /\ p.rate_per_second \in Nat
      /\ p.stop_time \in Nat /\ p.cliff_time \in Nat
  BY ContractAssumption DEF StreamParams
<1>2. NewStream(employer, p, c) \in StreamRecord
  BY <1>1 DEF NewStream, StreamRecord, StreamStatus
<1>3. SoundStream(NewStream(employer, p, c), NoPayouts, now)
  BY DEF NewStream, SoundStream, NoPayouts
<1> QED
  BY <1>2, <1>3

LEMMA CreateStreamInv ==
    ASSUME IInv, NEW employer \in Accounts, NEW p \in StreamParams, NEW c \in Cooldowns,
           create_stream(employer, p, c)
    PROVE  IInv'
<1> USE DEF IInv
<1>1. c \in Nat /\ now \in Nat /\ stream_count \in Nat
  BY ContractAssumption DEF StreamsOK
<1>2. /\ Deposited(balance, employer, p) \in [Tokens -> [Parties -> Nat]]
      /\ p.deposit - DepositFee(p) \in Nat
  BY DepositFacts DEF create_stream, LedgerOK
<1> DEFINE new == [i \in 1..1 |-> NewStream(employer, p, c)]
<1>3. StreamsOK'
  <2>1. \A i \in 1..1 : new[i] \in StreamRecord /\ SoundStream(new[i], NoPayouts, now)
    BY <1>1, <1>2, NewStreamSound
  <2>2. /\ stream_count' = stream_count + 1 /\ now' = now
        /\ streams' = [i \in 1..(stream_count + 1) |->
              IF i <= stream_count THEN streams[i] ELSE new[i - stream_count]]
        /\ paid' = [i \in 1..(stream_count + 1) |->
              IF i <= stream_count THEN paid[i] ELSE NoPayouts]
    BY <1>1 DEF create_stream, AddStreams, Extended
  <2> QED
    BY <2>1, <2>2, ExtendStreams
<1>4. LedgerOK'
  BY <1>2 DEF create_stream, LedgerOK
<1>5. RolesOK'
  <2>1. Ids' = 1..(stream_count + 1)
    BY DEF create_stream, AddStreams, Ids
  <2>2. /\ pending_employer' \in [1..(stream_count + 1) -> Accounts \cup {None}]
        /\ pause_history' \in [1..(stream_count + 1) -> Seq(PauseEvent)]
    BY <1>1 DEF create_stream, AddStreams, Extended, RolesOK, Ids
  <2>3. p.employee \in Accounts
    BY DEF StreamParams
  <2>4. /\ employer_streams' \in [Accounts -> Seq(Nat)]
        /\ employee_streams' \in [Accounts -> Seq(Nat)]
    <3>1. <<stream_count + 1>> \in Seq(Nat)
      BY <1>1
    <3> QED
      BY <3>1, <2>3, IndexTyped DEF create_stream, RolesOK
  <2> QED
    BY <2>1, <2>2, <2>4 DEF RolesOK
<1>6. ConfigOK'
  BY DEF create_stream, config_vars, ConfigOK
<1> QED
  BY <1>3, <1>4, <1>5, <1>6

LEMMA CreateBatchInv ==
    ASSUME IInv, NEW employer \in Accounts, NEW p \in StreamParams, NEW q \in StreamParams,
           create_streams_batch(employer, p, q)
    PROVE  IInv'
<1> USE DEF IInv
<1>1. now \in Nat /\ stream_count \in Nat
  BY DEF StreamsOK
<1> DEFINE b1 == Deposited(balance, employer, p)
<1>2. b1 \in [Tokens -> [Parties -> Nat]] /\ p.deposit - DepositFee(p) \in Nat
  BY DepositFacts DEF create_streams_batch, LedgerOK
<1>3. /\ Deposited(b1, employer, q) \in [Tokens -> [Parties -> Nat]]
      /\ q.deposit - DepositFee(q) \in Nat
  <2>1. CanDeposit(b1, employer, q)
    BY DEF create_streams_batch
  <2> HIDE DEF b1
  <2> QED
    BY <2>1, <1>2, DepositFacts
<1> DEFINE new == [i \in 1..2 |-> NewStream(employer, IF i = 1 THEN p ELSE q, 0)]
<1>4. StreamsOK'
  <2>1. ASSUME NEW i \in 1..2
        PROVE  new[i] \in StreamRecord /\ SoundStream(new[i], NoPayouts, now)
    <3>1. CASE i = 1
      BY <3>1, <1>1, <1>2, NewStreamSound
    <3>2. CASE i # 1
      BY <3>2, <1>1, <1>3, NewStreamSound
    <3> QED
      BY <3>1, <3>2
  <2>2. /\ stream_count' = stream_count + 2 /\ now' = now
        /\ streams' = [i \in 1..(stream_count + 2) |->
              IF i <= stream_count THEN streams[i] ELSE new[i - stream_count]]
        /\ paid' = [i \in 1..(stream_count + 2) |->
              IF i <= stream_count THEN paid[i] ELSE NoPayouts]
    <3>1. ASSUME NEW i \in 1..(stream_count + 2), ~(i <= stream_count)
          PROVE  new[i - stream_count]
                    = NewStream(employer, IF i - stream_count = 1 THEN p ELSE q, 0)
      BY <1>1, <3>1
    <3> QED
      BY <1>1, <3>1 DEF create_streams_batch, AddStreams, Extended
  <2> QED
    BY <2>1, <2>2, ExtendStreams
<1>5. LedgerOK'
  BY <1>3 DEF create_streams_batch, LedgerOK
<1>6. RolesOK'
  <2>1. Ids' = 1..(stream_count + 2)
    BY DEF create_streams_batch, AddStreams, Ids
  <2>2. /\ pending_employer' \in [1..(stream_count + 2) -> Accounts \cup {None}]
        /\ pause_history' \in [1..(stream_count + 2) -> Seq(PauseEvent)]
    BY <1>1 DEF create_streams_batch, AddStreams, Extended, RolesOK, Ids
  <2>3. p.employee \in Accounts /\ q.employee \in Accounts
    BY DEF StreamParams
  <2>4. /\ <<stream_count + 1>> \in Seq(Nat) /\ <<stream_count + 2>> \in Seq(Nat)
        /\ <<stream_count + 1, stream_count + 2>> \in Seq(Nat)
    BY <1>1
  <2>5. employer_streams' \in [Accounts -> Seq(Nat)]
    BY <2>4, IndexTyped DEF create_streams_batch, RolesOK
  <2>6. employee_streams' \in [Accounts -> Seq(Nat)]
    BY <2>3, <2>4, IndexTyped DEF create_streams_batch, RolesOK
  <2> QED
    BY <2>1, <2>2, <2>5, <2>6 DEF RolesOK
<1>7. ConfigOK'
  BY DEF create_streams_batch, config_vars, ConfigOK
<1> QED
  BY <1>4, <1>5, <1>6, <1>7

LEMMA WithdrawInv ==
    ASSUME IInv, NEW employee \in Accounts, NEW id \in Ids, withdraw(employee, id)
    PROVE  IInv'
<1> USE DEF IInv
<1> DEFINE s     == streams[id]
           q     == paid[id]
           gross == claimable_amount(s, now)
           fee   == FeeOn(gross, cfg.fee_bps)
           net   == Monus(gross, fee)
           sent  == IF fee_recipient # None THEN fee ELSE 0
           b1    == Pay(balance[s.token], Escrow, fee_recipient, sent)
           w     == s.withdrawn + gross
           s2    == [s EXCEPT !.withdrawn = w, !.last_withdraw_time = now,
                              !.status = IF w >= s.deposit THEN "Exhausted" ELSE @]
           p2    == [q EXCEPT !.employee = @ + net, !.fee = @ + sent,
                              !.withheld = @ + (fee - sent)]
<1>1. /\ s \in StreamRecord /\ q \in Payouts /\ SoundStream(s, q, now)
      /\ gross \in Nat /\ s.withdrawn + gross <= s.deposit
      /\ s.status \in {"Active", "Exhausted"} /\ gross > 0
  BY StreamFacts DEF withdraw
<1>2. cfg.fee_bps \in Nat /\ now \in Nat
  BY DEF ConfigOK, Config, StreamsOK
<1>3. fee \in Nat
  BY <1>1, <1>2, FeeNat
<1>4. net > 0
  BY DEF withdraw, CanTransfer
<1>5. net \in Nat /\ sent \in Nat /\ fee - sent \in Nat /\ net + fee = gross
  <2> HIDE DEF gross, fee
  <2> QED
    BY <1>1, <1>3, <1>4 DEF Monus
<1>6. s.status = "Active"
  BY <1>1 DEF claimable_amount, is_terminal
<1>7. StreamsOK'
  <2>1. /\ streams' = [streams EXCEPT ![id] = s2] /\ paid' = [paid EXCEPT ![id] = p2]
        /\ stream_count' = stream_count /\ now' = now
    BY DEF withdraw
  <2> HIDE DEF gross, fee, net, sent, s, q
  <2>2. s2 \in StreamRecord
    <3>1. w \in Nat
      BY <1>1 DEF StreamRecord
    <3> HIDE DEF w
    <3> QED
      BY <1>1, <1>2, <3>1 DEF StreamRecord, StreamStatus
  <2>3. p2 \in Payouts
    <3>1. q.employee + net \in Nat /\ q.fee + sent \in Nat /\ q.withheld + (fee - sent) \in Nat
      BY <1>1, <1>3, <1>5 DEF Payouts
    <3> QED
      BY <1>1, <3>1 DEF Payouts
  <2>4. SoundStream(s2, p2, now)
    <3>1. q.refund = 0
      BY <1>1, <1>6 DEF SoundStream, is_terminal, Payouts
    <3> QED
      BY <1>1, <1>2, <1>3, <1>5, <1>6, <3>1
      DEF SoundStream, is_terminal, Payouts, StreamRecord
  <2> HIDE DEF s2, p2
  <2> QED
    BY <2>1, <2>2, <2>3, <2>4, UpdateOne
<1>8. LedgerOK'
  <2>1. s.token \in Tokens /\ balance[s.token] \in [Parties -> Nat]
    BY <1>1 DEF StreamRecord, LedgerOK
  <2>2. Escrow \in Parties /\ employee \in Parties /\ (sent > 0 => fee_recipient \in Parties)
    BY <1>5 DEF Parties, ConfigOK
  <2>3. b1 \in [Parties -> Nat]
    <3>1. CanPay(balance[s.token], Escrow, sent)
      BY DEF withdraw
    <3> HIDE DEF sent
    <3> QED
      BY <3>1, <2>1, <2>2, <1>5, PayNat
  <2>4. Transfer(b1, Escrow, employee, net) \in [Parties -> Nat]
    <3>1. CanTransfer(b1, Escrow, net)
      BY DEF withdraw
    <3> HIDE DEF b1, net
    <3> QED
      BY <3>1, <2>2, <2>3, <1>5, TransferNat
  <2>5. /\ balance' = [balance EXCEPT ![s.token] = Transfer(b1, Escrow, employee, net)]
        /\ fee_balance' = [fee_balance EXCEPT ![s.token] = @ + sent]
        /\ fees_drawn' = fees_drawn
    BY DEF withdraw, add_fee_balance
  <2> HIDE DEF b1, net, sent, s
  <2> QED
    BY <2>1, <2>4, <2>5, <1>5 DEF LedgerOK
<1>9. RolesOK' /\ ConfigOK'
  BY DEF withdraw, config_vars, index_vars, RolesOK, ConfigOK, Ids
<1> QED
  BY <1>7, <1>8, <1>9

LEMMA WithdrawFeesInv ==
    ASSUME IInv, NEW caller \in Accounts, NEW token \in Tokens, NEW amount \in Nat,
           withdraw_protocol_fees(caller, token, amount)
    PROVE  IInv'
<1> USE DEF IInv
<1> DEFINE recipient == IF fee_recipient # None THEN fee_recipient ELSE caller
<1>1. Escrow \in Parties /\ recipient \in Parties /\ balance[token] \in [Parties -> Nat]
  BY DEF Parties, ConfigOK, LedgerOK
<1>2. Transfer(balance[token], Escrow, recipient, amount) \in [Parties -> Nat]
  BY <1>1, TransferNat DEF withdraw_protocol_fees
<1>3. LedgerOK'
  BY <1>2 DEF withdraw_protocol_fees, LedgerOK
<1>4. StreamsOK' /\ RolesOK' /\ ConfigOK'
  BY DEF withdraw_protocol_fees, config_vars, index_vars, StreamsOK, RolesOK, ConfigOK, Ids
<1> QED
  BY <1>3, <1>4

LEMMA TopUpInv ==
    ASSUME IInv, NEW caller \in Accounts, NEW id \in Ids, NEW amount \in TopUps,
           top_up(caller, id, amount)
    PROVE  IInv'
<1> USE DEF IInv
<1> DEFINE s  == streams[id]
           s2 == [s EXCEPT !.deposit = @ + amount]
<1>1. amount \in Nat /\ ~is_terminal(s.status)
  BY ContractAssumption DEF top_up
<1>2. s \in StreamRecord /\ paid[id] \in Payouts /\ SoundStream(s, paid[id], now)
  BY StreamFacts
<1>3. StreamsOK'
  <2>1. s2 \in StreamRecord
    BY <1>1, <1>2 DEF StreamRecord
  <2>2. SoundStream(s2, paid[id], now)
    BY <1>1, <1>2 DEF SoundStream, StreamRecord, Payouts, is_terminal
  <2>3. /\ streams' = [streams EXCEPT ![id] = s2] /\ paid' = paid
        /\ stream_count' = stream_count /\ now' = now
    BY DEF top_up, SetStream
  <2> HIDE DEF s2
  <2> QED
    BY <2>1, <2>2, <2>3, UpdateStream
<1>4. LedgerOK'
  <2>1. s.token \in Tokens /\ balance[s.token] \in [Parties -> Nat]
    BY <1>2 DEF StreamRecord, LedgerOK
  <2>2. CanTransfer(balance[s.token], caller, amount) /\ caller \in Parties /\ Escrow \in Parties
    BY DEF top_up, Parties
  <2>3. Transfer(balance[s.token], caller, Escrow, amount) \in [Parties -> Nat]
    <3> HIDE DEF s
    <3> QED
      BY <1>1, <2>1, <2>2, TransferNat
  <2> QED
    BY <2>1, <2>3 DEF top_up, SetStream, LedgerOK
<1>5. RolesOK' /\ ConfigOK'
  BY DEF top_up, SetStream, config_vars, index_vars, RolesOK, ConfigOK, Ids
<1> QED
  BY <1>3, <1>4, <1>5

\* A new pause event keeps the histories typed.
LEMMA PauseEventTyped ==
    ASSUME StreamsOK, RolesOK, NEW id \in Ids, NEW is_pause \in BOOLEAN,
           add_pause_event(id, is_pause)
    PROVE  pause_history' \in [Ids -> Seq(PauseEvent)]
<1>1. [timestamp |-> now, is_pause |-> is_pause] \in PauseEvent
  BY DEF PauseEvent, StreamsOK
<1> QED
  BY <1>1 DEF add_pause_event, RolesOK

LEMMA PauseInv ==
    ASSUME IInv, NEW caller \in Accounts, NEW id \in Ids, pause_stream(caller, id)
    PROVE  IInv'
<1> USE DEF IInv
<1> DEFINE s  == streams[id]
           s2 == [s EXCEPT !.paused_at = now, !.status = "Paused"]
<1>1. /\ s \in StreamRecord /\ paid[id] \in Payouts /\ SoundStream(s, paid[id], now)
      /\ now \in Nat /\ s.status = "Active"
  BY StreamFacts DEF StreamsOK, pause_stream
<1>2. StreamsOK'
  <2>1. s2 \in StreamRecord
    BY <1>1 DEF StreamRecord, StreamStatus
  <2>2. SoundStream(s2, paid[id], now)
    BY <1>1 DEF SoundStream, StreamRecord, Payouts, is_terminal
  <2>3. /\ streams' = [streams EXCEPT ![id] = s2] /\ paid' = paid
        /\ stream_count' = stream_count /\ now' = now
    BY DEF pause_stream, SetStream
  <2> HIDE DEF s2
  <2> QED
    BY <2>1, <2>2, <2>3, UpdateStream
<1>3. RolesOK'
  BY PauseEventTyped DEF pause_stream, SetStream, index_vars, RolesOK, Ids
<1>4. LedgerOK' /\ ConfigOK'
  BY DEF pause_stream, SetStream, config_vars, LedgerOK, ConfigOK
<1> QED
  BY <1>2, <1>3, <1>4

LEMMA ResumeInv ==
    ASSUME IInv, NEW caller \in Accounts, NEW id \in Ids, resume_stream(caller, id)
    PROVE  IInv'
<1> USE DEF IInv
<1> DEFINE s  == streams[id]
           t  == s.last_withdraw_time + Monus(now, s.paused_at)
           s2 == [s EXCEPT !.last_withdraw_time = t, !.paused_at = 0, !.status = "Active"]
<1>1. /\ s \in StreamRecord /\ paid[id] \in Payouts /\ SoundStream(s, paid[id], now)
      /\ now \in Nat /\ s.status = "Paused"
  BY StreamFacts DEF StreamsOK, resume_stream
<1>2. t \in Nat /\ s.last_withdraw_time <= t /\ t <= now
  BY <1>1 DEF SoundStream, StreamRecord, Monus
<1>3. StreamsOK'
  <2>1. /\ streams' = [streams EXCEPT ![id] = s2] /\ paid' = paid
        /\ stream_count' = stream_count /\ now' = now
    BY DEF resume_stream, SetStream, PausedFor
  <2> HIDE DEF t
  <2>2. s2 \in StreamRecord
    BY <1>1, <1>2 DEF StreamRecord, StreamStatus
  <2>3. SoundStream(s2, paid[id], now)
    BY <1>1, <1>2 DEF SoundStream, StreamRecord, Payouts, is_terminal
  <2> HIDE DEF s2
  <2> QED
    BY <2>1, <2>2, <2>3, UpdateStream
<1>4. RolesOK'
  BY PauseEventTyped DEF resume_stream, SetStream, index_vars, RolesOK, Ids
<1>5. LedgerOK' /\ ConfigOK'
  BY DEF resume_stream, SetStream, config_vars, LedgerOK, ConfigOK
<1> QED
  BY <1>3, <1>4, <1>5

LEMMA SettleInv ==
    ASSUME IInv, NEW employer \in Accounts, NEW id \in Ids,
           NEW final \in {"Cancelled", "Exhausted"}, Settle(employer, id, final)
    PROVE  IInv'
<1> USE DEF IInv
<1> DEFINE s      == streams[id]
           q      == paid[id]
           earned == claimable_amount(s, now)
           w      == s.withdrawn + earned
           refund == Unearned(s, earned)
           b1     == Pay(balance[s.token], Escrow, s.employee, earned)
           s2     == [s EXCEPT !.withdrawn = w, !.status = final]
           p2     == [q EXCEPT !.employee = @ + earned, !.refund = @ + refund]
<1>1. /\ s \in StreamRecord /\ q \in Payouts /\ SoundStream(s, q, now)
      /\ earned \in Nat /\ s.withdrawn + earned <= s.deposit
      /\ s.status \in {"Active", "Paused"}
  BY StreamFacts DEF Settle
<1>2. refund \in Nat /\ w \in Nat /\ w + refund = s.deposit
  <2> HIDE DEF earned
  <2> QED
    BY <1>1 DEF Unearned, Monus, StreamRecord
<1>3. StreamsOK'
  <2>1. /\ streams' = [streams EXCEPT ![id] = s2] /\ paid' = [paid EXCEPT ![id] = p2]
        /\ stream_count' = stream_count /\ now' = now
    BY DEF Settle, SetStream
  <2>2. w = s.withdrawn + earned
    OBVIOUS
  <2>3. q.refund = 0
    BY <1>1 DEF SoundStream, is_terminal, Payouts
  <2> HIDE DEF earned, refund, w, s, q
  <2>4. s2 \in StreamRecord
    BY <1>1, <1>2 DEF StreamRecord, StreamStatus
  <2>5. p2 \in Payouts
    <3>1. q.employee + earned \in Nat /\ q.refund + refund \in Nat
      BY <1>1, <1>2 DEF Payouts
    <3> QED
      BY <1>1, <3>1 DEF Payouts
  <2>6. SoundStream(s2, p2, now)
    BY <1>1, <1>2, <2>2, <2>3 DEF SoundStream, is_terminal, Payouts, StreamRecord
  <2> HIDE DEF s2, p2
  <2> QED
    BY <2>1, <2>4, <2>5, <2>6, UpdateOne
<1>4. LedgerOK'
  <2>1. /\ s.token \in Tokens /\ balance[s.token] \in [Parties -> Nat]
        /\ s.employee \in Parties /\ employer \in Parties /\ Escrow \in Parties
    BY <1>1 DEF StreamRecord, LedgerOK, Parties
  <2>2. b1 \in [Parties -> Nat]
    <3>1. CanPay(balance[s.token], Escrow, earned)
      BY DEF Settle
    <3> HIDE DEF earned, s
    <3> QED
      BY <3>1, <2>1, <1>1, PayNat
  <2>3. Pay(b1, Escrow, employer, refund) \in [Parties -> Nat]
    <3>1. CanPay(b1, Escrow, refund)
      BY DEF Settle
    <3> HIDE DEF b1, refund
    <3> QED
      BY <3>1, <2>1, <2>2, <1>2, PayNat
  <2>4. /\ balance' = [balance EXCEPT ![s.token] = Pay(b1, Escrow, employer, refund)]
        /\ fee_balance' = fee_balance /\ fees_drawn' = fees_drawn
    BY DEF Settle, SetStream
  <2> HIDE DEF b1, refund, s
  <2> QED
    BY <2>1, <2>3, <2>4 DEF LedgerOK
<1>5. RolesOK' /\ ConfigOK'
  BY DEF Settle, SetStream, config_vars, index_vars, RolesOK, ConfigOK, Ids
<1> QED
  BY <1>3, <1>4, <1>5

LEMMA UpdateRateInv ==
    ASSUME IInv, NEW employer \in Accounts, NEW id \in Ids, NEW new_rate \in Rates,
           update_rate(employer, id, new_rate)
    PROVE  IInv'
<1> USE DEF IInv
<1> DEFINE s       == streams[id]
           q       == paid[id]
           accrued == claimable_amount(s, now)
           w       == s.withdrawn + accrued
           s2      == [s EXCEPT !.withdrawn = w, !.last_withdraw_time = now,
                                !.rate_per_second = new_rate]
           p2      == [q EXCEPT !.withheld = @ + accrued]
<1>1. /\ s \in StreamRecord /\ q \in Payouts /\ SoundStream(s, q, now)
      /\ accrued \in Nat /\ s.withdrawn + accrued <= s.deposit
      /\ s.status = "Active" /\ new_rate \in Nat /\ now \in Nat
  BY StreamFacts, ContractAssumption DEF update_rate, StreamsOK
<1>2. StreamsOK'
  <2>1. /\ streams' = [streams EXCEPT ![id] = s2] /\ paid' = [paid EXCEPT ![id] = p2]
        /\ stream_count' = stream_count /\ now' = now
    BY DEF update_rate, SetStream
  <2>2. w = s.withdrawn + accrued
    OBVIOUS
  <2>3. q.refund = 0
    BY <1>1 DEF SoundStream, is_terminal, Payouts
  <2> HIDE DEF accrued, s, q
  <2>4. w \in Nat
    BY <1>1 DEF StreamRecord
  <2> HIDE DEF w
  <2>5. s2 \in StreamRecord
    BY <1>1, <2>4 DEF StreamRecord
  <2>6. p2 \in Payouts
    BY <1>1 DEF Payouts
  <2>7. SoundStream(s2, p2, now)
    BY <1>1, <2>2, <2>3 DEF SoundStream, is_terminal, Payouts, StreamRecord
  <2> HIDE DEF s2, p2
  <2> QED
    BY <2>1, <2>5, <2>6, <2>7, UpdateOne
<1>3. LedgerOK' /\ RolesOK' /\ ConfigOK'
  BY DEF update_rate, SetStream, config_vars, index_vars, LedgerOK, RolesOK, ConfigOK, Ids
<1> QED
  BY <1>2, <1>3

LEMMA GetStreamInv ==
    ASSUME IInv, NEW id \in Ids, get_stream(id)
    PROVE  IInv'
<1> USE DEF IInv
<1> DEFINE s  == streams[id]
           s2 == [s EXCEPT !.status = "Exhausted"]
<1>1. /\ s \in StreamRecord /\ SoundStream(s, paid[id], now) /\ s.status = "Active"
  BY StreamFacts DEF get_stream
<1>2. StreamsOK'
  <2>1. s2 \in StreamRecord
    BY <1>1 DEF StreamRecord, StreamStatus
  <2>2. SoundStream(s2, paid[id], now)
    BY <1>1 DEF SoundStream, StreamRecord, is_terminal
  <2>3. /\ streams' = [streams EXCEPT ![id] = s2] /\ paid' = paid
        /\ stream_count' = stream_count /\ now' = now
    BY DEF get_stream, SetStream
  <2> HIDE DEF s2
  <2> QED
    BY <2>1, <2>2, <2>3, UpdateStream
<1>3. LedgerOK' /\ RolesOK' /\ ConfigOK'
  BY DEF get_stream, SetStream, config_vars, index_vars, LedgerOK, RolesOK, ConfigOK, Ids
<1> QED
  BY <1>2, <1>3

\* Handing over a role changes no amount and no clock.
LEMMA RoleChangeSound ==
    ASSUME StreamsOK, NEW id \in Ids, NEW a \in Accounts, NEW d \in Accounts \cup {None},
           NEW s \in { [streams[id] EXCEPT !.employee = a],
                       [streams[id] EXCEPT !.employer = a],
                       [streams[id] EXCEPT !.delegate = d] },
           streams' = [streams EXCEPT ![id] = s], paid' = paid,
           stream_count' = stream_count, now' = now
    PROVE  StreamsOK'
<1>1. streams[id] \in StreamRecord /\ SoundStream(streams[id], paid[id], now)
  BY StreamFacts
<1>2. s \in StreamRecord
  BY <1>1 DEF StreamRecord
<1>3. SoundStream(s, paid[id], now)
  BY <1>1 DEF SoundStream, StreamRecord
<1> QED
  BY <1>2, <1>3, UpdateStream

LEMMA RoleStepInv ==
    ASSUME IInv, RoleStep
    PROVE  IInv'
<1> USE DEF IInv
<1>1. PICK a \in Accounts, id \in Ids :
          \/ \E new \in NewParties : transfer_stream(a, id, new)
          \/ \E d \in NewParties \cup {None} : set_delegate(a, id, d)
          \/ \E new \in NewParties : propose_employer_transfer(a, id, new)
          \/ accept_employer_transfer(a, id)
  BY DEF RoleStep
<1>2. ASSUME NEW new \in NewParties, transfer_stream(a, id, new) PROVE IInv'
  <2>1. StreamsOK'
    BY <1>2, RoleChangeSound, ContractAssumption DEF transfer_stream, SetStream
  <2>2. LedgerOK' /\ RolesOK' /\ ConfigOK'
    BY <1>2 DEF transfer_stream, SetStream, config_vars, index_vars, LedgerOK, RolesOK, ConfigOK, Ids
  <2> QED
    BY <2>1, <2>2
<1>3. ASSUME NEW d \in NewParties \cup {None}, set_delegate(a, id, d) PROVE IInv'
  <2>1. StreamsOK'
    BY <1>3, RoleChangeSound, ContractAssumption DEF set_delegate, SetStream
  <2>2. LedgerOK' /\ RolesOK' /\ ConfigOK'
    BY <1>3 DEF set_delegate, SetStream, config_vars, index_vars, LedgerOK, RolesOK, ConfigOK, Ids
  <2> QED
    BY <2>1, <2>2
<1>4. ASSUME NEW new \in NewParties, propose_employer_transfer(a, id, new) PROVE IInv'
  <2>1. pending_employer' \in [Ids -> Accounts \cup {None}]
    BY <1>4, ContractAssumption DEF propose_employer_transfer, RolesOK
  <2>2. StreamsOK' /\ LedgerOK' /\ ConfigOK'
    BY <1>4 DEF propose_employer_transfer, config_vars, index_vars, StreamsOK, LedgerOK,
                ConfigOK, Ids
  <2>3. RolesOK'
    BY <1>4, <2>1 DEF propose_employer_transfer, index_vars, RolesOK, Ids
  <2> QED
    BY <2>2, <2>3
<1>5. ASSUME accept_employer_transfer(a, id) PROVE IInv'
  <2>1. StreamsOK'
    BY <1>5, RoleChangeSound DEF accept_employer_transfer, SetStream
  <2>2. pending_employer' \in [Ids -> Accounts \cup {None}]
    BY <1>5 DEF accept_employer_transfer, RolesOK
  <2>3. LedgerOK' /\ ConfigOK'
    BY <1>5 DEF accept_employer_transfer, SetStream, config_vars, LedgerOK, ConfigOK
  <2>4. RolesOK'
    BY <1>5, <2>2 DEF accept_employer_transfer, SetStream, index_vars, RolesOK, Ids
  <2> QED
    BY <2>1, <2>3, <2>4
<1> QED
  BY <1>1, <1>2, <1>3, <1>4, <1>5

LEMMA TickInv ==
    ASSUME IInv, Tick
    PROVE  IInv'
<1> USE DEF IInv
<1>1. now \in Nat /\ now' \in Nat /\ now <= now' /\ Ids' = Ids
  BY DEF Tick, StreamsOK, Ids
<1>2. \A id \in Ids : SoundStream(streams[id], paid[id], now')
  BY <1>1, SoundLater DEF StreamsOK
<1>3. StreamsOK'
  BY <1>1, <1>2 DEF Tick, StreamsOK
<1>4. LedgerOK' /\ RolesOK' /\ ConfigOK'
  BY DEF Tick, config_vars, index_vars, LedgerOK, RolesOK, ConfigOK, Ids
<1> QED
  BY <1>3, <1>4

LEMMA ConfigStepInv ==
    ASSUME IInv, ConfigStep
    PROVE  IInv'
<1> USE DEF IInv
<1>1. ConfigOK'
  BY ContractAssumption DEF ConfigStep, ConfigOK
<1>2. StreamsOK' /\ LedgerOK' /\ RolesOK'
  BY DEF ConfigStep, index_vars, StreamsOK, LedgerOK, RolesOK, Ids
<1> QED
  BY <1>1, <1>2

-----------------------------------------------------------------------------
(* The invariant and what follows from it.                                 *)

LEMMA InitInv == Init => IInv
<1> SUFFICES ASSUME Init PROVE IInv
  OBVIOUS
<1>1. Ids = {}
  BY DEF Init, Ids
<1>2. StreamsOK
  BY <1>1 DEF Init, StreamsOK
<1>3. LedgerOK
  BY ContractAssumption DEF Init, LedgerOK, Parties
<1>4. RolesOK
  BY <1>1 DEF Init, RolesOK
<1>5. ConfigOK
  BY ContractAssumption DEF Init, ConfigOK
<1> QED
  BY <1>2, <1>3, <1>4, <1>5 DEF IInv

LEMMA NextInv == IInv /\ [Next]_vars => IInv'
<1> SUFFICES ASSUME IInv, [Next]_vars PROVE IInv'
  OBVIOUS
<1>1. CASE CreateStep
  BY <1>1, CreateStreamInv, CreateBatchInv DEF CreateStep
<1>2. CASE PaymentStep
  <2>1. ASSUME NEW t \in Tokens, NEW amount \in 1..fee_balance[t] PROVE amount \in Nat
    BY DEF IInv, LedgerOK
  <2> QED
    BY <1>2, <2>1, WithdrawInv, WithdrawFeesInv DEF PaymentStep
<1>3. CASE ManageStep
  BY <1>3, TopUpInv, PauseInv, ResumeInv, SettleInv DEF ManageStep, cancel_stream, reclaim_expired
<1>4. CASE RateStep
  BY <1>4, UpdateRateInv DEF RateStep
<1>5. CASE QueryStep
  BY <1>5, GetStreamInv DEF QueryStep
<1>6. CASE RoleStep
  BY <1>6, RoleStepInv
<1>7. CASE Tick
  BY <1>7, TickInv
<1>8. CASE ConfigStep
  BY <1>8, ConfigStepInv
<1>9. CASE UNCHANGED vars
  BY <1>9 DEF vars, config_vars, index_vars, IInv, StreamsOK, LedgerOK, RolesOK, ConfigOK, Ids
<1> QED
  BY <1>1, <1>2, <1>3, <1>4, <1>5, <1>6, <1>7, <1>8, <1>9 DEF Next, StreamStep

\* IInv is an inductive invariant of the contract: every entry point keeps the
\* storage typed and every stream sound (all entry points of lib.rs).
THEOREM Invariance == Spec => []IInv
BY InitInv, NextInv, PTL DEF Spec

LEMMA IInvImplies ==
    ASSUME IInv
    PROVE  /\ TypeOK /\ NoOverpayment /\ ClaimsCovered
           /\ ClocksOrdered /\ CancelSettles
<1>1. TypeOK
  BY DEF IInv, StreamsOK, LedgerOK, RolesOK, ConfigOK, TypeOK
<1>2. ASSUME NEW id \in Ids
      PROVE  LET s == streams[id]
                 p == paid[id]
             IN  /\ p.employee + p.fee + p.refund <= s.deposit
                 /\ s.withdrawn + claimable_amount(s, now) + p.refund <= s.deposit
                 /\ p.refund > 0 => is_terminal(s.status)
                 /\ s.start_time <= s.last_withdraw_time
                 /\ s.last_withdraw_time <= now
                 /\ s.status = "Paused" => s.last_withdraw_time <= s.paused_at /\ s.paused_at <= now
                 /\ s.status = "Cancelled" => s.withdrawn + p.refund = s.deposit
  <2> DEFINE s == streams[id]
             p == paid[id]
             c == claimable_amount(s, now)
  <2>1. /\ s \in StreamRecord /\ p \in Payouts /\ SoundStream(s, p, now)
        /\ c \in Nat /\ s.withdrawn + c <= s.deposit
    BY StreamFacts DEF IInv
  <2>2. is_terminal(s.status) => c = 0
    BY DEF claimable_amount
  <2> HIDE DEF s, p, c
  <2>3. s.withdrawn + c + p.refund <= s.deposit
    BY <2>1, <2>2 DEF SoundStream, StreamRecord, Payouts
  <2>4. p.employee + p.fee + p.refund <= s.deposit
    BY <2>1 DEF SoundStream, StreamRecord, Payouts
  <2> QED
    BY <2>1, <2>3, <2>4 DEF SoundStream, s, p, c
<1> QED
  BY <1>1, <1>2 DEF NoOverpayment, ClaimsCovered, ClocksOrdered, CancelSettles

\* The storage of the contract and the balances it moves keep their types; in
\* particular no balance, no counter and no fee ledger ever goes negative.
THEOREM TypeCorrect == Spec => []TypeOK
BY Invariance, IInvImplies, PTL

\* No stream ever pays out more than was deposited for it (withdraw,
\* cancel_stream, reclaim_expired, update_rate, top_up).
THEOREM StreamsNeverOverpay == Spec => []NoOverpayment
BY Invariance, IInvImplies, PTL

\* Withdrawn, claimable and refunded together never exceed the deposit: what an
\* employee may claim at any moment is still there (claimable_amount).
THEOREM ClaimsAreCovered == Spec => []ClaimsCovered
BY Invariance, IInvImplies, PTL

\* The accrual clock stays between creation and the present, and behind the
\* pause while paused (resume_stream, update_rate, withdraw).
THEOREM ClocksStayOrdered == Spec => []ClocksOrdered
BY Invariance, IInvImplies, PTL

\* A cancelled stream has settled its whole deposit (cancel_stream).
THEOREM CancellationSettles == Spec => []CancelSettles
BY Invariance, IInvImplies, PTL
=============================================================================
