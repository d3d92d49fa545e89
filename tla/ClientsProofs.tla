--------------------------- MODULE ClientsProofs ---------------------------
(***************************************************************************)
(* Proofs about the two kinds of clients.                                  *)
(*                                                                         *)
(* Administrators who sign calls against a nonce: the type invariant, that *)
(* a signed call takes effect at most once, and that administrators never  *)
(* overwrite each other, whatever governance writes meanwhile.             *)
(*                                                                         *)
(* The pages of the demo: that no page is left busy, that a timeout of a   *)
(* transaction that was signed slowly is final, and that a stream is       *)
(* polled in one loop.                                                     *)
(***************************************************************************)
EXTENDS AdminClients, DemoApp, SequenceTheorems, TLAPS

-----------------------------------------------------------------------------
(* Administrators.                                                         *)

\* What is known of a signed call r while the configuration is c.
RequestOK(r, c) ==
    /\ r.nonce <= c.admin_nonce
    /\ r.applied <= 1
    /\ r.applied > 0 => r.nonce < c.admin_nonce
    /\ r.nonce = c.admin_nonce => \A s \in Settings \ r.overtaken : c[s] = r.seen[s]

NoncesOK ==
    /\ \A i \in 1..Len(requests) : RequestOK(requests[i], cfg)
    /\ \A i, j \in 1..Len(requests) :
          (i # j /\ requests[i].nonce = requests[j].nonce)
              => requests[i].applied = 0 \/ requests[j].applied = 0

IInv == TypeOK /\ NoncesOK

-----------------------------------------------------------------------------
\* Consuming the nonce changes nothing else in the configuration.
LEMMA ConsumedFacts ==
    ASSUME NEW c \in Config
    PROVE  /\ Consumed(c) \in Config /\ Consumed(c).admin_nonce = c.admin_nonce + 1
           /\ Consumed(c).fee_bps = c.fee_bps /\ Consumed(c).paused = c.paused
           /\ Consumed(c).min_deposit = c.min_deposit
           /\ Consumed(c).max_streams = c.max_streams
  BY DEF Config, Consumed

\* A call that takes a nonce is applied only with the stored nonce, and
\* consumes it together with its own write.
LEMMA CallEffect ==
    ASSUME TypeOK, NEW r \in Request, SignedCall(r)
    PROVE  /\ r.nonce = cfg.admin_nonce
           /\ cfg' \in Config /\ cfg'.admin_nonce = cfg.admin_nonce + 1
           /\ admin' = admin /\ pending_admin' = pending_admin
           /\ fee_recipient' \in Accounts \cup {None}
           /\ allowed_tokens' = allowed_tokens /\ wasm' \in WasmHashes
<1> DEFINE c == Consumed(cfg)
<1>1. /\ c \in Config /\ c.admin_nonce = cfg.admin_nonce + 1
      /\ c.admin_nonce \in Nat /\ r.caller \in Accounts
      /\ fee_recipient \in Accounts \cup {None} /\ wasm \in WasmHashes
  BY ConsumedFacts DEF TypeOK, Config, Request
<1> HIDE DEF c
<1> DEFINE Nonced == r.nonce = cfg.admin_nonce /\ admin' = admin /\ pending_admin' = pending_admin
                     /\ allowed_tokens' = allowed_tokens /\ wasm' \in WasmHashes
                     /\ fee_recipient' \in Accounts \cup {None}
           Written == cfg' \in Config /\ cfg'.admin_nonce = c.admin_nonce
<1>2. CASE pause_contract(r.caller, r.nonce) \/ unpause_contract(r.caller, r.nonce)
  <2>1. PICK b \in BOOLEAN : Nonced /\ cfg' = [c EXCEPT !.paused = b]
    BY <1>1, <1>2 DEF pause_contract, unpause_contract, Authorised, c
  <2>2. Written
    BY <1>1, <2>1 DEF Config
  <2> QED
    BY <1>1, <2>1, <2>2
<1>3. ASSUME NEW v \in MinDeposits, set_min_deposit(r.caller, r.nonce, v)
      PROVE  Nonced /\ Written
  <2>1. Nonced /\ cfg' = [c EXCEPT !.min_deposit = v]
    BY <1>1, <1>3 DEF set_min_deposit, Authorised, c
  <2> QED
    BY <1>1, <2>1, AdminAssumption DEF Config
<1>4. ASSUME NEW v \in FeeRates, set_protocol_fee(r.caller, r.nonce, v, r.caller)
      PROVE  Nonced /\ Written
  <2>1. Nonced /\ cfg' = [c EXCEPT !.fee_bps = v]
    BY <1>1, <1>4 DEF set_protocol_fee, Authorised, c
  <2> QED
    BY <1>1, <2>1, AdminAssumption DEF Config
<1>5. ASSUME NEW v \in StreamLimits, set_max_streams_per_employer(r.caller, r.nonce, v)
      PROVE  Nonced /\ Written
  <2>1. Nonced /\ cfg' = [c EXCEPT !.max_streams = v]
    BY <1>1, <1>5 DEF set_max_streams_per_employer, Authorised, c
  <2> QED
    BY <1>1, <2>1, AdminAssumption DEF Config
<1>6. ASSUME NEW v \in WasmHashes, upgrade(r.caller, v, r.nonce)
      PROVE  Nonced /\ Written
  BY <1>1, <1>6 DEF upgrade, Authorised, c
<1>7. CASE Nonced /\ Written
  BY <1>1, <1>7
<1> QED
  BY <1>2, <1>3, <1>4, <1>5, <1>6, <1>7 DEF SignedCall

\* Hand-overs, emergency pauses and the allowlist leave what nonces guard alone.
LEMMA OtherEffect ==
    ASSUME TypeOK, RoleStep \/ FreeStep
    PROVE  /\ cfg' \in Config /\ cfg'.admin_nonce = cfg.admin_nonce
           /\ \A s \in Settings : cfg'[s] = cfg[s]
           /\ admin' \in Accounts /\ pending_admin' \in Accounts \cup {None}
           /\ fee_recipient' = fee_recipient
           /\ allowed_tokens' \subseteq Tokens /\ wasm' = wasm
<1> USE AdminAssumption DEF TypeOK, Config, Settings
<1>1. CASE RoleStep
  BY <1>1 DEF RoleStep, initialize, propose_admin, accept_admin
<1>2. CASE FreeStep
  BY <1>2 DEF FreeStep, emergency_pause, add_allowed_token, remove_allowed_token
<1> QED
  BY <1>1, <1>2

\* A proposal that is executed writes one setting, and leaves the nonce.
LEMMA DecisionEffect ==
    ASSUME TypeOK, NEW d \in Decisions, execute_proposal(d)
    PROVE  /\ cfg' \in Config /\ cfg'.admin_nonce = cfg.admin_nonce
           /\ Setting(d) \in Settings
           /\ \A s \in Settings \ {Setting(d)} : cfg'[s] = cfg[s]
<1>1. /\ d.param \in {"MinDeposit", "MaxDuration", "FeeBps"} /\ d.new_value \in Nat
      /\ d.new_value % U32 \in Nat /\ Decided(d) \in Nat
  BY DecisionsAssumption DEF Decided
<1>2. cfg \in Config
  BY DEF TypeOK
<1>3. CASE d.param = "MinDeposit"
  <2>1. Setting(d) = "min_deposit"
    BY <1>3 DEF Setting
  <2>2. cfg' = [cfg EXCEPT !.min_deposit = Decided(d)]
    BY <2>1 DEF execute_proposal
  <2> QED
    BY <1>1, <1>2, <2>1, <2>2 DEF Config, Settings
<1>4. CASE d.param = "MaxDuration"
  <2>1. Setting(d) = "max_streams"
    BY <1>4 DEF Setting
  <2>2. cfg' = [cfg EXCEPT !.max_streams = Decided(d)]
    BY <2>1 DEF execute_proposal
  <2> QED
    BY <1>1, <1>2, <2>1, <2>2 DEF Config, Settings
<1>5. CASE d.param = "FeeBps"
  <2>1. Setting(d) = "fee_bps"
    BY <1>5 DEF Setting
  <2>2. cfg' = [cfg EXCEPT !.fee_bps = Decided(d)]
    BY <2>1 DEF execute_proposal
  <2> QED
    BY <1>1, <1>2, <2>1, <2>2 DEF Config, Settings
<1> QED
  BY <1>1, <1>3, <1>4, <1>5

\* The fields of a signed call.
LEMMA RequestType ==
    ASSUME TypeOK, NEW i \in 1..Len(requests)
    PROVE  /\ requests \in Seq(Request) /\ requests[i] \in Request
           /\ requests[i].nonce \in Nat /\ requests[i].applied \in Nat
<1>1. requests \in Seq(Request) /\ requests[i] \in Request
  BY DEF TypeOK
<1> QED
  BY <1>1 DEF Request

\* Counting an application changes nothing else in a signed call.
LEMMA AppliedOnceMore ==
    ASSUME NEW r \in Request
    PROVE  LET done == [r EXCEPT !.applied = @ + 1]
           IN  done \in Request /\ done.nonce = r.nonce /\ done.applied = r.applied + 1
  BY DEF Request

\* Being overtaken by governance changes nothing else in it either.
LEMMA OvertakenOnceMore ==
    ASSUME NEW r \in Request, NEW s \in Settings
    PROVE  LET late == [r EXCEPT !.overtaken = @ \cup {s}]
           IN  /\ late \in Request /\ late.nonce = r.nonce /\ late.applied = r.applied
               /\ late.seen = r.seen /\ late.overtaken = r.overtaken \cup {s}
  BY DEF Request

\* A freshly signed call meets the invariant.
LEMMA SignPreserves ==
    ASSUME IInv, NEW a \in Accounts, NEW op \in Ops, Sign(a, op)
    PROVE  IInv'
<1> DEFINE new == [caller |-> a, nonce |-> cfg.admin_nonce, op |-> op,
                   seen |-> Guarded(cfg), overtaken |-> {}, applied |-> 0]
<1>0. Guarded(cfg) \in [Settings -> Nat] /\ \A s \in Settings : Guarded(cfg)[s] = cfg[s]
  BY DEF IInv, TypeOK, Config, Guarded, Settings
<1>1. new \in Request /\ cfg \in Config /\ requests \in Seq(Request) /\ Len(requests) \in Nat
  BY <1>0 DEF IInv, TypeOK, Config, Request
<1>2. /\ requests' = Append(requests, new) /\ UNCHANGED admin_vars
  BY DEF Sign
<1> HIDE DEF new
<1>3. /\ requests' \in Seq(Request) /\ Len(requests') = Len(requests) + 1
      /\ \A i \in 1..Len(requests) : requests'[i] = requests[i]
      /\ requests'[Len(requests) + 1] = new
  BY <1>1, <1>2, AppendProperties
<1>4. new.nonce = cfg.admin_nonce /\ new.applied = 0 /\ new.seen = Guarded(cfg)
  BY DEF new
<1>5. TypeOK' /\ cfg' = cfg
  BY <1>2, <1>3 DEF IInv, TypeOK, admin_vars
<1>6. RequestOK(new, cfg)
  BY <1>0, <1>1, <1>4 DEF RequestOK, Config
<1>7. ASSUME NEW i \in 1..Len(requests') PROVE RequestOK(requests'[i], cfg')
  BY <1>1, <1>3, <1>5, <1>6 DEF IInv, NoncesOK
<1>8. ASSUME NEW i \in 1..Len(requests'), NEW j \in 1..Len(requests'), i # j,
             requests'[i].nonce = requests'[j].nonce
      PROVE  requests'[i].applied = 0 \/ requests'[j].applied = 0
  BY <1>1, <1>3, <1>4, <1>8 DEF IInv, NoncesOK
<1> QED
  BY <1>5, <1>7, <1>8 DEF IInv, NoncesOK

\* A call that is applied uses up its nonce, and with it every other call
\* that was signed with the same one.
LEMMA DeliverPreserves ==
    ASSUME IInv, NEW k \in 1..Len(requests), Deliver(k)
    PROVE  IInv'
<1> DEFINE n == cfg.admin_nonce
<1>1. /\ requests \in Seq(Request) /\ Len(requests) \in Nat /\ requests[k] \in Request
      /\ \A i \in 1..Len(requests) : requests[i] \in Request
      /\ cfg \in Config
  BY DEF IInv, TypeOK
<1>2. /\ requests[k].nonce = n
      /\ cfg' \in Config /\ cfg'.admin_nonce = n + 1
      /\ TypeOK' <=> requests' \in Seq(Request)
  BY <1>1, CallEffect DEF IInv, Deliver, TypeOK
<1>3. n \in Nat
  BY <1>1 DEF Config
<1>4. requests[k].applied = 0
  <2>1. requests[k].applied > 0 => requests[k].nonce < n
    BY DEF IInv, NoncesOK, RequestOK
  <2>2. requests[k].applied \in Nat
    BY RequestType DEF IInv
  <2> QED
    BY <1>2, <1>3, <2>1, <2>2
<1> DEFINE done == [requests[k] EXCEPT !.applied = @ + 1]
<1>5. /\ requests' = [requests EXCEPT ![k] = done]
      /\ done \in Request /\ done.nonce = n /\ done.applied = 1
  <2>1. requests' = [requests EXCEPT ![k] = done]
    BY DEF Deliver
  <2>2. done \in Request /\ done.nonce = requests[k].nonce /\ done.applied = requests[k].applied + 1
    BY <1>1, AppliedOnceMore
  <2> QED
    BY <1>2, <1>4, <2>1, <2>2
<1> HIDE DEF done
<1>6. requests' \in Seq(Request) /\ Len(requests') = Len(requests)
  BY <1>1, <1>5, ExceptSeq
<1>7. /\ requests'[k].nonce = n /\ requests'[k].applied = 1
      /\ \A i \in 1..Len(requests) : i # k => requests'[i] = requests[i]
  BY <1>1, <1>5
<1>8. ASSUME NEW i \in 1..Len(requests') PROVE RequestOK(requests'[i], cfg')
  <2>1. CASE i = k
    BY <1>2, <1>3, <1>7, <2>1 DEF RequestOK
  <2>2. CASE i # k
    <3>1. requests'[i] = requests[i] /\ requests[i] \in Request /\ RequestOK(requests[i], cfg)
      BY <1>1, <1>6, <1>7, <2>2 DEF IInv, NoncesOK
    <3> QED
      BY <1>2, <1>3, <3>1 DEF RequestOK, Request
  <2> QED
    BY <2>1, <2>2
<1>9. ASSUME NEW i \in 1..Len(requests'), NEW j \in 1..Len(requests'), i # j,
             requests'[i].nonce = requests'[j].nonce
      PROVE  requests'[i].applied = 0 \/ requests'[j].applied = 0
  <2>1. ASSUME NEW m \in 1..Len(requests), m # k, requests[m].nonce = n
        PROVE  requests[m].applied = 0
    BY <1>3, <2>1, RequestType DEF IInv, NoncesOK, RequestOK
  <2> QED
    BY <1>6, <1>7, <1>9, <2>1 DEF IInv, NoncesOK
<1> QED
  BY <1>2, <1>6, <1>8, <1>9 DEF IInv, NoncesOK

\* A proposal that is executed overtakes every call under way.
LEMMA DecisionPreserves ==
    ASSUME IInv, NEW d \in Decisions, execute_proposal(d)
    PROVE  IInv'
<1> DEFINE late == [i \in 1..Len(requests) |->
                       [requests[i] EXCEPT !.overtaken = @ \cup {Setting(d)}]]
<1>1. /\ requests \in Seq(Request) /\ Len(requests) \in Nat
      /\ \A i \in 1..Len(requests) : requests[i] \in Request
  BY DEF IInv, TypeOK
<1>2. /\ cfg' \in Config /\ cfg'.admin_nonce = cfg.admin_nonce /\ Setting(d) \in Settings
      /\ \A s \in Settings \ {Setting(d)} : cfg'[s] = cfg[s]
  BY DecisionEffect DEF IInv
<1>3. ASSUME NEW i \in 1..Len(requests)
      PROVE  /\ late[i] \in Request /\ late[i].nonce = requests[i].nonce
             /\ late[i].applied = requests[i].applied /\ late[i].seen = requests[i].seen
             /\ late[i].overtaken = requests[i].overtaken \cup {Setting(d)}
  BY <1>1, <1>2, OvertakenOnceMore
<1>4. requests' = late /\ DOMAIN late = 1..Len(requests)
  BY DEF execute_proposal
<1> HIDE DEF late
<1>5. requests' \in Seq(Request) /\ Len(requests') = Len(requests)
  <2>1. late \in [1..Len(requests) -> Request]
    <3>1. late = [i \in 1..Len(requests) |-> late[i]]
      BY DEF late
    <3> QED
      BY <1>3, <3>1
  <2> QED
    BY <1>1, <1>4, <2>1
<1>6. TypeOK'
  BY <1>2, <1>5 DEF IInv, TypeOK, execute_proposal
<1>7. ASSUME NEW i \in 1..Len(requests') PROVE RequestOK(requests'[i], cfg')
  <2>1. RequestOK(requests[i], cfg)
    BY <1>5 DEF IInv, NoncesOK
  <2> QED
    BY <1>2, <1>3, <1>4, <1>5, <2>1 DEF RequestOK
<1>8. ASSUME NEW i \in 1..Len(requests'), NEW j \in 1..Len(requests'), i # j,
             requests'[i].nonce = requests'[j].nonce
      PROVE  requests'[i].applied = 0 \/ requests'[j].applied = 0
  BY <1>3, <1>4, <1>5, <1>8 DEF IInv, NoncesOK
<1> QED
  BY <1>6, <1>7, <1>8 DEF IInv, NoncesOK

\* The invariant is inductive.
LEMMA NextPreserves == IInv /\ [Next]_client_vars => IInv'
<1> SUFFICES ASSUME IInv, [Next]_client_vars PROVE IInv'
  OBVIOUS
<1>1. CASE \E a \in Accounts, op \in Ops : Sign(a, op)
  BY <1>1, SignPreserves
<1>2. CASE \E i \in 1..Len(requests) : Deliver(i)
  BY <1>2, DeliverPreserves
<1>3. CASE (RoleStep \/ FreeStep) /\ UNCHANGED requests
  <2>1. /\ cfg' \in Config /\ cfg'.admin_nonce = cfg.admin_nonce
        /\ (\A s \in Settings : cfg'[s] = cfg[s]) /\ requests' = requests
        /\ TypeOK'
    BY <1>3, OtherEffect DEF IInv, TypeOK
  <2>2. ASSUME NEW r, RequestOK(r, cfg) PROVE RequestOK(r, cfg')
    BY <2>1, <2>2 DEF RequestOK
  <2> QED
    BY <2>1, <2>2 DEF IInv, NoncesOK
<1>4. CASE UNCHANGED client_vars
  BY <1>4 DEF IInv, TypeOK, NoncesOK, RequestOK, client_vars, admin_vars
<1>5. CASE \E d \in Decisions : execute_proposal(d)
  BY <1>5, DecisionPreserves
<1> QED
  BY <1>1, <1>2, <1>3, <1>4, <1>5 DEF Next

\* The invariant holds in every reachable state.
LEMMA InvariantHolds == Spec => []IInv
<1>1. Init => IInv
  BY AdminAssumption DEF Init, AdminInit, IInv, TypeOK, NoncesOK, Config, DefaultConfig
<1> QED
  BY <1>1, NextPreserves, PTL DEF Spec

-----------------------------------------------------------------------------
\* The administration state keeps its types.
THEOREM AdminTypeCorrect == Spec => []TypeOK
<1>1. IInv => TypeOK
  BY DEF IInv
<1> QED
  BY <1>1, InvariantHolds, PTL

\* A signed admin call takes effect at most once however often it is
\* submitted, and of all calls signed with one nonce at most one does, for any
\* number of administrators and calls (consume_admin_nonce).
THEOREM SignedCallsApplyOnce == Spec => []AtMostOncePerNonce
<1>1. IInv => AtMostOncePerNonce
  <2> SUFFICES ASSUME IInv PROVE AtMostOncePerNonce
    OBVIOUS
  <2>1. \A i \in 1..Len(requests) : requests[i].applied \in Nat /\ requests[i].applied <= 1
    BY RequestType DEF IInv, NoncesOK, RequestOK
  <2> QED
    BY <2>1 DEF IInv, NoncesOK, AtMostOncePerNonce
<1> QED
  BY <1>1, InvariantHolds, PTL

\* When a signed call is applied, every setting its nonce guards is the one its
\* client read, unless governance has written it since: no administrator
\* overwrites another's change, for any number of calls under way, hand-overs and
\* executed proposals.
THEOREM NoUpdateIsLost == Spec => NoLostUpdate
<1> DEFINE Fresh == \A i \in 1..Len(requests) :
              requests'[i].applied > requests[i].applied =>
                  \A s \in Settings \ requests[i].overtaken : cfg[s] = requests[i].seen[s]
<1>1. IInv /\ [Next]_client_vars => [Fresh]_client_vars
  <2> SUFFICES ASSUME IInv, Next PROVE Fresh
    OBVIOUS
  <2> SUFFICES ASSUME NEW i \in 1..Len(requests), requests'[i].applied > requests[i].applied
               PROVE  \A s \in Settings \ requests[i].overtaken : cfg[s] = requests[i].seen[s]
    OBVIOUS
  <2>1. requests \in Seq(Request) /\ requests[i] \in Request /\ requests[i].applied \in Nat
    BY RequestType DEF IInv
  <2>2. CASE \E a \in Accounts, op \in Ops : Sign(a, op)
    BY <2>1, <2>2 DEF Sign
  <2>3. ASSUME NEW k \in 1..Len(requests), Deliver(k)
        PROVE  \A s \in Settings \ requests[i].overtaken : cfg[s] = requests[i].seen[s]
    <3>1. i = k
      BY <2>1, <2>3 DEF Deliver
    <3>2. requests[i].nonce = cfg.admin_nonce
      BY <2>1, <2>3, <3>1, CallEffect DEF Deliver, IInv
    <3> QED
      BY <3>2 DEF IInv, NoncesOK, RequestOK
  <2>4. CASE UNCHANGED requests
    BY <2>1, <2>4
  <2>5. ASSUME NEW d \in Decisions, execute_proposal(d)
        PROVE  requests'[i].applied = requests[i].applied
    BY <2>1, <2>5, DecisionEffect, OvertakenOnceMore DEF execute_proposal, IInv
  <2> QED
    BY <2>1, <2>2, <2>3, <2>4, <2>5 DEF Next
<1> QED
  BY <1>1, InvariantHolds, PTL DEF Spec, NoLostUpdate

-----------------------------------------------------------------------------
(* The demo.                                                               *)

\* What a page keeps.
PageRecord ==
    [mount: Nat, connected: BOOLEAN, loading: BOOLEAN,
     acting: (CallOps \X Subjects) \cup {Null},
     shown: Lists, modal: Subjects, topUp: Subjects, detail: Subjects, rows: Nat]

\* What is left of the polls of a call.
Rest(call) == (POLLS - call.polls) * INTERVAL + call.wake

\* The clocks of a call: a transaction that may be included is in time, and when
\* the signature was slow its time is over before the polls are.
Timely(call) ==
    /\ call.fresh => call.left >= -LAG
    /\ call.tx = "pending" => call.fresh
    /\ call.slow /\ call.tx = "pending" /\ call.step = "poll" => call.left + LAG < Rest(call)
    /\ call.slow /\ call.step = "timeout" => call.tx \notin {"pending", "success"}

\* Which awaits belong to which handlers.
InOrder(call) ==
    /\ call.then = AfterConfirmation(call.page, call.op)
    /\ call.step = "wallet" => call.op = "connect"
    /\ call.step \in {"get", "claimable"} => call.op = "scan" /\ call.stream \in Nat
    /\ call.step = "count" => call.op = "scan" \/ call.page \notin Dashboards

Fine(call) == call \in CallRecord /\ InOrder(call) /\ Timely(call)

LedgerOK == ledger \in Seq(StreamRecord) /\ Len(ledger) <= MaxStreams

PagesOK ==
    /\ DOMAIN pages \subseteq Pages /\ pages \in [DOMAIN pages -> PageRecord]

CallsOK ==
    /\ calls \in [Slots -> CallRecord \cup {Null}]
    /\ \A c \in Slots : calls[c] # Null => Fine(calls[c]) /\ calls[c].page \in DOMAIN pages

\* A call a that holds a flag of page page, shown as pg.
Under(a, page, pg) == a # Null /\ ~Over(a) /\ a.page = page /\ a.mount = pg.mount
Loads(a, page, pg) == Under(a, page, pg) /\ ~IsAction(a)
Acts(a, page, pg) == Under(a, page, pg) /\ IsAction(a) /\ <<a.op, a.stream>> = pg.acting

\* The flags of a page are held by the calls cs.
Held(cs, page, pg) ==
    /\ pg.loading => \E c \in Slots : Loads(cs[c], page, pg)
    /\ pg.acting # Null => \E c \in Slots : Acts(cs[c], page, pg)

FlagsOK == \A page \in DOMAIN pages : Held(calls, page, pages[page])

\* The loops are records with a flag.
PollersOK == \A p \in pollers : {"page", "mount", "stream", "active"} \subseteq DOMAIN p /\ p.active \in BOOLEAN

UiOK == PagesOK /\ CallsOK /\ FlagsOK

DemoInv == LedgerOK /\ UiOK /\ PollersOK /\ OnePollerPerMount

-----------------------------------------------------------------------------
(* Flags.                                                                  *)

\* Call b is call a further on, with what the flags say of it.
Carries(a, b) ==
    /\ b # Null /\ ~Over(b) /\ b.page = a.page /\ b.mount = a.mount /\ b.op = a.op
    /\ IsAction(a) => b.stream = a.stream

\* A call that is carried on holds the flag it held.
LEMMA CarriedHolds ==
    ASSUME NEW a, NEW b, Carries(a, b), NEW page, NEW pg, NEW pg2, pg2.mount = pg.mount
    PROVE  /\ Loads(a, page, pg) => Loads(b, page, pg2)
           /\ Acts(a, page, pg) /\ pg2.acting = pg.acting => Acts(b, page, pg2)
  BY DEF Carries, Loads, Acts, Under, IsAction

\* A flag stays held when its calls are carried on, or when another call takes
\* it; a flag that is cleared need not be held.
LEMMA HeldStays ==
    ASSUME NEW cs, NEW cs2, NEW page, NEW pg, NEW pg2, Held(cs, page, pg), pg2.mount = pg.mount,
           pg2.loading => pg.loading \/ \E c \in Slots : Loads(cs2[c], page, pg2),
           pg2.acting # Null => pg2.acting = pg.acting \/ \E c \in Slots : Acts(cs2[c], page, pg2),
           \A c \in Slots : Loads(cs[c], page, pg) =>
              \/ Carries(cs[c], cs2[c])
              \/ pg2.loading => \E d \in Slots : Loads(cs2[d], page, pg2),
           \A c \in Slots : Acts(cs[c], page, pg) =>
              \/ Carries(cs[c], cs2[c])
              \/ pg2.acting # Null => \E d \in Slots : Acts(cs2[d], page, pg2)
    PROVE  Held(cs2, page, pg2)
<1>1. ASSUME pg2.loading PROVE \E c \in Slots : Loads(cs2[c], page, pg2)
  <2>1. CASE pg.loading
    <3>1. PICK c \in Slots : Loads(cs[c], page, pg)
      BY <2>1 DEF Held
    <3> QED
      BY <1>1, <3>1, CarriedHolds
  <2> QED
    BY <1>1, <2>1
<1>2. ASSUME pg2.acting # Null PROVE \E c \in Slots : Acts(cs2[c], page, pg2)
  <2>1. CASE pg2.acting = pg.acting
    <3>1. PICK c \in Slots : Acts(cs[c], page, pg)
      BY <1>2, <2>1 DEF Held
    <3> QED
      BY <1>2, <2>1, <3>1, CarriedHolds
  <2> QED
    BY <1>2, <2>1
<1> QED
  BY <1>1, <1>2 DEF Held

\* Calls that are carried on, while the pages stay as they are.
LEMMA CallsCarried ==
    ASSUME FlagsOK, pages' = pages,
           \A c \in Slots : calls[c] # Null /\ ~Over(calls[c]) => Carries(calls[c], calls'[c])
    PROVE  FlagsOK'
<1>1. ASSUME NEW page \in DOMAIN pages PROVE Held(calls', page, pages[page])
  <2> DEFINE cs == calls
             cs2 == calls'
             pg == pages[page]
  <2>1. Held(cs, page, pg)
    BY DEF FlagsOK
  <2>2. \A c \in Slots : Loads(cs[c], page, pg) \/ Acts(cs[c], page, pg) => Carries(cs[c], cs2[c])
    BY DEF Loads, Acts, Under
  <2> HIDE DEF cs, cs2, pg
  <2>3. Held(cs2, page, pg)
    BY <2>1, <2>2, HeldStays
  <2> QED
    BY <2>3 DEF cs2, pg
<1> QED
  BY <1>1 DEF FlagsOK

\* One page changed to pg2, and one call, which the flags of no other page name.
LEMMA OnePage ==
    ASSUME FlagsOK, PagesOK, CallsOK, NEW page \in DOMAIN pages, NEW pg2,
           pages' = [pages EXCEPT ![page] = pg2], Held(calls', page, pg2),
           \A c \in Slots : calls[c] # Null /\ ~Over(calls[c]) =>
               Carries(calls[c], calls'[c]) \/ calls[c].page = page
    PROVE  FlagsOK'
<1>1. /\ DOMAIN pages' = DOMAIN pages /\ pages'[page] = pg2
      /\ \A q \in DOMAIN pages : q # page => pages'[q] = pages[q]
  BY DEF PagesOK
<1>2. ASSUME NEW q \in DOMAIN pages, q # page PROVE Held(calls', q, pages[q])
  <2> DEFINE cs == calls
             cs2 == calls'
             pg == pages[q]
  <2>1. Held(cs, q, pg)
    BY DEF FlagsOK
  <2>2. \A c \in Slots : Loads(cs[c], q, pg) \/ Acts(cs[c], q, pg) => Carries(cs[c], cs2[c])
    BY <1>2 DEF Loads, Acts, Under
  <2> HIDE DEF cs, cs2, pg
  <2>3. Held(cs2, q, pg)
    BY <2>1, <2>2, HeldStays
  <2> QED
    BY <2>3 DEF cs2, pg
<1>3. ASSUME NEW q \in DOMAIN pages' PROVE Held(calls', q, pages'[q])
  BY <1>1, <1>2
<1> QED
  BY <1>3 DEF FlagsOK

\* Types of what one page and one call change.
LEMMA PageChanged ==
    ASSUME PagesOK, NEW page \in DOMAIN pages, NEW pg2 \in PageRecord,
           pages' = [pages EXCEPT ![page] = pg2]
    PROVE  PagesOK' /\ DOMAIN pages' = DOMAIN pages
<1>1. /\ DOMAIN pages' = DOMAIN pages /\ pages'[page] = pg2
      /\ \A q \in DOMAIN pages : q # page => pages'[q] = pages[q]
      /\ pages' \in [DOMAIN pages -> PageRecord]
  BY DEF PagesOK
<1> QED
  BY <1>1 DEF PagesOK

LEMMA CallChanged ==
    ASSUME CallsOK, DOMAIN pages' = DOMAIN pages, NEW c \in Slots, NEW a,
           calls' = [calls EXCEPT ![c] = a],
           a # Null => Fine(a) /\ a.page \in DOMAIN pages
    PROVE  /\ CallsOK' /\ calls'[c] = a
           /\ \A d \in Slots : d # c => calls'[d] = calls[d]
<1>1. /\ calls'[c] = a /\ \A d \in Slots : d # c => calls'[d] = calls[d]
      /\ calls' \in [Slots -> CallRecord \cup {Null}]
  BY DEF CallsOK, Fine
<1> QED
  BY <1>1 DEF CallsOK

\* A call that goes on as itself.
LEMMA CarriesItself == \A a : a # Null /\ ~Over(a) => Carries(a, a)
  BY DEF Carries

-----------------------------------------------------------------------------
(* Calls that go on.                                                       *)

\* The page after the finally clause of a call, and after its start.
Cleared(q, pg, call) ==
    /\ q \in PageRecord /\ q.mount = pg.mount
    /\ IF IsAction(call) THEN q.acting = Null /\ q.loading = pg.loading
       ELSE q.loading = FALSE /\ q.acting = pg.acting

Marked(q, pg, call) ==
    /\ q \in PageRecord /\ q.mount = pg.mount
    /\ IF IsAction(call) THEN q.acting = <<call.op, call.stream>> /\ q.loading = pg.loading
       ELSE q.loading = TRUE /\ q.acting = pg.acting

LEMMA EndedPage ==
    ASSUME NEW pg \in PageRecord, NEW call
    PROVE  Cleared(Succeeded(pg, call), pg, call) /\ Cleared(Caught(pg, call), pg, call)
<1> DEFINE q == Finally(pg, call)
<1>0. Null \in Subjects
  BY DEF Subjects
<1>1. Cleared(q, pg, call)
  BY DEF Finally, Cleared, PageRecord
<1>2. q \in PageRecord
  BY <1>1 DEF Cleared
<1>3. /\ Succeeded(pg, call) \in {q, [q EXCEPT !.rows = 1], [q EXCEPT !.topUp = Null]}
      /\ Caught(pg, call) = q
  BY DEF Succeeded, Caught
<1> HIDE DEF q
<1>4. Cleared([q EXCEPT !.rows = 1], pg, call) /\ Cleared([q EXCEPT !.topUp = Null], pg, call)
  BY <1>0, <1>1, <1>2 DEF Cleared, PageRecord
<1> QED
  BY <1>1, <1>3, <1>4

LEMMA BusyPage ==
    ASSUME NEW pg \in PageRecord, NEW call \in CallRecord
    PROVE  Marked(Busy(pg, call), pg, call)
<1>1. <<call.op, call.stream>> \in CallOps \X Subjects
  BY DEF CallRecord
<1> DEFINE t == <<call.op, call.stream>>
<1>2. Busy(pg, call) = IF IsAction(call) THEN [pg EXCEPT !.acting = t] ELSE [pg EXCEPT !.loading = TRUE]
  BY DEF Busy
<1>3. t \in CallOps \X Subjects
  BY <1>1
<1> HIDE DEF t
<1>4. /\ [pg EXCEPT !.acting = t] \in PageRecord
      /\ [pg EXCEPT !.acting = t].acting = t
      /\ [pg EXCEPT !.acting = t].mount = pg.mount
      /\ [pg EXCEPT !.acting = t].loading = pg.loading
  BY <1>3 DEF PageRecord
<1>5. /\ [pg EXCEPT !.loading = TRUE] \in PageRecord
      /\ [pg EXCEPT !.loading = TRUE].loading = TRUE
      /\ [pg EXCEPT !.loading = TRUE].mount = pg.mount
      /\ [pg EXCEPT !.loading = TRUE].acting = pg.acting
  BY DEF PageRecord
<1>6. CASE IsAction(call)
  BY <1>2, <1>4, <1>6 DEF Marked, t
<1>7. CASE ~IsAction(call)
  BY <1>2, <1>5, <1>7 DEF Marked
<1> QED
  BY <1>6, <1>7

\* What GoOn does to the page it is shown on and to the call.
LEMMA GoOnCases ==
    ASSUME NEW c \in Slots, NEW next \in CallRecord, NEW pg \in PageRecord, GoOn(c, next, pg)
    PROVE  \E pg2, a :
             /\ calls' = [calls EXCEPT ![c] = a] /\ Set(next, pg2)
             /\ \/ a \in {Null, next} /\ Over(next) /\ Cleared(pg2, pg, next)
                \/ a = next /\ ~Over(next) /\ (Marked(pg2, pg, next) \/ pg2 = pg)
<1> DEFINE a == IF next.step = "done" THEN Null ELSE Kept(next)
           pg2 == CASE next.step = "done" -> Succeeded(pg, next)
                    [] next.step \in {"rejected", "timeout"} -> Caught(pg, next)
                    [] next.step = "load" -> Busy(pg, next)
                    [] OTHER -> pg
<1>1. calls' = [calls EXCEPT ![c] = a] /\ Set(next, pg2)
  BY DEF GoOn
<1>2. CASE Over(next)
  <2>1. a \in {Null, next}
    BY DEF Kept
  <2>2. pg2 \in {Succeeded(pg, next), Caught(pg, next)}
    BY <1>2 DEF Over
  <2> HIDE DEF a, pg2
  <2>3. Cleared(pg2, pg, next)
    BY <2>2, EndedPage
  <2> QED
    BY <1>1, <1>2, <2>1, <2>3
<1>3. CASE ~Over(next)
  <2>1. a = next
    BY <1>3 DEF Kept, Over
  <2>2. pg2 = Busy(pg, next) \/ pg2 = pg
    BY <1>3 DEF Over
  <2> HIDE DEF a, pg2
  <2>3. Marked(pg2, pg, next) \/ pg2 = pg
    BY <2>2, BusyPage
  <2> QED
    BY <1>1, <1>3, <2>1, <2>3
<1> QED
  BY <1>2, <1>3

\* next goes on from the call in slot c.
From(c, next) ==
    /\ next.page = calls[c].page /\ next.mount = calls[c].mount /\ next.op = calls[c].op
    /\ IsAction(calls[c]) => next.stream = calls[c].stream

\* pg is the page of slot c but for what it shows.
Alike(pg, old) ==
    /\ pg \in PageRecord /\ pg.mount = old.mount /\ pg.loading = old.loading
    /\ pg.acting = old.acting

LEMMA GoOnKeeps ==
    ASSUME PagesOK, CallsOK, FlagsOK, NEW c \in Slots, calls[c] # Null, ~Over(calls[c]),
           NEW next, Fine(next), From(c, next), NEW pg, Alike(pg, PageOf(c)), GoOn(c, next, pg)
    PROVE  PagesOK' /\ CallsOK' /\ FlagsOK'
<1> DEFINE page == calls[c].page
           old == pages[page]
<1>1. /\ Fine(calls[c]) /\ page \in DOMAIN pages /\ next.page = page /\ next \in CallRecord
      /\ old \in PageRecord /\ pg \in PageRecord
  BY DEF CallsOK, PagesOK, From, Fine, Alike
<1>2. PICK pg2, a :
             /\ calls' = [calls EXCEPT ![c] = a] /\ Set(next, pg2)
             /\ \/ a \in {Null, next} /\ Over(next) /\ Cleared(pg2, pg, next)
                \/ a = next /\ ~Over(next) /\ (Marked(pg2, pg, next) \/ pg2 = pg)
  BY <1>1, GoOnCases
<1>3. a # Null => Fine(a) /\ a.page \in DOMAIN pages
  BY <1>1, <1>2
<1>4. /\ pg2 \in PageRecord /\ pg2.mount = old.mount
  BY <1>1, <1>2 DEF Cleared, Marked, Alike, PageOf
<1> DEFINE new == IF old.mount = next.mount THEN pg2 ELSE old
<1>5. pages' = [pages EXCEPT ![page] = new]
  BY <1>1, <1>2 DEF Set, PagesOK
<1>6. new \in PageRecord /\ new.mount = old.mount
  BY <1>1, <1>4
<1>7. PagesOK' /\ DOMAIN pages' = DOMAIN pages
  <2> HIDE DEF new, page, old
  <2> QED
    BY <1>1, <1>5, <1>6, PageChanged
<1>8. /\ CallsOK' /\ calls'[c] = a /\ \A d \in Slots : d # c => calls'[d] = calls[d]
  <2> HIDE DEF new, page, old
  <2> QED
    BY <1>2, <1>3, <1>7, CallChanged
<1>9. IsAction(next) <=> IsAction(calls[c])
  BY DEF From, IsAction
<1>10. next # Null
  BY <1>1, DemoAssumption
<1>11. ~Over(next) => Carries(calls[c], next)
  BY <1>10 DEF Carries, From
<1>12. \A d \in Slots : d # c /\ calls[d] # Null /\ ~Over(calls[d]) => Carries(calls[d], calls'[d])
  BY <1>8, CarriesItself
<1>13. Held(calls', page, new)
  <2> DEFINE cs == calls
             cs2 == calls'
  <2>1. Held(cs, page, old) /\ new.mount = old.mount
    BY <1>1, <1>6 DEF FlagsOK
  <2>2. \A d \in Slots : Loads(cs[d], page, old) \/ Acts(cs[d], page, old)
                            => d = c \/ Carries(cs[d], cs2[d])
    BY <1>12 DEF Loads, Acts, Under
  <2>3. CASE old.mount # next.mount
    <3>1. new = old /\ ~Loads(cs[c], page, old) /\ ~Acts(cs[c], page, old)
      BY <2>3 DEF Loads, Acts, Under, From
    <3> HIDE DEF cs, cs2, new, old, page
    <3> QED
      BY <2>1, <2>2, <3>1, HeldStays DEF cs2
  <2>4. CASE old.mount = next.mount /\ Over(next)
    <3>1. new = pg2 /\ Cleared(new, pg, next)
      BY <1>2, <2>4
    <3>2. IF IsAction(cs[c]) THEN new.acting = Null /\ new.loading = old.loading
          ELSE new.loading = FALSE /\ new.acting = old.acting
      BY <1>9, <3>1 DEF Cleared, Alike, PageOf
    <3>3. /\ Loads(cs[c], page, old) => ~IsAction(cs[c])
          /\ Acts(cs[c], page, old) => IsAction(cs[c])
      BY DEF Loads, Acts
    <3> HIDE DEF cs, cs2, new, old, page
    <3>4. (new.loading => old.loading) /\ (new.acting # Null => new.acting = old.acting)
      BY <3>2
    <3>5. \A d \in Slots : Loads(cs[d], page, old) => Carries(cs[d], cs2[d]) \/ ~new.loading
      BY <2>2, <3>2, <3>3
    <3>6. \A d \in Slots : Acts(cs[d], page, old) => Carries(cs[d], cs2[d]) \/ new.acting = Null
      BY <2>2, <3>2, <3>3
    <3>7. Held(cs2, page, new)
      BY <2>1, <3>4, <3>5, <3>6, HeldStays
    <3> QED
      BY <3>7 DEF cs2
  <2>5. CASE old.mount = next.mount /\ ~Over(next)
    <3>1. new = pg2 /\ (Marked(new, pg, next) \/ new = pg) /\ cs2[c] = next
      BY <1>2, <1>8, <2>5
    <3>2. Carries(cs[c], cs2[c])
      BY <1>11, <2>5, <3>1
    <3>3. Under(cs2[c], page, new)
      BY <1>1, <1>6, <1>10, <2>5, <3>1 DEF Under
    <3>4. CASE Marked(new, pg, next) /\ IsAction(next)
      <4>1. new.loading = old.loading /\ Acts(cs2[c], page, new)
        BY <3>1, <3>3, <3>4 DEF Marked, Acts, Alike, PageOf
      <4> HIDE DEF cs, cs2, new, old, page
      <4>2. Held(cs2, page, new)
        BY <2>1, <2>2, <3>2, <4>1, HeldStays
      <4> QED
        BY <4>2 DEF cs2
    <3>5. CASE Marked(new, pg, next) /\ ~IsAction(next)
      <4>1. new.acting = old.acting /\ Loads(cs2[c], page, new)
        BY <3>1, <3>3, <3>5 DEF Marked, Loads, Alike, PageOf
      <4> HIDE DEF cs, cs2, new, old, page
      <4>2. Held(cs2, page, new)
        BY <2>1, <2>2, <3>2, <4>1, HeldStays
      <4> QED
        BY <4>2 DEF cs2
    <3>6. CASE new = pg
      <4>1. new.acting = old.acting /\ new.loading = old.loading
        BY <3>6 DEF Alike, PageOf
      <4> HIDE DEF cs, cs2, new, old, page
      <4>2. Held(cs2, page, new)
        BY <2>1, <2>2, <3>2, <4>1, HeldStays
      <4> QED
        BY <4>2 DEF cs2
    <3> QED
      BY <3>1, <3>4, <3>5, <3>6
  <2> QED
    BY <2>3, <2>4, <2>5
<1>14. FlagsOK'
  <2>1. \A d \in Slots : calls[d] # Null /\ ~Over(calls[d]) =>
            Carries(calls[d], calls'[d]) \/ calls[d].page = page
    BY <1>12
  <2> HIDE DEF new, page, old
  <2> QED
    BY <1>1, <1>5, <1>13, <2>1, OnePage
<1> QED
  BY <1>7, <1>8, <1>14

\* The flag of the page that a call takes.
Took(pg2, old, call) ==
    /\ pg2.mount = old.mount
    /\ pg2.loading = old.loading \/ ~IsAction(call)
    /\ pg2.acting = old.acting \/ (IsAction(call) /\ pg2.acting = <<call.op, call.stream>>)

\* A call that starts, with its page as pg2.
LEMMA TakeKeeps ==
    ASSUME PagesOK, CallsOK, FlagsOK, NEW page \in DOMAIN pages, NEW call, Fine(call), ~Over(call),
           call.page = page, call.mount = pages[page].mount, Take(call), NEW pg2 \in PageRecord,
           Took(pg2, pages[page], call),
           pages' = [pages EXCEPT ![page] = pg2]
    PROVE  PagesOK' /\ CallsOK' /\ FlagsOK' /\ UNCHANGED <<ledger, pollers>>
<1> DEFINE old == pages[page]
           cs == calls
           cs2 == calls'
<1>1. PICK c \in Free : calls' = [calls EXCEPT ![c] = call]
  BY DEF Take
<1>2. c \in Slots /\ calls[c] = Null /\ UNCHANGED <<ledger, pollers>>
  BY DEF Free, Take
<1>3. PagesOK' /\ DOMAIN pages' = DOMAIN pages
  BY PageChanged
<1>4. CallsOK' /\ calls'[c] = call /\ \A d \in Slots : d # c => calls'[d] = calls[d]
  BY <1>1, <1>2, <1>3, CallChanged
<1>5. \A d \in Slots : calls[d] # Null /\ ~Over(calls[d]) => Carries(calls[d], calls'[d])
  BY <1>2, <1>4, CarriesItself
<1>6. call # Null
  BY DemoAssumption DEF Fine
<1>7. Held(calls', page, pg2)
  <2>1. Held(cs, page, old) /\ pg2.mount = old.mount
    BY DEF FlagsOK, Took
  <2>2. \A d \in Slots : Loads(cs[d], page, old) \/ Acts(cs[d], page, old) => Carries(cs[d], cs2[d])
    BY <1>5 DEF Loads, Acts, Under
  <2>3. Under(cs2[c], page, pg2) /\ cs2[c] = call
    BY <1>4, <1>6 DEF Under, Took
  <2>4. pg2.loading => old.loading \/ Loads(cs2[c], page, pg2)
    BY <2>3 DEF Loads, Took
  <2>5. pg2.acting = old.acting \/ Acts(cs2[c], page, pg2)
    BY <2>3 DEF Acts, Took
  <2> HIDE DEF cs, cs2, old
  <2>6. Held(cs2, page, pg2)
    BY <1>2, <2>1, <2>2, <2>4, <2>5, HeldStays
  <2> QED
    BY <2>6 DEF cs2
<1>8. FlagsOK'
  BY <1>5, <1>7, OnePage
<1> QED
  BY <1>2, <1>3, <1>4, <1>8

\* A page changed while its calls and its flags are left alone.
LEMMA ShownKeeps ==
    ASSUME PagesOK, CallsOK, FlagsOK, NEW page \in DOMAIN pages, NEW pg2 \in PageRecord,
           pg2.mount = pages[page].mount, pg2.loading = pages[page].loading,
           pg2.acting = pages[page].acting,
           pages' = [pages EXCEPT ![page] = pg2], calls' = calls
    PROVE  PagesOK' /\ CallsOK' /\ FlagsOK'
<1> DEFINE old == pages[page]
           cs == calls
<1>1. PagesOK' /\ DOMAIN pages' = DOMAIN pages
  BY PageChanged
<1>2. CallsOK'
  BY <1>1 DEF CallsOK
<1>3. Held(calls', page, pg2)
  <2>1. Held(cs, page, old) /\ pg2.mount = old.mount /\ pg2.loading = old.loading /\ pg2.acting = old.acting
    BY DEF FlagsOK
  <2>2. \A d \in Slots : Loads(cs[d], page, old) \/ Acts(cs[d], page, old) => Carries(cs[d], cs[d])
    BY CarriesItself DEF Loads, Acts, Under
  <2> HIDE DEF cs, old
  <2>3. Held(cs, page, pg2)
    BY <2>1, <2>2, HeldStays
  <2> QED
    BY <2>3 DEF cs
<1>4. FlagsOK'
  BY <1>3, OnePage, CarriesItself
<1> QED
  BY <1>1, <1>2, <1>4

-----------------------------------------------------------------------------
(* Lists of streams, and reads.                                            *)

LEMMA ListsOK ==
    /\ <<>> \in Lists
    /\ \A f \in Lists, id \in 1..MaxStreams, status \in Statuses : With(f, id, status) \in Lists
    /\ \A f \in Lists, status \in Statuses : \A id \in DOMAIN f : [f EXCEPT ![id] = status] \in Lists
<1>1. <<>> \in [{} -> Statuses]
  OBVIOUS
<1>2. <<>> \in Lists
  BY <1>1 DEF Lists
<1>3. ASSUME NEW f \in Lists, NEW id \in 1..MaxStreams, NEW status \in Statuses
      PROVE  With(f, id, status) \in Lists
  <2>1. PICK D \in SUBSET (1..MaxStreams) : f \in [D -> Statuses]
    BY DEF Lists
  <2>2. D \cup {id} \in SUBSET (1..MaxStreams) /\ DOMAIN f = D
    BY <2>1
  <2>3. With(f, id, status) \in [D \cup {id} -> Statuses]
    BY <2>1, <2>2 DEF With
  <2> QED
    BY <2>2, <2>3 DEF Lists
<1>4. ASSUME NEW f \in Lists, NEW status \in Statuses, NEW id \in DOMAIN f
      PROVE  [f EXCEPT ![id] = status] \in Lists
  <2>1. PICK D \in SUBSET (1..MaxStreams) : f \in [D -> Statuses]
    BY DEF Lists
  <2>2. [f EXCEPT ![id] = status] \in [D -> Statuses]
    BY <2>1
  <2> QED
    BY <2>2 DEF Lists
<1> QED
  BY <1>2, <1>3, <1>4

\* A stream that was read.
LEMMA ReadIs ==
    ASSUME LedgerOK, NEW id, NEW stream \in getStream(id), stream # Null
    PROVE  id \in 1..MaxStreams /\ stream.status \in Statuses
<1>1. PICK i \in Ids \cap {id} : stream = ledger[i]
  BY DEF getStream, simulateRead
<1>2. id \in Ids /\ stream = ledger[id]
  BY <1>1
<1>3. stream \in StreamRecord /\ id \in 1..MaxStreams
  BY <1>2, DemoAssumption DEF LedgerOK, Ids
<1> QED
  BY <1>3 DEF StreamRecord

\* A page that shows another list.
LEMMA ShowsAlike ==
    ASSUME NEW old \in PageRecord, NEW f \in Lists
    PROVE  Alike([old EXCEPT !.shown = f], old) /\ Alike(old, old)
  BY DEF Alike, PageRecord

-----------------------------------------------------------------------------
(* Calls as records.                                                       *)

\* A new call.
LEMMA NewFine ==
    ASSUME PagesOK, NEW page \in DOMAIN pages, NEW op \in CallOps, NEW stream \in Subjects,
           NEW step \in {"wallet", "build", "count", "load"},
           step = "wallet" => op = "connect", step = "count" => op = "scan"
    PROVE  LET a == Call(page, op, step, stream)
           IN  /\ Fine(a) /\ ~Over(a) /\ a.page = page /\ a.op = op /\ a.stream = stream
               /\ a.mount = pages[page].mount /\ a.step = step
<1> DEFINE a == Call(page, op, step, stream)
<1>1. page \in Pages /\ pages[page].mount \in Nat
  BY DEF PagesOK, PageRecord
<1>2. AfterConfirmation(page, op) \in {"refresh", "count", "load", "done"}
  BY DEF AfterConfirmation
<1>3. <<>> \in Lists
  BY ListsOK
<1>4. -LAG - 1 \in Int
  BY SdkAssumption
<1>5. /\ a.page = page /\ a.op = op /\ a.stream = stream /\ a.mount = pages[page].mount
      /\ a.step = step /\ a.then = AfterConfirmation(page, op)
      /\ a.fresh = FALSE /\ a.slow = FALSE /\ a.tx = "none"
  BY DEF Call
<1>6. a \in CallRecord
  <2> DEFINE then == AfterConfirmation(page, op)
             mount == pages[page].mount
             l == -LAG - 1
  <2>1. then \in {"refresh", "count", "load", "done"} /\ mount \in Nat /\ l \in Int
    BY <1>1, <1>2, <1>4
  <2>2. a = [page |-> page, mount |-> mount, op |-> op, step |-> step, stream |-> stream,
             then |-> then, rows |-> 1, valid |-> TRUE, found |-> <<>>, low |-> 0,
             fresh |-> FALSE, left |-> l, slow |-> FALSE, wake |-> 0, polls |-> 0, tx |-> "none"]
    BY DEF Call
  <2> HIDE DEF then, mount, l, a
  <2> QED
    BY <1>1, <1>3, <2>1, <2>2 DEF CallRecord
<1> HIDE DEF a
<1>7. Fine(a) /\ ~Over(a)
  BY <1>5, <1>6 DEF Fine, InOrder, Timely, Over
<1> QED
  BY <1>5, <1>7 DEF a

\* A new call with what its form says.
Filled(a, valid) == [a EXCEPT !.valid = valid]
FilledRows(a, valid, rows) == [a EXCEPT !.valid = valid, !.rows = rows]

LEMMA FormFine ==
    ASSUME NEW a, Fine(a), a.step = "build", NEW rows \in Nat, NEW valid \in BOOLEAN, NEW b,
           b = Filled(a, valid) \/ b = FilledRows(a, valid, rows)
    PROVE  /\ Fine(b) /\ b.page = a.page /\ b.op = a.op /\ b.stream = a.stream
           /\ b.mount = a.mount /\ b.step = a.step
<1>1. a \in CallRecord
  BY DEF Fine
<1>2. /\ b \in CallRecord /\ b.page = a.page /\ b.op = a.op /\ b.stream = a.stream
      /\ b.mount = a.mount /\ b.step = a.step /\ b.then = a.then /\ b.fresh = a.fresh
      /\ b.slow = a.slow /\ b.tx = a.tx /\ b.left = a.left
  BY <1>1 DEF CallRecord, Filled, FilledRows
<1>3. Fine(b)
  BY <1>2 DEF Fine, InOrder, Timely
<1> QED
  BY <1>2, <1>3

\* A call that was rejected.
LEMMA RejectedFine ==
    ASSUME NEW a, Fine(a)
    PROVE  LET b == Rejected(a)
           IN  Fine(b) /\ b.page = a.page /\ b.mount = a.mount /\ b.op = a.op /\ b.stream = a.stream
<1> DEFINE b == Rejected(a)
<1>1. a \in CallRecord
  BY DEF Fine
<1>2. /\ b \in CallRecord /\ b.page = a.page /\ b.op = a.op /\ b.stream = a.stream
      /\ b.mount = a.mount /\ b.step = "rejected" /\ b.then = a.then /\ b.fresh = a.fresh
      /\ b.slow = FALSE /\ b.tx = a.tx /\ b.left = a.left
  BY <1>1 DEF CallRecord, Rejected
<1> HIDE DEF b
<1>3. Fine(b)
  BY <1>2 DEF Fine, InOrder, Timely
<1> QED
  BY <1>2, <1>3 DEF b

\* A transaction that no ledger will take.
LEMMA SpentFine ==
    ASSUME NEW a \in CallRecord, InOrder(a), NEW tx \in {"none", "success", "failed"},
           a.slow /\ a.step = "timeout" => tx # "success"
    PROVE  LET b == Spent(a, tx)
           IN  /\ Fine(b) /\ b.page = a.page /\ b.mount = a.mount /\ b.op = a.op
               /\ b.stream = a.stream /\ b.step = a.step /\ b.slow = a.slow /\ b.tx = tx
               /\ b.fresh = FALSE
<1> DEFINE b == Spent(a, tx)
           l == -LAG - 1
<1>1. l \in Int
  BY SdkAssumption
<1>0. b = [a EXCEPT !.tx = tx, !.fresh = FALSE, !.left = l]
  BY DEF Spent
<1> HIDE DEF l
<1>2. /\ b \in CallRecord /\ b.page = a.page /\ b.op = a.op /\ b.stream = a.stream
      /\ b.mount = a.mount /\ b.step = a.step /\ b.then = a.then /\ b.fresh = FALSE
      /\ b.slow = a.slow /\ b.tx = tx
  BY <1>0, <1>1 DEF CallRecord
<1> HIDE DEF b
<1>3. Fine(b)
  BY <1>2 DEF Fine, InOrder, Timely
<1> QED
  BY <1>2, <1>3 DEF b

\* A call that goes to another await, which is not one of a transaction; in a
\* scan, with another stream to look at.
To(a, step) == [a EXCEPT !.step = step]
ToStream(a, step, stream) == [a EXCEPT !.step = step, !.stream = stream]
ToScan(a, step, stream, low) == [a EXCEPT !.step = step, !.stream = stream, !.low = low]

LEMMA SteppedFine ==
    ASSUME NEW a, Fine(a), NEW step \in {"done", "get", "claimable", "load", "earned", "rejected"},
           NEW stream \in Subjects, NEW low \in Nat, NEW b,
           step \in {"get", "claimable"} => a.op = "scan" /\ stream \in Nat,
           \/ b = To(a, step) /\ stream = a.stream
           \/ b = ToStream(a, step, stream)
           \/ b = ToScan(a, step, stream, low)
    PROVE  /\ Fine(b) /\ b.page = a.page /\ b.mount = a.mount /\ b.op = a.op
           /\ b.stream = stream /\ b.step = step
<1>1. a \in CallRecord
  BY DEF Fine
<1>2. /\ b \in CallRecord /\ b.page = a.page /\ b.op = a.op /\ b.stream = stream
      /\ b.mount = a.mount /\ b.step = step /\ b.then = a.then /\ b.fresh = a.fresh
      /\ b.slow = a.slow /\ b.tx = a.tx /\ b.left = a.left
  <2>1. CASE b = To(a, step) /\ stream = a.stream
    BY <1>1, <2>1 DEF CallRecord, To
  <2>2. CASE b = ToStream(a, step, stream)
    BY <1>1, <2>2 DEF CallRecord, ToStream
  <2>3. CASE b = ToScan(a, step, stream, low)
    BY <1>1, <2>3 DEF CallRecord, ToScan
  <2> QED
    BY <2>1, <2>2, <2>3
<1>3. Fine(b)
  BY <1>2 DEF Fine, InOrder, Timely
<1> QED
  BY <1>2, <1>3

-----------------------------------------------------------------------------
(* The awaits of a transaction.                                            *)

\* The call of a slot that awaits something.
LEMMA Awaits ==
    ASSUME UiOK, NEW c \in Slots, NEW step, At(c, step), step \notin {"done", "rejected", "timeout"}
    PROVE  /\ calls[c] # Null /\ ~Over(calls[c]) /\ Fine(calls[c]) /\ calls[c] \in CallRecord
           /\ InOrder(calls[c]) /\ Timely(calls[c]) /\ calls[c].step = step
           /\ calls[c].page \in DOMAIN pages /\ PageOf(c) \in PageRecord /\ Alike(PageOf(c), PageOf(c))
           /\ PagesOK /\ CallsOK /\ FlagsOK
<1>1. calls[c] # Null /\ calls[c].step = step /\ Fine(calls[c]) /\ calls[c].page \in DOMAIN pages
  BY DEF At, UiOK, CallsOK
<1>2. PageOf(c) \in PageRecord
  BY <1>1 DEF PageOf, UiOK, PagesOK
<1> QED
  BY <1>1, <1>2 DEF Over, Fine, Alike, UiOK

\* What buildTx settles to.
LEMMA BuildFine ==
    ASSUME NEW a, Fine(a), NEW b \in build(a)
    PROVE  Fine(b) /\ b.page = a.page /\ b.mount = a.mount /\ b.op = a.op /\ b.stream = a.stream
<1>1. CASE b = Rejected(a)
  BY <1>1, RejectedFine
<1>2. CASE b = [a EXCEPT !.step = "sign", !.fresh = TRUE, !.left = TIMEOUT]
  <2>1. a \in CallRecord /\ TIMEOUT \in Int
    BY SdkAssumption DEF Fine
  <2>2. /\ b \in CallRecord /\ b.page = a.page /\ b.op = a.op /\ b.stream = a.stream
        /\ b.mount = a.mount /\ b.step = "sign" /\ b.then = a.then /\ b.fresh = TRUE
        /\ b.left = TIMEOUT
    BY <1>2, <2>1 DEF CallRecord
  <2>3. TIMEOUT >= -LAG
    BY SdkAssumption
  <2> QED
    BY <2>2, <2>3 DEF Fine, InOrder, Timely
<1> QED
  BY <1>1, <1>2 DEF build

\* What the signature and sendTransaction settle to: a transaction that was
\* signed slowly runs out of time before its polls do.
LEMMA SignFine ==
    ASSUME NEW a, Fine(a), a.step = "sign", NEW b \in signAndSend(a)
    PROVE  Fine(b) /\ b.page = a.page /\ b.mount = a.mount /\ b.op = a.op /\ b.stream = a.stream
<1> DEFINE polling == [a EXCEPT !.step = "poll", !.polls = 1, !.wake = INTERVAL]
           slow == TIMEOUT - a.left > LAG
<1>1. /\ a \in CallRecord /\ InOrder(a) /\ Timely(a) /\ INTERVAL \in Nat /\ POLLS \in Nat /\ LAG \in Nat
      /\ TIMEOUT \in Nat /\ a.left \in Int /\ POLLS * INTERVAL >= TIMEOUT
  BY SdkAssumption DEF Fine, CallRecord
<1>2. /\ polling \in CallRecord /\ polling.page = a.page /\ polling.op = a.op /\ polling.stream = a.stream
      /\ polling.mount = a.mount /\ polling.step = "poll" /\ polling.then = a.then
      /\ polling.fresh = a.fresh /\ polling.left = a.left /\ polling.polls = 1 /\ polling.wake = INTERVAL
  BY <1>1 DEF CallRecord
<1>3. \/ b = Rejected(Spent(a, "none"))
      \/ b = Spent(polling, "none")
      \/ a.fresh /\ b = Rejected([a EXCEPT !.tx = "pending"])
      \/ a.fresh /\ b = [polling EXCEPT !.tx = "pending", !.slow = slow]
  BY DEF signAndSend
<1>4. slow \in BOOLEAN /\ (slow => a.left + LAG < POLLS * INTERVAL)
  BY <1>1
<1> HIDE DEF polling, slow
<1>5. CASE b = Rejected(Spent(a, "none"))
  <2> DEFINE d == Spent(a, "none")
  <2>1. Fine(d) /\ d.page = a.page /\ d.mount = a.mount /\ d.op = a.op /\ d.stream = a.stream
    BY <1>1, SpentFine
  <2> HIDE DEF d
  <2>2. b = Rejected(d)
    BY <1>5 DEF d
  <2> QED
    BY <2>1, <2>2, RejectedFine
<1>6. CASE b = Spent(polling, "none")
  <2>1. InOrder(polling)
    BY <1>1, <1>2 DEF InOrder
  <2> QED
    BY <1>2, <1>6, <2>1, SpentFine
<1>7. CASE a.fresh /\ b = Rejected([a EXCEPT !.tx = "pending"])
  <2> DEFINE d == [a EXCEPT !.tx = "pending"]
  <2>1. /\ d \in CallRecord /\ d.page = a.page /\ d.op = a.op /\ d.stream = a.stream
        /\ d.mount = a.mount /\ d.step = a.step /\ d.then = a.then /\ d.fresh = a.fresh
        /\ d.left = a.left
    BY <1>1 DEF CallRecord
  <2> HIDE DEF d
  <2>2. Fine(d)
    BY <1>1, <1>7, <2>1 DEF Fine, InOrder, Timely
  <2>3. b = Rejected(d)
    BY <1>7 DEF d
  <2> QED
    BY <2>1, <2>2, <2>3, RejectedFine
<1>8. CASE a.fresh /\ b = [polling EXCEPT !.tx = "pending", !.slow = slow]
  <2>1. /\ b \in CallRecord /\ b.page = a.page /\ b.op = a.op /\ b.stream = a.stream
        /\ b.mount = a.mount /\ b.step = "poll" /\ b.then = a.then /\ b.fresh = a.fresh
        /\ b.left = a.left /\ b.polls = 1 /\ b.wake = INTERVAL /\ b.slow = slow /\ b.tx = "pending"
    BY <1>2, <1>4, <1>8 DEF CallRecord
  <2>2. (POLLS - 1) * INTERVAL + INTERVAL = POLLS * INTERVAL
    BY <1>1
  <2>3. slow => b.left + LAG < Rest(b)
    BY <1>4, <2>1, <2>2 DEF Rest
  <2>4. Timely(b)
    BY <1>1, <1>8, <2>1, <2>3 DEF Timely
  <2>5. InOrder(b)
    BY <1>1, <2>1 DEF InOrder
  <2> QED
    BY <2>1, <2>4, <2>5 DEF Fine
<1> QED
  BY <1>3, <1>5, <1>6, <1>7, <1>8

\* What a poll settles to: the last one finds no transaction of a slow signature
\* that is still to be included.
LEMMA PollFine ==
    ASSUME NEW a, Fine(a), a.step = "poll", a.wake = 0, NEW b \in getTransaction(a)
    PROVE  Fine(b) /\ b.page = a.page /\ b.mount = a.mount /\ b.op = a.op /\ b.stream = a.stream
<1>1. /\ a \in CallRecord /\ InOrder(a) /\ Timely(a) /\ INTERVAL \in Nat /\ POLLS \in Nat /\ LAG \in Nat
      /\ a.left \in Int /\ a.polls \in Nat
  BY SdkAssumption DEF Fine, CallRecord
<1>2. \/ b = Rejected(a)
      \/ a.tx = "success" /\ b = [a EXCEPT !.step = a.then, !.polls = 0, !.slow = FALSE]
      \/ a.tx \notin {"success", "failed"} /\ GivenUp(a.polls) /\ b = [a EXCEPT !.step = "timeout"]
      \/ a.tx \notin {"success", "failed"} /\ ~GivenUp(a.polls)
           /\ b = [a EXCEPT !.polls = @ + 1, !.wake = INTERVAL]
  BY DEF getTransaction
<1>3. CASE b = Rejected(a)
  BY <1>3, RejectedFine
<1>4. CASE a.tx = "success" /\ b = [a EXCEPT !.step = a.then, !.polls = 0, !.slow = FALSE]
  <2>0. a.then \in {"refresh", "count", "load", "done"}
    BY <1>1 DEF CallRecord
  <2>1. /\ b \in CallRecord /\ b.page = a.page /\ b.op = a.op /\ b.stream = a.stream
        /\ b.mount = a.mount /\ b.step = a.then /\ b.then = a.then /\ b.fresh = a.fresh
        /\ b.left = a.left /\ b.slow = FALSE /\ b.tx = "success"
    BY <1>1, <1>4, <2>0 DEF CallRecord
  <2>2. a.then = "count" => a.page \notin Dashboards
    <3>1. \A page, op : page \in Dashboards => AfterConfirmation(page, op) = "refresh"
      BY DEF AfterConfirmation
    <3> QED
      BY <1>1, <3>1 DEF InOrder
  <2>3. InOrder(b)
    BY <1>1, <2>0, <2>1, <2>2 DEF InOrder
  <2>4. Timely(b)
    BY <1>1, <2>1 DEF Timely
  <2> QED
    BY <2>1, <2>3, <2>4 DEF Fine
<1>5. CASE a.tx \notin {"success", "failed"} /\ GivenUp(a.polls) /\ b = [a EXCEPT !.step = "timeout"]
  <2>1. /\ b \in CallRecord /\ b.page = a.page /\ b.op = a.op /\ b.stream = a.stream
        /\ b.mount = a.mount /\ b.step = "timeout" /\ b.then = a.then /\ b.fresh = a.fresh
        /\ b.left = a.left /\ b.slow = a.slow /\ b.tx = a.tx
    BY <1>1, <1>5 DEF CallRecord
  <2>2. Rest(a) <= 0
    <3>1. a.polls >= POLLS
      BY <1>5 DEF GivenUp
    <3>2. \A n \in Nat : n >= POLLS => (POLLS - n) * INTERVAL + 0 <= 0
      BY <1>1
    <3> QED
      BY <1>1, <3>1, <3>2 DEF Rest
  <2>3. ~(a.slow /\ a.tx = "pending")
    <3>1. SUFFICES ASSUME a.slow, a.tx = "pending" PROVE FALSE
      OBVIOUS
    <3>2. a.left + LAG < Rest(a) /\ a.left >= -LAG
      BY <1>1, <3>1 DEF Timely
    <3>3. Rest(a) \in Int
      BY <1>1 DEF Rest
    <3> QED
      BY <1>1, <2>2, <3>2, <3>3
  <2>4. InOrder(b)
    BY <1>1, <2>1 DEF InOrder
  <2>5. Timely(b)
    BY <1>1, <1>5, <2>1, <2>3 DEF Timely
  <2> QED
    BY <2>1, <2>4, <2>5 DEF Fine
<1>6. CASE /\ a.tx \notin {"success", "failed"} /\ ~GivenUp(a.polls)
           /\ b = [a EXCEPT !.polls = @ + 1, !.wake = INTERVAL]
  <2> DEFINE n == a.polls + 1
  <2>0. n \in Nat /\ b = [a EXCEPT !.polls = n, !.wake = INTERVAL]
    BY <1>1, <1>6 DEF CallRecord
  <2> HIDE DEF n
  <2>1. /\ b \in CallRecord /\ b.page = a.page /\ b.op = a.op /\ b.stream = a.stream
        /\ b.mount = a.mount /\ b.step = a.step /\ b.then = a.then /\ b.fresh = a.fresh
        /\ b.left = a.left /\ b.slow = a.slow /\ b.tx = a.tx
        /\ b.polls = n /\ b.wake = INTERVAL
    BY <1>1, <2>0 DEF CallRecord
  <2>2. Rest(b) = Rest(a)
    <3>1. \A k \in Nat : (POLLS - (k + 1)) * INTERVAL + INTERVAL = (POLLS - k) * INTERVAL + 0
      BY <1>1
    <3> QED
      BY <1>1, <2>1, <3>1 DEF Rest, n
  <2>3. InOrder(b)
    BY <1>1, <2>1 DEF InOrder
  <2>4. Timely(b)
    BY <1>1, <2>1, <2>2 DEF Timely
  <2> QED
    BY <2>1, <2>3, <2>4 DEF Fine
<1> QED
  BY <1>2, <1>3, <1>4, <1>5, <1>6

LEMMA TransactKeeps ==
    ASSUME UiOK, NEW c \in Slots, buildTx(c) \/ submitTransaction(c) \/ poll(c)
    PROVE  UiOK' /\ UNCHANGED <<ledger, pollers>>
<1>1. PICK step, outcomes :
          /\ step \in {"build", "sign", "poll"}
          /\ Transact(c, step, outcomes)
          /\ \/ step = "build" /\ outcomes = build(calls[c])
             \/ step = "sign" /\ outcomes = signAndSend(calls[c])
             \/ step = "poll" /\ outcomes = getTransaction(calls[c]) /\ calls[c].wake = 0
  BY DEF buildTx, submitTransaction, poll
<1>2. At(c, step) /\ UNCHANGED <<ledger, pollers>> /\ step \notin {"done", "rejected", "timeout"}
  BY <1>1 DEF Transact
<1>3. PICK next \in outcomes : GoOn(c, next, PageOf(c))
  BY <1>1 DEF Transact
<1>4. /\ calls[c] # Null /\ ~Over(calls[c]) /\ Fine(calls[c]) /\ calls[c].step = step
      /\ Alike(PageOf(c), PageOf(c)) /\ PagesOK /\ CallsOK /\ FlagsOK
  BY <1>2, Awaits
<1>5. /\ Fine(next) /\ next.page = calls[c].page /\ next.mount = calls[c].mount
      /\ next.op = calls[c].op /\ next.stream = calls[c].stream
  BY <1>1, <1>3, <1>4, BuildFine, SignFine, PollFine
<1>6. From(c, next)
  BY <1>5 DEF From
<1>7. PagesOK' /\ CallsOK' /\ FlagsOK'
  BY <1>3, <1>4, <1>5, <1>6, GoOnKeeps
<1> QED
  BY <1>2, <1>7 DEF UiOK

-----------------------------------------------------------------------------
(* Reads.                                                                  *)

\* A read that goes on, with its page as it was but for what it shows.
LEMMA ReadKeeps ==
    ASSUME UiOK, NEW c \in Slots, NEW step, At(c, step), step \notin {"done", "rejected", "timeout"},
           NEW next, NEW pg, GoOn(c, next, pg), Alike(pg, PageOf(c)), Fine(next),
           next.page = calls[c].page, next.mount = calls[c].mount, next.op = calls[c].op,
           next.stream = calls[c].stream \/ ~IsAction(calls[c])
    PROVE  UiOK'
<1>1. calls[c] # Null /\ ~Over(calls[c]) /\ PagesOK /\ CallsOK /\ FlagsOK
  BY Awaits
<1>2. From(c, next)
  BY DEF From
<1>3. PagesOK' /\ CallsOK' /\ FlagsOK'
  BY <1>1, <1>2, GoOnKeeps
<1> QED
  BY <1>3 DEF UiOK

\* streamCount, which the scan of a dashboard and the form begin from.
LEMMA CountKeeps ==
    ASSUME LedgerOK, UiOK, NEW c \in Slots, countAnswers(c) \/ newCountAnswers(c)
    PROVE  UiOK' /\ UNCHANGED <<ledger, pollers>>
<1> DEFINE a == calls[c]
<1>1. At(c, "count") /\ UNCHANGED <<ledger, pollers>> /\ a.op \in {"scan", "create"}
  BY DEF countAnswers, newCountAnswers
<1>2. /\ Fine(a) /\ a \in CallRecord /\ InOrder(a) /\ a.step = "count"
      /\ PageOf(c) \in PageRecord /\ Alike(PageOf(c), PageOf(c))
  BY <1>1, Awaits
<1>3. ~IsAction(a)
  BY <1>1, <1>2 DEF IsAction, InOrder
<1>4. PICK total, next :
          /\ total \in streamCount
          /\ GoOn(c, next, PageOf(c))
          /\ \/ next = Rejected(a)
             \/ next = [a EXCEPT !.step = "done"]
             \/ /\ a.op = "scan" /\ total \notin {Null, 0}
                /\ next = [a EXCEPT !.step = "get", !.stream = total - 1, !.low = Max({0, total - MAX_SCAN})]
             \/ /\ a.op = "create" /\ total \notin {Null, 0}
                /\ next = [a EXCEPT !.step = "load", !.stream = total - 1]
  <2>1. CASE countAnswers(c)
    <3>1. PICK total \in streamCount :
            GoOn(c, CASE total = Null -> Rejected(a)
                      [] total = 0 -> [a EXCEPT !.step = "done"]
                      [] OTHER -> [a EXCEPT !.step = "get", !.stream = total - 1,
                                            !.low = Max({0, total - MAX_SCAN})],
                 PageOf(c))
      BY <2>1 DEF countAnswers
    <3> DEFINE next == CASE total = Null -> Rejected(a)
                         [] total = 0 -> [a EXCEPT !.step = "done"]
                         [] OTHER -> [a EXCEPT !.step = "get", !.stream = total - 1,
                                               !.low = Max({0, total - MAX_SCAN})]
    <3>2. \/ next = Rejected(a)
          \/ next = [a EXCEPT !.step = "done"]
          \/ /\ total \notin {Null, 0}
             /\ next = [a EXCEPT !.step = "get", !.stream = total - 1, !.low = Max({0, total - MAX_SCAN})]
      OBVIOUS
    <3>3. a.op = "scan" /\ GoOn(c, next, PageOf(c))
      BY <2>1, <3>1 DEF countAnswers
    <3> HIDE DEF next, a
    <3> QED
      BY <3>2, <3>3
  <2>2. CASE newCountAnswers(c)
    <3>1. PICK total \in streamCount :
            GoOn(c, CASE total = Null -> Rejected(a)
                      [] total = 0 -> [a EXCEPT !.step = "done"]
                      [] OTHER -> [a EXCEPT !.step = "load", !.stream = total - 1],
                 PageOf(c))
      BY <2>2 DEF newCountAnswers
    <3> DEFINE next == CASE total = Null -> Rejected(a)
                         [] total = 0 -> [a EXCEPT !.step = "done"]
                         [] OTHER -> [a EXCEPT !.step = "load", !.stream = total - 1]
    <3>2. \/ next = Rejected(a)
          \/ next = [a EXCEPT !.step = "done"]
          \/ total \notin {Null, 0} /\ next = [a EXCEPT !.step = "load", !.stream = total - 1]
      OBVIOUS
    <3>3. a.op = "create" /\ GoOn(c, next, PageOf(c))
      BY <2>2, <3>1 DEF newCountAnswers
    <3> HIDE DEF next, a
    <3> QED
      BY <3>2, <3>3
  <2> QED
    BY <2>1, <2>2
<1>5. total # Null => total \in Nat
  BY <1>4 DEF streamCount, simulateRead, LedgerOK
<1>6. total \notin {Null, 0} => total - 1 \in Nat /\ total - 1 \in Subjects
  BY <1>5 DEF Subjects
<1>7. total # Null => Max({0, total - MAX_SCAN}) \in Nat
  <2> SUFFICES ASSUME total # Null PROVE Max({0, total - MAX_SCAN}) \in Nat
    OBVIOUS
  <2> DEFINE n == total - MAX_SCAN
  <2>1. n \in Int
    BY <1>5, DemoAssumption
  <2> HIDE DEF n
  <2>2. \E x \in {0, n} : \A y \in {0, n} : x >= y
    BY <2>1
  <2>3. Max({0, n}) \in {0, n} /\ \A y \in {0, n} : Max({0, n}) >= y
    BY <2>2 DEF Max
  <2>4. Max({0, n}) >= 0
    BY <2>3
  <2> QED
    BY <2>1, <2>3, <2>4 DEF n
<1> DEFINE m == Max({0, total - MAX_SCAN})
           s == total - 1
<1>8. /\ total \notin {Null, 0} => s \in Nat /\ s \in Subjects /\ m \in Nat
      /\ \/ next = Rejected(a)
         \/ next = To(a, "done")
         \/ a.op = "scan" /\ total \notin {Null, 0} /\ next = ToScan(a, "get", s, m)
         \/ a.op = "create" /\ total \notin {Null, 0} /\ next = ToStream(a, "load", s)
  BY <1>4, <1>6, <1>7 DEF To, ToScan, ToStream
<1>9. a.stream \in Subjects /\ a.low \in Nat
  BY <1>2 DEF CallRecord
<1>10. Fine(next) /\ next.page = a.page /\ next.mount = a.mount /\ next.op = a.op
  <2> HIDE DEF m, s, a
  <2>1. CASE next = Rejected(a)
    BY <1>2, <2>1, RejectedFine
  <2>2. CASE next = To(a, "done")
    BY <1>2, <1>9, <2>2, SteppedFine
  <2>3. CASE a.op = "scan" /\ total \notin {Null, 0} /\ next = ToScan(a, "get", s, m)
    BY <1>2, <1>8, <2>3, SteppedFine
  <2>4. CASE a.op = "create" /\ total \notin {Null, 0} /\ next = ToStream(a, "load", s)
    BY <1>2, <1>8, <1>9, <2>4, SteppedFine
  <2> QED
    BY <1>8, <2>1, <2>2, <2>3, <2>4
<1> QED
  BY <1>1, <1>2, <1>3, <1>4, <1>10, ReadKeeps

\* The next turn of the loop.
LEMMA OnwardFine ==
    ASSUME NEW a, Fine(a), a.op = "scan", a.stream \in Nat
    PROVE  LET b == Onward(a)
           IN  Fine(b) /\ b.page = a.page /\ b.mount = a.mount /\ b.op = a.op
<1> DEFINE b == Onward(a)
           s == a.stream - 1
<1>1. a \in CallRecord /\ a.low \in Nat /\ a.stream \in Subjects
  BY DEF Fine, CallRecord
<1>2. CASE a.stream > a.low
  <2>1. s \in Nat /\ s \in Subjects
    BY <1>1, <1>2 DEF Subjects
  <2>2. b = ToStream(a, "get", s)
    BY <1>1, <1>2 DEF Onward, CallRecord, ToStream
  <2> HIDE DEF b, s
  <2> QED
    BY <1>1, <2>1, <2>2, SteppedFine DEF b
<1>3. CASE ~(a.stream > a.low)
  <2>1. b = To(a, "done")
    BY <1>3 DEF Onward, To
  <2> HIDE DEF b
  <2> QED
    BY <1>1, <2>1, SteppedFine DEF b
<1> QED
  BY <1>2, <1>3

\* A page that shows another list, and one whose list has changed at one stream.
LEMMA ListShown ==
    ASSUME NEW pg \in PageRecord, NEW id, NEW status \in Statuses
    PROVE  Alike([pg EXCEPT !.shown = IF id \in DOMAIN @ THEN [@ EXCEPT ![id] = status] ELSE @], pg)
<1> DEFINE f == IF id \in DOMAIN pg.shown THEN [pg.shown EXCEPT ![id] = status] ELSE pg.shown
<1>1. pg.shown \in Lists
  BY DEF PageRecord
<1>2. f \in Lists
  BY <1>1, ListsOK
<1>3. [pg EXCEPT !.shown = IF id \in DOMAIN @ THEN [@ EXCEPT ![id] = status] ELSE @] = [pg EXCEPT !.shown = f]
  BY DEF PageRecord
<1> HIDE DEF f
<1> QED
  BY <1>2, <1>3, ShowsAlike

LEMMA ClaimableKeeps ==
    ASSUME UiOK, NEW c \in Slots, claimableAnswers(c)
    PROVE  UiOK' /\ UNCHANGED <<ledger, pollers>>
<1>1. At(c, "claimable") /\ GoOn(c, Onward(calls[c]), PageOf(c)) /\ UNCHANGED <<ledger, pollers>>
  BY DEF claimableAnswers
<1>2. /\ Fine(calls[c]) /\ InOrder(calls[c]) /\ calls[c].step = "claimable" /\ Alike(PageOf(c), PageOf(c))
  BY <1>1, Awaits
<1>3. calls[c].op = "scan" /\ calls[c].stream \in Nat /\ ~IsAction(calls[c])
  BY <1>2 DEF InOrder, IsAction
<1> DEFINE a == calls[c]
           next == Onward(a)
<1>4. Fine(next) /\ next.page = a.page /\ next.mount = a.mount /\ next.op = a.op
  BY <1>2, <1>3, OnwardFine
<1>5. GoOn(c, next, PageOf(c))
  BY <1>1
<1> HIDE DEF next
<1> QED
  BY <1>1, <1>2, <1>3, <1>4, <1>5, ReadKeeps

LEMMA EarnedKeeps ==
    ASSUME UiOK, NEW c \in Slots, earnedAnswers(c)
    PROVE  UiOK' /\ UNCHANGED <<ledger, pollers>>
<1> DEFINE a == calls[c]
<1>1. At(c, "earned") /\ UNCHANGED <<ledger, pollers>>
  BY DEF earnedAnswers
<1>2. PICK step \in {"done", "rejected"} : GoOn(c, [a EXCEPT !.step = step], PageOf(c))
  BY DEF earnedAnswers
<1>3. Fine(a) /\ a \in CallRecord /\ Alike(PageOf(c), PageOf(c))
  BY <1>1, Awaits
<1>4. a.stream \in Subjects /\ a.low \in Nat
  BY <1>3 DEF CallRecord
<1> DEFINE next == To(a, step)
<1>5. GoOn(c, next, PageOf(c))
  BY <1>2 DEF To
<1>6. Fine(next) /\ next.page = a.page /\ next.mount = a.mount /\ next.op = a.op /\ next.stream = a.stream
  <2> HIDE DEF a
  <2> QED
    BY <1>3, <1>4, SteppedFine
<1> HIDE DEF next
<1> QED
  BY <1>1, <1>3, <1>5, <1>6, ReadKeeps

LEMMA RefreshKeeps ==
    ASSUME LedgerOK, UiOK, NEW c \in Slots, refreshAnswers(c)
    PROVE  UiOK' /\ UNCHANGED <<ledger, pollers>>
<1> DEFINE a == calls[c]
<1>1. At(c, "refresh") /\ UNCHANGED <<ledger, pollers>>
  BY DEF refreshAnswers
<1>2. PICK stream \in getStream(a.stream) :
        IF stream = Null THEN GoOn(c, Rejected(a), PageOf(c))
        ELSE GoOn(c, [a EXCEPT !.step = IF a.op = "withdraw" THEN "earned" ELSE "done"],
                  [PageOf(c) EXCEPT !.shown =
                      IF a.stream \in DOMAIN @ THEN [@ EXCEPT ![a.stream] = stream.status] ELSE @])
  BY DEF refreshAnswers
<1>3. Fine(a) /\ a \in CallRecord /\ PageOf(c) \in PageRecord /\ Alike(PageOf(c), PageOf(c))
  BY <1>1, Awaits
<1>4. a.stream \in Subjects /\ a.low \in Nat
  BY <1>3 DEF CallRecord
<1>5. CASE stream = Null
  <2> DEFINE next == Rejected(a)
  <2>1. GoOn(c, next, PageOf(c))
    BY <1>2, <1>5
  <2>2. Fine(next) /\ next.page = a.page /\ next.mount = a.mount /\ next.op = a.op /\ next.stream = a.stream
    BY <1>3, RejectedFine
  <2> HIDE DEF next
  <2>3. UiOK'
    BY <1>1, <1>3, <2>1, <2>2, ReadKeeps
  <2> QED
    BY <1>1, <2>3
<1>6. CASE stream # Null
  <2> DEFINE step == IF a.op = "withdraw" THEN "earned" ELSE "done"
             next == To(a, step)
             pg == [PageOf(c) EXCEPT !.shown =
                      IF a.stream \in DOMAIN @ THEN [@ EXCEPT ![a.stream] = stream.status] ELSE @]
  <2>1. GoOn(c, next, pg)
    BY <1>2, <1>6 DEF To
  <2>2. stream.status \in Statuses
    BY <1>6, ReadIs
  <2>3. Alike(pg, PageOf(c))
    BY <1>3, <2>2, ListShown
  <2>4. step \in {"earned", "done"}
    OBVIOUS
  <2> HIDE DEF step
  <2>5. Fine(next) /\ next.page = a.page /\ next.mount = a.mount /\ next.op = a.op /\ next.stream = a.stream
    <3> HIDE DEF a
    <3> QED
      BY <1>3, <1>4, <2>4, SteppedFine
  <2> HIDE DEF next, pg
  <2>6. UiOK'
    BY <1>1, <2>1, <2>3, <2>5, ReadKeeps
  <2> QED
    BY <1>1, <2>6
<1> QED
  BY <1>5, <1>6

\* A scan that has found another stream.
Seen(a, found) == [a EXCEPT !.found = found]

LEMMA SeenFine ==
    ASSUME NEW a, Fine(a), NEW found \in Lists
    PROVE  LET b == Seen(a, found)
           IN  /\ Fine(b) /\ b.page = a.page /\ b.mount = a.mount /\ b.op = a.op
               /\ b.stream = a.stream /\ b.step = a.step
<1> DEFINE b == Seen(a, found)
<1>1. a \in CallRecord
  BY DEF Fine
<1>2. /\ b \in CallRecord /\ b.page = a.page /\ b.op = a.op /\ b.stream = a.stream
      /\ b.mount = a.mount /\ b.step = a.step /\ b.then = a.then /\ b.fresh = a.fresh
      /\ b.slow = a.slow /\ b.tx = a.tx /\ b.left = a.left /\ b.wake = a.wake /\ b.polls = a.polls
  BY <1>1 DEF CallRecord, Seen
<1> HIDE DEF b
<1>3. Rest(b) = Rest(a)
  BY <1>2 DEF Rest
<1>4. Fine(b)
  BY <1>2, <1>3 DEF Fine, InOrder, Timely
<1> QED
  BY <1>2, <1>4 DEF b

LEMMA GetKeeps ==
    ASSUME LedgerOK, UiOK, NEW c \in Slots, getAnswers(c)
    PROVE  UiOK' /\ ledger' = ledger /\ pollers' \in {pollers, pollers \cup Poller(calls[c])}
<1> DEFINE a == calls[c]
<1>1. At(c, "get") /\ ledger' = ledger
  BY DEF getAnswers
<1>2. PICK stream \in getStream(a.stream) :
        IF stream = Null \/ Role(a.page, stream) # Me
        THEN GoOn(c, Onward(a), PageOf(c)) /\ UNCHANGED pollers
        ELSE LET found == With(a.found, a.stream, stream.status)
                 seen == [a EXCEPT !.found = found]
                 watches == a.page = "employee"
             IN  /\ GoOn(c, IF watches /\ stream.status # "Active" THEN [seen EXCEPT !.step = "claimable"]
                            ELSE Onward(seen),
                         [PageOf(c) EXCEPT !.shown = found])
                 /\ pollers' = IF watches /\ stream.status = "Active" THEN pollers \cup Poller(a) ELSE pollers
  BY DEF getAnswers
<1>3. /\ Fine(a) /\ a \in CallRecord /\ InOrder(a) /\ a.step = "get"
      /\ PageOf(c) \in PageRecord /\ Alike(PageOf(c), PageOf(c))
  BY <1>1, Awaits
<1>4. a.op = "scan" /\ a.stream \in Nat /\ ~IsAction(a) /\ a.stream \in Subjects /\ a.low \in Nat
      /\ a.found \in Lists
  BY <1>3 DEF InOrder, IsAction, CallRecord
<1>5. CASE stream = Null \/ Role(a.page, stream) # Me
  <2> DEFINE next == Onward(a)
  <2>1. GoOn(c, next, PageOf(c)) /\ UNCHANGED pollers
    BY <1>2, <1>5
  <2>2. Fine(next) /\ next.page = a.page /\ next.mount = a.mount /\ next.op = a.op
    BY <1>3, <1>4, OnwardFine
  <2> HIDE DEF next
  <2>3. UiOK'
    BY <1>1, <1>3, <1>4, <2>1, <2>2, ReadKeeps
  <2> QED
    BY <1>1, <2>1, <2>3
<1>6. CASE ~(stream = Null \/ Role(a.page, stream) # Me)
  <2> DEFINE found == With(a.found, a.stream, stream.status)
             seen == Seen(a, found)
             watched == a.page = "employee" /\ stream.status # "Active"
             next == IF watched THEN To(seen, "claimable") ELSE Onward(seen)
             pg == [PageOf(c) EXCEPT !.shown = found]
  <2>1. GoOn(c, next, pg) /\ pollers' \in {pollers, pollers \cup Poller(a)}
    BY <1>2, <1>6 DEF Seen, To
  <2>2. stream.status \in Statuses /\ a.stream \in 1..MaxStreams
    BY <1>6, ReadIs
  <2>3. found \in Lists
    BY <1>4, <2>2, ListsOK
  <2> HIDE DEF found
  <2>4. Alike(pg, PageOf(c))
    BY <1>3, <2>3, ShowsAlike
  <2>5. /\ Fine(seen) /\ seen.page = a.page /\ seen.mount = a.mount /\ seen.op = a.op
        /\ seen.stream = a.stream
    BY <1>3, <2>3, SeenFine
  <2>6. seen.low \in Nat
    BY <2>5 DEF Fine, CallRecord
  <2> HIDE DEF seen, watched
  <2>7. Fine(next) /\ next.page = a.page /\ next.mount = a.mount /\ next.op = a.op
    <3> HIDE DEF a
    <3>1. CASE watched
      BY <1>4, <2>5, <2>6, <3>1, SteppedFine
    <3>2. CASE ~watched
      BY <1>4, <2>5, <3>2, OnwardFine
    <3> QED
      BY <3>1, <3>2
  <2> HIDE DEF next, pg
  <2>8. UiOK'
    BY <1>1, <1>4, <2>1, <2>4, <2>7, ReadKeeps
  <2> QED
    BY <1>1, <2>1, <2>8
<1> QED
  BY <1>5, <1>6

LEMMA LoadKeeps ==
    ASSUME LedgerOK, UiOK, NEW c \in Slots, loadAnswers(c)
    PROVE  UiOK' /\ ledger' = ledger /\ pollers' \in {pollers, pollers \cup Poller(calls[c])}
<1> DEFINE a == calls[c]
<1>1. At(c, "load") /\ ledger' = ledger
  BY DEF loadAnswers
<1>2. PICK stream \in getStream(a.stream) :
        IF stream = Null THEN GoOn(c, Rejected(a), PageOf(c)) /\ UNCHANGED pollers
        ELSE /\ GoOn(c, [a EXCEPT !.step = "done"],
                     [PageOf(c) EXCEPT !.shown = With(@, a.stream, stream.status)])
             /\ pollers' = pollers \cup Poller(a)
  BY DEF loadAnswers
<1>3. Fine(a) /\ a \in CallRecord /\ PageOf(c) \in PageRecord /\ Alike(PageOf(c), PageOf(c))
  BY <1>1, Awaits
<1>4. a.stream \in Subjects /\ a.low \in Nat
  BY <1>3 DEF CallRecord
<1>5. CASE stream = Null
  <2> DEFINE next == Rejected(a)
  <2>1. GoOn(c, next, PageOf(c)) /\ UNCHANGED pollers
    BY <1>2, <1>5
  <2>2. Fine(next) /\ next.page = a.page /\ next.mount = a.mount /\ next.op = a.op /\ next.stream = a.stream
    BY <1>3, RejectedFine
  <2> HIDE DEF next
  <2>3. UiOK'
    BY <1>1, <1>3, <2>1, <2>2, ReadKeeps
  <2> QED
    BY <1>1, <2>1, <2>3
<1>6. CASE stream # Null
  <2> DEFINE next == To(a, "done")
             found == With(PageOf(c).shown, a.stream, stream.status)
             pg == [PageOf(c) EXCEPT !.shown = found]
  <2>1. PageOf(c).shown \in Lists
    BY <1>3 DEF PageRecord
  <2>2. stream.status \in Statuses /\ a.stream \in 1..MaxStreams
    BY <1>6, ReadIs
  <2>3. found \in Lists
    BY <2>1, <2>2, ListsOK
  <2>4. GoOn(c, next, pg) /\ pollers' = pollers \cup Poller(a)
    BY <1>2, <1>3, <1>6 DEF To, PageRecord
  <2> HIDE DEF found
  <2>5. Alike(pg, PageOf(c))
    BY <1>3, <2>3, ShowsAlike
  <2>6. Fine(next) /\ next.page = a.page /\ next.mount = a.mount /\ next.op = a.op /\ next.stream = a.stream
    <3> HIDE DEF a
    <3> QED
      BY <1>3, <1>4, SteppedFine
  <2> HIDE DEF next, pg
  <2>7. UiOK'
    BY <1>1, <2>4, <2>5, <2>6, ReadKeeps
  <2> QED
    BY <1>1, <2>4, <2>7
<1> QED
  BY <1>5, <1>6

-----------------------------------------------------------------------------
(* Connecting, and panels mounted again.                                   *)

\* A scan takes the place of the call in slot c, which held no action's flag.
LEMMA ScanKeeps ==
    ASSUME UiOK, NEW c \in Slots, NEW page \in DOMAIN pages, NEW call, Fine(call), ~Over(call),
           call.op = "scan", call.page = page, NEW pg2 \in PageRecord, call.mount = pg2.mount,
           pages' = [pages EXCEPT ![page] = pg2],
           calls' = [calls EXCEPT ![c] = call],
           calls[c] = Null \/ (calls[c].page = page /\ ~IsAction(calls[c])),
           pg2.acting = Null \/ (pg2.acting = pages[page].acting /\ pg2.mount = pages[page].mount)
    PROVE  UiOK'
<1> DEFINE old == pages[page]
           cs == calls
           cs2 == calls'
<1>0. PagesOK /\ CallsOK /\ FlagsOK
  BY DEF UiOK
<1>1. PagesOK' /\ DOMAIN pages' = DOMAIN pages
  BY <1>0, PageChanged
<1>2. CallsOK' /\ calls'[c] = call /\ \A d \in Slots : d # c => calls'[d] = calls[d]
  BY <1>0, <1>1, CallChanged
<1>3. call # Null
  BY DemoAssumption DEF Fine
<1>4. Held(calls', page, pg2)
  <2>1. Held(cs, page, old)
    BY <1>0 DEF FlagsOK
  <2>2. Loads(cs2[c], page, pg2)
    BY <1>2, <1>3 DEF Loads, Under, IsAction
  <2>3. \A d \in Slots : Acts(cs[d], page, old) => cs2[d] = cs[d]
    BY <1>2 DEF Acts, Under
  <2>4. pg2.acting # Null => \E d \in Slots : Acts(cs2[d], page, pg2)
    <3> SUFFICES ASSUME pg2.acting # Null PROVE \E d \in Slots : Acts(cs2[d], page, pg2)
      OBVIOUS
    <3>1. pg2.acting = old.acting /\ pg2.mount = old.mount
      OBVIOUS
    <3>2. PICK d \in Slots : Acts(cs[d], page, old)
      BY <2>1, <3>1 DEF Held
    <3>3. cs2[d] = cs[d]
      BY <2>3, <3>2
    <3> HIDE DEF cs, cs2, old
    <3>4. Acts(cs2[d], page, pg2)
      BY <3>1, <3>2, <3>3 DEF Acts, Under
    <3> QED
      BY <3>4
  <2> QED
    BY <2>2, <2>4 DEF Held
<1>5. \A d \in Slots : calls[d] # Null /\ ~Over(calls[d]) =>
          Carries(calls[d], calls'[d]) \/ calls[d].page = page
  BY <1>2, CarriesItself
<1>6. FlagsOK'
  BY <1>0, <1>4, <1>5, OnePage
<1> QED
  BY <1>1, <1>2, <1>6 DEF UiOK

\* The pages of a connection.
LEMMA ConnectPages ==
    ASSUME NEW old \in PageRecord
    PROVE  /\ Alike([old EXCEPT !.connected = TRUE], old)
           /\ LET pg == Scanning(old) IN
              /\ pg \in PageRecord /\ pg.loading = TRUE /\ pg.mount = old.mount
              /\ pg.acting = old.acting
<1>1. Null \in Subjects /\ <<>> \in Lists
  BY ListsOK DEF Subjects
<1>2. Alike([old EXCEPT !.connected = TRUE], old)
  BY <1>1 DEF Alike, PageRecord
<1> DEFINE e == <<>>
<1>3. e \in Lists /\ Scanning(old) = [old EXCEPT !.loading = TRUE, !.shown = e]
  BY <1>1 DEF Scanning
<1> HIDE DEF e
<1>4. LET pg == Scanning(old) IN
      /\ pg \in PageRecord /\ pg.loading = TRUE /\ pg.mount = old.mount
      /\ pg.acting = old.acting
  BY <1>3 DEF PageRecord
<1> QED
  BY <1>2, <1>4

LEMMA ConnectKeeps ==
    ASSUME UiOK, NEW c \in Slots, connectAnswers(c)
    PROVE  UiOK' /\ UNCHANGED <<ledger, pollers>>
<1> DEFINE a == calls[c]
           page == a.page
           old == pages[page]
           keyed == [old EXCEPT !.connected = TRUE]
<1>1. At(c, "wallet") /\ UNCHANGED <<ledger, pollers>>
  BY DEF connectAnswers
<1>2. /\ Fine(a) /\ a \in CallRecord /\ InOrder(a) /\ a.step = "wallet" /\ page \in DOMAIN pages
      /\ old \in PageRecord /\ PagesOK /\ CallsOK
  BY <1>1, Awaits DEF PageOf
<1>3. a.op = "connect" /\ ~IsAction(a) /\ a.stream \in Subjects /\ a.low \in Nat
  BY <1>2 DEF InOrder, IsAction, CallRecord
<1>4. Alike(old, old) /\ PageOf(c) = old
  BY <1>2 DEF Alike, PageOf
<1>5. Alike(keyed, old) /\ keyed \in PageRecord
  <2> HIDE DEF old
  <2>1. Alike(keyed, old)
    BY <1>2, ConnectPages
  <2> QED
    BY <2>1 DEF Alike
<1>6. \/ GoOn(c, Rejected(a), old)
      \/ /\ page \in Dashboards /\ a.mount = old.mount
         /\ calls' = [calls EXCEPT ![c] = Scan(page)] /\ Set(a, Scanning(keyed))
      \/ GoOn(c, To(a, "done"), keyed)
  BY <1>4 DEF connectAnswers, To
<1>7. CASE GoOn(c, Rejected(a), old)
  <2> DEFINE next == Rejected(a)
  <2>1. Fine(next) /\ next.page = a.page /\ next.mount = a.mount /\ next.op = a.op /\ next.stream = a.stream
    BY <1>2, RejectedFine
  <2>2. GoOn(c, next, old) /\ Alike(old, PageOf(c))
    BY <1>4, <1>7
  <2> HIDE DEF next, old
  <2>3. UiOK'
    BY <1>1, <2>1, <2>2, ReadKeeps
  <2> QED
    BY <1>1, <2>3
<1>8. CASE /\ page \in Dashboards /\ a.mount = old.mount
           /\ calls' = [calls EXCEPT ![c] = Scan(page)] /\ Set(a, Scanning(keyed))
  <2> DEFINE call == Scan(page)
             pg2 == Scanning(keyed)
  <2>1. calls' = [calls EXCEPT ![c] = call] /\ pages' = [pages EXCEPT ![page] = pg2]
    BY <1>8 DEF Set
  <2>2. /\ Fine(call) /\ ~Over(call) /\ call.page = page /\ call.op = "scan" /\ call.mount = old.mount
    <3>1. Null \in Subjects /\ "scan" \in CallOps
      BY DEF Subjects, CallOps
    <3> QED
      BY <1>2, <3>1, NewFine DEF Scan
  <2>3. /\ pg2 \in PageRecord /\ pg2.mount = old.mount /\ pg2.acting = old.acting
    <3> HIDE DEF keyed
    <3>1. pg2 \in PageRecord /\ pg2.mount = keyed.mount /\ pg2.acting = keyed.acting
      BY <1>5, ConnectPages
    <3> HIDE DEF pg2, old
    <3> QED
      BY <1>5, <3>1 DEF Alike
  <2>4. calls[c].page = page /\ ~IsAction(calls[c])
    BY <1>3
  <2> HIDE DEF call, pg2, keyed
  <2>5. pg2.acting = pages[page].acting /\ pg2.mount = pages[page].mount /\ call.mount = pg2.mount
    BY <2>2, <2>3
  <2> HIDE DEF page, old, a
  <2>6. UiOK'
    BY <1>2, <2>1, <2>2, <2>3, <2>4, <2>5, ScanKeeps
  <2> QED
    BY <1>1, <2>6
<1>9. CASE GoOn(c, To(a, "done"), keyed)
  <2> DEFINE next == To(a, "done")
  <2>1. Fine(next) /\ next.page = a.page /\ next.mount = a.mount /\ next.op = a.op /\ next.stream = a.stream
    <3> HIDE DEF a
    <3> QED
      BY <1>2, <1>3, SteppedFine
  <2>2. GoOn(c, next, keyed) /\ Alike(keyed, PageOf(c))
    BY <1>5, <1>9 DEF PageOf
  <2> HIDE DEF next, keyed
  <2>3. UiOK'
    BY <1>1, <2>1, <2>2, ReadKeeps
  <2> QED
    BY <1>1, <2>3
<1> QED
  BY <1>6, <1>7, <1>8, <1>9

\* A page as it is mounted.
LEMMA NewPageIs ==
    ASSUME NEW mount \in Nat, NEW connected \in BOOLEAN
    PROVE  LET pg == NewPage(mount, connected)
           IN  /\ pg \in PageRecord /\ pg.mount = mount /\ pg.acting = Null /\ pg.loading = FALSE
<1> DEFINE e == <<>>
<1>1. e \in Lists /\ Null \in Subjects
  BY ListsOK DEF Subjects
<1>2. NewPage(mount, connected) =
        [mount |-> mount, connected |-> connected, loading |-> FALSE, acting |-> Null,
         shown |-> e, modal |-> Null, topUp |-> Null, detail |-> Null, rows |-> 1]
  BY DEF NewPage
<1> HIDE DEF e
<1> QED
  BY <1>1, <1>2 DEF PageRecord

LEMMA RetryKeeps ==
    ASSUME UiOK, NEW page \in DOMAIN pages, retry(page)
    PROVE  UiOK' /\ ledger' = ledger /\ pollers' = Unsubscribed(page, pages[page].mount)
<1> DEFINE seeded == "demo" \in DOMAIN pages /\ pages["demo"].connected
           n == pages[page].mount + 1
           fresh == NewPage(n, seeded)
           scans == seeded /\ page \in Dashboards
<1>1. PagesOK /\ CallsOK /\ FlagsOK
  BY DEF UiOK
<1>2. /\ ledger' = ledger /\ pollers' = Unsubscribed(page, pages[page].mount)
      /\ pages' = [pages EXCEPT ![page] = IF scans THEN Scanning(fresh) ELSE fresh]
      /\ IF scans THEN \E c \in Free : calls' = [calls EXCEPT ![c] = [Scan(page) EXCEPT !.mount = fresh.mount]]
         ELSE UNCHANGED calls
  BY DEF retry
<1>3. seeded \in BOOLEAN /\ n \in Nat
  BY <1>1 DEF PagesOK, PageRecord
<1> HIDE DEF seeded, n
<1>4. /\ fresh \in PageRecord /\ fresh.mount = n /\ fresh.acting = Null /\ fresh.loading = FALSE
  BY <1>3, NewPageIs
<1> HIDE DEF fresh
<1>5. CASE scans
  <2> DEFINE s == Scan(page)
             call == [s EXCEPT !.mount = n]
             pg2 == Scanning(fresh)
  <2>1. pages' = [pages EXCEPT ![page] = pg2]
    BY <1>2, <1>5
  <2>2. PICK c \in Free : calls' = [calls EXCEPT ![c] = call]
    BY <1>2, <1>4, <1>5
  <2>3. c \in Slots /\ calls[c] = Null
    BY DEF Free
  <2>4. Fine(s) /\ ~Over(s) /\ s.page = page /\ s.op = "scan" /\ s.step = "count"
    <3>1. Null \in Subjects /\ "scan" \in CallOps
      BY DEF Subjects, CallOps
    <3> QED
      BY <1>1, <3>1, NewFine DEF Scan
  <2> HIDE DEF s
  <2>5. s \in CallRecord
    BY <2>4 DEF Fine
  <2>6. /\ call \in CallRecord /\ call.page = s.page /\ call.op = s.op /\ call.stream = s.stream
        /\ call.mount = n /\ call.step = s.step /\ call.then = s.then /\ call.fresh = s.fresh
        /\ call.slow = s.slow /\ call.tx = s.tx /\ call.left = s.left
    BY <1>3, <2>5 DEF CallRecord
  <2> HIDE DEF call
  <2>7. Fine(call) /\ ~Over(call)
    BY <2>4, <2>6 DEF Fine, InOrder, Timely, Over
  <2>8. pg2 \in PageRecord /\ pg2.mount = n /\ pg2.acting = Null
    BY <1>4, ConnectPages
  <2> HIDE DEF pg2
  <2>9. call.op = "scan" /\ call.page = page /\ call.mount = pg2.mount
    BY <2>4, <2>6, <2>8
  <2>10. UiOK'
    BY <2>1, <2>2, <2>3, <2>7, <2>8, <2>9, ScanKeeps
  <2> QED
    BY <1>2, <2>10
<1>6. CASE ~scans
  <2>1. pages' = [pages EXCEPT ![page] = fresh] /\ calls' = calls
    BY <1>2, <1>6
  <2>2. PagesOK' /\ DOMAIN pages' = DOMAIN pages
    BY <1>1, <1>4, <2>1, PageChanged
  <2>3. CallsOK'
    BY <1>1, <2>1, <2>2 DEF CallsOK
  <2>4. Held(calls', page, fresh)
    BY <1>4 DEF Held
  <2>5. FlagsOK'
    BY <1>1, <2>1, <2>4, OnePage, CarriesItself
  <2> QED
    BY <1>2, <2>2, <2>3, <2>5 DEF UiOK
<1> QED
  BY <1>5, <1>6

-----------------------------------------------------------------------------
(* What the user does.                                                     *)

\* A call that starts as the user clicks, with its page as pg2 after Busy.
LEMMA ClickKeeps ==
    ASSUME UiOK, NEW page \in DOMAIN pages, NEW call, Fine(call), ~Over(call), call.page = page,
           call.mount = pages[page].mount, Take(call), NEW pg2 \in PageRecord,
           pg2.mount = Busy(pages[page], call).mount, pg2.loading = Busy(pages[page], call).loading,
           pg2.acting = Busy(pages[page], call).acting,
           pages' = [pages EXCEPT ![page] = pg2]
    PROVE  UiOK' /\ UNCHANGED <<ledger, pollers>>
<1> DEFINE old == pages[page]
           pg == Busy(old, call)
<1>1. PagesOK /\ CallsOK /\ FlagsOK /\ old \in PageRecord
  BY DEF UiOK, PagesOK
<1>2. Marked(pg, old, call)
  BY <1>1, BusyPage DEF Fine
<1>3. /\ pg2.mount = pg.mount /\ pg2.loading = pg.loading /\ pg2.acting = pg.acting
  OBVIOUS
<1> HIDE DEF pg
<1>4. Took(pg2, old, call)
  BY <1>2, <1>3 DEF Marked, Took
<1>5. PagesOK' /\ CallsOK' /\ FlagsOK' /\ UNCHANGED <<ledger, pollers>>
  BY <1>1, <1>4, TakeKeeps
<1> QED
  BY <1>5 DEF UiOK

LEMMA StartKeeps ==
    ASSUME UiOK, NEW page \in DOMAIN pages, NEW call, Fine(call), ~Over(call), call.page = page,
           call.mount = pages[page].mount, Start(call)
    PROVE  UiOK' /\ UNCHANGED <<ledger, pollers>>
<1> DEFINE pg2 == Busy(pages[page], call)
<1>1. Take(call) /\ pages' = [pages EXCEPT ![page] = pg2]
  BY DEF Start
<1>2. pages[page] \in PageRecord
  BY DEF UiOK, PagesOK
<1>3. pg2 \in PageRecord
  BY <1>2, BusyPage DEF Fine, Marked
<1> QED
  BY <1>1, <1>3, ClickKeeps

\* A new call that starts.
LEMMA CallStarts ==
    ASSUME UiOK, NEW page \in DOMAIN pages, NEW op \in CallOps, NEW stream \in Subjects,
           NEW step \in {"wallet", "build", "load"}, step = "wallet" => op = "connect",
           Start(Call(page, op, step, stream))
    PROVE  UiOK' /\ UNCHANGED <<ledger, pollers>>
<1> DEFINE call == Call(page, op, step, stream)
<1>1. PagesOK /\ Start(call)
  BY DEF UiOK
<1>2. Fine(call) /\ ~Over(call) /\ call.page = page /\ call.mount = pages[page].mount
  BY <1>1, NewFine
<1> HIDE DEF call
<1> QED
  BY <1>1, <1>2, StartKeeps

LEMMA IdsAreSubjects == \A s \in Ids : s \in Subjects /\ s \in Nat
<1>1. \A s \in Ids : s \in Nat
  BY DEF Ids
<1> QED
  BY <1>1 DEF Subjects

\* A field of a page that is no flag, changed alone.
LEMMA FieldKeeps ==
    ASSUME UiOK, NEW page \in DOMAIN pages, NEW pg2 \in PageRecord,
           pg2.mount = pages[page].mount, pg2.loading = pages[page].loading,
           pg2.acting = pages[page].acting,
           pages' = [pages EXCEPT ![page] = pg2], UNCHANGED sdk_vars
    PROVE  UiOK' /\ UNCHANGED <<ledger, pollers>>
<1>1. PagesOK /\ CallsOK /\ FlagsOK /\ calls' = calls /\ UNCHANGED <<ledger, pollers>>
  BY DEF UiOK, sdk_vars
<1>2. PagesOK' /\ CallsOK' /\ FlagsOK'
  BY <1>1, ShownKeeps
<1> QED
  BY <1>1, <1>2 DEF UiOK

\* What is known of an open page.
LEMMA PageIs ==
    ASSUME UiOK, NEW page \in DOMAIN pages
    PROVE  /\ pages[page] \in PageRecord
           /\ pages[page].rows \in Nat /\ pages[page].topUp \in Subjects
           /\ pages[page].modal \in Subjects
<1>1. pages[page] \in PageRecord
  BY DEF UiOK, PagesOK
<1> QED
  BY <1>1 DEF PageRecord

\* Dialogs, forms and rows.
LEMMA ModalKeeps ==
    ASSUME UiOK, NEW page \in DOMAIN pages, NEW m \in Subjects,
           pages' = [pages EXCEPT ![page].modal = m], UNCHANGED sdk_vars
    PROVE  UiOK' /\ UNCHANGED <<ledger, pollers>>
<1> DEFINE q == [pages[page] EXCEPT !.modal = m]
<1>1. pages[page] \in PageRecord
  BY PageIs
<1>2. q \in PageRecord /\ q.mount = pages[page].mount /\ q.loading = pages[page].loading
      /\ q.acting = pages[page].acting
  BY <1>1 DEF PageRecord
<1>3. pages' = [pages EXCEPT ![page] = q]
  OBVIOUS
<1> HIDE DEF q
<1> QED
  BY <1>2, <1>3, FieldKeeps

LEMMA OtherFieldKeeps ==
    ASSUME UiOK, NEW page \in DOMAIN pages, NEW s \in Subjects, NEW n \in Nat, UNCHANGED sdk_vars,
           \/ pages' = [pages EXCEPT ![page].topUp = s]
           \/ pages' = [pages EXCEPT ![page].detail = s]
           \/ pages' = [pages EXCEPT ![page].rows = n]
    PROVE  UiOK' /\ UNCHANGED <<ledger, pollers>>
<1> DEFINE old == pages[page]
<1>1. old \in PageRecord
  BY PageIs
<1>2. PICK q : /\ pages' = [pages EXCEPT ![page] = q]
               /\ q \in {[old EXCEPT !.topUp = s], [old EXCEPT !.detail = s], [old EXCEPT !.rows = n]}
  OBVIOUS
<1>3. /\ q \in PageRecord /\ q.mount = old.mount /\ q.loading = old.loading
      /\ q.acting = old.acting
  BY <1>1, <1>2 DEF PageRecord
<1> QED
  BY <1>2, <1>3, FieldKeeps

LEMMA RefreshClickKeeps ==
    ASSUME UiOK, NEW page \in DOMAIN pages, refresh(page)
    PROVE  UiOK' /\ UNCHANGED <<ledger, pollers>>
<1> DEFINE call == Scan(page)
           old == pages[page]
           pg2 == Scanning(old)
<1>1. Take(call) /\ pages' = [pages EXCEPT ![page] = pg2] /\ page \in Dashboards
  BY DEF refresh
<1>2. old \in PageRecord /\ PagesOK /\ CallsOK /\ FlagsOK
  BY PageIs DEF UiOK
<1>3. Null \in Subjects /\ "scan" \in CallOps
  BY DEF Subjects, CallOps
<1>4. Fine(call) /\ ~Over(call) /\ call.page = page /\ call.mount = old.mount /\ call.op = "scan"
  BY <1>2, <1>3, NewFine DEF Scan
<1>5. /\ pg2 \in PageRecord /\ pg2.loading = TRUE /\ pg2.mount = old.mount
      /\ pg2.acting = old.acting
  BY <1>2, ConnectPages
<1> HIDE DEF call, pg2
<1>6. Took(pg2, old, call)
  BY <1>4, <1>5 DEF Took, IsAction
<1>7. PagesOK' /\ CallsOK' /\ FlagsOK' /\ UNCHANGED <<ledger, pollers>>
  BY <1>1, <1>2, <1>4, <1>5, <1>6, TakeKeeps
<1> QED
  BY <1>7 DEF UiOK

\* PageStep, but for retry.
LEMMA PageStepKeeps ==
    ASSUME UiOK, NEW page \in DOMAIN pages, connect(page) \/ refresh(page)
    PROVE  UiOK' /\ UNCHANGED <<ledger, pollers>>
<1>1. Null \in Subjects /\ "connect" \in CallOps
  BY DEF Subjects, CallOps
<1>2. CASE connect(page)
  <2>1. Start(Call(page, "connect", "wallet", Null))
    BY <1>2 DEF connect
  <2> QED
    BY <1>1, <2>1, CallStarts
<1> QED
  BY <1>2, RefreshClickKeeps

\* onConfirm of the cancellation's modal.
LEMMA ConfirmKeeps ==
    ASSUME UiOK, Open("employer"), confirmCancel
    PROVE  UiOK' /\ UNCHANGED <<ledger, pollers>>
<1> DEFINE old == pages["employer"]
           call == Transaction("employer", "cancel", old.modal)
           busy == Busy(old, call)
           pg2 == [busy EXCEPT !.modal = Null]
<1>1. "employer" \in DOMAIN pages /\ Take(call) /\ pages' = [pages EXCEPT !["employer"] = pg2]
  BY DEF Open, confirmCancel
<1>2. old \in PageRecord /\ old.modal \in Subjects /\ PagesOK
  BY <1>1, PageIs DEF UiOK
<1>3. "cancel" \in CallOps /\ Null \in Subjects
  BY DEF CallOps, Subjects
<1>4. Fine(call) /\ ~Over(call) /\ call.page = "employer" /\ call.mount = old.mount
  BY <1>1, <1>2, <1>3, NewFine DEF Transaction
<1> HIDE DEF call
<1>5. busy \in PageRecord
  BY <1>2, <1>4, BusyPage DEF Fine, Marked
<1> HIDE DEF busy
<1>6. /\ pg2 \in PageRecord /\ pg2.mount = busy.mount /\ pg2.loading = busy.loading
      /\ pg2.acting = busy.acting
  BY <1>3, <1>5 DEF PageRecord
<1> HIDE DEF pg2
<1> QED
  BY <1>1, <1>4, <1>6, ClickKeeps DEF busy

LEMMA EmployerStepKeeps ==
    ASSUME UiOK, EmployerStep
    PROVE  UiOK' /\ UNCHANGED <<ledger, pollers>>
<1>1. "employer" \in DOMAIN pages
  BY DEF EmployerStep, Open
<1>2. {"pause", "resume", "topup"} \subseteq CallOps /\ Null \in Subjects
  BY DEF CallOps, Subjects
<1>3. ASSUME NEW s \in Ids, NEW op \in {"pause", "resume"}, handleAction(op, s)
      PROVE  UiOK' /\ UNCHANGED <<ledger, pollers>>
  <2>1. Start(Call("employer", op, "build", s)) /\ op \in CallOps /\ s \in Subjects
    BY <1>2, <1>3, IdsAreSubjects DEF handleAction, Transaction
  <2> QED
    BY <1>1, <2>1, CallStarts
<1>4. ASSUME NEW s \in Ids, openCancel(s)
      PROVE  UiOK' /\ UNCHANGED <<ledger, pollers>>
  <2>1. s \in Subjects /\ pages' = [pages EXCEPT !["employer"].modal = s] /\ UNCHANGED sdk_vars
    BY <1>4, IdsAreSubjects DEF openCancel
  <2> QED
    BY <1>1, <2>1, ModalKeeps
<1>5. ASSUME NEW s \in Ids, toggleTopUp(s)
      PROVE  UiOK' /\ UNCHANGED <<ledger, pollers>>
  <2>1. \E r \in {Null, s} : pages' = [pages EXCEPT !["employer"].topUp = r]
    BY <1>5 DEF toggleTopUp
  <2>2. PICK r \in {Null, s} : pages' = [pages EXCEPT !["employer"].topUp = r]
    BY <2>1
  <2>3. r \in Subjects /\ UNCHANGED sdk_vars /\ 0 \in Nat
    BY <1>2, <1>5, <2>2, IdsAreSubjects DEF toggleTopUp
  <2> QED
    BY <1>1, <2>2, <2>3, OtherFieldKeeps
<1>6. ASSUME closeCancel
      PROVE  UiOK' /\ UNCHANGED <<ledger, pollers>>
  <2>1. pages' = [pages EXCEPT !["employer"].modal = Null] /\ UNCHANGED sdk_vars
    BY <1>6 DEF closeCancel
  <2> QED
    BY <1>1, <1>2, <2>1, ModalKeeps
<1>7. ASSUME handleTopUp
      PROVE  UiOK' /\ UNCHANGED <<ledger, pollers>>
  <2> DEFINE s == pages["employer"].topUp
  <2>1. Start(Call("employer", "topup", "build", s))
    BY <1>7 DEF handleTopUp, Transaction
  <2>2. s \in Subjects /\ "topup" \in CallOps
    BY <1>1, <1>2, PageIs
  <2> QED
    BY <1>1, <2>1, <2>2, CallStarts
<1>8. ASSUME confirmCancel
      PROVE  UiOK' /\ UNCHANGED <<ledger, pollers>>
  BY <1>1, <1>8, ConfirmKeeps DEF Open
<1> QED
  BY <1>3, <1>4, <1>5, <1>6, <1>7, <1>8 DEF EmployerStep

LEMMA EarnerStepKeeps ==
    ASSUME UiOK, EarnerStep
    PROVE  UiOK' /\ UNCHANGED <<ledger, pollers>>
<1>1. PICK page \in DOMAIN pages, s \in Ids : withdraw(page, s)
  BY DEF EarnerStep
<1>2. Start(Call(page, "withdraw", "build", s)) /\ s \in Subjects /\ "withdraw" \in CallOps
  BY <1>1, IdsAreSubjects DEF withdraw, Transaction, CallOps
<1> QED
  BY <1>2, CallStarts

\* A call that starts from a form.
LEMMA FormStarts ==
    ASSUME UiOK, NEW page \in DOMAIN pages, NEW op \in CallOps, NEW valid \in BOOLEAN, NEW rows \in Nat,
           NEW call, Start(call),
           \/ call = [Call(page, op, "build", Null) EXCEPT !.valid = valid]
           \/ call = [Call(page, op, "build", Null) EXCEPT !.valid = valid, !.rows = rows]
    PROVE  UiOK' /\ UNCHANGED <<ledger, pollers>>
<1> DEFINE a == Call(page, op, "build", Null)
<1>1. call = Filled(a, valid) \/ call = FilledRows(a, valid, rows)
  BY DEF Filled, FilledRows
<1>2. Null \in Subjects /\ PagesOK
  BY DEF Subjects, UiOK
<1>3. Fine(a) /\ a.page = page /\ a.mount = pages[page].mount /\ a.step = "build"
  BY <1>2, NewFine
<1> HIDE DEF a
<1>4. /\ Fine(call) /\ call.page = page /\ call.mount = pages[page].mount /\ call.step = "build"
  BY <1>1, <1>3, FormFine
<1>5. ~Over(call)
  BY <1>4 DEF Over
<1> QED
  BY <1>4, <1>5, StartKeeps

\* handleHash: the page of one stream is shown while it is loaded.
LEMMA HashKeeps ==
    ASSUME UiOK, Open("demo"), NEW s \in Ids, handleHash(s)
    PROVE  UiOK' /\ UNCHANGED <<ledger, pollers>>
<1> DEFINE old == pages["demo"]
           call == Call("demo", "lookup", "load", s)
           busy == Busy(old, call)
           pg2 == [busy EXCEPT !.detail = s]
<1>1. "demo" \in DOMAIN pages /\ Take(call) /\ pages' = [pages EXCEPT !["demo"] = pg2]
  BY DEF Open, handleHash
<1>2. old \in PageRecord /\ PagesOK
  BY <1>1, PageIs DEF UiOK
<1>3. "lookup" \in CallOps /\ s \in Subjects
  BY IdsAreSubjects DEF CallOps
<1>4. Fine(call) /\ ~Over(call) /\ call.page = "demo" /\ call.mount = old.mount
  BY <1>1, <1>2, <1>3, NewFine
<1> HIDE DEF call
<1>5. busy \in PageRecord
  BY <1>2, <1>4, BusyPage DEF Fine, Marked
<1> HIDE DEF busy
<1>6. /\ pg2 \in PageRecord /\ pg2.mount = busy.mount /\ pg2.loading = busy.loading
      /\ pg2.acting = busy.acting
  BY <1>3, <1>5 DEF PageRecord
<1> HIDE DEF pg2
<1> QED
  BY <1>1, <1>4, <1>6, ClickKeeps DEF busy

LEMMA DemoStepKeeps ==
    ASSUME UiOK, DemoStep
    PROVE  UiOK' /\ UNCHANGED <<ledger, pollers>>
<1>1. "demo" \in DOMAIN pages /\ Open("demo")
  BY DEF DemoStep, Open
<1>2. {"connect", "withdraw", "lookup", "create"} \subseteq CallOps /\ Null \in Subjects /\ 0 \in Nat
  BY DEF CallOps, Subjects
<1>3. ASSUME NEW s \in Ids, handleLookup(s) \/ detailWithdraw(s)
      PROVE  UiOK' /\ UNCHANGED <<ledger, pollers>>
  <2>1. PICK op \in {"lookup", "withdraw"}, step \in {"load", "build"} : Start(Call("demo", op, step, s))
    BY <1>3 DEF handleLookup, detailWithdraw, Transaction
  <2>2. op \in CallOps /\ s \in Subjects
    BY <1>2, IdsAreSubjects
  <2> QED
    BY <1>1, <2>1, <2>2, CallStarts
<1>4. ASSUME navigateBack
      PROVE  UiOK' /\ UNCHANGED <<ledger, pollers>>
  <2>1. pages' = [pages EXCEPT !["demo"].detail = Null] /\ UNCHANGED sdk_vars
    BY <1>4 DEF navigateBack
  <2> QED
    BY <1>1, <1>2, <2>1, OtherFieldKeeps
<1>5. ASSUME handleWalletConnect
      PROVE  UiOK' /\ UNCHANGED <<ledger, pollers>>
  <2>1. Start(Call("demo", "connect", "wallet", Null))
    BY <1>5 DEF handleWalletConnect
  <2> QED
    BY <1>1, <1>2, <2>1, CallStarts
<1>6. ASSUME NEW form \in CheckedForms, handleCreate(form)
      PROVE  UiOK' /\ UNCHANGED <<ledger, pollers>>
  <2> DEFINE call == [Call("demo", "create", "build", Null) EXCEPT !.valid = form]
  <2>1. Start(call) /\ form \in BOOLEAN
    BY <1>6 DEF handleCreate, Transaction, CheckedForms
  <2>2. call = [Call("demo", "create", "build", Null) EXCEPT !.valid = form]
    OBVIOUS
  <2> HIDE DEF call
  <2> QED
    BY <1>1, <1>2, <2>1, <2>2, FormStarts
<1>7. ASSUME NEW s \in Ids, handleHash(s)
      PROVE  UiOK' /\ UNCHANGED <<ledger, pollers>>
  BY <1>1, <1>7, HashKeeps
<1> QED
  BY <1>3, <1>4, <1>5, <1>6, <1>7 DEF DemoStep

LEMMA BatchStepKeeps ==
    ASSUME UiOK, BatchStep
    PROVE  UiOK' /\ UNCHANGED <<ledger, pollers>>
<1> DEFINE rows == pages["batch"].rows
<1>1. "batch" \in DOMAIN pages
  BY DEF BatchStep, Open
<1>2. rows \in Nat /\ Null \in Subjects /\ "batch" \in CallOps
  BY <1>1, PageIs DEF Subjects, CallOps
<1>3. ASSUME addRow \/ removeRow
      PROVE  UiOK' /\ UNCHANGED <<ledger, pollers>>
  <2>1. rows + 1 \in Nat /\ (rows > 1 => rows - 1 \in Nat)
    BY <1>2
  <2>2. pages' = [pages EXCEPT !["batch"].rows = rows + 1]
          \/ (rows > 1 /\ pages' = [pages EXCEPT !["batch"].rows = rows - 1])
    BY <1>3 DEF addRow, removeRow
  <2>3. PICK n \in Nat : pages' = [pages EXCEPT !["batch"].rows = n]
    BY <2>1, <2>2
  <2>4. UNCHANGED sdk_vars
    BY <1>3 DEF addRow, removeRow
  <2> QED
    BY <1>1, <1>2, <2>3, <2>4, OtherFieldKeeps
<1>4. ASSUME NEW form \in CheckedForms, handleSubmit(form)
      PROVE  UiOK' /\ UNCHANGED <<ledger, pollers>>
  <2> DEFINE call == [Call("batch", "batch", "build", Null) EXCEPT !.valid = form, !.rows = rows]
  <2>1. Start(call) /\ form \in BOOLEAN
    BY <1>4 DEF handleSubmit, Transaction, CheckedForms
  <2>2. call = [Call("batch", "batch", "build", Null) EXCEPT !.valid = form, !.rows = rows]
    OBVIOUS
  <2> HIDE DEF call, rows
  <2> QED
    BY <1>1, <1>2, <2>1, <2>2, FormStarts
<1> QED
  BY <1>3, <1>4 DEF BatchStep

-----------------------------------------------------------------------------
(* The network.                                                            *)

\* The ledgers a transaction leads to.
LEMMA AppliedIs ==
    ASSUME LedgerOK, NEW a \in CallRecord, NEW l \in Applied(a)
    PROVE  l \in Seq(StreamRecord) /\ Len(l) <= MaxStreams
<1>1. a.rows \in Nat /\ ledger \in Seq(StreamRecord) /\ Len(ledger) <= MaxStreams
  BY DEF CallRecord, LedgerOK
<1>2. CASE a.op \in {"create", "batch"}
  <2> DEFINE r == [employer |-> Me, employee |-> Other, status |-> "Active"]
             n == a.rows
             new == [i \in 1..n |-> r]
  <2>1. l = ledger \o new /\ Len(ledger) + n <= MaxStreams
    BY <1>2 DEF Applied
  <2>2. r \in StreamRecord
    BY DEF StreamRecord, Statuses
  <2>3. n \in Nat
    BY <1>1
  <2> HIDE DEF r, n
  <2>4. new \in Seq(StreamRecord) /\ Len(new) = n
    BY <2>2, <2>3
  <2> HIDE DEF new
  <2> QED
    <3>1. \A s, t \in Seq(StreamRecord) :
              s \o t \in Seq(StreamRecord) /\ Len(s \o t) = Len(s) + Len(t)
      OBVIOUS
    <3>2. l \in Seq(StreamRecord) /\ Len(l) = Len(ledger) + Len(new)
      BY <1>1, <2>1, <2>4, <3>1, Zenon
    <3> QED
      BY <2>1, <2>4, <3>2
<1>3. CASE a.op \notin {"create", "batch"}
  <2>1. PICK status \in Left(a, ledger[a.stream].status) :
            a.stream \in Ids /\ l = [ledger EXCEPT ![a.stream].status = status]
    BY <1>3 DEF Applied
  <2> DEFINE i == a.stream
             r == [ledger[i] EXCEPT !.status = status]
  <2>2. i \in 1..Len(ledger) /\ ledger[i] \in StreamRecord
    BY <1>1, <2>1 DEF Ids
  <2>3. ledger[i].status \in Statuses
    BY <2>2 DEF StreamRecord
  <2>4. status \in Statuses
    BY <2>1, <2>3 DEF Left, Statuses
  <2>5. r \in StreamRecord
    BY <2>2, <2>4 DEF StreamRecord
  <2>6. l = [ledger EXCEPT ![i] = r]
    BY <2>1
  <2> HIDE DEF i, r
  <2> QED
    BY <1>1, <2>2, <2>5, <2>6
<1> QED
  BY <1>2, <1>3

LEMMA ElsewhereIs ==
    ASSUME LedgerOK, NEW i \in Ids, elsewhere(i)
    PROVE  LedgerOK' /\ UNCHANGED <<calls, pollers>>
<1>1. ledger \in Seq(StreamRecord) /\ Len(ledger) <= MaxStreams
  BY DEF LedgerOK
<1>2. PICK change \in OtherParty(ledger[i]) : ledger' = [ledger EXCEPT ![i].status = change[2]]
  BY DEF elsewhere
<1>3. change[2] \in Statuses
  BY DEF OtherParty, Statuses
<1> DEFINE status == change[2]
           r == [ledger[i] EXCEPT !.status = status]
<1>4. i \in 1..Len(ledger) /\ ledger[i] \in StreamRecord
  BY <1>1 DEF Ids
<1>5. r \in StreamRecord
  BY <1>3, <1>4 DEF StreamRecord
<1>6. ledger' = [ledger EXCEPT ![i] = r]
  BY <1>2
<1> HIDE DEF r
<1>7. ledger' \in Seq(StreamRecord) /\ Len(ledger') = Len(ledger)
  BY <1>1, <1>4, <1>5, <1>6
<1> QED
  BY <1>1, <1>7 DEF LedgerOK, elsewhere

\* What the network makes of a call: its transaction is decided or runs out of
\* time, and a call that has ended may be forgotten.
Moves(a, b) ==
    \/ b = Null /\ Over(a)
    \/ /\ Fine(b) /\ b.page = a.page /\ b.mount = a.mount /\ b.op = a.op /\ b.stream = a.stream
       /\ b.step = a.step

LEMMA MovesKeep ==
    ASSUME UiOK, pages' = pages, calls' = [d \in Slots |-> calls'[d]],
           \A d \in Slots : IF calls[d] = Null THEN calls'[d] = Null ELSE Moves(calls[d], calls'[d])
    PROVE  UiOK'
<1>1. PagesOK /\ CallsOK /\ FlagsOK /\ PagesOK'
  BY DEF UiOK, PagesOK
<1>2. ASSUME NEW d \in Slots, calls'[d] # Null
      PROVE  Fine(calls'[d]) /\ calls'[d].page \in DOMAIN pages'
  <2>1. calls[d] # Null /\ Moves(calls[d], calls'[d])
    BY <1>2
  <2>2. calls[d].page \in DOMAIN pages
    BY <1>1, <2>1 DEF CallsOK
  <2> QED
    BY <1>2, <2>1, <2>2 DEF Moves
<1>3. CallsOK'
  <2>1. \A d \in Slots : calls'[d] \in CallRecord \cup {Null}
    BY <1>2 DEF Fine
  <2> DEFINE cs2 == calls'
  <2>2. cs2 = [d \in Slots |-> cs2[d]] /\ \A d \in Slots : cs2[d] \in CallRecord \cup {Null}
    BY <2>1
  <2> HIDE DEF cs2
  <2>3. cs2 \in [Slots -> CallRecord \cup {Null}]
    BY <2>2
  <2> QED
    BY <1>2, <2>3 DEF CallsOK, cs2
<1>4. ASSUME NEW d \in Slots, calls[d] # Null, ~Over(calls[d])
      PROVE  Carries(calls[d], calls'[d])
  <2> DEFINE b == calls'[d]
             a == calls[d]
  <2>1. Moves(a, b) /\ ~Over(a)
    BY <1>4
  <2> HIDE DEF a, b
  <2>2. /\ Fine(b) /\ b.page = a.page /\ b.mount = a.mount /\ b.op = a.op /\ b.stream = a.stream
        /\ b.step = a.step
    BY <2>1 DEF Moves
  <2>3. b # Null
    BY <2>2, DemoAssumption DEF Fine
  <2>4. Carries(a, b)
    BY <2>1, <2>2, <2>3 DEF Carries, Over
  <2> QED
    BY <2>4 DEF a, b
<1>5. FlagsOK'
  BY <1>1, <1>4, CallsCarried
<1> QED
  BY <1>1, <1>3, <1>5 DEF UiOK

\* A call stays as it is, or its transaction is spent.
LEMMA StaysMoves == \A a : Fine(a) => Moves(a, a)
  BY DEF Moves

LEMMA DeadMoves ==
    ASSUME NEW a \in CallRecord, InOrder(a),
           a.slow /\ a.step = "timeout" => a.tx \notin {"pending", "success"}
    PROVE  Moves(a, Dead(a))
<1> DEFINE tx == IF a.tx = "pending" THEN "none" ELSE a.tx
           s == Spent(a, tx)
           e == [s EXCEPT !.slow = FALSE]
<1>1. tx \in {"none", "success", "failed"} /\ (a.slow /\ a.step = "timeout" => tx # "success")
  BY DEF CallRecord
<1>2. Dead(a) = Kept(e)
  BY DEF Dead
<1> HIDE DEF tx
<1>3. /\ Fine(s) /\ s.page = a.page /\ s.mount = a.mount /\ s.op = a.op
      /\ s.stream = a.stream /\ s.step = a.step /\ s.tx = tx /\ s.fresh = FALSE
  BY <1>1, SpentFine
<1> HIDE DEF s
<1>4. s \in CallRecord
  BY <1>3 DEF Fine
<1>5. /\ e \in CallRecord /\ e.page = s.page /\ e.op = s.op /\ e.stream = s.stream
      /\ e.mount = s.mount /\ e.step = s.step /\ e.then = s.then /\ e.fresh = s.fresh
      /\ e.slow = FALSE /\ e.tx = s.tx /\ e.left = s.left
  BY <1>4 DEF CallRecord
<1> HIDE DEF e
<1>6. Fine(e)
  BY <1>1, <1>3, <1>5 DEF Fine, InOrder, Timely
<1>7. Kept(e) = e \/ (Kept(e) = Null /\ Over(e))
  BY DEF Kept, Over
<1>8. Over(e) => Over(a)
  BY <1>3, <1>5 DEF Over
<1> QED
  BY <1>2, <1>3, <1>5, <1>6, <1>7, <1>8 DEF Moves

\* The ledger takes up a transaction: a call that gave up on it was not slow.
LEMMA IncludeKeeps ==
    ASSUME LedgerOK, UiOK, NEW c \in Slots, include(c), pages' = pages
    PROVE  LedgerOK' /\ UiOK' /\ pollers' = pollers
<1> DEFINE a == calls[c]
<1>1. a # Null /\ a.tx = "pending" /\ pollers' = pollers
  BY DEF include
<1>2. Fine(a) /\ a \in CallRecord /\ InOrder(a) /\ Timely(a)
  BY <1>1 DEF UiOK, CallsOK, Fine
<1>3. PICK tx \in {"success", "failed"} : calls' = Included(c, tx)
  BY DEF include
<1>4. LedgerOK'
  <2>1. CASE ledger' \in Applied(a)
    <3> DEFINE l == ledger'
    <3>1. l \in Applied(a)
      BY <2>1
    <3> HIDE DEF l
    <3>2. l \in Seq(StreamRecord) /\ Len(l) <= MaxStreams
      BY <1>2, <3>1, AppliedIs
    <3> QED
      BY <3>2 DEF LedgerOK, l
  <2>2. CASE UNCHANGED ledger
    BY <2>2 DEF LedgerOK
  <2> QED
    BY <2>1, <2>2 DEF include
<1>5. ~(a.slow /\ a.step = "timeout")
  BY <1>1, <1>2 DEF Timely
<1>6. Moves(a, Spent(a, tx))
  <2> DEFINE b == Spent(a, tx)
  <2>1. /\ Fine(b) /\ b.page = a.page /\ b.mount = a.mount /\ b.op = a.op
        /\ b.stream = a.stream /\ b.step = a.step
    BY <1>2, <1>5, SpentFine
  <2> HIDE DEF b
  <2> QED
    BY <2>1 DEF Moves, b
<1>7. calls' = [d \in Slots |-> calls'[d]]
  BY <1>3 DEF Included
<1>8. ASSUME NEW d \in Slots
      PROVE  IF calls[d] = Null THEN calls'[d] = Null ELSE Moves(calls[d], calls'[d])
  <2>1. calls'[d] = CASE d = c -> Spent(calls[c], tx)
                      [] d # c /\ calls[d] # Null /\ calls[d].fresh -> Dead(calls[d])
                      [] OTHER -> calls[d]
    BY <1>3 DEF Included
  <2>2. CASE d = c
    <3>1. calls'[d] = Spent(calls[c], tx)
      BY <2>1, <2>2
    <3> QED
      BY <1>1, <1>6, <2>2, <3>1
  <2>3. CASE d # c
    <3>1. calls'[d] \in {Dead(calls[d]), calls[d]} /\ (calls[d] = Null => calls'[d] = calls[d])
      BY <2>1, <2>3
    <3>2. calls[d] # Null => Fine(calls[d])
      BY DEF UiOK, CallsOK
    <3>3. calls[d] # Null => Moves(calls[d], Dead(calls[d])) /\ Moves(calls[d], calls[d])
      BY <3>2, DeadMoves, StaysMoves DEF Fine, Timely
    <3> QED
      BY <3>1, <3>3
  <2> QED
    BY <2>2, <2>3
<1>9. UiOK'
  BY <1>7, <1>8, MovesKeep
<1> QED
  BY <1>1, <1>4, <1>9

\* A tick: what is left of the time bound and of the timer goes down together.
LEMMA LaterMoves ==
    ASSUME NEW a, Fine(a)
    PROVE  Moves(a, Later(a))
<1> DEFINE l == IF a.left < -LAG THEN a.left ELSE a.left - 1
           w == IF a.wake = 0 THEN 0 ELSE a.wake - 1
           b == [a EXCEPT !.left = l, !.wake = w]
<1>1. /\ a \in CallRecord /\ InOrder(a) /\ Timely(a) /\ a.left \in Int /\ a.wake \in Nat
      /\ a.polls \in Nat /\ LAG \in Nat /\ POLLS \in Nat /\ INTERVAL \in Nat
  BY SdkAssumption DEF Fine, CallRecord
<1>2. Later(a) = IF a.fresh /\ b.left < -LAG THEN Dead(b) ELSE b
  BY <1>1 DEF Later, CallRecord
<1>3. /\ l \in Int /\ w \in Nat /\ (a.left >= -LAG => l = a.left - 1) /\ w >= a.wake - 1
  BY <1>1
<1> HIDE DEF l, w
<1>4. /\ b \in CallRecord /\ b.page = a.page /\ b.op = a.op /\ b.stream = a.stream
      /\ b.mount = a.mount /\ b.step = a.step /\ b.then = a.then /\ b.fresh = a.fresh
      /\ b.slow = a.slow /\ b.tx = a.tx /\ b.left = l /\ b.wake = w /\ b.polls = a.polls
  BY <1>1, <1>3 DEF CallRecord
<1> HIDE DEF b
<1>5. InOrder(b)
  BY <1>1, <1>4 DEF InOrder
<1>6. CASE a.fresh /\ b.left < -LAG
  <2>1. b.slow /\ b.step = "timeout" => b.tx \notin {"pending", "success"}
    BY <1>1, <1>4 DEF Timely
  <2>2. Moves(b, Dead(b)) /\ Later(a) = Dead(b)
    BY <1>2, <1>4, <1>5, <1>6, <2>1, DeadMoves
  <2> QED
    BY <1>4, <2>2 DEF Moves, Over
<1>7. CASE ~(a.fresh /\ b.left < -LAG)
  <2>1. b.fresh => b.left >= -LAG
    BY <1>1, <1>3, <1>4, <1>7
  <2>2. ASSUME a.slow, a.tx = "pending", a.step = "poll" PROVE b.left + LAG < Rest(b)
    <3>1. a.left + LAG < Rest(a) /\ l = a.left - 1
      BY <1>1, <1>3, <2>2 DEF Timely
    <3> DEFINE k == (POLLS - a.polls) * INTERVAL
    <3>2. k \in Int /\ Rest(a) = k + a.wake /\ Rest(b) = k + w
      BY <1>1, <1>4 DEF Rest
    <3> HIDE DEF k
    <3>3. l + LAG < k + w
      BY <1>1, <1>3, <3>1, <3>2
    <3> QED
      BY <1>4, <3>2, <3>3
  <2>3. Timely(b)
    BY <1>1, <1>4, <2>1, <2>2 DEF Timely
  <2>4. Fine(b) /\ Later(a) = b
    BY <1>2, <1>4, <1>5, <1>7, <2>3 DEF Fine
  <2> QED
    BY <1>4, <2>4 DEF Moves
<1> QED
  BY <1>6, <1>7

LEMMA TickKeeps ==
    ASSUME UiOK, sdkTick, pages' = pages
    PROVE  UiOK'
<1>1. calls' = [c \in Slots |-> IF calls[c] = Null THEN Null ELSE Later(calls[c])]
  BY DEF sdkTick
<1>2. calls' = [d \in Slots |-> calls'[d]]
  BY <1>1
<1>3. ASSUME NEW d \in Slots
      PROVE  IF calls[d] = Null THEN calls'[d] = Null ELSE Moves(calls[d], calls'[d])
  <2>1. calls'[d] = IF calls[d] = Null THEN Null ELSE Later(calls[d])
    BY <1>1
  <2>2. calls[d] # Null => Moves(calls[d], Later(calls[d]))
    BY LaterMoves DEF UiOK, CallsOK
  <2> QED
    BY <2>1, <2>2
<1> QED
  BY <1>2, <1>3, MovesKeep

LEMMA ForgetKeeps ==
    ASSUME UiOK, NEW c \in Slots, forget(c), pages' = pages
    PROVE  UiOK'
<1>1. calls[c] # Null /\ Kept(calls[c]) = Null /\ calls' = [calls EXCEPT ![c] = Null]
      /\ calls \in [Slots -> CallRecord \cup {Null}]
  BY DEF forget, UiOK, CallsOK
<1>2. Over(calls[c])
  BY <1>1 DEF Kept, Over
<1>3. calls' = [d \in Slots |-> calls'[d]]
  BY <1>1
<1>4. ASSUME NEW d \in Slots
      PROVE  IF calls[d] = Null THEN calls'[d] = Null ELSE Moves(calls[d], calls'[d])
  <2>1. calls[d] # Null => Moves(calls[d], calls[d])
    BY StaysMoves DEF UiOK, CallsOK
  <2>2. CASE d = c
    BY <1>1, <1>2, <2>2 DEF Moves
  <2>3. CASE d # c
    BY <1>1, <2>1, <2>3
  <2> QED
    BY <2>2, <2>3
<1> QED
  BY <1>3, <1>4, MovesKeep

-----------------------------------------------------------------------------
(* The loops of pollClaimable.                                             *)

Loop(p) == {"page", "mount", "stream", "active"} \subseteq DOMAIN p /\ p.active \in BOOLEAN

\* A loop that is begun for a stream finds none that is active.
LEMMA PollersGrow ==
    ASSUME PollersOK, OnePollerPerMount, NEW call,
           pollers' \in {pollers, pollers \cup Poller(call)}
    PROVE  PollersOK' /\ OnePollerPerMount'
<1>1. CASE pollers' = pollers
  BY <1>1 DEF PollersOK, OnePollerPerMount
<1>2. CASE pollers' = pollers \cup Poller(call)
  <2> DEFINE new == NewPoller(call.page, call.mount, call.stream)
             k == <<call.page, call.mount, call.stream>>
  <2>1. \A p \in Poller(call) : p = new /\ ~HasHandle(call.page, call.mount, call.stream)
    BY DEF Poller
  <2>2. /\ DOMAIN new = {"page", "mount", "stream", "active", "nth"} /\ new.active = TRUE
        /\ <<new.page, new.mount, new.stream>> = k
    BY DEF NewPoller
  <2>3. HasHandle(call.page, call.mount, call.stream)
          <=> \E p \in pollers : <<p.page, p.mount, p.stream>> = k /\ p.active
    BY DEF HasHandle, Loops
  <2> HIDE DEF new, k
  <2>4. \A p \in pollers : Loop(p)
    BY DEF PollersOK, Loop
  <2>5. Loop(new)
    BY <2>2 DEF Loop
  <2>6. \A p \in pollers' : Loop(p)
    BY <1>2, <2>1, <2>4, <2>5
  <2>7. PollersOK'
    BY <2>6 DEF PollersOK, Loop
  <2>8. ASSUME NEW p \in pollers', NEW q \in pollers', p.active, q.active,
               <<p.page, p.mount, p.stream>> = <<q.page, q.mount, q.stream>>
        PROVE  p = q
    <3>1. CASE p \in pollers /\ q \in pollers
      BY <2>8, <3>1 DEF OnePollerPerMount
    <3>2. CASE p \in Poller(call) /\ q \in Poller(call)
      BY <2>1, <3>2
    <3>3. CASE p \in pollers /\ q \in Poller(call)
      BY <2>1, <2>2, <2>3, <2>8, <3>3
    <3>4. CASE q \in pollers /\ p \in Poller(call)
      BY <2>1, <2>2, <2>3, <2>8, <3>4
    <3> QED
      BY <1>2, <3>1, <3>2, <3>3, <3>4
  <2>9. OnePollerPerMount'
    BY <2>8 DEF OnePollerPerMount
  <2> QED
    BY <2>7, <2>9
<1> QED
  BY <1>1, <1>2

\* The loops of a panel that is taken down are stopped.
LEMMA PollersStop ==
    ASSUME PollersOK, OnePollerPerMount, NEW page, NEW mount, pollers' = Unsubscribed(page, mount)
    PROVE  PollersOK' /\ OnePollerPerMount'
<1> DEFINE Stop(p) == IF p.page = page /\ p.mount = mount THEN [p EXCEPT !.active = FALSE] ELSE p
<1>1. pollers' = {Stop(p) : p \in pollers}
  BY DEF Unsubscribed
<1>2. ASSUME NEW p \in pollers
      PROVE  Loop(Stop(p)) /\ (Stop(p).active => Stop(p) = p)
  <2>1. {"page", "mount", "stream", "active"} \subseteq DOMAIN p /\ p.active \in BOOLEAN
    BY DEF PollersOK
  <2> DEFINE q == [p EXCEPT !.active = FALSE]
  <2>2. DOMAIN q = DOMAIN p /\ q.active = FALSE
    BY <2>1
  <2>3. Stop(p) \in {p, q}
    OBVIOUS
  <2> HIDE DEF q, Stop
  <2> QED
    BY <2>1, <2>2, <2>3 DEF Loop
<1> HIDE DEF Stop
<1>3. \A p \in pollers' : Loop(p)
  BY <1>1, <1>2
<1>4. PollersOK'
  BY <1>3 DEF PollersOK, Loop
<1>5. \A p \in pollers' : p.active => p \in pollers
  BY <1>1, <1>2
<1>6. OnePollerPerMount'
  BY <1>5 DEF OnePollerPerMount
<1> QED
  BY <1>4, <1>6

-----------------------------------------------------------------------------
(* The invariant.                                                          *)

LEMMA DemoInitOK == DemoInit => DemoInv
<1> SUFFICES ASSUME DemoInit PROVE DemoInv
  OBVIOUS
<1>1. PICK w \in Worlds :
        /\ ledger = w.ledger
        /\ pages = [p \in w.open |-> NewPage(1, FALSE)]
        /\ calls = [c \in Slots |-> Null]
        /\ pollers = {}
  BY DEF DemoInit
<1>2. w.open \subseteq Pages /\ LedgerOK
  BY <1>1, DemoAssumption DEF LedgerOK
<1> DEFINE pg == NewPage(1, FALSE)
<1>3. pg \in PageRecord /\ pg.acting = Null /\ pg.loading = FALSE
  BY NewPageIs
<1>4. pages = [p \in w.open |-> pg]
  BY <1>1
<1> HIDE DEF pg
<1>5. DOMAIN pages = w.open /\ \A p \in DOMAIN pages : pages[p] = pg
  BY <1>4
<1>6. PagesOK
  BY <1>2, <1>3, <1>4, <1>5 DEF PagesOK
<1>7. CallsOK
  BY <1>1 DEF CallsOK
<1>8. FlagsOK
  BY <1>3, <1>5 DEF FlagsOK, Held
<1>9. PollersOK /\ OnePollerPerMount
  BY <1>1 DEF PollersOK, OnePollerPerMount
<1> QED
  BY <1>2, <1>6, <1>7, <1>8, <1>9 DEF DemoInv, UiOK

LEMMA Quiet ==
    ASSUME DemoInv, UiOK', UNCHANGED <<ledger, pollers>>
    PROVE  DemoInv'
  BY DEF DemoInv, LedgerOK, PollersOK, OnePollerPerMount

LEMMA CallStepOK == DemoInv /\ CallStep => DemoInv'
<1> SUFFICES ASSUME DemoInv, CallStep PROVE DemoInv'
  OBVIOUS
<1>1. LedgerOK /\ UiOK /\ PollersOK /\ OnePollerPerMount
  BY DEF DemoInv
<1>2. PICK c \in Slots :
        \/ buildTx(c) \/ submitTransaction(c) \/ poll(c)
        \/ connectAnswers(c) \/ countAnswers(c) \/ newCountAnswers(c) \/ getAnswers(c)
        \/ claimableAnswers(c) \/ refreshAnswers(c) \/ earnedAnswers(c) \/ loadAnswers(c)
  BY DEF CallStep
<1>3. CASE buildTx(c) \/ submitTransaction(c) \/ poll(c)
  BY <1>1, <1>3, TransactKeeps, Quiet
<1>4. CASE connectAnswers(c)
  BY <1>1, <1>4, ConnectKeeps, Quiet
<1>5. CASE countAnswers(c) \/ newCountAnswers(c)
  BY <1>1, <1>5, CountKeeps, Quiet
<1>6. CASE claimableAnswers(c)
  BY <1>1, <1>6, ClaimableKeeps, Quiet
<1>7. CASE refreshAnswers(c)
  BY <1>1, <1>7, RefreshKeeps, Quiet
<1>8. CASE earnedAnswers(c)
  BY <1>1, <1>8, EarnedKeeps, Quiet
<1>9. CASE getAnswers(c) \/ loadAnswers(c)
  <2>1. UiOK' /\ ledger' = ledger /\ pollers' \in {pollers, pollers \cup Poller(calls[c])}
    BY <1>1, <1>9, GetKeeps, LoadKeeps
  <2>2. PollersOK' /\ OnePollerPerMount'
    BY <1>1, <2>1, PollersGrow
  <2> QED
    BY <1>1, <2>1, <2>2 DEF DemoInv, LedgerOK
<1> QED
  BY <1>2, <1>3, <1>4, <1>5, <1>6, <1>7, <1>8, <1>9

LEMMA NetworkStepOK == DemoInv /\ NetworkStep => DemoInv'
<1> SUFFICES ASSUME DemoInv, NetworkStep PROVE DemoInv'
  OBVIOUS
<1>1. LedgerOK /\ UiOK /\ PollersOK /\ OnePollerPerMount /\ pages' = pages
  BY DEF DemoInv, NetworkStep
<1>2. ASSUME NEW c \in Slots, include(c) PROVE DemoInv'
  <2>1. LedgerOK' /\ UiOK' /\ pollers' = pollers
    BY <1>1, <1>2, IncludeKeeps
  <2> QED
    BY <1>1, <2>1 DEF DemoInv, PollersOK, OnePollerPerMount
<1>3. ASSUME NEW i \in Ids, elsewhere(i) PROVE DemoInv'
  <2>1. LedgerOK' /\ UNCHANGED <<calls, pollers>>
    BY <1>1, <1>3, ElsewhereIs
  <2>2. UiOK'
    BY <1>1, <2>1 DEF UiOK, PagesOK, CallsOK, FlagsOK
  <2> QED
    BY <1>1, <2>1, <2>2 DEF DemoInv, PollersOK, OnePollerPerMount
<1>4. ASSUME NEW c \in Slots, forget(c) PROVE DemoInv'
  <2>1. UiOK' /\ UNCHANGED <<ledger, pollers>>
    BY <1>1, <1>4, ForgetKeeps DEF forget
  <2> QED
    BY <2>1, Quiet
<1>5. ASSUME NEW p \in pollers, tickEnds(p) PROVE DemoInv'
  <2>1. pollers' \subseteq pollers /\ UNCHANGED <<ledger, calls>>
    BY <1>5 DEF tickEnds
  <2>2. UiOK'
    BY <1>1, <2>1 DEF UiOK, PagesOK, CallsOK, FlagsOK
  <2>3. PollersOK' /\ OnePollerPerMount'
    BY <1>1, <2>1 DEF PollersOK, OnePollerPerMount
  <2> QED
    BY <1>1, <2>1, <2>2, <2>3 DEF DemoInv, LedgerOK
<1>6. ASSUME sdkTick PROVE DemoInv'
  <2>1. UiOK' /\ UNCHANGED <<ledger, pollers>>
    BY <1>1, <1>6, TickKeeps DEF sdkTick
  <2> QED
    BY <2>1, Quiet
<1> QED
  BY <1>2, <1>3, <1>4, <1>5, <1>6 DEF NetworkStep

LEMMA PageStepOK == DemoInv /\ PageStep => DemoInv'
<1> SUFFICES ASSUME DemoInv, PageStep PROVE DemoInv'
  OBVIOUS
<1>1. LedgerOK /\ UiOK /\ PollersOK /\ OnePollerPerMount
  BY DEF DemoInv
<1>2. PICK page \in DOMAIN pages : connect(page) \/ refresh(page) \/ retry(page)
  BY DEF PageStep
<1>3. CASE connect(page) \/ refresh(page)
  BY <1>1, <1>3, PageStepKeeps, Quiet
<1>4. CASE retry(page)
  <2>1. UiOK' /\ ledger' = ledger /\ pollers' = Unsubscribed(page, pages[page].mount)
    BY <1>1, <1>4, RetryKeeps
  <2>2. PollersOK' /\ OnePollerPerMount'
    BY <1>1, <2>1, PollersStop
  <2> QED
    BY <1>1, <2>1, <2>2 DEF DemoInv, LedgerOK
<1> QED
  BY <1>2, <1>3, <1>4

\* The invariant holds in every state of the demo: flags are held by the calls
\* that run, polls outlast the time bounds of slow transactions, and a mounted
\* page has one active loop for a stream.
THEOREM DemoInvariance == DemoSpec => []DemoInv
<1>1. DemoInit => DemoInv
  BY DemoInitOK
<1>2. DemoInv /\ [DemoNext]_demo_vars => DemoInv'
  <2> SUFFICES ASSUME DemoInv, [DemoNext]_demo_vars PROVE DemoInv'
    OBVIOUS
  <2>0. UiOK
    BY DEF DemoInv
  <2>1. CASE CallStep
    BY <2>1, CallStepOK
  <2>2. CASE PageStep
    BY <2>2, PageStepOK
  <2>3. CASE EmployerStep
    BY <2>0, <2>3, EmployerStepKeeps, Quiet
  <2>4. CASE EarnerStep
    BY <2>0, <2>4, EarnerStepKeeps, Quiet
  <2>5. CASE DemoStep
    BY <2>0, <2>5, DemoStepKeeps, Quiet
  <2>6. CASE BatchStep
    BY <2>0, <2>6, BatchStepKeeps, Quiet
  <2>7. CASE NetworkStep
    BY <2>7, NetworkStepOK
  <2>8. CASE UNCHANGED demo_vars
    <3>1. UNCHANGED <<ledger, calls, pollers, pages>>
      BY <2>8 DEF demo_vars, sdk_vars
    <3>2. UiOK'
      BY <2>0, <3>1 DEF UiOK, PagesOK, CallsOK, FlagsOK
    <3> QED
      BY <3>1, <3>2, Quiet
  <2> QED
    BY <2>1, <2>2, <2>3, <2>4, <2>5, <2>6, <2>7, <2>8 DEF DemoNext
<1> QED
  BY <1>1, <1>2, PTL DEF DemoSpec

\* After "Transaction not confirmed after timeout" a transaction that was signed
\* slowly has not been and will not be included, whatever the number of polls and
\* the interval, as long as together they cover the time bound.
THEOREM TimeoutsAreFinal == DemoSpec => []TimeoutIsFinal
<1>1. DemoInv => TimeoutIsFinal
  BY DEF DemoInv, UiOK, CallsOK, Fine, Timely, TimeoutIsFinal
<1> QED
  BY <1>1, DemoInvariance, PTL

\* No page is left busy by calls that overlap, fail, or outlive its panel.
THEOREM BusyPagesWork == DemoSpec => []BusyMeansWorking
<1>1. DemoInv => BusyMeansWorking
  BY DEF DemoInv, UiOK, FlagsOK, Held, Loads, Acts, Under, BusyMeansWorking, Running
<1> QED
  BY <1>1, DemoInvariance, PTL

\* A page polls a stream's earnings in one loop at most for as long as it is mounted, and
\* in one more at most for each time it was taken down with calls under way (loadDashboard,
\* loadStream, the clean-up on unmount).
THEOREM StreamsPolledOnce == DemoSpec => []OnePollerPerMount
<1>1. DemoInv => OnePollerPerMount
  BY DEF DemoInv
<1> QED
  BY <1>1, DemoInvariance, PTL
=============================================================================
