----------------------------- MODULE SdkClient -----------------------------
(***************************************************************************)
(* The TypeScript SDK (sdk/src/client.ts, poll.ts, freighter.ts): what each *)
(* promise of a call may settle to, and the network it talks to.           *)
(*                                                                         *)
(* A call is a record that moves from await to await.  Times are kept as   *)
(* what is left of them: `left` until the time bound of the transaction,   *)
(* `wake` until the timer of the next poll.  A transaction is good for the *)
(* account's next sequence number or it is not (`fresh`); the RPC server,  *)
(* the network and the wallet are external.                                *)
(***************************************************************************)
EXTENDS Integers, Sequences, FiniteSetsExt

CONSTANTS
    Null,
    Me,            \* the account of the wallet
    Other,         \* any other account
    Slots,         \* bound: calls that are under way, or whose transaction is
    MaxStreams,    \* bound on the contract's streams
    TIMEOUT,       \* TIMEOUT_SECONDS: time bound of a transaction, 30 s
    POLLS,         \* polls of submitTransaction, 20
    INTERVAL,      \* between two of them, 1.5 s
    LAG            \* how late a ledger shows up: its close time is agreed before
                   \* it is closed, and the RPC server answers from it after that

\* The polls cover the life of a transaction: 20 * 1.5 s is TIMEOUT_SECONDS.
ASSUME SdkAssumption ==
    /\ {TIMEOUT, POLLS, INTERVAL, LAG} \subseteq Nat
    /\ POLLS * INTERVAL >= TIMEOUT

VARIABLES
    ledger,     \* the contract's streams, numbered from 1
    calls,      \* the calls of the pages, Null in a free slot
    pollers,    \* the loops of pollClaimable
    takes_amount    \* the deployed contract's withdraw has the third argument the
                    \* SDK passes; the one of this repository has not

sdk_vars == <<ledger, calls, pollers, takes_amount>>

Statuses == {"Active", "Paused", "Exhausted", "Cancelled"}

Ids == 1..Len(ledger)

(***************************************************************************)
(* The contract, as far as the pages can tell.                             *)
(***************************************************************************)

\* Statuses in which the contract lets the signer of the call do it.
Allowed(call) ==
    CASE call.op = "pause" -> {"Active"}
      [] call.op = "resume" -> {"Paused"}
      [] call.op = "withdraw" -> {"Active", "Exhausted"}
      [] OTHER -> {"Active", "Paused"}

Party(call, stream) == IF call.op = "withdraw" THEN stream.employee ELSE stream.employer

\* Statuses a call may leave its stream in: a withdrawal may take the last of it.
Left(call, status) ==
    CASE call.op = "pause" -> {"Paused"}
      [] call.op = "resume" -> {"Active"}
      [] call.op = "cancel" -> {"Cancelled"}
      [] call.op = "withdraw" -> {status, "Exhausted"}
      [] OTHER -> {status}

\* The ledgers a transaction of the call may lead to, none when the contract refuses it.
Applied(call) ==
    IF call.op \in {"create", "batch"}
    THEN IF call.valid /\ Len(ledger) + call.rows <= MaxStreams
         THEN {ledger \o [i \in 1..call.rows |-> [employer |-> Me, employee |-> Other, status |-> "Active"]]}
         ELSE {}
    ELSE IF call.stream \in Ids /\ (call.op = "withdraw" => takes_amount) /\ Party(call, ledger[call.stream]) = Me
            /\ ledger[call.stream].status \in Allowed(call)
         THEN {[ledger EXCEPT ![call.stream].status = status] : status \in Left(call, ledger[call.stream].status)}
         ELSE {}

(***************************************************************************)
(* What the promise a call awaits may settle to.                           *)
(***************************************************************************)

Rejected(call) == [call EXCEPT !.step = "rejected", !.wake = 0, !.polls = 0, !.slow = FALSE]

\* No ledger will take up a transaction of the call any more.
Spent(call, tx) == [call EXCEPT !.tx = tx, !.fresh = FALSE, !.left = -LAG - 1]

\* buildTx: the account is read for its sequence number, the transaction gets
\* its time bound, and a simulation error is thrown; the RPC server may not
\* answer.  Nothing else of the page depends on where between the two reads it is.
build(call) ==
    {Rejected(call)} \cup
    {[call EXCEPT !.step = "sign", !.fresh = TRUE, !.left = TIMEOUT] : l \in Applied(call)}

\* freighterSignTransaction and sendTransaction: not signed or refused; queued,
\* with the answer lost or not; or put off (TRY_AGAIN_LATER), which the code
\* takes for queued.
signAndSend(call) ==
    LET polling == [call EXCEPT !.step = "poll", !.polls = 1, !.wake = INTERVAL]
        queued == {Rejected([call EXCEPT !.tx = "pending"]),
                   [polling EXCEPT !.tx = "pending", !.slow = TIMEOUT - call.left > LAG]}
    IN  {Rejected(Spent(call, "none")), Spent(polling, "none")} \cup (IF call.fresh THEN queued ELSE {})

\* Mutant: the loop ends a poll early.
GivenUp_early(polls) == polls >= POLLS - 1

GivenUp(polls) == polls >= POLLS

\* The poll of submitTransaction: only "not found" goes on to the next one.
getTransaction(call) ==
    {Rejected(call)} \cup
    CASE call.tx = "success" -> {[call EXCEPT !.step = call.then, !.polls = 0, !.slow = FALSE]}
      [] call.tx = "failed" -> {}
      [] OTHER -> {IF GivenUp(call.polls) THEN [call EXCEPT !.step = "timeout"]
                   ELSE [call EXCEPT !.polls = @ + 1, !.wake = INTERVAL]}

\* simulateRead: the value in the last ledger, or a rejection.
simulateRead(values) == {Null} \cup values

getStream(id) == simulateRead({ledger[i] : i \in Ids \cap {id}})

streamCount == simulateRead({Len(ledger)})

(***************************************************************************)
(* The network.                                                            *)
(***************************************************************************)

\* A call that ended before its transaction did is kept while that is out.
Kept(call) == IF call.step \in {"rejected", "timeout"} /\ call.tx # "pending" THEN Null ELSE call

\* The account has moved on, or the time bound has passed.
Dead(call) == Kept([Spent(call, IF call.tx = "pending" THEN "none" ELSE call.tx) EXCEPT !.slow = FALSE])

Included(c, tx) ==
    [d \in Slots |-> CASE d = c -> Spent(calls[c], tx)
                       [] d # c /\ calls[d] # Null /\ calls[d].fresh -> Dead(calls[d])
                       [] OTHER -> calls[d]]

\* A ledger takes up a transaction that is in time and next in sequence; it
\* uses up the number whether it succeeds or not.
include(c) ==
    /\ calls[c] # Null /\ calls[c].tx = "pending" /\ calls[c].fresh
    /\ \/ ledger' \in Applied(calls[c]) /\ calls' = Included(c, "success")
       \/ UNCHANGED ledger /\ calls' = Included(c, "failed")
    /\ UNCHANGED <<pollers, takes_amount>>

\* Bookkeeping of the model: the call is over and its transaction is decided.
forget(c) ==
    /\ calls[c] # Null /\ Kept(calls[c]) = Null
    /\ calls' = [calls EXCEPT ![c] = Null]
    /\ UNCHANGED <<ledger, pollers, takes_amount>>

\* The other party acts on a stream: the employer manages it, and whatever the
\* employee does shows when the last of it is drawn.
OtherParty(stream) ==
    IF stream.employer = Me THEN {<<"Active", "Exhausted">>}
    ELSE {<<"Active", "Paused">>, <<"Paused", "Active">>, <<"Active", "Cancelled">>, <<"Paused", "Cancelled">>}

elsewhere(i) ==
    /\ i \in Ids
    /\ \E change \in OtherParty(ledger[i]) :
        ledger[i].status = change[1] /\ ledger' = [ledger EXCEPT ![i].status = change[2]]
    /\ UNCHANGED <<calls, pollers, takes_amount>>

\* Time passes for the transactions and timers under way.
Later(call) ==
    LET next == [call EXCEPT !.left = IF @ < -LAG THEN @ ELSE @ - 1, !.wake = IF @ = 0 THEN 0 ELSE @ - 1]
    IN  IF call.fresh /\ next.left < -LAG THEN Dead(next) ELSE next

sdkTick ==
    /\ \E c \in Slots : calls[c] # Null /\ Later(calls[c]) # calls[c]
    /\ calls' = [c \in Slots |-> IF calls[c] = Null THEN Null ELSE Later(calls[c])]
    /\ UNCHANGED <<ledger, pollers, takes_amount>>

(***************************************************************************)
(* pollClaimable (poll.ts).                                                *)
(***************************************************************************)

Loops(page, mount, stream) == {p \in pollers : <<p.page, p.mount, p.stream>> = <<page, mount, stream>>}

\* `nth` tells loops for one stream apart.
NewPoller(page, mount, stream) ==
    [page |-> page, mount |-> mount, stream |-> stream, active |-> TRUE,
     nth |-> Min({n \in 0..Cardinality(pollers) : \A p \in Loops(page, mount, stream) : p.nth # n})]

\* An active loop reads claimable and sets its timer again, whatever the answer;
\* one that was stopped ends at its next tick or answer.
tickEnds(p) ==
    /\ ~p.active
    /\ pollers' = pollers \ {p}
    /\ UNCHANGED <<ledger, calls, takes_amount>>

Unsubscribed(page, mount) ==
    {IF p.page = page /\ p.mount = mount THEN [p EXCEPT !.active = FALSE] ELSE p : p \in pollers}

=============================================================================
