# PayStream: a TLA+ verification project

PayStream streams salaries on Soroban: an employer deposits tokens into an
escrow, the stream contract releases them to the employee second by second, and
an API, services, an SDK and a demo outside the chain create, index, announce
and display what happens. This directory models the contract and those of the
parts around it that keep state or wait for one another, checks them with TLC on
small instances and proves with TLAPS, for every instance, the safety properties
of the contract and the refinement that joins its parts, and those of the event
indexer, the API server, the services, the administrators' clients and the demo.

## 1. Inventory

| Part | Source | State | Operations | Hard behaviour |
|---|---|---|---|---|
| Streams and escrow | `contracts/stream/src/{lib,storage,validate,state_machine,access_control}.rs` | stream records, id counter, pause histories, pending hand-overs, two indexes, fee ledger; balances in the token contracts | create (single, batch), withdraw, top-up, pause, resume, cancel, reclaim, update rate, get_stream (a query that writes), role hand-overs, fee draw | all streams of a token share one balance; every amount is recomputed from `withdrawn` and `last_withdraw_time`, which six entry points move |
| Administration | `lib.rs` 87-174, 618-628 | admin, pending admin, packed configuration with nonce, fee recipient, allowlist, code | two-step hand-over, nonce-guarded setters, emergency pause, upgrade | late, repeated and stale signed calls; governance rewrites the same settings meanwhile |
| Governance | `lib.rs` 658-701, `storage.rs` 302-347 | proposals, voters | propose, vote, tally, execute | anybody may tally at any time; writes the same packed entry without the nonce or the admin's checks |
| Multisig | `lib.rs` 721-787, `storage.rs` 413-436 | signers and threshold, pending operations | configure, propose, approve (executes) | reconfiguration while operations are pending, expiry |
| Token | `contracts/token/src` | balances, allowances, supply, minters | transfer, approve, mint, burn | the transfers are part of every payment above |
| Balance service | `services/balance/balance.js` | none | recompute a balance, and a payroll report per period, from a stream and its pause history | must not show more than was earned, although it sees only the present rate and clock |
| Event indexer | `services/indexer/src` | cursor, rows of `stream_events`, BullMQ jobs | poll the RPC server, queue, insert, retry, skip to the latest ledger | polls overlap; crash between effect and cursor; duplicates; answers of one page; a cursor the server no longer serves |
| API server | `api/server.js`, `api/routes`, `api/middleware`, `api/services` | requests between two awaits, idempotency rows, Redis cache, log of admin actions, connection pool, phase of the process | one handler per route, background writes, shutdown | interleaved requests, transactions that are included after the answer, bodies that a JSONB column returns in another order, fills that land after an invalidation, stores that fail or hang, a process that stops, also while it is loading, or dies |
| Sign-in | `api/routes/auth.js`, `api/middleware/authRateLimiter.js`, `demo/src/useAuth.ts` | challenge, tokens, failure counts, lockouts; per tab the session and its storage | challenge, verify, lock out; sign in, silent refresh, log out, reload | tabs share a challenge and an identifier (`ip:address`); the limiter and `applyAuthFailure` have bounds and durations of their own; answers are lost and requests repeated |
| API keys | `api/services/apiKeyService.js` | keys, windows | create, use, rotate, revoke | windows that end between requests, rotation |
| Approval workflow | `api/services/streamWorkflowService.js` | requests with their audit trail | request, approve, reject, override | any order, anybody, ids by the millisecond |
| Job queue | `backend/queues` | jobs, dead-letter queue | add, run, retry, copy to the dead-letter queue | the worker dies at any moment, jobs stall, SIGINT |
| Migrations | `services/migration/migrationRunner.js` | history rows, the caller's streams | migrate, roll back | cut short at any await, lost audit rows |
| Snapshots | `services/snapshot/snapshotStore.js` | an array per stream | checkpoint, forced checkpoint, clean up | read, await, write back, overlapping |
| SDK | `sdk/src` | none that lasts | build, sign, send, poll, read, pollClaimable | time bounds, sequence numbers, lost answers |
| Demo | `demo/src` | per page: wallet, busy flags, list, pollers | connect, scan, act, look up, batch, retry | calls of one page overlap and end in any order, panels are mounted again |
| Notification, analytics, webhooks, mail, templates, logging | `services/notification`, `services/analytics`, `api/services` | tables of single records | | section 7 |

How the parts meet. Admin, governance and multisig write one packed entry
(minimum deposit, fee, stream limit, nonce, pause flag) that every stream
operation reads; the streams of one token share one balance of the token
contract; the contract emits an event per operation, the indexer's poller turns
events into jobs and its worker turns jobs into rows. The API sends transactions
and reads streams over RPC, and keeps answers, cached streams and a log beside
it; the SDK does the same from a browser, for the demo's pages. None of them can
take back a transaction it has sent: what they tell their callers is correct
only as far as it agrees with what the ledger did, or will do.

What makes each part correct:

- streams: a deposit is never spent twice, all claims stay covered, a second is
  paid at most once and only while the stream runs, an ended stream is final, no
  call earns anything, money goes to whoever holds the role;
- administration, governance, multisig: a signed call, a vote, an approval
  counts once; a decision has its majority or threshold and is applied once; no
  writer of the shared entry undoes what another one guards;
- indexer: nothing of an answer is lost once the cursor has passed it, nothing is
  stored twice, and everything is settled in the end;
- balance service: never more than was earned, and periods that add up;
- API: a stored answer is the answer, a success is on the ledger, a stale cache
  entry goes away, an admin action is recorded before it is answered, and a
  process that stops ends and drops nobody it claims to have served;
- services: a challenge buys one token, guesses and key windows are limited, a
  decision agrees with its trail, a failed job reaches the dead-letter queue,
  only what was applied is rolled back, retention holds;
- SDK and demo: a time-out message can be relied on, a page is busy only while
  it works, and it polls a stream once for as long as it is mounted.

## 2. Modules

| Module | Models |
|---|---|
| `Accrual` | the arithmetic of one stream: `claimable_amount`, the fee, `validate_create_stream`, the state machine's tables |
| `StreamContract` | every entry point that touches streams, escrow, fee ledger, indexes or roles, one action each |
| `EscrowAccounting` | sums over all streams compared with the balances; the statements of the docs that the code does not meet |
| `AccrualAudit` | `StreamContract` beside a meter of the seconds each stream was Active |
| `AdminConfig`, `AdminClients` | the administration; clients that sign with the nonce they read and deliver late or twice, while governance executes decisions of its own on the same settings |
| `Governance` | proposals |
| `MultisigAdmin` | the M-of-N administration |
| `PayStream` | the composition of the four on their shared state |
| `EventIndexer` | the poller, one action per await, with answers of one page, the BullMQ queue, the worker, crashes, failed calls and the skip to the latest ledger |
| `BalanceService` | `calcPausedSeconds`, `calculateBalance`, `calculateBalanceByDuration` as operators, evaluated by `AccrualAudit` on every stream the contract reaches |
| `ApiRoutes` | every route of the API that waits for something, as the sequence of its awaits |
| `ApiServer` | requests running those awaits interleaved, with the chain, the idempotency rows, the cache, the log, background writes, the readiness probe and the life of the process |
| `SignIn` | challenges, verification, failure counts and lockouts; the tabs that sign in, refresh, log out and reload |
| `ApiKeys`, `StreamWorkflow` | the tables of keys and of approval requests |
| `JobQueue` | the queue, its dead-letter queue and the worker's deaths |
| `MigrationRunner` | `migrate` and `rollback`, one action per await |
| `SnapshotStore` | overlapping operations on a stream's array, which the backend copies or hands out by reference |
| `SdkClient` | what each promise of an SDK call may settle to; the network with sequence numbers and time bounds |
| `DemoApp` | the pages of the demo and their hooks on top of `SdkClient` |
| `SumTheorems` | TLAPS proofs about sums over finite sets and folds over sequences, for the modules below |
| `StreamContractProofs` | proofs about single streams of `StreamContract` |
| `StreamMoneyProofs` | proofs of its action properties, of `EscrowAccounting` and of `AccrualAudit` |
| `PayStreamProofs` | proofs about the whole contract, the refinement, governance and the multisig |
| `ClientsProofs` | proofs about `AdminClients` and `DemoApp` |
| `EventIndexerProofs` | proofs about `EventIndexer` |
| `ServicesProofs` | proofs about `SignIn`, `ApiKeys`, `StreamWorkflow`, `JobQueue`, `MigrationRunner` and `SnapshotStore` |
| `ApiServerProofs` | proofs about `ApiServer` and the routes of `ApiRoutes` |
| `MC*` | values of the constants for TLC |

**On the chain.** An invocation of a Soroban contract is atomic, is rolled back
when it panics and cannot be re-entered, so an entry point is one action whose
guard is the conjunction of its assertions, and a panic is an action that is not
enabled. `stream.locked` is FALSE between invocations and is left out.
`require_auth` is the first parameter of each action: any account may call, as
itself. Amounts and times are naturals (the checks let only positive amounts in,
and the largest rate times a 64-bit time stays below 2^127, so the checked
products do not panic). Storage time-to-live is not modelled: the contract
extends it on every write. `paid` and `fees_drawn` are history variables: they
record what each action transfers, field by field as the contract's events do,
and no guard reads them.

**Off the chain.** The services, the API and the pages are JavaScript: code
between two awaits is atomic, and at an await anything else may run. An action is
therefore what happens from one await to the next, and an operation without an
await is one action. An await of a store or a server ends in its answer or in an
error, at any time. In `ApiServer` a request is a record with the awaits it still
has to make, so that the routes are sequences (`ApiRoutes`) and there is one action
per kind of await; `seen`, `blind` and `tx` of that record remember what the look-up found
and what became of the transaction. `SdkClient` gives each call what is left of
its time (`left` until the time bound, `wake` until the next poll), so that the
clock itself need not be in the state. `accepted` (`ApiKeys`), `tokens` and
`misses` (`SignIn`), `upped`, `downed` and `unrecorded` (`MigrationRunner`),
`writer` (`SnapshotStore`), `spared` (`JobQueue`), `skipped` and `cut`
(`EventIndexer`) and, in a client's call, `seen` and `overtaken`
(`AdminClients`) are history variables.

Some data is reduced to what tells behaviours apart. A request body is its
content and whether its keys come in the order a JSONB column returns them:
`idempotencyMiddleware` hashes the text, so a body read back (`Jsonb`) equals
the one that was sent only in that order. A form of the demo that passed its own
checks is one the contract accepts or one it refuses, since the checks of the two
differ. The demo's wallet dialog can be closed at any moment and therefore
withholds nothing from the user; the dialog of a cancellation is kept, since it
looks at neither status nor flags when it is confirmed. A time an operation of
the snapshot store is given is any of `SnapTimes`, since callers may pass
`nowSecs` and `olderThanTs`.

Mutants: an operator named `X_something` with the comment "Mutant" is a changed
form of `X`, as a slip in the code would change it. It is used nowhere in the
specifications; replacing `X` by it makes the property it is paired with fail.

Outside the repository, and modelled from how its code uses it: the token
contract's `transfer` as a move between two balances that fails when the payer
has too little; the Soroban RPC server, which answers `getEvents` with the first
`PageSize` events from the start ledger on and with its latest ledger, whether or
not the page reaches it, and with an error when the start ledger is too old; the network, which includes a transaction until its time bound, if its
sequence number is the next one, and shows it up to `LAG` later; PostgreSQL's
unique constraint, which a NULL never violates, and its JSONB columns; Redis, which expires its
entries; BullMQ, which keeps jobs across a crash of the process and lets a
stalled job run again; the wallet, which signs or refuses. One ledger holds at
most one event, so an event is named by its ledger.

## 3. Runs

Each `X.cfg` is run with `tlc -config X.cfg <MC module>`.

| Run | Asks |
|---|---|
| `AccrualAudit` (`MCAccrualAudit`) | One stream under every money operation, with cliff, stop time, two pauses, top-ups and rate changes: `TypeOK`, `ClaimsCovered`, `ClocksOrdered`, `CancelSettles`, and as action properties `TerminalIsFinal` (an ended stream never changes) and `OnlyTimeEarns` (no call but a top-up raises paid + claimable). A meter counts, second by second, what the stream earns while Active. An Active stream never pays ahead of it (`NeverAheadOfMeter`) and, outside the two cases of section 6, never behind it (`NothingEarnedIsLost`); the balance service stays within it (`ReportWithinEarned`) and its payroll periods add up to it (`PayrollAddsUp`). |
| `StreamPair` (`MCStreamContract`) | Two streams on one escrow, with fees, created one by one or as a batch: neither spends the other's tokens (`NoOverpayment`, `SolventBeforeDraws`), and the escrow, the fee ledger and the employer index agree with the streams (`EscrowConserved`, `FeeLedgerExact`, `EmployerIndexExact`). |
| `StreamRoles` (`MCStreamContract`) | Employees, employers and delegates handed over in any order, two tokens, an allowlist, a cooldown, a stop time, the contract paused at times: tokens reach only the parties of the stream that pays (`PaymentsReachParties`). |
| `Administration` (`MCAdministration`) | The three writers of the configuration, one per behaviour. Clients sign with the nonce they read and deliver late, twice, or after a hand-over, while governance writes too: no administrator overwrites another's setting unseen (`NoLostUpdate`). Two proposals, three voters, all orders of vote, tally and execution: a parameter changes only by a proposal that passed, once (`AppliedOnce`). Two operations while lists and thresholds are replaced: no pause without the threshold in force (`PauseNeedsThreshold`). |
| `PayStream` (`MCPayStream`) | The composition implements the streams under a configuration that may change at any time (`StreamsImplemented`, a refinement), and a pause holds until the admin lifts it with a nonce (`PauseHolds`). |
| `EventIndexer` (`MCEventIndexer`) | Two overlapping polls, a worker with retries, two faults of any kind anywhere, a server that drops ledgers and answers with one page: `NothingForgotten`, `OneRowPerStreamEvent`, and the liveness property `EveryEventSettles`. |
| `Api` (`MCApi`) | Requests of every route, up to two at once, with a chain that includes or drops transactions, other wallets, failing stores, background writes, shutdown and crash: a stored answer is replayed unchanged to the body the store returns and to no other (`ReplayIsFaithful`), a 200 names a transaction on the ledger (`SuccessIsOnChain`), an admin action is recorded before it is answered (`AdminAnswersLogged`), an exit with code 0 dropped nobody unless the process began to listen after it was told to stop (`CleanExitDropsNobody`), a stale cache entry goes away (`StaleEntryGoes`, liveness), a process told to stop ends (`ShutdownEnds`, liveness). |
| `Services` (`MCServices`) | The six services that share nothing with the others, one per behaviour: `OneTokenPerChallenge`, `GuessesLimited` (sign-in), `KeyLimitHolds` (keys), `StatusMatchesTrail` (approval workflow), `FailedReachesDlq` (job queue), `RollbackOnlyApplied` (migrations), `RetentionHolds` (snapshots). |
| `Demo` (`MCDemo`) | The pages on the SDK, two calls at a time, with lost answers, expiring transactions, links and lookups in the middle of calls and panels mounted again: `TimeoutIsFinal`, `BusyMeansWorking`, `OnePollerPerMount`. |
| `FeeDrawnTwice`, `ExhaustedByQuery` (`MCStreamContract`), `RetryCreatesTwice` (`MCApi`) | Statements of the documentation, of comments and of messages that the code does not meet; TLC finds the counterexample (section 6). |

Beside these, `AdminClients.cfg`, `Governance.cfg` and `Multisig.cfg` check one
writer of the configuration each, with its type invariant and further
invariants: one effect per nonce; one vote per account and execution by a majority; distinct approvals and
final operations.

**Bounds of the contract's runs.** Times run to 2-6 seconds and amounts to 8
tokens, with the contract's limits scaled down (`MIN_COVER_SECONDS = 2`,
`BPS_DENOMINATOR = 4` so that a fee of a quarter is a whole token, caps of 1 to
3). Every guard is reached from both sides: deposits of 4 and 6 at rates 1 to 3
run out before and after the stop time, a withdrawal falls before and after the
cliff, a pause spans a stop. One stream is enough where a property is about one
stream, because entry points touch one stream record; two are enough for the
shared escrow, the shared indexes and the id counter, where the question is
whether one takes from the other. `MaxPauseEvents` cuts only the number of
pauses and resumes (three events: pause, resume, pause). Governance and multisig
get two pending decisions and three accounts, so that a majority, a tie and a
minority occur.

**Bounds of the other runs.** The indexer gets two polls (an overtaken one and
the overtaking one), two ledgers and pages of one event, so that a page is full
or not, two attempts and two faults, so that a crash and a failed insert fall
into one behaviour; `MaxJobs` is one more than the
ledgers, so that an event can be queued twice. The API gets workloads
(`Traffic` in `MCApi`): two creations that overlap and a retry of them, since
three requests are the fewest in which a stored answer meets one that was
overtaken; one key with two bodies, each in the order of the store and in another; reads beside writes of one stream; the
routes that log; a process that stops and starts again; and every route by
itself. In `Services` two tabs, keys, jobs or callers meet on one object, and
each counter passes its limit once: a third failure after two, a third attempt,
a fourth operation on a list of two. The demo gets two calls at a time, since
the questions are about two that overlap; three streams, of which the newest is
never looked up; a time bound `TIMEOUT` of 2 that the polls (`POLLS` times
`INTERVAL`) cover exactly, as 20 times 1.5 s covers 30 s in the code; and the
states of the panels that lead to different buttons. Its two slots are
interchangeable and only invariants are checked, so the symmetry is sound. Every
bound is a named constant in a guard; the proofs do not use their values.

**Stopping.** A contract only reacts to calls, so `Administration` ends when
everything is decided and time is at its bound; `Api` and `Services` end when
the process has exited for the last time or the bounded operations are done.
These runs do not check for deadlock, nor do the single-writer
configurations that stop for the same reason (`Governance`, `Multisig`) and the
run `RetryCreatesTwice`. In the indexer a poll can always start, a page can
always be used, and deadlock is checked.

**Fairness.** The on-chain modules assume none: no caller is obliged to call,
and there is no liveness claim about them. In the indexer every poll's next step
and the worker's next step are weakly fair: the interval timer fires for as long
as the process lives, Node runs every pending continuation, the process is
restarted, and BullMQ hands out waiting jobs. Faults are bounded by `MaxFaults`,
so nothing is interrupted for ever; without that bound a database that is always
down would keep an event queued for ever, which is no fault of the indexer. The
network (`CloseLedger`, `DropOldest`) has no fairness. In the API only two
things are weakly fair: Redis expires an entry that has a time to live, and the
timer that `shutdown` sets goes off. Requests, the chain and the stores may hang
for ever, and the two liveness properties hold all the same. Neither `Services`
nor `Demo` has a liveness claim.

## 4. Proofs

`StreamContractProofs` proves, for every set of accounts and tokens, all
arguments, any sequence of configurations and unbounded time:

- `TypeCorrect`: no balance, counter or fee ledger leaves the naturals, so no
  subtraction of the contract underflows;
- `StreamsNeverOverpay`, `ClaimsAreCovered`, `ClocksStayOrdered`,
  `CancellationSettles`: the four safety invariants of one stream.

None of the four is inductive. `claimable_amount` is computed from the clock and
from `withdrawn`, so the cover of a claim depends on the order of the clocks,
and that on when a pause began. `IInv` joins the types with `SoundStream`, per
stream: the payouts add up to `withdrawn`, `withdrawn` plus the refund stay
within the deposit, a refund is only made to an ended stream, a cancelled one
has accounted for all, and creation <= accrual clock <= now, with the clock
behind the start of a pause that lasts. The claim itself need not be in the
invariant: it is at most deposit - withdrawn (`StreamFacts`). Frame lemmas say how
`IInv` survives writing one stream, adding streams, or moving balances; then
there is one lemma per entry point; `Invariance` combines them.

`StreamMoneyProofs` goes on from `IInv`:

- The action properties `EndedStreamsAreFinal` and `CallsNeverEarn`. `Legal`
  says what a call may do to one stream: nothing to an ended one, and not raise
  `Worth` (withdrawn + claimable) unless it raises the deposit. Each entry point
  is shown to be legal for all streams; the interesting ones are
  `resume_stream`, which moves the clock forward and may only lose worth, and
  `update_rate`, which sets the clock to the present and moves the old claim into
  `withdrawn`.
- The meter (`MeterInvariance`, and from it `StreamsStayWithinMeter`,
  `EarningsAreKept`, `ReportsStayWithinEarned`). `AInv` adds to `IInv` that what
  a stream counts follows its meter (`Follows`: never more, and exactly as much
  unless its rate was updated or it was resumed after its stop), and that the
  history of a Paused stream ends with that pause (`Standing`), which is what the
  balance service relies on when it takes an open pause to last. The statement
  about the service holds for histories of any length.
- The payroll report (`BooksInvariance`, `PayrollIsExact`), for periods of any
  length and histories of any length. The report never looks at the accrual
  clock, only at the pause history, so `Follows` says nothing of it. `BooksOK`
  relates the history to the meter: pauses and resumptions alternate, in the
  order of time, a history is open exactly while its stream is Paused, and,
  unless the rate was updated, the meter is the rate times the seconds since the
  start that are not paused (`Worked`). That a call may append an event without
  changing the seconds before it, and that the next second is paused exactly
  when the history is open, make `BooksOK` inductive. The report is then a
  matter of arithmetic: `calcPausedSeconds` adds up the overlaps of the pauses
  with the period (`AlternatingRun`), the overlaps with two adjacent periods add
  up to the overlap with both (`PausedSecondsAdd`), the periods of
  `buildPeriods` meet and cover the life of the stream (`PeriodsCover`), and
  their sums follow one period at a time (`PayrollSum`).
- The ledgers (`EscrowIsConserved`, `FeeLedgerIsExact`,
  `EscrowCoversBeforeDraws`). A sum is not disturbed by the streams a call does
  not touch, so each entry point is reduced to what it moves for one stream
  (`Moved`), and the batch creation to the sum over what it adds.
- The employer index (`EmployerIndexIsExact`): a stream is listed once, under the
  account that created it. That no list names a stream twice is not inductive;
  `IndexOK` adds that lists increase, name existing streams only, and that their
  lengths add up to the number of streams, and `OwnersOK` that a stream's
  employer is the account it is listed under or one that was proposed.
- `PaymentsReachTheirParties`: one lemma per entry point that transfers.

`SumTheorems` has what these proofs need about `SumFunctionOnSet` and `FoldLeft`:
how a sum changes with its summands, and that a fold goes through the sequence
one element at a time. The library's induction theorems have an operator as
parameter, which the provers here cannot instantiate; the facts are therefore proved by an induction
over naturals or over the subsets of a finite set that is stated with a set (of
the cases for which the fact holds) in place of the operator.

`PayStreamProofs` proves the refinement `ContractImplementsStreams`: every step
of the administration, of governance and of the multisig is, for the streams, a
change of the configuration or nothing, and every stream operation of the whole
contract is one of `StreamContract` under the configuration in force. The proofs
about streams carry over along it: `WholeContractNeverOverpays` for the single
stream, `WholeContractAccounts` for the escrow, the fee ledger and the employer
index, and `WholeContractSteps` for what a step may never do. The invariant
`PayInv` says that the settings keep their ranges (`SettingsOK`), that votes are
counted once and a passed proposal has its majority (`VotesOK`), and that
approvals are distinct (`ApprovalsOK`); `DecisionsAreBacked` states it of the
whole contract. The action properties are `PausesHold`, `ProposalsApplyOnce`,
`PausesNeedTheThreshold` and `SettledOpsAreFinal`.

`ClientsProofs` has two parts. For the administrators' clients
(`AdminTypeCorrect`, `SignedCallsApplyOnce`, `NoUpdateIsLost`) the invariant
relates every call under way to the present nonce (`NoncesOK`): an older nonce
can no longer apply, and a call that carries the present one has seen every
setting the nonce guards but those that governance has written since
(`overtaken`). For the demo
(`DemoInvariance`, `TimeoutsAreFinal`, `BusyPagesWork`, `StreamsPolledOnce`) it
has an invariant per concern. A poll that may still come is worth `INTERVAL`,
and what remains of the polls and of the present wait (`Rest`) exceeds what
remains of the time bound and the lag for as long as a slowly signed transaction
is pending: it cannot be included after the last poll. A busy flag is held by a
running call of its page (`Carries`); the hard steps are those where a call ends
while another one of the same page holds a flag, or outlives the panel that
started it. A mount of a page has at most one loop per stream that is not told to
stop.

`EventIndexerProofs` proves `IndexerTypeCorrect`, `NoEventForgotten` and
`StreamEventsStoredOnce` for any number of polls, ledgers, attempts, jobs and
faults. `NothingForgotten` alone is not inductive, because a slow poll may write
a cursor it computed long ago: `PollsCover` adds that everything up to the
cursor a poll has read is covered and that what it has seen beyond is still in
its batch, among what the page had no room for, or covered; `StoredJobs` that a job is only removed for a row that is
there; `KnownLedgers` that nobody speaks of a ledger that is not closed.
`CoverageStays` is the core: no step, not even a crash, uncovers an event.

`ServicesProofs` proves the property of each service for any number of tabs,
keys, jobs, versions, requests, operations and any limits:
`ChallengesGiveOneToken` (the challenge in force, and those not yet issued, gave
no token), `GuessesStayLimited` (`Held`: the count is the number of failures
since the last reset, and from the built-in bound on a lockout that the latest of
them began stands until a request that finds it over removes it), `KeyLimitsHold` (a span of one window
meets at most two windows; `SpansOK` bounds what each of them let through),
`StatusIsTheTrail`, `FailedJobsReachDlq` (the copy of a failed job to the
dead-letter queue is under way or done, never both, unless it was lost), `RollbacksUndoApplied` (what a call
still has to undo or record, at any await, was applied before) and
`RetentionIsKept` (operations on a backend that copies have arrays of their own,
`CopiesApart`).

`ApiServerProofs` proves `RepliesAreFaithful`, `SuccessesAreOnChain`,
`AdminAnswersAreLogged` and `CleanExitsDropNobody` for any number of requests,
keys, restarts and failures. A request is a record with the awaits it has left,
so the invariant says of every request that it is `Sound`: its awaits are the
rest of its route (`OnRoute`), and what it remembers agrees with what it passed.
Before it sends it has no transaction (`Unsent`); until it is answered its
transaction is still to be looked for or is included (`Paid`), and its admin
action is still to be logged or is in the log (`Noted`); one that came after a
stored answer does not get beyond the look-up (`Replayed`). A success in a row of
the idempotency table names an included transaction too. Each kind of
await is shown to keep the request that makes it sound, and to leave the others
sound: transactions stay included, rows stay, the log only grows. That nobody is
dropped rests on the server being closed before the pool, which fails for a
process that listened after its signal, the exception of `CleanExitDropsNobody`.

**Assumptions.** The constants have the types the code gives them
(`AccrualAssumption`, `ContractAssumption`, `AuditAssumption`, `IndexerAssumption`,
`PayStreamAssumption`, `AdminAssumption`, `DecisionsAssumption`, `SignInAssumption`, `QueueAssumption`,
`MigrationAssumption`, `FlowAssumption`, `SnapAssumption`, `KeysAssumption`,
`ApiAssumption`, `SdkAssumption`, `DemoAssumption`): naturals or sets of
naturals, placeholders and the escrow that are not accounts, positive
denominators and limits. Two of them say more. `AccountsAssumption` has finitely
many accounts, without which there is no sum of their balances, and
`SdkAssumption` has polls that cover the time bound, as 20 polls of 1.5 s cover
the 30 s in the code. TLC evaluates each in the runs that extend its module.

**Only model-checked.** The liveness properties `EveryEventSettles`,
`StaleEntryGoes` and `ShutdownEnds`, since the prover does not reason about
fairness. Every safety property of the passing runs has a theorem.

## 5. Hazards

`PROJECT.json` lists them with their lines. In short: each settlement of a
stream recomputes everything from two fields that six entry points move, in any
order; streams share a balance; signed calls arrive late or twice; three writers
share an entry; signer lists change under pending operations; polls overlap and
the process may die at any await; the API answers, caches and records around
transactions that are included whenever the network pleases; tabs share a
challenge; jobs, migrations and snapshots are cut short or overlap; a page has
several calls under way and one set of flags.

Where a hazard's property is one that does not hold, section 6 names it.

## 6. Where the code and its documentation disagree

The first three are runs of their own. `UpgradeAlone.cfg` and
`IndexerDuplicates.cfg` have the constants their counterexamples need. Each of
the others is a definition; named as the invariant or property of the
configuration in the second column, in place of that configuration's own, it gives a
short counterexample.

| Statement as a definition | Configuration | What the code does | Statement |
|---|---|---|---|
| `Solvent` | `FeeDrawnTwice` | `withdraw` sends the fee and adds it to the fee ledger too; `withdraw_protocol_fees` pays it out of the escrow again, lib.rs:386, 398-409 | README.md:40 |
| `RetriesAreSafe` | `RetryCreatesTwice` | the result of a transaction is looked for once, right after sending; a pending one is answered as a failure, which is not stored, and the retry with the same key sends another, api/services/stellarService.js:79 | api/middleware/idempotency.js:5 |
| `ExhaustedCanCollect` | `ExhaustedByQuery` | `get_stream` marks a stream Exhausted before the employee is paid; `claimable_amount` is 0 from then on and `withdraw` returns early, lib.rs:566, storage.rs:268 | docs/troubleshooting.md:40, 72 |
| `MinDepositNeedsNonce` | `AdminClients` | a passed proposal writes the minimum deposit without the admin and without the nonce, storage.rs:333 | docs/configuration-reference.md:32 |
| `NewEventsAreTaken` | `EventIndexer` | one page of events is read, and the cursor set to the latest ledger, past the events of the next page, index.js:117-120, 151-153 | services/indexer/src/index.js:4-5 |
| `RefusedBodyDiffers` | `Api` | the body sent is hashed with its keys as they came, the stored one as JSONB returns them: the same body in another order is refused with 422, as the documented one is (`employer, employee, token_address, ...` is not in JSONB's order), idempotency.js:48-52 | api/middleware/idempotency.js:54 |
| `ExitWaitsForRequests` | `Api` | `start` listens after `loadConfiguration` although a signal came meanwhile, and `shutdown`, which found no server, exits with 0 under the requests accepted, server.js:423-447 | api/server.js:415 |
| `LockoutsEnd` | `Services` | the failure count outlives the lockout, so that the next request after it is locked out again without a failure, and so on until an unlock, authRateLimiter.js:54-63 | api/middleware/authRateLimiter.js:48, 63 |
| `PollersEndWithMount` | `Demo` | a scan under way at the unmount finds the handles emptied and starts a loop nobody ends, useEmployeeDashboard.ts:40-41, 89-90 | demo/src/useEmployeeDashboard.ts:37 |
| `ExhaustedIsPaidOut` | `ExhaustedByQuery` | `get_stream` marks a stream Exhausted before the employee is paid; `claimable_amount` is 0 from then on, lib.rs:566 | docs/security-model.md:81 |
| `CancelledLeavesNoEscrow` | `ExhaustedByQuery` | `update_rate` counts the accrued amount as withdrawn and pays it to nobody; it stays in the escrow, lib.rs:537 | docs/security-model.md:80 |
| `NoFeeWithoutRecipient` | `ExhaustedByQuery` | the fee is withheld without a recipient, lib.rs:371 | docs/api-reference.md:225 |
| `OnlyValidTransitions` | `ExhaustedByQuery` | `reclaim_expired` takes Paused to Exhausted, lib.rs:603 | state_machine.rs:5-12, 69 |
| `EmployeeIndexCurrent` | `StreamRoles` | `transfer_stream` leaves the employee indexes, lib.rs:415 | docs/api-reference.md:802 |
| `PausedTimeExcluded` | `AccrualAudit` | cancelling or reclaiming a Paused stream pays the paused seconds, storage.rs:268, lib.rs:480 | README.md:190 |
| `ResumePreservesEarnings` | `AccrualAudit` | resuming after the stop moves the clock by the whole pause and loses earned seconds, lib.rs:462 | lib.rs:459-460 |
| `RateChangeKeepsEarnings` | `AccrualAudit` | `update_rate` before the cliff drops the seconds before it, lib.rs:536 | docs/api-reference.md:582 |
| `FeeWithinCap` | `Governance` | a proposal stores a fee above the cap, storage.rs:335 | types.rs:116, 189 |
| `ExecutesAtThreshold` | `Multisig` | a threshold of one is never executed by the proposal that meets it, lib.rs:742 | lib.rs:715 |
| `SignedByPresentAdmins` | `Multisig` | approvals of removed signers count, lib.rs:772 | lib.rs:710-711 |
| `UpgradeNeedsSignatures` | `UpgradeAlone` (`MCPayStream`) | the admin upgrades and pauses alone although a multisig is configured, lib.rs:618, 122 | lib.rs:710-711 |
| `OneRowPerEvent` | `IndexerDuplicates` (`MCEventIndexer`) | events without a stream_id are stored once per job: a NULL conflicts with nothing, index.js:43 | services/indexer/src/migrate.js:30 |
| `LogoutClears` | `Services` | a silent refresh under way at the logout stores its token afterwards, demo/src/useAuth.ts:81 | demo/src/useAuth.ts:58 |
| `RecordMatchesData` | `Services` | a rollback is recorded as `rolled_back` beside the `success` that is looked for, so that `migrate` skips the version; a `migrate` that fails discards the data of versions it has recorded | services/migration/migrationRunner.js:58 |
| `NothingOverwritten` | `Services` | two snapshots taken at once: the one saved last replaces the other | services/snapshot/snapshotStore.js:60 |

What else modelling brought up, without a statement it contradicts, or with one
that no property is needed for:

- `TimeoutIsFinal` has a condition: twenty polls of 1.5 s are exactly the 30 s
  of the time bound, so that only a signature that took longer than the network
  lags leaves room for the last ledger. After a quick one the message "not
  confirmed after timeout" may precede the inclusion, and a retry pays twice.
- The SDK's `withdraw` passes an amount, which the contract of this repository
  does not take; the model has both contracts (`takes_amount`).
- `GET /streams/count` is declared after `/:stream_id` and never reached. An
  `Idempotency-Key` is ignored for callers with an API key. `delete_user` and
  `force_cancel` answer success after failures. `/ready` does not look at the
  shutdown.
- "Caches responses for 24 hours" (api/middleware/idempotency.js:6): no query and
  no job removes a row of the table or looks at its age, and the model's rows stay.
- Governance writes a fee whether or not there is a recipient, and a call signed
  before a governance write and delivered after it overwrites that write, since
  the nonce is still the same (the exception of `NoLostUpdate`).
- `create_streams_batch` calls `check_and_bump_rate`, which is defined nowhere
  (lib.rs:291); the model leaves the call out. A batch in the model has two
  streams, the fewest in which one may take from the other.
- Two tabs replace each other's challenge; rotating a key gives it a fresh
  window; the routes of `apiKeys.js` are not mounted by `server.js`.
- `cleanup` on `MemoryStorage` may write back more than `retentionLimit`, and a
  limit of 0 keeps everything.
- In the demo the newest stream is looked up as the count less one although ids
  start at one (usePayStream.ts:93-95); "True while any transaction is in flight
  (disables all buttons)" (StreamStatusCard.tsx:147) holds for one stream's
  buttons, not for the employer's page; the creation form is cleared after a
  failure as after a success; the cancel dialog shows earned and refund under
  each other's names; the buttons of an employer on the detail page do nothing.
  `App.tsx` uses `useEmployerDashboard`, `StreamDetailPage` and `navOpen` without
  importing or declaring them, and is modelled as if it did.
- The frontend's client sends a request that was not answered within ten seconds
  again, up to twice, `POST /streams` too and without a key.

## 7. Not modelled, and why

- `contracts/stream/src/balance.rs` is not declared as a module of the contract.
- `services/notification` uses `Worker` and `connection` without importing them
  and stops with a ReferenceError when loaded.
- The token contract beyond `transfer`: the stream contract calls neither
  allowances nor mint nor burn.
- `maybe_warn_exhaustion` and `migrate` change no state; `api_validation` checks
  single requests; the cache, pool and search crates wrap other systems.
- The API's contract calls construct `this.rpc.Contract`, which the RPC client
  object does not have, and never sign. `ApiServer` models what they are written
  to do: send, look once, answer.
- Templates, webhooks, mail and the API's analytics are synchronous tables of
  single records or reports from one query; `services/analytics` is a fold
  behind a cache of one entry, which two requests may both recompute.
- The example server in `backend/index.js` has two stub routes; logging, metrics,
  secrets and configuration are input and output only.
- The Python SDK makes the SDK's calls one at a time. The frontend is a shell of
  forms. Of the demo, histories, prices, templates, toasts and the first-visit
  wizard show or remember text; `StreamWithdrawalForm`, `PauseResumeControls` and
  `StreamDashboard` are rendered by no page.
- Storage time-to-live: entries are extended on each write.

## 8. Plan

1. `Token`: allowances, minters, mint and burn; composed with the payments.
2. The demo's transaction history, which fetches pages while others are being
   fetched.
