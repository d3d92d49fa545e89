---------------------------- MODULE EventIndexer ----------------------------
(* The event indexer: a poller reads contract events from the RPC server     *)
(* and queues one job for each of them, a worker of the same process stores  *)
(* the jobs' events in stream_events.  The cursor, the events and the queue  *)
(* outlive the process; a poll in progress does not.                         *)
(*                                                                           *)
(* Every ledger carries at most one event of the contract, so that an event  *)
(* is named by its ledger.  The RPC server and the BullMQ queue are external *)
(* and modelled from how the indexer uses them.                              *)
EXTENDS Naturals, Sequences, FiniteSets

CONSTANTS
    Polls,        \* polls that may be in progress at once (setInterval does not wait)
    Contents,     \* what a ledger may hold: nothing, or an event about a stream or
                  \* about the contract as a whole
    MaxLedgers,   \* bound on the ledgers the network closes
    PageSize,     \* events in one answer of the RPC server (indexEvents sets no limit)
    MaxAttempts,  \* attempts of a job before the queue gives it up
    MaxJobs,      \* bound on the jobs in the queue
    MaxFaults     \* bound on failed calls and crashes together

ASSUME IndexerAssumption ==
    /\ Contents \subseteq {"empty", "stream", "contract"}
    /\ PageSize \in Nat \ {0}
    /\ MaxLedgers \in Nat /\ MaxAttempts \in Nat \ {0} /\ MaxJobs \in Nat /\ MaxFaults \in Nat

VARIABLES
    chain,    \* what each closed ledger holds
    oldest,   \* the oldest ledger the RPC server still serves
    cursor,   \* indexer_cursor.last_ledger
    poll,     \* the polls in progress
    jobs,     \* the queue "indexer", the job the worker is at included
    rows,     \* rows[l]: rows of stream_events for the event of ledger l
    failed,   \* events with a job in the queue's failed set
    skipped,  \* events passed over when the cursor was too old (history)
    cut,      \* events passed over because they were beyond the page (history)
    faults    \* failed calls and crashes so far

vars == <<chain, oldest, cursor, poll, jobs, rows, failed, skipped, cut, faults>>
process_vars == <<cursor, poll, jobs, rows, failed, skipped, cut>>

Ledgers == 1..MaxLedgers
Latest == Len(chain)
HasEvent(l) == l <= Latest /\ chain[l] # "empty"

PollSteps == {"idle", "read", "adding", "skipping"}
\* batch is what is left of the answer to queue, beyond what the answer had no room for.
Poll == [pc : PollSteps, last : Nat, seen : Nat, batch : SUBSET Ledgers, beyond : SUBSET Ledgers]
Idle == [pc |-> "idle", last |-> 0, seen |-> 0, batch |-> {}, beyond |-> {}]

Job == [id : 1..MaxJobs, event : Ledgers, attempts : 0..(MaxAttempts - 1),
        state : {"waiting", "stored"}]

TypeOK ==
    /\ chain \in Seq(Contents) /\ Latest <= MaxLedgers
    /\ oldest \in Nat \ {0}
    /\ cursor \in Nat
    /\ poll \in [Polls -> Poll]
    /\ jobs \in SUBSET Job
    /\ rows \in [Ledgers -> Nat]
    /\ failed \in SUBSET Ledgers /\ skipped \in SUBSET Ledgers /\ cut \in SUBSET Ledgers
    /\ faults \in Nat

Init ==
    /\ chain = <<>> /\ oldest = 1
    /\ cursor = 0
    /\ poll = [p \in Polls |-> Idle]
    /\ jobs = {}
    /\ rows = [l \in Ledgers |-> 0]
    /\ failed = {} /\ skipped = {} /\ cut = {} /\ faults = 0

-----------------------------------------------------------------------------
(* The network.                                                            *)

CloseLedger ==
    /\ Latest < MaxLedgers
    /\ \E e \in Contents : chain' = Append(chain, e)
    /\ UNCHANGED <<oldest, process_vars, faults>>

\* The RPC server serves a window of recent ledgers.
DropOldest ==
    /\ oldest < Latest
    /\ oldest' = oldest + 1
    /\ UNCHANGED <<chain, process_vars, faults>>

-----------------------------------------------------------------------------
(* indexEvents, cut at its awaits.                                         *)

getLastLedger(p) ==
    /\ poll[p].pc = "idle"
    /\ poll' = [poll EXCEPT ![p].pc = "read", ![p].last = cursor]
    /\ UNCHANGED <<chain, oldest, cursor, jobs, rows, failed, skipped, cut, faults>>

StartLedger(p) == IF poll[p].last > 0 THEN poll[p].last + 1 ELSE 1

Pending(p) == {l \in Ledgers : l >= StartLedger(p) /\ HasEvent(l)}

\* An answer holds the first PageSize of the events asked for.
Page(found) == {l \in found : Cardinality({m \in found : m <= l}) <= PageSize}

\* The answer names the latest ledger of the network, whether or not its page
\* reaches that far.
getEvents(p) ==
    /\ poll[p].pc = "read" /\ StartLedger(p) >= oldest
    /\ poll' = [poll EXCEPT ![p].pc = "adding", ![p].seen = Latest,
                            ![p].batch = Page(Pending(p)),
                            ![p].beyond = Pending(p) \ Page(Pending(p))]
    /\ UNCHANGED <<chain, oldest, cursor, jobs, rows, failed, skipped, cut, faults>>

\* A number no job of the queue has.
NewId(n) == /\ \A j \in jobs : j.id # n
            /\ \A m \in 1..(n - 1) : \E j \in jobs : j.id = m

\* Each event of the answer becomes a job, in ledger order.  The queue gives
\* every job a number of its own, so that a second job for an event is kept.
addJob(p) ==
    /\ poll[p].pc = "adding"
    /\ \E l \in poll[p].batch, n \in 1..MaxJobs :
          /\ NewId(n)
          /\ \A m \in poll[p].batch : l <= m
          /\ jobs' = jobs \cup {[id |-> n, event |-> l, attempts |-> 0, state |-> "waiting"]}
          /\ poll' = [poll EXCEPT ![p].batch = @ \ {l}]
    /\ UNCHANGED <<chain, oldest, cursor, rows, failed, skipped, cut, faults>>

\* Mutant: the jobs are added without waiting for the queue, and the poll is over.
AllAdded_unawaited(p) == poll[p].pc = "adding"

AllAdded(p) == poll[p].pc = "adding" /\ poll[p].batch = {}

\* The cursor goes to the latest ledger the answer named: the next page is
\* never asked for.
setLastLedger(p) ==
    /\ AllAdded(p)
    /\ IF poll[p].seen > poll[p].last
       THEN cursor' = poll[p].seen /\ cut' = cut \cup poll[p].beyond
       ELSE UNCHANGED <<cursor, cut>>
    /\ poll' = [poll EXCEPT ![p] = Idle]
    /\ UNCHANGED <<chain, oldest, jobs, rows, failed, skipped, faults>>

\* The server no longer serves the first ledger asked for, and is asked for its
\* latest one.  It will not serve the former again, so the two calls are one step.
startLedgerTooOld(p) ==
    /\ poll[p].pc = "read" /\ StartLedger(p) < oldest
    /\ poll' = [poll EXCEPT ![p].pc = "skipping", ![p].seen = Latest]
    /\ UNCHANGED <<chain, oldest, cursor, jobs, rows, failed, skipped, cut, faults>>

\* Mutant: the recovery only reports and leaves the cursor where it is.
skipToLatest_reported(p) ==
    /\ poll[p].pc = "skipping"
    /\ poll' = [poll EXCEPT ![p] = Idle]
    /\ UNCHANGED <<chain, oldest, cursor, jobs, rows, failed, skipped, cut, faults>>

skipToLatest(p) ==
    /\ poll[p].pc = "skipping"
    /\ cursor' = poll[p].seen
    /\ skipped' = skipped \cup {l \in Ledgers : StartLedger(p) <= l /\ l <= poll[p].seen}
    /\ poll' = [poll EXCEPT ![p] = Idle]
    /\ UNCHANGED <<chain, oldest, jobs, rows, failed, cut, faults>>

\* A call to the database, the RPC server or the queue fails: the poll is
\* reported and given up, what it did so far stays done.
pollFails(p) ==
    /\ faults < MaxFaults
    /\ poll[p].pc # "idle"
    /\ poll' = [poll EXCEPT ![p] = Idle]
    /\ faults' = faults + 1
    /\ UNCHANGED <<chain, oldest, cursor, jobs, rows, failed, skipped, cut>>

-----------------------------------------------------------------------------
(* The worker, which takes one job at a time, in no fixed order: a job whose *)
(* last attempt failed waits behind others for its backoff delay.  Between   *)
(* its start and its insert a job has done nothing, and counts as waiting.   *)

WorkerFree == \A j \in jobs : j.state = "waiting"
Moved(j, k) == (jobs \ {j}) \cup {k}

\* Mutant: a plain INSERT.
Inserted_always(l) == rows[l] + 1

\* INSERT ... ON CONFLICT (tx_hash, event_type, stream_id) DO NOTHING.  An event
\* about the contract has no stream_id, and a NULL conflicts with nothing.
Inserted(l) == IF chain[l] = "stream" /\ rows[l] > 0 THEN rows[l] ELSE rows[l] + 1

insertEvent(j) ==
    /\ WorkerFree
    /\ rows' = [rows EXCEPT ![j.event] = Inserted(j.event)]
    /\ jobs' = Moved(j, [j EXCEPT !.state = "stored"])
    /\ UNCHANGED <<chain, oldest, cursor, poll, failed, skipped, cut, faults>>

\* removeOnComplete.
completeJob(j) ==
    /\ j.state = "stored"
    /\ jobs' = jobs \ {j}
    /\ UNCHANGED <<chain, oldest, cursor, poll, rows, failed, skipped, cut, faults>>

Retryable(j) == j.attempts + 1 < MaxAttempts

\* The insert throws: the job is retried until its attempts are used up, and
\* then kept in the failed set, which nothing reads.
jobFails(j) ==
    /\ faults < MaxFaults
    /\ WorkerFree
    /\ IF Retryable(j)
       THEN /\ jobs' = Moved(j, [j EXCEPT !.state = "waiting", !.attempts = @ + 1])
            /\ UNCHANGED failed
       ELSE /\ jobs' = jobs \ {j}
            /\ failed' = failed \cup {j.event}
    /\ faults' = faults + 1
    /\ UNCHANGED <<chain, oldest, cursor, poll, rows, skipped, cut>>

-----------------------------------------------------------------------------

\* The queue notices that the worker is gone and lets the job run again.
Requeued == {[j EXCEPT !.state = "waiting"] : j \in jobs}

\* The process dies and is started again.
crash ==
    /\ faults < MaxFaults
    /\ poll' = [p \in Polls |-> Idle]
    /\ jobs' = Requeued
    /\ faults' = faults + 1
    /\ UNCHANGED <<chain, oldest, cursor, rows, failed, skipped, cut>>

PollStep(p) ==
    \/ getLastLedger(p) \/ getEvents(p) \/ addJob(p) \/ setLastLedger(p)
    \/ startLedgerTooOld(p) \/ skipToLatest(p)

WorkStep == \E j \in jobs : insertEvent(j) \/ completeJob(j)

FaultStep == crash \/ (\E p \in Polls : pollFails(p)) \/ (\E j \in jobs : jobFails(j))

Next == CloseLedger \/ DropOldest \/ (\E p \in Polls : PollStep(p)) \/ WorkStep \/ FaultStep

\* The interval timer keeps polling, Node runs every pending callback, and the
\* queue keeps feeding the worker.  Faults are bounded, so that no step is
\* interrupted for ever; the network may stop at any time.
Spec ==
    /\ Init /\ [][Next]_vars
    /\ \A p \in Polls : WF_vars(PollStep(p))
    /\ WF_vars(WorkStep)

-----------------------------------------------------------------------------

Queued(l) == \E j \in jobs : j.event = l
Settled(l) == rows[l] > 0 \/ l \in failed \/ l \in skipped
Taken(l) == Settled(l) \/ Queued(l)

\* The cursor never moves past an event that is not yet stored, queued, given
\* up by the queue or knowingly skipped, except for what a full page left out
\* (NewEventsAreTaken) -- although polls overlap, a slow poll may move the
\* cursor back, and any await of indexEvents may be the last one before a crash.
NothingForgotten == \A l \in Ledgers : HasEvent(l) /\ l <= cursor => Taken(l) \/ l \in cut

\* services/indexer/src/index.js:4: "Polls Soroban RPC every POLL_INTERVAL_MS for
\* new contract events, stores them in PostgreSQL": an event the cursor has
\* passed, and will not be asked for again, has been taken.
NewEventsAreTaken == \A l \in Ledgers : HasEvent(l) /\ l <= cursor => Taken(l)

\* However often an event is queued (by overlapping polls, by a poll repeated
\* after a crash, by a job run again after its insert), an event about a stream
\* is stored once.
OneRowPerStreamEvent == \A l \in Ledgers : HasEvent(l) /\ chain[l] = "stream" => rows[l] <= 1

\* services/indexer/src/migrate.js:30: "Deduplication: one row per (tx_hash,
\* event_type, stream_id)", here for the events about the contract too.
OneRowPerEvent == \A l \in Ledgers : rows[l] <= 1

\* Every event of the contract is in the end stored, given up after its
\* attempts, skipped because the RPC server no longer served the cursor, or
\* left out by a full page.
EveryEventSettles == \A l \in Ledgers : HasEvent(l) ~> Settled(l) \/ l \in cut
=============================================================================
