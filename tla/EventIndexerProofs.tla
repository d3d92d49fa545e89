------------------------- MODULE EventIndexerProofs -------------------------
(* The indexer forgets no event of a page and stores no stream event twice,  *)
(* for any page size and any number of overlapping polls, ledgers, attempts  *)
(* and faults.                                                               *)
EXTENDS EventIndexer, TLAPS

Covered(l) == Taken(l) \/ l \in cut

\* Nothing refers to a ledger that is not closed.
KnownLedgers ==
    /\ cursor <= Latest
    /\ \A p \in Polls : /\ poll[p].last <= Latest /\ poll[p].seen <= Latest
                        /\ \A l \in poll[p].batch : HasEvent(l)
    /\ \A j \in jobs : HasEvent(j.event)
    /\ \A l \in Ledgers : rows[l] > 0 => HasEvent(l)

\* A job is removed from the queue for a row that is there.
StoredJobs == \A j \in jobs : j.state = "stored" => rows[j.event] > 0

\* A poll has read a cursor whose past is covered, and it still holds what it
\* has seen and not queued or had no room for: it may be overtaken, but what it will write to the
\* cursor is covered by then.
PollsCover ==
    \A p \in Polls, l \in Ledgers :
       HasEvent(l) /\ poll[p].pc # "idle" =>
          /\ l <= poll[p].last => Covered(l)
          /\ poll[p].pc = "adding" /\ poll[p].last < l /\ l <= poll[p].seen
                => l \in poll[p].batch \/ l \in poll[p].beyond \/ Covered(l)

IInv == /\ TypeOK /\ KnownLedgers /\ StoredJobs /\ PollsCover
        /\ NothingForgotten /\ OneRowPerStreamEvent

-----------------------------------------------------------------------------
(* Facts about one step.                                                   *)

\* What was covered stays covered: a job leaves the queue for a row or for the
\* failed set, and comes back to the queue after a crash.
LEMMA CoverageStays ==
    ASSUME TypeOK, StoredJobs, [Next]_vars, NEW l \in Ledgers, Covered(l)
    PROVE  Covered(l)'
<1> USE DEF Covered, Taken, Settled, Queued
<1>1. CASE CloseLedger \/ DropOldest
  BY <1>1 DEF CloseLedger, DropOldest, process_vars
<1>2. ASSUME NEW p \in Polls, PollStep(p) \/ pollFails(p)
      PROVE  Covered(l)'
  <2>1. /\ rows' = rows /\ failed' = failed
        /\ skipped \subseteq skipped' /\ cut \subseteq cut' /\ jobs \subseteq jobs'
    BY <1>2 DEF PollStep, pollFails, getLastLedger, getEvents, addJob, setLastLedger,
                startLedgerTooOld, skipToLatest
  <2> QED
    BY <2>1
<1>3. ASSUME NEW j \in jobs, insertEvent(j) \/ completeJob(j) \/ jobFails(j)
      PROVE  Covered(l)'
  <2>1. j \in Job /\ rows \in [Ledgers -> Nat]
    BY DEF TypeOK
  <2>2. CASE insertEvent(j)
    <3>1. rows'[l] >= rows[l]
      BY <2>1, <2>2 DEF insertEvent, Inserted, Job
    <3>2. ASSUME NEW k \in jobs, k.event = l PROVE \E m \in jobs' : m.event = l
      <4>1. CASE k = j
        <5>1. [j EXCEPT !.state = "stored"] \in jobs'
          BY <2>2 DEF insertEvent, Moved
        <5> QED
          BY <2>1, <3>2, <4>1, <5>1 DEF Job
      <4>2. CASE k # j
        BY <2>2, <3>2, <4>2 DEF insertEvent, Moved
      <4> QED
        BY <4>1, <4>2
    <3> QED
      BY <2>1, <2>2, <3>1, <3>2 DEF insertEvent
  <2>3. CASE completeJob(j)
    BY <2>3 DEF completeJob, StoredJobs
  <2>4. CASE jobFails(j)
    <3>1. CASE Retryable(j)
      <4>1. ASSUME NEW k \in jobs, k.event = l PROVE \E m \in jobs' : m.event = l
        <5>1. CASE k = j
          <6>1. [j EXCEPT !.state = "waiting", !.attempts = @ + 1] \in jobs'
            BY <2>4, <3>1 DEF jobFails, Moved
          <6> QED
            BY <2>1, <4>1, <5>1, <6>1 DEF Job
        <5>2. CASE k # j
          BY <2>4, <3>1, <4>1, <5>2 DEF jobFails, Moved
        <5> QED
          BY <5>1, <5>2
      <4> QED
        BY <2>4, <3>1, <4>1 DEF jobFails
    <3>2. CASE ~Retryable(j)
      BY <2>4, <3>2 DEF jobFails
    <3> QED
      BY <3>1, <3>2
  <2> QED
    BY <1>3, <2>2, <2>3, <2>4
<1>4. CASE crash
  <2>1. ASSUME NEW k \in jobs, k.event = l PROVE \E m \in jobs' : m.event = l
    <3>1. [k EXCEPT !.state = "waiting"] \in jobs'
      BY <1>4 DEF crash, Requeued
    <3>2. k \in Job
      BY DEF TypeOK
    <3> QED
      BY <2>1, <3>1, <3>2 DEF Job
  <2> QED
    BY <1>4, <2>1 DEF crash
<1>5. CASE UNCHANGED vars
  BY <1>5 DEF vars
<1> QED
  BY <1>1, <1>2, <1>3, <1>4, <1>5 DEF Next, WorkStep, FaultStep

\* Ledgers are never reopened.
LEMMA LedgersStay ==
    ASSUME TypeOK, [Next]_vars
    PROVE  /\ Latest' >= Latest /\ Latest' \in Nat /\ Latest \in Nat
           /\ \A l \in Ledgers : HasEvent(l) => HasEvent(l)' /\ chain'[l] = chain[l]
           /\ \A l \in Ledgers : HasEvent(l)' => HasEvent(l) \/ l > Latest
<1>1. chain \in Seq(Contents)
  BY DEF TypeOK
<1>2. CASE CloseLedger
  <2>1. PICK e \in Contents : chain' = Append(chain, e)
    BY <1>2 DEF CloseLedger
  <2> QED
    BY <1>1, <2>1 DEF Latest, HasEvent, Ledgers
<1>3. CASE chain' = chain
  BY <1>1, <1>3 DEF Latest, HasEvent, Ledgers
<1>4. ASSUME ~CloseLedger PROVE chain' = chain
  BY <1>4 DEF Next, vars, DropOldest, PollStep, getLastLedger, getEvents, addJob, setLastLedger,
              startLedgerTooOld, skipToLatest, WorkStep, insertEvent, completeJob,
              FaultStep, crash, pollFails, jobFails
<1> QED
  BY <1>2, <1>3, <1>4

\* A poll is changed by its own steps only, or given up.
LEMMA PollChanges ==
    ASSUME TypeOK, [Next]_vars, NEW p \in Polls
    PROVE  PollStep(p) \/ poll'[p] = poll[p] \/ poll'[p] = Idle
<1>1. poll \in [Polls -> Poll]
  BY DEF TypeOK
<1>2. ASSUME NEW q \in Polls, PollStep(q), q # p PROVE poll'[p] = poll[p]
  BY <1>1, <1>2 DEF PollStep, getLastLedger, getEvents, addJob, setLastLedger,
                    startLedgerTooOld, skipToLatest
<1>3. ASSUME NEW q \in Polls, pollFails(q) PROVE poll'[p] \in {poll[p], Idle}
  BY <1>1, <1>3 DEF pollFails
<1>4. ASSUME crash PROVE poll'[p] = Idle
  BY <1>4 DEF crash
<1>5. \/ poll' = poll \/ crash
      \/ \E q \in Polls : PollStep(q) \/ pollFails(q)
  BY DEF Next, vars, CloseLedger, DropOldest, process_vars, WorkStep, insertEvent,
         completeJob, FaultStep, jobFails
<1> QED
  BY <1>2, <1>3, <1>4, <1>5

-----------------------------------------------------------------------------
(* The conjuncts of the invariant, one by one.                             *)

LEMMA TypeInv ==
    ASSUME TypeOK, [Next]_vars
    PROVE  TypeOK'
<1> USE IndexerAssumption DEF TypeOK, Poll, PollSteps
<1>1. Latest \in Nat /\ chain \in Seq(Contents)
  BY DEF Latest
<1>2. Idle \in Poll
  BY DEF Idle
<1>3. CASE CloseLedger
  <2>1. PICK e \in Contents : chain' = Append(chain, e)
    BY <1>3 DEF CloseLedger
  <2> QED
    BY <1>1, <1>3, <2>1 DEF CloseLedger, process_vars, Latest
<1>4. CASE DropOldest
  BY <1>4 DEF DropOldest, process_vars, Latest
<1>5. ASSUME NEW p \in Polls, PollStep(p) PROVE TypeOK'
  <2>1. CASE getLastLedger(p)
    BY <2>1 DEF getLastLedger, Latest
  <2>2. CASE getEvents(p)
    <3> DEFINE found == Page(Pending(p))
               left == Pending(p) \ Page(Pending(p))
    <3>1. poll' = [poll EXCEPT ![p].pc = "adding", ![p].seen = Latest, ![p].batch = found,
                               ![p].beyond = left]
      BY <2>2 DEF getEvents
    <3>2. found \in SUBSET Ledgers /\ left \in SUBSET Ledgers
      BY DEF Page, Pending
    <3> HIDE DEF found, left
    <3>3. poll' \in [Polls -> Poll]
      <4>1. poll[p] \in Poll /\ Latest \in Nat
        BY <1>1
      <4>2. [poll[p] EXCEPT !.pc = "adding", !.seen = Latest, !.batch = found,
                            !.beyond = left] \in Poll
        BY <1>1, <3>2, <4>1 DEF Latest
      <4> QED
        BY <3>1, <4>2
    <3>4. UNCHANGED <<chain, oldest, cursor, jobs, rows, failed, skipped, cut, faults>>
      BY <2>2 DEF getEvents
    <3> QED
      BY <3>3, <3>4 DEF Latest
  <2>3. CASE addJob(p)
    <3>1. PICK l \in poll[p].batch, n \in 1..MaxJobs :
             /\ jobs' = jobs \cup {[id |-> n, event |-> l, attempts |-> 0, state |-> "waiting"]}
             /\ poll' = [poll EXCEPT ![p].batch = @ \ {l}]
      BY <2>3 DEF addJob
    <3>2. l \in Ledgers
      OBVIOUS
    <3>3. [id |-> n, event |-> l, attempts |-> 0, state |-> "waiting"] \in Job
      BY <3>2 DEF Job
    <3>4. [poll[p] EXCEPT !.batch = @ \ {l}] \in Poll
      OBVIOUS
    <3>5. jobs' \in SUBSET Job
      <4> HIDE DEF Poll
      <4> QED
        BY <3>1, <3>3
    <3>6. poll' \in [Polls -> Poll]
      <4> DEFINE q == [poll[p] EXCEPT !.batch = @ \ {l}]
      <4>1. poll' = [poll EXCEPT ![p] = q]
        BY <3>1
      <4>2. q \in Poll
        BY <3>4
      <4>3. poll \in [Polls -> Poll]
        OBVIOUS
      <4> HIDE DEF Poll, q
      <4> QED
        BY <4>1, <4>2, <4>3
    <3> QED
      BY <2>3, <3>5, <3>6 DEF addJob, Latest
  <2>4. CASE setLastLedger(p)
    BY <1>2, <2>4 DEF setLastLedger, Latest
  <2>5. CASE startLedgerTooOld(p)
    BY <1>1, <2>5 DEF startLedgerTooOld, Latest
  <2>6. CASE skipToLatest(p)
    BY <1>2, <2>6 DEF skipToLatest, Latest
  <2> QED
    BY <1>5, <2>1, <2>2, <2>3, <2>4, <2>5, <2>6 DEF PollStep
<1>6. ASSUME NEW j \in jobs, insertEvent(j) \/ completeJob(j) \/ jobFails(j)
      PROVE  TypeOK'
  <2>1. j \in Job
    OBVIOUS
  <2>2. CASE insertEvent(j)
    <3>1. [j EXCEPT !.state = "stored"] \in Job
      BY <2>1 DEF Job
    <3>2. Inserted(j.event) \in Nat /\ j.event \in Ledgers
      BY <2>1 DEF Inserted, Job
    <3> QED
      BY <2>2, <3>1, <3>2 DEF insertEvent, Moved, Latest
  <2>3. CASE completeJob(j)
    BY <2>3 DEF completeJob, Latest
  <2>4. CASE jobFails(j)
    <3>1. ASSUME Retryable(j)
          PROVE  [j EXCEPT !.state = "waiting", !.attempts = @ + 1] \in Job
      <4>1. j.attempts \in 0..(MaxAttempts - 1) /\ j.attempts + 1 \in 0..(MaxAttempts - 1)
        BY <2>1, <3>1 DEF Job, Retryable
      <4> QED
        BY <2>1, <4>1 DEF Job
    <3>2. j.event \in Ledgers
      BY <2>1 DEF Job
    <3> QED
      BY <2>4, <3>1, <3>2 DEF jobFails, Moved, Latest
  <2> QED
    BY <1>6, <2>2, <2>3, <2>4
<1>7. CASE crash
  <2>1. ASSUME NEW j \in jobs PROVE [j EXCEPT !.state = "waiting"] \in Job
    BY <2>1 DEF Job
  <2> QED
    BY <1>2, <1>7, <2>1 DEF crash, Requeued, Latest
<1>8. ASSUME NEW p \in Polls, pollFails(p) PROVE TypeOK'
  BY <1>2, <1>8 DEF pollFails, Latest
<1>9. CASE UNCHANGED vars
  BY <1>9 DEF vars, Latest
<1> QED
  BY <1>3, <1>4, <1>5, <1>6, <1>7, <1>8, <1>9 DEF Next, WorkStep, FaultStep

LEMMA KnownInv ==
    ASSUME IInv, [Next]_vars
    PROVE  KnownLedgers'
<1>1. /\ Latest' >= Latest /\ Latest' \in Nat /\ Latest \in Nat
      /\ \A l \in Ledgers : HasEvent(l) => HasEvent(l)'
  BY LedgersStay DEF IInv
<1>2. /\ cursor \in Nat /\ poll \in [Polls -> Poll] /\ jobs \in SUBSET Job
      /\ rows \in [Ledgers -> Nat]
  BY DEF IInv, TypeOK
<1>3. KnownLedgers
  BY DEF IInv
<1>4. TypeOK'
  BY TypeInv DEF IInv
<1>5. cursor' <= Latest'
  <2>1. cursor' = cursor \/ \E p \in Polls : cursor' = poll[p].seen
    BY DEF Next, vars, CloseLedger, DropOldest, process_vars, PollStep, getLastLedger, getEvents,
           addJob, setLastLedger, startLedgerTooOld, skipToLatest, WorkStep, insertEvent,
           completeJob, FaultStep, crash, pollFails, jobFails
  <2> QED
    BY <1>1, <1>2, <1>3, <2>1 DEF KnownLedgers, Poll
<1>6. ASSUME NEW p \in Polls
      PROVE  /\ poll'[p].last <= Latest' /\ poll'[p].seen <= Latest'
             /\ \A l \in poll'[p].batch : HasEvent(l)'
  <2>1. CASE poll'[p] = poll[p]
    BY <1>1, <1>2, <1>3, <2>1 DEF KnownLedgers, Poll
  <2>2. CASE poll'[p] = Idle
    BY <1>1, <2>2 DEF Idle
  <2>3. CASE PollStep(p)
    <3>1. CASE getLastLedger(p)
      BY <1>1, <1>2, <1>3, <3>1 DEF getLastLedger, KnownLedgers, Poll
    <3>2. CASE getEvents(p)
      <4>1. \A l \in Page(Pending(p)) : HasEvent(l) /\ l \in Ledgers
        BY DEF Page, Pending
      <4>2. /\ poll'[p].last = poll[p].last /\ poll'[p].seen = Latest
            /\ poll'[p].batch = Page(Pending(p))
        BY <1>2, <3>2 DEF getEvents, Poll
      <4> QED
        BY <1>1, <1>2, <1>3, <4>1, <4>2 DEF KnownLedgers, Poll
    <3>3. CASE addJob(p)
      BY <1>1, <1>2, <1>3, <3>3 DEF addJob, KnownLedgers, Poll
    <3>4. CASE startLedgerTooOld(p)
      BY <1>1, <1>2, <1>3, <3>4 DEF startLedgerTooOld, KnownLedgers, Poll
    <3>5. CASE setLastLedger(p) \/ skipToLatest(p)
      BY <1>2, <2>2, <3>5 DEF setLastLedger, skipToLatest
    <3> QED
      BY <2>3, <3>1, <3>2, <3>3, <3>4, <3>5 DEF PollStep
  <2>4. PollStep(p) \/ poll'[p] = poll[p] \/ poll'[p] = Idle
    BY PollChanges DEF IInv
  <2> QED
    BY <2>1, <2>2, <2>3, <2>4
<1>7. ASSUME NEW k \in jobs' PROVE HasEvent(k.event)'
  <2>1. \/ \E j \in jobs : k.event = j.event
        \/ \E p \in Polls : k.event \in poll[p].batch
    <3>1. CASE jobs' \subseteq jobs
      BY <3>1
    <3>2. ASSUME NEW p \in Polls, addJob(p)
          PROVE  (\E j \in jobs : k.event = j.event) \/ k.event \in poll[p].batch
      BY <3>2 DEF addJob
    <3>3. ASSUME NEW j \in jobs, insertEvent(j) \/ jobFails(j)
          PROVE  \E i \in jobs : k.event = i.event
      <4>1. j \in Job
        BY <1>2
      <4>2. /\ [j EXCEPT !.state = "stored"].event = j.event
            /\ [j EXCEPT !.state = "waiting", !.attempts = @ + 1].event = j.event
        BY <4>1 DEF Job
      <4>3. \/ jobs' = (jobs \ {j}) \cup {[j EXCEPT !.state = "stored"]}
            \/ jobs' = (jobs \ {j}) \cup {[j EXCEPT !.state = "waiting", !.attempts = @ + 1]}
            \/ jobs' = jobs \ {j}
        BY <3>3 DEF insertEvent, jobFails, Moved
      <4> QED
        BY <4>2, <4>3
    <3>4. CASE crash
      BY <1>2, <3>4 DEF crash, Requeued, Job
    <3>5. \/ jobs' \subseteq jobs \/ (\E p \in Polls : addJob(p)) \/ crash
          \/ \E j \in jobs : insertEvent(j) \/ jobFails(j)
      BY DEF Next, vars, CloseLedger, DropOldest, process_vars, PollStep, getLastLedger,
             getEvents, setLastLedger, startLedgerTooOld, skipToLatest, WorkStep,
             completeJob, FaultStep, pollFails
    <3> QED
      BY <3>1, <3>2, <3>3, <3>4, <3>5
  <2> QED
    BY <1>1, <1>2, <1>3, <2>1 DEF KnownLedgers, Poll, Job
<1>8. ASSUME NEW l \in Ledgers, rows'[l] > 0 PROVE HasEvent(l)'
  <2>1. ASSUME NEW j \in jobs, insertEvent(j), l # j.event PROVE rows'[l] = rows[l]
    BY <1>2, <2>1 DEF insertEvent
  <2>2. rows' = rows \/ \E j \in jobs : insertEvent(j)
    BY DEF Next, vars, CloseLedger, DropOldest, process_vars, PollStep, getLastLedger,
           getEvents, addJob, setLastLedger, startLedgerTooOld, skipToLatest, WorkStep,
           completeJob, FaultStep, crash, pollFails, jobFails
  <2> QED
    BY <1>1, <1>3, <1>8, <2>1, <2>2 DEF KnownLedgers
<1> QED
  BY <1>5, <1>6, <1>7, <1>8 DEF KnownLedgers

LEMMA StoredInv ==
    ASSUME TypeOK, StoredJobs, [Next]_vars
    PROVE  StoredJobs'
<1>1. jobs \in SUBSET Job /\ rows \in [Ledgers -> Nat]
  BY DEF TypeOK
<1>2. CASE rows' = rows /\ \A k \in jobs' : k \in jobs \/ k.state = "waiting"
  BY <1>2 DEF StoredJobs
<1>3. ASSUME NEW j \in jobs, insertEvent(j)
      PROVE  StoredJobs'
  <2>1. j \in Job /\ j.event \in Ledgers
    BY <1>1 DEF Job
  <2>2. rows'[j.event] > 0
    BY <1>1, <1>3, <2>1 DEF insertEvent, Inserted
  <2>3. ASSUME NEW k \in jobs', k.state = "stored" PROVE k.event = j.event
    BY <1>1, <1>3, <2>1, <2>3 DEF insertEvent, Moved, WorkerFree, Job
  <2> QED
    BY <2>2, <2>3 DEF StoredJobs
<1>4. ASSUME NEW j \in jobs, jobFails(j) 
      PROVE  rows' = rows /\ \A k \in jobs' : k \in jobs \/ k.state = "waiting"
  BY <1>1, <1>4 DEF jobFails, Moved, Job
<1>5. CASE crash
  BY <1>1, <1>5, <1>2 DEF crash, Requeued, Job
<1>6. ASSUME NEW p \in Polls, addJob(p)
      PROVE  rows' = rows /\ \A k \in jobs' : k \in jobs \/ k.state = "waiting"
  BY <1>6 DEF addJob
<1>7. \/ rows' = rows /\ jobs' \subseteq jobs
      \/ (\E p \in Polls : addJob(p)) \/ crash
      \/ \E j \in jobs : insertEvent(j) \/ jobFails(j)
  BY DEF Next, vars, CloseLedger, DropOldest, process_vars, PollStep, getLastLedger,
         getEvents, setLastLedger, startLedgerTooOld, skipToLatest, WorkStep,
         completeJob, FaultStep, pollFails
<1> QED
  BY <1>2, <1>3, <1>4, <1>5, <1>6, <1>7

\* While a poll is in progress, what it has read and seen stays covered.
LEMMA PollsInv ==
    ASSUME IInv, [Next]_vars
    PROVE  PollsCover'
<1>1. /\ Latest \in Nat
      /\ \A l \in Ledgers : HasEvent(l)' => HasEvent(l) \/ l > Latest
  BY LedgersStay DEF IInv
<1>2. cursor \in Nat /\ poll \in [Polls -> Poll]
  BY DEF IInv, TypeOK
<1>3. \A l \in Ledgers : Covered(l) => Covered(l)'
  BY CoverageStays DEF IInv
<1>4. PollsCover /\ KnownLedgers /\ NothingForgotten
  BY DEF IInv
<1>5. SUFFICES ASSUME NEW p \in Polls, NEW l \in Ledgers, HasEvent(l)', poll'[p].pc # "idle"
               PROVE  /\ l <= poll'[p].last => Covered(l)'
                      /\ poll'[p].pc = "adding" /\ poll'[p].last < l /\ l <= poll'[p].seen
                            => l \in poll'[p].batch \/ l \in poll'[p].beyond \/ Covered(l)'
  BY DEF PollsCover, Covered, Taken, Settled, Queued, HasEvent, Latest
<1>6. poll[p] \in Poll
  BY <1>2
<1>7. CASE poll'[p] = poll[p]
  <2>1. l > Latest => ~(l <= poll[p].last) /\ ~(l <= poll[p].seen)
    BY <1>1, <1>4, <1>6 DEF KnownLedgers, Poll, Ledgers
  <2> QED
    BY <1>1, <1>3, <1>4, <1>5, <1>7, <2>1 DEF PollsCover
<1>8. CASE PollStep(p)
  <2>0. chain' = chain /\ (HasEvent(l)' <=> HasEvent(l))
    BY <1>8 DEF PollStep, getLastLedger, getEvents, addJob, setLastLedger,
                startLedgerTooOld, skipToLatest, HasEvent, Latest
  <2>1. CASE getLastLedger(p)
    <3>1. poll'[p].last = cursor /\ poll'[p].pc = "read"
      BY <1>2, <1>6, <2>1 DEF getLastLedger, Poll
    <3>2. l <= cursor => Covered(l)
      BY <1>4, <1>5, <2>0 DEF NothingForgotten, Covered
    <3> QED
      BY <1>3, <3>1, <3>2
  <2>2. CASE getEvents(p)
    <3>1. /\ poll'[p].last = poll[p].last /\ poll[p].pc # "idle"
          /\ poll'[p].batch = Page(Pending(p))
          /\ poll'[p].beyond = Pending(p) \ Page(Pending(p))
      BY <1>2, <1>6, <2>2 DEF getEvents, Poll
    <3>2. poll[p].last < l => l \in poll'[p].batch \/ l \in poll'[p].beyond
      BY <1>5, <1>6, <2>0, <3>1 DEF StartLedger, Pending, Poll, Ledgers
    <3> QED
      BY <1>3, <1>4, <1>5, <2>0, <3>1, <3>2 DEF PollsCover
  <2>3. CASE addJob(p)
    <3>1. PICK m \in poll[p].batch, n \in 1..MaxJobs :
             /\ jobs' = jobs \cup {[id |-> n, event |-> m, attempts |-> 0, state |-> "waiting"]}
             /\ poll' = [poll EXCEPT ![p].batch = @ \ {m}]
      BY <2>3 DEF addJob
    <3>2. /\ poll'[p].last = poll[p].last /\ poll'[p].seen = poll[p].seen
          /\ poll'[p].batch = poll[p].batch \ {m} /\ poll'[p].beyond = poll[p].beyond
      BY <1>2, <1>6, <3>1 DEF Poll
    <3>3. poll[p].pc = "adding"
      BY <2>3 DEF addJob
    <3>4. l = m => Covered(l)'
      <4> DEFINE j == [id |-> n, event |-> m, attempts |-> 0, state |-> "waiting"]
      <4>1. j \in jobs' /\ j.event = m
        BY <3>1
      <4> QED
        BY <4>1 DEF Covered, Taken, Queued
    <3> QED
      BY <1>3, <1>4, <1>5, <2>0, <3>2, <3>3, <3>4 DEF PollsCover
  <2>4. CASE startLedgerTooOld(p)
    <3>1. /\ poll'[p].last = poll[p].last /\ poll[p].pc # "idle"
          /\ poll'[p].pc = "skipping"
      BY <1>2, <1>6, <2>4 DEF startLedgerTooOld, Poll
    <3> QED
      BY <1>3, <1>4, <1>5, <2>0, <3>1 DEF PollsCover
  <2>5. CASE setLastLedger(p) \/ skipToLatest(p)
    BY <1>2, <1>5, <2>5 DEF setLastLedger, skipToLatest, Idle
  <2> QED
    BY <1>8, <2>1, <2>2, <2>3, <2>4, <2>5 DEF PollStep
<1>9. PollStep(p) \/ poll'[p] = poll[p] \/ poll'[p] = Idle
  BY PollChanges DEF IInv
<1> QED
  BY <1>5, <1>7, <1>8, <1>9 DEF Idle

\* The cursor is set to what a poll has seen once all of its page is queued and
\* the rest recorded as cut off, or once all of it is recorded as skipped.
LEMMA CursorInv ==
    ASSUME IInv, [Next]_vars
    PROVE  NothingForgotten'
<1>1. /\ Latest \in Nat
      /\ \A l \in Ledgers : HasEvent(l)' => HasEvent(l) \/ l > Latest
  BY LedgersStay DEF IInv
<1>2. cursor \in Nat /\ poll \in [Polls -> Poll]
  BY DEF IInv, TypeOK
<1>3. \A l \in Ledgers : Covered(l) => Covered(l)'
  BY CoverageStays DEF IInv
<1>4. PollsCover /\ KnownLedgers /\ NothingForgotten
  BY DEF IInv
<1>5. SUFFICES ASSUME NEW l \in Ledgers, HasEvent(l)', l <= cursor' PROVE Covered(l)'
  BY DEF NothingForgotten, Covered
<1>6. CASE cursor' = cursor
  <2>1. HasEvent(l)
    BY <1>1, <1>2, <1>4, <1>5, <1>6 DEF KnownLedgers, Ledgers
  <2> QED
    BY <1>3, <1>4, <1>5, <1>6, <2>1 DEF NothingForgotten, Covered
<1>7. ASSUME NEW p \in Polls, setLastLedger(p) PROVE Covered(l)'
  <2>1. CASE poll[p].seen > poll[p].last
    <3>1. HasEvent(l) /\ l <= poll[p].seen /\ poll[p].pc = "adding" /\ poll[p].batch = {}
      BY <1>5, <1>7, <2>1 DEF setLastLedger, AllAdded, HasEvent, Latest
    <3>2. poll[p].last \in Nat /\ l \in Nat
      BY <1>2 DEF Poll, Ledgers
    <3>3. l \in poll[p].beyond => Covered(l)'
      BY <1>7, <2>1 DEF setLastLedger, Covered
    <3> QED
      BY <1>3, <1>4, <3>1, <3>2, <3>3 DEF PollsCover
  <2>2. CASE ~(poll[p].seen > poll[p].last)
    BY <1>6, <1>7, <2>2 DEF setLastLedger
  <2> QED
    BY <2>1, <2>2
<1>8. ASSUME NEW p \in Polls, skipToLatest(p) PROVE Covered(l)'
  <2>1. HasEvent(l) /\ l <= poll[p].seen /\ poll[p].pc = "skipping"
    BY <1>5, <1>8 DEF skipToLatest, HasEvent, Latest
  <2>2. poll[p].last \in Nat /\ l \in Nat
    BY <1>2 DEF Poll, Ledgers
  <2>3. CASE l <= poll[p].last
    BY <1>3, <1>4, <2>1, <2>3 DEF PollsCover
  <2>4. CASE ~(l <= poll[p].last)
    <3>1. StartLedger(p) <= l
      BY <2>2, <2>4 DEF StartLedger, Ledgers
    <3> QED
      BY <1>8, <2>1, <3>1 DEF skipToLatest, Covered, Taken, Settled
  <2> QED
    BY <2>3, <2>4
<1>9. \/ cursor' = cursor
      \/ \E p \in Polls : setLastLedger(p) \/ skipToLatest(p)
  BY DEF Next, vars, CloseLedger, DropOldest, process_vars, PollStep, getLastLedger,
         getEvents, addJob, startLedgerTooOld, WorkStep, insertEvent, completeJob,
         FaultStep, crash, pollFails, jobFails
<1> QED
  BY <1>6, <1>7, <1>8, <1>9

LEMMA RowsInv ==
    ASSUME IInv, [Next]_vars
    PROVE  OneRowPerStreamEvent'
<1>1. /\ Latest \in Nat
      /\ \A l \in Ledgers : HasEvent(l) => chain'[l] = chain[l]
      /\ \A l \in Ledgers : HasEvent(l)' => HasEvent(l) \/ l > Latest
  BY LedgersStay DEF IInv
<1>2. rows \in [Ledgers -> Nat] /\ jobs \in SUBSET Job /\ OneRowPerStreamEvent /\ KnownLedgers
  BY DEF IInv, TypeOK
<1>3. SUFFICES ASSUME NEW l \in Ledgers, HasEvent(l)', chain'[l] = "stream" PROVE rows'[l] <= 1
  BY DEF OneRowPerStreamEvent
<1>4. rows[l] <= 1
  BY <1>1, <1>2, <1>3 DEF OneRowPerStreamEvent, KnownLedgers
<1>5. ASSUME NEW j \in jobs, insertEvent(j) PROVE rows'[l] <= 1
  <2>1. CASE j.event = l
    <3>1. HasEvent(l)
      BY <1>2, <2>1 DEF KnownLedgers
    <3> QED
      BY <1>1, <1>2, <1>3, <1>4, <1>5, <2>1, <3>1 DEF insertEvent, Inserted
  <2>2. CASE j.event # l
    BY <1>2, <1>4, <1>5, <2>2 DEF insertEvent
  <2> QED
    BY <2>1, <2>2
<1>6. rows' = rows \/ \E j \in jobs : insertEvent(j)
  BY DEF Next, vars, CloseLedger, DropOldest, process_vars, PollStep, getLastLedger,
         getEvents, addJob, setLastLedger, startLedgerTooOld, skipToLatest, WorkStep,
         completeJob, FaultStep, crash, pollFails, jobFails
<1> QED
  BY <1>4, <1>5, <1>6

-----------------------------------------------------------------------------

LEMMA InitInv == Init => IInv
<1> SUFFICES ASSUME Init PROVE IInv
  OBVIOUS
<1>1. Idle \in Poll /\ Latest = 0
  BY DEF Idle, Poll, PollSteps, Init, Latest
<1>2. TypeOK
  BY <1>1, IndexerAssumption DEF Init, TypeOK
<1>3. KnownLedgers
  BY <1>1 DEF Init, KnownLedgers, Idle
<1>4. StoredJobs /\ PollsCover /\ NothingForgotten /\ OneRowPerStreamEvent
  BY <1>1 DEF Init, StoredJobs, PollsCover, NothingForgotten, OneRowPerStreamEvent, HasEvent,
              Ledgers
<1> QED
  BY <1>2, <1>3, <1>4 DEF IInv

\* The inductive invariant holds in every reachable state: what an overlapping
\* poll has read, queued and had no room for.
THEOREM IndexerInvariance == Spec => []IInv
<1>1. ASSUME IInv, [Next]_vars PROVE IInv'
  <2>1. TypeOK' /\ StoredJobs'
    BY <1>1, TypeInv, StoredInv DEF IInv
  <2> QED
    BY <1>1, <2>1, KnownInv, PollsInv, CursorInv, RowsInv DEF IInv
<1> QED
  BY InitInv, <1>1, PTL DEF Spec

\* Every variable of the indexer keeps its type: no job is tried more than
\* MaxAttempts times, and the cursor and the polls hold ledger numbers.
THEOREM IndexerTypeCorrect == Spec => []TypeOK
<1>1. IInv => TypeOK
  BY DEF IInv
<1> QED
  BY IndexerInvariance, <1>1, PTL

\* An event the cursor has passed was stored, queued, given up, skipped or left
\* out by a full page, for any page size and any number of overlapping polls,
\* crashes and failed calls: a full page is the only way to lose one silently.
THEOREM NoEventForgotten == Spec => []NothingForgotten
<1>1. IInv => NothingForgotten
  BY DEF IInv
<1> QED
  BY IndexerInvariance, <1>1, PTL

\* ON CONFLICT DO NOTHING keeps one row per stream event, however often the
\* event is queued or its job run.
THEOREM StreamEventsStoredOnce == Spec => []OneRowPerStreamEvent
<1>1. IInv => OneRowPerStreamEvent
  BY DEF IInv
<1> QED
  BY IndexerInvariance, <1>1, PTL
=============================================================================
