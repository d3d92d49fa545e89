------------------------------ MODULE JobQueue ------------------------------
(***************************************************************************)
(* The queue of stream operations and its dead-letter queue (backend/      *)
(* queues/queue.js, processors/streamProcessor.js).  BullMQ is modelled    *)
(* from its use: a job runs until it has used up its attempts, waits for   *)
(* its backoff in between, is run again when its worker dies, and fails    *)
(* for good when that happens too often.  The copy to the dead-letter      *)
(* queue is made by a listener, after BullMQ has recorded the failure.     *)
(***************************************************************************)
EXTENDS Naturals, FiniteSets

CONSTANTS
    NoJob,
    QueueJobs,        \* jobs that may be added
    Attempts,         \* opts.attempts of a caller, 0 among them: "|| 5" does not
                      \* apply to it, Object.assign puts the caller's value back
    Concurrency,      \* jobs a worker runs at a time, 5 in the code
    MaxStalled,       \* BullMQ: times a job may stall
    MaxDeaths         \* bound: ends of the worker process

Job == [state: {"waiting", "active", "delayed", "stalled", "completed", "failed"},
        attempts: Attempts, made: Nat, stalled: Nat]

ASSUME QueueAssumption == NoJob \notin Job /\ Attempts \subseteq Nat

VARIABLES
    jobs,        \* the queue: a record for each job added
    dlq,         \* copies of each job in the dead-letter queue
    listeners,   \* jobs whose "failed" listener awaits dlqQueue.add
    running,     \* the process: "up", "closing" or "down"
    deaths,
    spared       \* history: jobs whose copy was refused or cut short, or that stalled

queue_vars == <<jobs, dlq, listeners, running, deaths, spared>>

IsAdded(j) == jobs[j] # NoJob

InState(state) == {j \in QueueJobs : IsAdded(j) /\ jobs[j].state = state}

addStreamJob(j, attempts) ==
    /\ ~IsAdded(j)
    /\ jobs' = [jobs EXCEPT ![j] = [state |-> "waiting", attempts |-> attempts, made |-> 0, stalled |-> 0]]
    /\ UNCHANGED <<dlq, listeners, running, deaths, spared>>

take(j) ==
    /\ running = "up"
    /\ j \in InState("waiting")
    /\ Cardinality(InState("active")) < Concurrency
    /\ jobs' = [jobs EXCEPT ![j].state = "active"]
    /\ UNCHANGED <<dlq, listeners, running, deaths, spared>>

\* processStreamJob returns; removeOnComplete drops the job an hour later.
complete(j) ==
    /\ running # "down" /\ j \in InState("active")
    /\ jobs' = [jobs EXCEPT ![j].state = "completed"]
    /\ UNCHANGED <<dlq, listeners, running, deaths, spared>>

\* Mutant: the attempts are not yet used up when they are counted.
UsedUp_beyond(made, attempts) == made > attempts

\* The listener's test, with the attempts made so far.
UsedUp(made, attempts) == made >= attempts

\* processStreamJob throws: BullMQ delays or fails the job, and the listener runs.
jobThrows(j) ==
    LET made == jobs[j].made + 1
    IN  /\ running # "down" /\ j \in InState("active")
        /\ jobs' = [jobs EXCEPT ![j].made = made,
                                ![j].state = IF made < jobs[j].attempts THEN "delayed" ELSE "failed"]
        /\ listeners' = IF UsedUp(made, jobs[j].attempts) THEN listeners \cup {j} ELSE listeners
        /\ UNCHANGED <<dlq, running, deaths, spared>>

\* The exponential backoff is over.
backoff(j) ==
    /\ j \in InState("delayed")
    /\ jobs' = [jobs EXCEPT ![j].state = "waiting"]
    /\ UNCHANGED <<dlq, listeners, running, deaths, spared>>

\* dlqQueue.add resolves, or rejects and is only logged.
addToDlq(j) ==
    /\ running # "down" /\ j \in listeners
    /\ listeners' = listeners \ {j}
    /\ \/ dlq' = [dlq EXCEPT ![j] = @ + 1] /\ UNCHANGED spared
       \/ spared' = spared \cup {j} /\ UNCHANGED dlq
    /\ UNCHANGED <<jobs, running, deaths>>

\* SIGINT: worker.close() waits for the active jobs, nobody for the listeners.
sigint ==
    /\ running = "up" /\ deaths < MaxDeaths
    /\ running' = "closing"
    /\ UNCHANGED <<jobs, dlq, listeners, deaths, spared>>

Dead ==
    /\ running' = "down"
    /\ deaths' = deaths + 1
    /\ listeners' = {}
    /\ spared' = spared \cup listeners

exit ==
    /\ running = "closing" /\ InState("active") = {}
    /\ Dead
    /\ UNCHANGED <<jobs, dlq>>

\* The process dies; what it was running keeps its lock for a while.
die ==
    /\ running # "down" /\ deaths < MaxDeaths
    /\ Dead
    /\ jobs' = [j \in QueueJobs |-> IF j \in InState("active") THEN [jobs[j] EXCEPT !.state = "stalled"] ELSE jobs[j]]
    /\ UNCHANGED dlq

start_worker ==
    /\ running = "down"
    /\ running' = "up"
    /\ UNCHANGED <<jobs, dlq, listeners, deaths, spared>>

\* The QueueScheduler finds the lock expired: once more, or failed without a word
\* to the worker's listener.
stalledCheck(j) ==
    /\ running # "down" /\ j \in InState("stalled")
    /\ \/ /\ jobs[j].stalled < MaxStalled
          /\ jobs' = [jobs EXCEPT ![j].state = "waiting", ![j].stalled = @ + 1]
          /\ UNCHANGED spared
       \/ /\ jobs[j].stalled >= MaxStalled
          /\ jobs' = [jobs EXCEPT ![j].state = "failed"]
          /\ spared' = spared \cup {j}
    /\ UNCHANGED <<dlq, listeners, running, deaths>>

QueueInit ==
    /\ jobs = [j \in QueueJobs |-> NoJob]
    /\ dlq = [j \in QueueJobs |-> 0]
    /\ listeners = {} /\ running = "up" /\ deaths = 0 /\ spared = {}

QueueNext ==
    \/ \E j \in QueueJobs :
          \/ \E attempts \in Attempts : addStreamJob(j, attempts)
          \/ take(j) \/ complete(j) \/ jobThrows(j) \/ backoff(j) \/ addToDlq(j) \/ stalledCheck(j)
    \/ sigint \/ exit \/ die \/ start_worker

QueueSpec == QueueInit /\ [][QueueNext]_queue_vars

-----------------------------------------------------------------------------
\* The listener's count and BullMQ's agree: a job is copied to the dead-letter
\* queue once, and only when it will not run again; a job that failed has its
\* copy, or is being copied, unless the copy was refused by Redis or cut short by
\* the end of the process, or the job failed by stalling.
FailedReachesDlq ==
    \A j \in QueueJobs :
        /\ dlq[j] + Cardinality(listeners \cap {j}) > 0 => IsAdded(j) /\ jobs[j].state = "failed"
        /\ j \in InState("failed") \ spared => dlq[j] + Cardinality(listeners \cap {j}) = 1
=============================================================================
