------------------------------ MODULE ApiServer -----------------------------
(***************************************************************************)
(* The REST API at work (api/server.js, middleware, services): requests    *)
(* run the awaits of their route one at a time and interleaved, transac-   *)
(* tions sent to the chain are included or not, whether or not anybody     *)
(* is waiting, streams change by other hands, every call of the database,  *)
(* Redis or the RPC server may fail, answers are recorded in the back-     *)
(* ground, and the process is told to stop or dies at any moment.          *)
(***************************************************************************)
EXTENDS ApiRoutes, FiniteSets

CONSTANTS
    None,
    Streams,       \* ids of streams
    Keys,          \* Idempotency-Key and address of a caller
    Workloads      \* routes in use, keys and bodies sent to the idempotent ones,
                   \* whether there is a database, and bounds: requests, those in flight, changes made elsewhere,
                   \* ends of the process

ASSUME ApiAssumption ==
    /\ None \notin Keys \cup Nat \cup [code: Nat, tx: Nat \cup {None}]
    /\ \A w \in Workloads :
          /\ w.routes \subseteq {[r EXCEPT !.audited = audited] : r \in AllRoutes, audited \in BOOLEAN}
          /\ w.pools \subseteq BOOLEAN
          /\ \A c \in w.calls : c.key \in Keys \cup {None}
          /\ {w.requests, w.in_flight, w.changes, w.stops} \subseteq Nat

VARIABLES
    workload,    \* the traffic of this behaviour
    pool,        \* dbService.pool: a database is configured
    phase,       \* of the process: "loading", "up", "stopping", "closing", "exited";
                 \* told to stop while loading, "ending", and, if it listens after all, "late"
    exit_code,
    stops,       \* times the process has ended
    requests,    \* every request received, in order
    streams,     \* the streams on chain: how often changed, and whether Active
    cache,       \* Redis: stream:<id>
    rows,        \* table idempotency_keys
    audit_db,    \* table audit_logs: requests recorded in it
    audit_mem,   \* inMemoryAuditLogs
    background   \* queries started by answers and not waited for

stores == <<rows, audit_db, audit_mem, background>>
process == <<workload, pool, phase, exit_code, stops>>
api_vars == <<process, requests, streams, cache, stores>>

\* tx: the transaction of a request, wherever it is.  got: the record fetched.
\* wrapped: answers are stored under the key.  seen, blind: history, the stored
\* answer on arrival, and whether the look-up failed.
NewRequest(route, s, key, body) ==
    [route |-> route, stream |-> s, key |-> key, body |-> body,
     todo |-> <<"admit">> \o (IF route.idem THEN <<"lookup">> ELSE <<>>) \o route.awaits,
     tx |-> "none", got |-> None, wrapped |-> FALSE, answer |-> None, lost |-> FALSE,
     seen |-> IF key = None THEN None ELSE rows[key], blind |-> FALSE]

\* pool.end() has been called: every query throws.
Ended == pool /\ phase = "late"

InFlight(i) == requests[i].answer = None /\ ~requests[i].lost

receive(route, s, key, body) ==
    /\ phase \in {"up", "late"}
    /\ Len(requests) < workload.requests
    /\ Cardinality({i \in 1..Len(requests) : InFlight(i)}) < workload.in_flight
    /\ requests' = Append(requests, NewRequest(route, s, key, body))
    /\ UNCHANGED <<process, streams, cache, stores>>

-----------------------------------------------------------------------------
(* Answers.                                                                *)

At(i, await) ==
    /\ phase \in {"up", "stopping", "late"}
    /\ InFlight(i)
    /\ Head(requests[i].todo) = await

\* res.json before auditLog and the idempotency wrapper are installed.
Refuse(i, answer) ==
    /\ requests' = [requests EXCEPT ![i].answer = answer]
    /\ UNCHANGED background

\* The wrapper of res.json stores answers below 500.
Stored(r, code) == r.wrapped /\ pool /\ code < 500

\* res.json as a handler or errorHandler calls it.
Respond(i, r, code) ==
    /\ requests' = [requests EXCEPT ![i] =
          [r EXCEPT !.answer = [code |-> code, tx |-> IF code = 200 /\ r.tx # "none" THEN i ELSE None]]]
    /\ background' = background
          \cup (IF r.route.audited THEN {<<"audit", i>>} ELSE {})
          \cup (IF Stored(r, code) THEN {<<"row", i>>} ELSE {})

\* The await has returned: the next one, or the answer.
Continue(i, r) ==
    IF Len(r.todo) = 1
    THEN Respond(i, r, 200)
    ELSE /\ requests' = [requests EXCEPT ![i] = [r EXCEPT !.todo = Tail(@)]]
         /\ UNCHANGED background

\* errorHandler: 500, or 400 if the message mentions the contract.
errorHandler(i, r) == \E code \in {400, 500} : Respond(i, r, code)

-----------------------------------------------------------------------------
(* Awaits before the handler.                                              *)

\* globalLimiter, authMiddleware, perUserLimiter: 401 stands for 429 too.
admit(i) ==
    /\ At(i, "admit")
    /\ \/ Continue(i, requests[i])
       \/ Refuse(i, [code |-> 401, tx |-> None])
    /\ UNCHANGED <<process, streams, cache, rows, audit_db, audit_mem>>

\* A body says something, with its keys in some order; a JSONB column returns
\* them in an order of its own.
Jsonb(body) == [body EXCEPT !.sorted = TRUE]

\* The hash of the body as it came against that of the body as it was stored.
Replay(row, body) ==
    IF row.body = body THEN row.answer ELSE [code |-> 422, tx |-> None]

\* idempotencyMiddleware.  When the query throws, the handler runs unwrapped.
lookup(i) ==
    LET r == requests[i]
    IN  /\ At(i, "lookup")
        /\ \/ r.key = None /\ Continue(i, r)
           \/ r.key # None /\ ~Ended /\ (pool => rows[r.key] = None)
                /\ Continue(i, [r EXCEPT !.wrapped = TRUE])
           \/ /\ r.key # None /\ pool /\ ~Ended /\ rows[r.key] # None
              /\ Refuse(i, Replay(rows[r.key], r.body))
           \/ r.key # None /\ pool /\ Continue(i, [r EXCEPT !.blind = TRUE])
        /\ UNCHANGED <<process, streams, cache, rows, audit_db, audit_mem>>

validate(i) ==
    /\ At(i, "validate")
    /\ Continue(i, requests[i]) \/ Respond(i, requests[i], 400)
    /\ UNCHANGED <<process, streams, cache, rows, audit_db, audit_mem>>

-----------------------------------------------------------------------------
(* The chain.                                                              *)

\* A submission that threw, in force_cancel's own try or in the handler's.
Fail(i, r) ==
    IF r.route.swallows
    THEN Continue(i, [r EXCEPT !.todo = <<"confirm", "log">>])
    ELSE errorHandler(i, r)

\* loadAccount and simulateTransaction fail, or sendTransaction reaches the
\* network, with or without its answer coming back.
send(i) ==
    LET sent == [requests[i] EXCEPT !.tx = "sent"]
    IN  /\ At(i, "send")
        /\ Continue(i, sent) \/ Fail(i, sent) \/ Fail(i, requests[i])
        /\ UNCHANGED <<process, streams, cache, rows, audit_db, audit_mem>>

\* Mutant: a transaction that was accepted is taken for confirmed.
Confirmed_pending(r) == r.tx # "none"

Confirmed(r) == r.tx = "included"

\* One getTransaction, whatever the network has made of it by then.
confirm(i) ==
    LET r == requests[i]
    IN  /\ At(i, "confirm")
        /\ \/ Confirmed(r) /\ Continue(i, r)
           \/ Fail(i, r)
        /\ UNCHANGED <<process, streams, cache, rows, audit_db, audit_mem>>

\* callContractMethod.
read(i) ==
    /\ At(i, "read")
    /\ Continue(i, requests[i]) \/ errorHandler(i, requests[i])
    /\ UNCHANGED <<process, streams, cache, rows, audit_db, audit_mem>>

read_stream(i) ==
    LET r == requests[i]
    IN  /\ At(i, "read_stream")
        /\ Continue(i, [r EXCEPT !.got = streams[r.stream].version]) \/ errorHandler(i, r)
        /\ UNCHANGED <<process, streams, cache, rows, audit_db, audit_mem>>

\* A record without a status, as the result of a simulation is, passes too.
read_active(i) ==
    LET r == requests[i]
    IN  /\ At(i, "read_active")
        /\ \/ Continue(i, r)
           \/ ~streams[r.stream].active /\ Respond(i, r, 400)
           \/ Respond(i, r, 404)
           \/ errorHandler(i, r)
        /\ UNCHANGED <<process, streams, cache, rows, audit_db, audit_mem>>

\* What an included transaction does to its stream.
Applied(r) ==
    CASE r.route = force_cancel -> [streams EXCEPT ![r.stream] =
                                       [version |-> @.version + 1, active |-> FALSE]]
      [] r.route \in {withdraw, top_up} -> [streams EXCEPT ![r.stream].version = @ + 1]
      [] OTHER -> streams

\* A pending transaction is included, or never, its thirty seconds over.
include(i) ==
    /\ requests[i].tx = "sent"
    /\ requests' = [requests EXCEPT ![i].tx = "included"]
    /\ streams' = Applied(requests[i])
    /\ UNCHANGED <<process, cache, stores>>

\* A wallet changes a stream without the API.
elsewhere(s, active) ==
    /\ streams[s].version < workload.changes
    /\ streams' = [streams EXCEPT ![s] = [version |-> @.version + 1, active |-> active]]
    /\ UNCHANGED <<process, requests, cache, stores>>

-----------------------------------------------------------------------------
(* services/cacheService.js: every call may fail unnoticed.                *)

getStream(i) ==
    LET r == requests[i]
    IN  /\ At(i, "cache_get")
        /\ \/ /\ cache[r.stream] # None
              /\ Respond(i, [r EXCEPT !.got = cache[r.stream].version], 200)
           \/ Continue(i, r)
        /\ UNCHANGED <<process, streams, cache, rows, audit_db, audit_mem>>

\* Mutant: the entry is written without a time to live.
Entry_forever(version) == [version |-> version, expires |-> FALSE]

Entry(version) == [version |-> version, expires |-> TRUE]

setStream(i) ==
    LET r == requests[i]
    IN  /\ At(i, "cache_set")
        /\ cache' \in {cache, [cache EXCEPT ![r.stream] = Entry(r.got)]}
        /\ Continue(i, r)
        /\ UNCHANGED <<process, streams, rows, audit_db, audit_mem>>

invalidateStream(i) ==
    LET r == requests[i]
    IN  /\ At(i, "cache_del")
        /\ cache' \in {cache, [cache EXCEPT ![r.stream] = None]}
        /\ Continue(i, r)
        /\ UNCHANGED <<process, streams, rows, audit_db, audit_mem>>

\* Redis drops an entry at the end of its ten seconds.
ttl(s) ==
    /\ cache[s] # None
    /\ cache[s].expires
    /\ cache' = [cache EXCEPT ![s] = None]
    /\ UNCHANGED <<process, requests, streams, stores>>

-----------------------------------------------------------------------------
(* services/dbService.js                                                   *)

\* Mutant: what the database does not take is dropped.
Recorded_dbOnly(i) ==
    /\ audit_db' \in {audit_db, audit_db \cup {i}}
    /\ UNCHANGED audit_mem

\* logAdminAction, createAuditLog: the table, or memory if the table fails.
Recorded(i) ==
    \/ pool /\ ~Ended /\ audit_db' = audit_db \cup {i} /\ UNCHANGED audit_mem
    \/ audit_mem' = audit_mem \cup {i} /\ UNCHANGED audit_db

logAdminAction(i) ==
    /\ At(i, "log")
    /\ Recorded(i)
    /\ Continue(i, requests[i])
    /\ UNCHANGED <<process, streams, cache, rows>>

\* A query of the admin or users routes: an answer, a client error or a throw;
\* deleteOffChainUserData, getAuditLogs and sendEmail swallow their failures.
query(i) ==
    /\ \/ At(i, "db") /\ ~Ended /\ (Continue(i, requests[i]) \/ Respond(i, requests[i], 404))
       \/ At(i, "db") /\ pool /\ Respond(i, requests[i], 500)
       \/ At(i, "db_or_not") /\ (Continue(i, requests[i]) \/ Respond(i, requests[i], 400))
       \/ \E await \in {"read_log", "erase", "mail"} : At(i, await) /\ Continue(i, requests[i])
    /\ UNCHANGED <<process, streams, cache, rows, audit_db, audit_mem>>

-----------------------------------------------------------------------------
(* services/readinessService.js: each check catches its own failures.      *)

\* fetch of getHealth: an answer, an HTTP error, an RPC error, or the abort.
checkSorobanRpc ==
    {IF answer = "healthy" THEN "ok" ELSE "error" :
         answer \in {"healthy", "unhealthy", "HTTP error", "RPC error", "aborted"}}

\* A socket to the host of DATABASE_URL; a URL without a host or port throws.
connectToDatabaseEndpoint == {"connect", "error", "timeout"}

withTimeout(outcomes) == outcomes \cup {"timeout"}

checkDatabase ==
    IF pool THEN {IF outcome = "connect" THEN "ok" ELSE "error" : outcome \in withTimeout(connectToDatabaseEndpoint)}
    ELSE {"skipped"}

checkReadiness(i) ==
    /\ At(i, "probe")
    /\ \E rpc \in checkSorobanRpc, db \in checkDatabase :
           Respond(i, requests[i], IF "error" \in {rpc, db} THEN 503 ELSE 200)
    /\ UNCHANGED <<process, streams, cache, rows, audit_db, audit_mem>>

-----------------------------------------------------------------------------
(* Answers recorded in the background.                                     *)

\* Mutant: a second answer replaces the first.
Insert_replace(i) ==
    [rows EXCEPT ![requests[i].key] =
        [body |-> Jsonb(requests[i].body), answer |-> requests[i].answer]]

\* INSERT ... ON CONFLICT DO NOTHING.
Insert(i) ==
    IF rows[requests[i].key] # None THEN rows
    ELSE [rows EXCEPT ![requests[i].key] =
             [body |-> Jsonb(requests[i].body), answer |-> requests[i].answer]]

storeRow(i) ==
    /\ <<"row", i>> \in background
    /\ background' = background \ {<<"row", i>>}
    /\ rows' = rows \/ (~Ended /\ rows' = Insert(i))
    /\ UNCHANGED <<process, requests, streams, cache, audit_db, audit_mem>>

createAuditLog(i) ==
    /\ <<"audit", i>> \in background
    /\ background' = background \ {<<"audit", i>>}
    /\ Recorded(i)
    /\ UNCHANGED <<process, requests, streams, cache, rows>>

-----------------------------------------------------------------------------
(* The process: server.js start, shutdown.                                 *)

\* loadConfiguration reads files, secrets and the vault, or throws; a signal does
\* not stop it, and shutdown then waits for nothing but the pool.
Loading == phase = "loading" \/ (phase = "ending" /\ pool)

\* The server listens, without a look at isShuttingDown.
start ==
    /\ Loading
    /\ phase' = IF phase = "loading" THEN "up" ELSE "late"
    /\ UNCHANGED <<workload, pool, exit_code, stops, requests, streams, cache, stores>>

Exit(code) ==
    /\ stops < workload.stops
    /\ phase' = "exited"
    /\ exit_code' = code
    /\ stops' = stops + 1
    /\ requests' = [i \in 1..Len(requests) |->
                       [requests[i] EXCEPT !.lost = @ \/ requests[i].answer = None]]
    /\ audit_mem' = {}
    /\ background' = {}
    /\ UNCHANGED <<workload, pool, streams, cache, rows, audit_db>>

loadFails == Loading /\ Exit(1)

\* SIGTERM or SIGINT; a second one is ignored.  Without a server to close, the
\* pool is closed at once, while start goes on.
shutdown ==
    /\ stops < workload.stops
    /\ phase \in {"loading", "up"}
    /\ phase' = IF phase = "up" THEN "stopping" ELSE "ending"
    /\ UNCHANGED <<workload, pool, exit_code, stops, requests, streams, cache, stores>>

\* Mutant: server.close is not waited for.
Drained_unawaited == TRUE

Drained == \A i \in 1..Len(requests) : ~InFlight(i)

stopServer ==
    /\ phase = "stopping"
    /\ Drained
    /\ phase' = "closing"
    /\ UNCHANGED <<workload, pool, exit_code, stops, requests, streams, cache, stores>>

closePool == phase \in {"closing", "ending", "late"} /\ Exit(0)

\* Mutant: the timer is not set.
forceExit_never == FALSE

\* A signal was received, and its timer of thirty seconds set.
ShuttingDown == phase \in {"stopping", "closing", "ending", "late"}

forceExit == ShuttingDown /\ Exit(1)

crash == (phase = "up" \/ ShuttingDown) /\ Exit(137)

restart ==
    /\ phase = "exited"
    /\ phase' = "loading"
    /\ UNCHANGED <<workload, pool, exit_code, stops, requests, streams, cache, stores>>

-----------------------------------------------------------------------------
ApiInit ==
    /\ workload \in Workloads
    /\ pool \in workload.pools
    /\ phase = "loading" /\ exit_code = None /\ stops = 0
    /\ requests = <<>>
    /\ streams = [s \in Streams |-> [version |-> 0, active |-> TRUE]]
    /\ cache = [s \in Streams |-> None]
    /\ rows = [k \in Keys |-> None]
    /\ audit_db = {} /\ audit_mem = {} /\ background = {}

Arrival ==
    \E route \in workload.routes, s \in Streams :
        \/ ~route.idem /\ receive(route, s, None, None)
        \/ route.idem /\ \E c \in workload.calls : receive(route, s, c.key, c.body)

HandlerStep(i) ==
    \/ admit(i) \/ lookup(i) \/ validate(i)
    \/ send(i) \/ confirm(i) \/ read(i) \/ read_stream(i) \/ read_active(i)
    \/ getStream(i) \/ setStream(i) \/ invalidateStream(i)
    \/ logAdminAction(i) \/ query(i) \/ checkReadiness(i)

ChainStep ==
    \/ \E i \in 1..Len(requests) : include(i)
    \/ \E s \in Streams, active \in BOOLEAN : elsewhere(s, active)

BackgroundStep == \E i \in 1..Len(requests) : storeRow(i) \/ createAuditLog(i)

ProcessStep ==
    start \/ loadFails \/ shutdown \/ stopServer \/ closePool \/ forceExit \/ crash \/ restart

ApiNext ==
    \/ Arrival
    \/ \E i \in 1..Len(requests) : HandlerStep(i)
    \/ ChainStep
    \/ BackgroundStep
    \/ \E s \in Streams : ttl(s)
    \/ ProcessStep

\* Redis expires its entries and a timer that is set goes off; nothing is
\* assumed of requests, the chain or the stores, which may hang.
ApiSpec ==
    /\ ApiInit /\ [][ApiNext]_api_vars
    /\ \A s \in Streams : WF_api_vars(ttl(s))
    /\ WF_api_vars(forceExit)

-----------------------------------------------------------------------------
\* An answer once stored under a key is the answer: a request that arrives
\* after it gets exactly that answer if its body is, in the order of its keys
\* too, the one the JSONB column returns, and 422 otherwise, and it sends
\* nothing, whatever answers of requests that overlapped the first one are
\* stored later, and unless the look-up itself fails (idempotencyMiddleware).
ReplayIsFaithful ==
    \A i \in 1..Len(requests) :
        LET r == requests[i]
        IN  (r.seen # None /\ ~r.blind) =>
              /\ r.tx = "none"
              /\ r.answer # None /\ r.answer.code # 401 => r.answer =
                    IF r.seen.body = r.body THEN r.seen.answer ELSE [code |-> 422, tx |-> None]

\* A success is never invented: a request of a submitting route that is answered
\* 200 names a transaction that is on the ledger, also when the answer is the
\* replay of another request's (submitContractTransaction).  force_cancel
\* swallows its failures and is exempt.
SuccessIsOnChain ==
    \A i \in 1..Len(requests) :
        LET r == requests[i]
        IN  (r.answer # None /\ r.answer.code = 200 /\ Submits(r.route) /\ ~r.route.swallows)
              => r.answer.tx # None /\ requests[r.answer.tx].tx = "included"

\* A cached record that the chain has left behind does not stay: a fill that
\* lands after the invalidation, an invalidation that Redis did not take and a
\* change made elsewhere are all bounded by the time to live (setStream).
StaleEntryGoes ==
    \A s \in Streams :
        (cache[s] # None /\ cache[s].version # streams[s].version)
            ~> (cache[s] = None \/ cache[s].version = streams[s].version)

\* An admin request is answered with success only once its action is recorded,
\* in the table or in memory, whatever fails on the way (logAdminAction).
AdminAnswersLogged ==
    [][\A i \in 1..Len(requests) :
          (requests[i].answer = None /\ requests'[i].answer # None
             /\ Logs(requests[i].route) /\ requests'[i].answer.code = 200)
          => i \in audit_db' \cup audit_mem']_api_vars

\* A process told to stop ends, even if a request or a store hangs, and also when
\* it was still loading and listens afterwards (forceExit).
ShutdownEnds == ShuttingDown ~> (phase = "exited")

\* An exit with code 0 has dropped nobody: every request received was answered
\* before the pool was closed (shutdown awaits stopServer).  The exception is a
\* process that was told to stop while it was loading and listened nevertheless:
\* no server is closed then (ExitWaitsForRequests).
CleanExitDropsNobody ==
    [][(phase \notin {"exited", "late"} /\ phase' = "exited" /\ exit_code' = 0)
          => \A i \in 1..Len(requests) : ~InFlight(i)]_api_vars

-----------------------------------------------------------------------------
(* What comments and messages say and the code does not do.                *)

\* idempotency.js: "Supports Idempotency-Key header to safely retry failed write
\* requests".  A request never sends its transaction when that of an earlier
\* request with the same key and body is on the ledger.
RetriesAreSafe ==
    [][\A i, j \in 1..Len(requests) :
          (/\ j < i /\ requests[i].key # None
           /\ requests[i].key = requests[j].key /\ requests[i].body = requests[j].body
           /\ requests[j].tx = "included")
          => ~(requests[i].tx = "none" /\ requests'[i].tx = "sent")]_api_vars

\* idempotency.js, of the answer 422: "Idempotency key reused with different
\* request body".
RefusedBodyDiffers ==
    \A i \in 1..Len(requests) :
        (requests[i].answer # None /\ requests[i].answer.code = 422) =>
            \E j \in 1..Len(requests) :
                requests[j].key = requests[i].key /\ requests[j].body # requests[i].body

\* server.js, on the signal: "stopping new connections and waiting up to 30s for
\* in-flight requests".  Only the timer ends the process with requests in flight.
ExitWaitsForRequests ==
    [][(phase # "exited" /\ phase' = "exited" /\ exit_code' = 0)
          => \A i \in 1..Len(requests) : ~InFlight(i)]_api_vars
=============================================================================
