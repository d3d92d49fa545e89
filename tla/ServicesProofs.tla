--------------------------- MODULE ServicesProofs ---------------------------
(***************************************************************************)
(* Proofs about the services that keep their own state beside the          *)
(* contract: signing in, the job queue, the migrations, the approval       *)
(* workflow, the API keys and the snapshots, each for any number of its    *)
(* clients and any bounds.                                                 *)
(***************************************************************************)
EXTENDS SignIn, ApiKeys, StreamWorkflow, JobQueue, MigrationRunner, SnapshotStore,
        SumTheorems, SequenceTheorems

-----------------------------------------------------------------------------
(* Signing in.                                                             *)

\* The challenge that stands has no token yet, and neither have those to come.
ChallengesOK ==
    /\ nonces \in Nat /\ nonces <= MaxNonces
    /\ tokens \in [1..MaxNonces -> Nat]
    /\ \A n \in 1..MaxNonces : tokens[n] <= 1 /\ (n > nonces => tokens[n] = 0)
    /\ nonce # None => nonce.id \in 1..nonces /\ tokens[nonce.id] = 0

\* n failures of one identifier, at the times ms, while its lockout is l and the
\* clock c: from the built-in bound on, the lockout of the last one stands or has
\* run its time.
Held(n, ms, l, c) ==
    /\ n = Len(ms) /\ n <= MAX_ATTEMPTS
    /\ \A k \in 2..n : k > DEFAULT_ATTEMPTS => ms[k] >= ms[k - 1] + DEFAULT_LOCKOUT
    /\ n >= DEFAULT_ATTEMPTS =>
          (l # None /\ l >= ms[n] + DEFAULT_LOCKOUT) \/ c >= ms[n] + DEFAULT_LOCKOUT

FailuresOK ==
    /\ clock \in Nat /\ failures \in [Identifiers -> Nat]
    /\ misses \in [Identifiers -> Seq(Nat)] /\ lockouts \in [Identifiers -> Nat \cup {None}]
    /\ \A id \in Identifiers : Held(failures[id], misses[id], lockouts[id], clock)

\* Answering a challenge request replaces the one that stands.
LEMMA ChallengeKeeps ==
    ASSUME ChallengesOK, NEW id \in Identifiers, Challenge(id)
    PROVE  ChallengesOK'
<1> DEFINE c == [id |-> nonces + 1, expiresAt |-> clock + NONCE_TTL]
<1>1. /\ nonces \in Nat /\ nonces < MaxNonces /\ nonces' = nonces + 1 /\ tokens' = tokens
      /\ nonce' = c /\ c.id = nonces + 1 /\ MaxNonces \in Nat
  BY SignInAssumption DEF Challenge, ChallengesOK
<1>2. tokens[nonces + 1] = 0
  BY <1>1 DEF ChallengesOK
<1>3. nonces + 1 <= MaxNonces /\ nonces + 1 \in 1..(nonces + 1)
  BY <1>1
<1>4. \A n \in 1..MaxNonces : tokens[n] <= 1 /\ (n > nonces + 1 => tokens[n] = 0)
  BY <1>1 DEF ChallengesOK
<1> HIDE DEF c
<1> QED
  BY <1>1, <1>2, <1>3, <1>4 DEF ChallengesOK

\* A verification that succeeds uses the challenge up.
LEMMA VerifyKeeps ==
    ASSUME ChallengesOK, NEW id \in Identifiers, NEW n, VerifySucceeds(id, n)
    PROVE  ChallengesOK'
<1>1. /\ nonce' = None /\ nonces' = nonces /\ tokens' = [tokens EXCEPT ![n] = @ + 1]
      /\ nonce # None /\ nonce.id = n
  BY DEF VerifySucceeds, Consumed, Valid
<1>2. n \in 1..nonces /\ tokens[n] = 0 /\ nonces \in Nat /\ nonces <= MaxNonces /\ MaxNonces \in Nat
      /\ tokens \in [1..MaxNonces -> Nat]
  BY <1>1, SignInAssumption DEF ChallengesOK
<1>3. n \in 1..MaxNonces /\ ~(n > nonces)
  BY <1>2
<1>4. tokens' \in [1..MaxNonces -> Nat] /\ tokens'[n] = 1 /\ \A k \in 1..MaxNonces : k # n => tokens'[k] = tokens[k]
  BY <1>1, <1>2, <1>3
<1>5. \A k \in 1..MaxNonces : tokens'[k] <= 1 /\ (k > nonces => tokens'[k] = 0)
  BY <1>3, <1>4 DEF ChallengesOK
<1> QED
  BY <1>1, <1>2, <1>4, <1>5 DEF ChallengesOK

\* A verification that fails leaves the challenge or drops it.
LEMMA RefusedKeeps ==
    ASSUME ChallengesOK, nonces' = nonces, tokens' = tokens, nonce' \in {nonce, None}
    PROVE  ChallengesOK'
BY DEF ChallengesOK

\* What a request to the server may do to the challenges.
LEMMA ChallengesNext == ChallengesOK /\ [SignInNext]_signin_vars => ChallengesOK'
<1> SUFFICES ASSUME ChallengesOK, [SignInNext]_signin_vars PROVE ChallengesOK'
  OBVIOUS
<1>1. ASSUME NEW t \in Tabs, NEW n, VerifyFails(getIdentifier[t], n) \/ VerifySucceeds(getIdentifier[t], n) \/ authRateLimiter429(getIdentifier[t])
      PROVE  ChallengesOK'
  <2>1. getIdentifier[t] \in Identifiers
    BY SignInAssumption
  <2>2. CASE VerifyFails(getIdentifier[t], n)
    BY <2>2, RefusedKeeps DEF VerifyFails
  <2>3. CASE VerifySucceeds(getIdentifier[t], n)
    BY <2>1, <2>3, VerifyKeeps
  <2>4. CASE authRateLimiter429(getIdentifier[t])
    BY <2>4, RefusedKeeps DEF authRateLimiter429
  <2> QED
    BY <1>1, <2>2, <2>3, <2>4
<1>2. CASE tick \/ purge \/ UNCHANGED signin_vars
  BY <1>2, RefusedKeeps DEF tick, purge, signin_vars, server_vars
<1>3. CASE \E id \in Identifiers : unlock(id)
  BY <1>3, RefusedKeeps DEF unlock
<1>4. ASSUME NEW t \in Tabs,
             connect(t) \/ login(t) \/ refresh(t) \/ logout(t) \/ reload(t) \/ setRememberMe(t)
      PROVE  ChallengesOK'
  BY <1>4, RefusedKeeps DEF connect, login, refresh, logout, reload, setRememberMe, server_vars
<1>5. ASSUME NEW t \in Tabs, NEW job \in Jobs, fetchChallenge(t, job) PROVE ChallengesOK'
  <2>1. Challenge(getIdentifier[t]) \/ authRateLimiter429(getIdentifier[t])
    BY <1>5 DEF fetchChallenge
  <2>2. getIdentifier[t] \in Identifiers
    BY SignInAssumption
  <2> QED
    BY <1>1, <2>1, <2>2, ChallengeKeeps
<1>6. ASSUME NEW t \in Tabs, NEW job \in Jobs, sign(t, job) PROVE ChallengesOK'
  BY <1>6, RefusedKeeps DEF sign
<1>7. ASSUME NEW t \in Tabs, NEW job \in Jobs, fetchVerify(t, job) PROVE ChallengesOK'
  BY <1>1, <1>7 DEF fetchVerify
<1>8. ASSUME NEW t \in Tabs, NEW n \in signed, redeliver(t, n) PROVE ChallengesOK'
  BY <1>1, <1>8 DEF redeliver
<1> QED
  BY <1>2, <1>3, <1>4, <1>5, <1>6, <1>7, <1>8 DEF SignInNext

\* A challenge is good for one token, however the sign-ins and refreshes of any number
\* of tabs overlap and whatever is delivered again (verify consumes the nonce).
THEOREM ChallengesGiveOneToken == SignInSpec => []OneTokenPerChallenge
<1>1. SignInInit => ChallengesOK
  BY SignInAssumption DEF SignInInit, ChallengesOK
<1>2. ChallengesOK => OneTokenPerChallenge
  BY DEF ChallengesOK, OneTokenPerChallenge
<1> QED
  BY <1>1, <1>2, ChallengesNext, PTL DEF SignInSpec

\* A request that is let through finds no lockout in force: one that is forgotten
\* or set from now on leaves the times of the failures as far apart as they were.
LEMMA HeldFreed ==
    ASSUME NEW n \in Nat, NEW ms \in Seq(Nat), NEW l \in Nat \cup {None}, NEW c \in Nat,
           Held(n, ms, l, c), ~(l # None /\ l > c), NEW l2
    PROVE  /\ Held(n, ms, l2, c)
           /\ n >= DEFAULT_ATTEMPTS => c >= ms[n] + DEFAULT_LOCKOUT
<1>1. {MAX_ATTEMPTS, DEFAULT_ATTEMPTS, DEFAULT_LOCKOUT} \subseteq Nat \ {0}
  BY SignInAssumption
<1>2. n >= DEFAULT_ATTEMPTS => ms[n] \in Nat
  BY <1>1 DEF Held
<1>3. ASSUME n >= DEFAULT_ATTEMPTS PROVE c >= ms[n] + DEFAULT_LOCKOUT
  <2>1. (l # None /\ l >= ms[n] + DEFAULT_LOCKOUT) \/ c >= ms[n] + DEFAULT_LOCKOUT
    BY <1>3 DEF Held
  <2>2. CASE l # None /\ l >= ms[n] + DEFAULT_LOCKOUT
    <3>1. l \in Nat /\ l <= c /\ ms[n] \in Nat /\ DEFAULT_LOCKOUT \in Nat
      BY <1>1, <1>2, <1>3, <2>2
    <3> QED
      BY <2>2, <3>1
  <2> QED
    BY <2>1, <2>2
<1> QED
  BY <1>3 DEF Held

\* One more failure, let through below the limiter's bound.
LEMMA HeldMissed ==
    ASSUME NEW n \in Nat, NEW ms \in Seq(Nat), NEW l \in Nat \cup {None}, NEW c \in Nat,
           Held(n, ms, l, c), ~(l # None /\ l > c), n < MAX_ATTEMPTS,
           NEW l2, n + 1 >= DEFAULT_ATTEMPTS => l2 = c + DEFAULT_LOCKOUT
    PROVE  Held(n + 1, Append(ms, c), l2, c)
<1> DEFINE next == Append(ms, c)
<1>1. {MAX_ATTEMPTS, DEFAULT_ATTEMPTS, DEFAULT_LOCKOUT} \subseteq Nat \ {0} /\ None \notin Nat
  BY SignInAssumption
<1>2. /\ n = Len(ms) /\ n + 1 = Len(next) /\ next[n + 1] = c
      /\ \A k \in 1..n : next[k] = ms[k]
  BY DEF Held
<1> HIDE DEF next
<1>3. n + 1 <= MAX_ATTEMPTS
  BY <1>1
<1>4. ASSUME NEW k \in 2..(n + 1), k > DEFAULT_ATTEMPTS
      PROVE  next[k] >= next[k - 1] + DEFAULT_LOCKOUT
  <2>1. CASE k = n + 1
    <3>1. n >= DEFAULT_ATTEMPTS /\ n \in 1..n /\ k - 1 = n
      BY <1>1, <1>4, <2>1
    <3>2. c >= ms[n] + DEFAULT_LOCKOUT
      BY <3>1, HeldFreed
    <3> QED
      BY <1>2, <2>1, <3>1, <3>2
  <2>2. CASE k # n + 1
    <3>1. k \in 2..n /\ k \in 1..n /\ k - 1 \in 1..n
      BY <2>2
    <3> QED
      BY <1>2, <1>4, <3>1 DEF Held
  <2> QED
    BY <2>1, <2>2
<1>5. n + 1 >= DEFAULT_ATTEMPTS => l2 # None /\ l2 >= next[n + 1] + DEFAULT_LOCKOUT
  BY <1>1, <1>2
<1>6. Held(n + 1, next, l2, c)
  BY <1>2, <1>3, <1>4, <1>5 DEF Held
<1> QED
  BY <1>6 DEF next

\* Nothing is held against an identifier without failures.
LEMMA HeldNothing ==
    ASSUME NEW l, NEW c PROVE Held(0, <<>>, l, c)
  BY SignInAssumption DEF Held

\* One identifier's entries change, and the invariant holds of them.
LEMMA OneIdentifier ==
    ASSUME FailuresOK, clock' = clock, NEW id \in Identifiers,
           NEW n \in Nat, NEW ms \in Seq(Nat), NEW l \in Nat \cup {None},
           failures' = [failures EXCEPT ![id] = n], misses' = [misses EXCEPT ![id] = ms],
           lockouts' = [lockouts EXCEPT ![id] = l], Held(n, ms, l, clock)
    PROVE  FailuresOK'
<1>1. /\ failures' \in [Identifiers -> Nat] /\ misses' \in [Identifiers -> Seq(Nat)]
      /\ lockouts' \in [Identifiers -> Nat \cup {None}] /\ clock' \in Nat
  BY DEF FailuresOK
<1>2. ASSUME NEW o \in Identifiers PROVE Held(failures'[o], misses'[o], lockouts'[o], clock')
  <2>1. CASE o = id
    <3>1. failures'[o] = n /\ misses'[o] = ms /\ lockouts'[o] = l
      BY <2>1 DEF FailuresOK
    <3> QED
      BY <3>1
  <2>2. CASE o # id
    <3>1. failures'[o] = failures[o] /\ misses'[o] = misses[o] /\ lockouts'[o] = lockouts[o]
      BY <2>2 DEF FailuresOK
    <3> QED
      BY <3>1 DEF FailuresOK
  <2> QED
    BY <2>1, <2>2
<1> QED
  BY <1>1, <1>2 DEF FailuresOK

\* What a request that meets the limiter may do to the counts.
LEMMA FailureKeeps ==
    ASSUME FailuresOK, clock' = clock, NEW id \in Identifiers,
           \/ applyAuthFailure(id) /\ Passes(id)
           \/ resetAuthRateLimit(id)
           \/ authRateLimiter429(id)
           \/ Challenge(id)
    PROVE  FailuresOK'
<1> DEFINE n == failures[id]
           ms == misses[id]
           l == lockouts[id]
<1>1. /\ n \in Nat /\ ms \in Seq(Nat) /\ l \in Nat \cup {None} /\ clock \in Nat
      /\ Held(n, ms, l, clock) /\ {LOCKOUT, DEFAULT_LOCKOUT, MAX_ATTEMPTS} \subseteq Nat
      /\ failures = [failures EXCEPT ![id] = n] /\ misses = [misses EXCEPT ![id] = ms]
      /\ lockouts = [lockouts EXCEPT ![id] = l]
  BY SignInAssumption DEF FailuresOK
<1>2. CASE applyAuthFailure(id) /\ Passes(id)
  <2> DEFINE l2 == IF n + 1 >= DEFAULT_ATTEMPTS THEN clock + DEFAULT_LOCKOUT ELSE None
  <2>1. /\ ~(l # None /\ l > clock) /\ n < MAX_ATTEMPTS
    BY <1>1, <1>2 DEF Passes, Locked, Exhausted
  <2>2. /\ failures' = [failures EXCEPT ![id] = n + 1]
        /\ misses' = [misses EXCEPT ![id] = Append(ms, clock)]
        /\ lockouts' = [lockouts EXCEPT ![id] = l2]
    BY <1>2 DEF applyAuthFailure, recordFailure, Unlocked
  <2>3. l2 \in Nat \cup {None} /\ (n + 1 >= DEFAULT_ATTEMPTS => l2 = clock + DEFAULT_LOCKOUT)
        /\ n + 1 \in Nat /\ Append(ms, clock) \in Seq(Nat)
    BY <1>1
  <2> HIDE DEF n, ms, l, l2
  <2>4. Held(n + 1, Append(ms, clock), l2, clock)
    BY <1>1, <2>1, <2>3, HeldMissed
  <2> QED
    BY <2>2, <2>3, <2>4, OneIdentifier
<1>3. CASE resetAuthRateLimit(id)
  <2>1. 0 \in Nat /\ <<>> \in Seq(Nat) /\ Held(0, <<>>, None, clock)
    BY HeldNothing
  <2> QED
    BY <1>3, <2>1, OneIdentifier DEF resetAuthRateLimit, Unlocked
<1>4. CASE authRateLimiter429(id) /\ Locked(id)
  BY <1>4 DEF authRateLimiter429, FailuresOK
<1>5. ASSUME NEW l2 \in Nat \cup {None}, ~Locked(id), failures' = failures, misses' = misses,
             lockouts' = [lockouts EXCEPT ![id] = l2]
      PROVE  FailuresOK'
  <2>1. ~(l # None /\ l > clock)
    BY <1>5 DEF Locked
  <2>2. failures' = [failures EXCEPT ![id] = n] /\ misses' = [misses EXCEPT ![id] = ms]
    BY <1>1, <1>5
  <2> HIDE DEF n, ms, l
  <2>3. Held(n, ms, l2, clock)
    BY <1>1, <2>1, HeldFreed
  <2> QED
    BY <1>1, <1>5, <2>2, <2>3, OneIdentifier
<1>6. CASE authRateLimiter429(id) /\ ~Locked(id)
  <2>1. clock + LOCKOUT \in Nat \cup {None}
    BY <1>1
  <2>2. /\ failures' = failures /\ misses' = misses
        /\ lockouts' = [lockouts EXCEPT ![id] = clock + LOCKOUT]
    BY <1>6 DEF authRateLimiter429
  <2> QED
    BY <1>5, <1>6, <2>1, <2>2
<1>7. CASE Challenge(id)
  BY <1>5, <1>7 DEF Challenge, Passes, Unlocked
<1> QED
  BY <1>2, <1>3, <1>4, <1>6, <1>7

LEMMA FailuresNext == FailuresOK /\ [SignInNext]_signin_vars => FailuresOK'
<1> SUFFICES ASSUME FailuresOK, [SignInNext]_signin_vars PROVE FailuresOK'
  OBVIOUS
<1>0. ASSUME UNCHANGED <<clock, failures, misses, lockouts>> PROVE FailuresOK'
  BY <1>0 DEF FailuresOK
<1>1. ASSUME NEW t \in Tabs, NEW n, clock' = clock,
             \/ VerifyFails(getIdentifier[t], n) \/ VerifySucceeds(getIdentifier[t], n)
             \/ authRateLimiter429(getIdentifier[t]) \/ Challenge(getIdentifier[t])
      PROVE  FailuresOK'
  <2>1. getIdentifier[t] \in Identifiers
    BY SignInAssumption
  <2> QED
    BY <1>1, <2>1, FailureKeeps DEF VerifyFails, VerifySucceeds
<1>2. CASE tick
  <2>1. clock' = clock + 1 /\ UNCHANGED <<failures, misses, lockouts>>
    BY <1>2 DEF tick, server_vars
  <2>2. ASSUME NEW id \in Identifiers
        PROVE  Held(failures[id], misses[id], lockouts[id], clock + 1)
    <3> DEFINE n == failures[id]
               ms == misses[id]
    <3>1. /\ n \in Nat /\ ms \in Seq(Nat) /\ clock \in Nat /\ Held(n, ms, lockouts[id], clock)
          /\ {DEFAULT_ATTEMPTS, DEFAULT_LOCKOUT} \subseteq Nat \ {0}
      BY SignInAssumption DEF FailuresOK
    <3> HIDE DEF n, ms
    <3>2. n >= DEFAULT_ATTEMPTS => ms[n] \in Nat
      BY <3>1 DEF Held
    <3>3. Held(n, ms, lockouts[id], clock + 1)
      BY <3>1, <3>2 DEF Held
    <3> QED
      BY <3>3 DEF n, ms
  <2> QED
    BY <2>1, <2>2 DEF FailuresOK
<1>3. CASE purge \/ UNCHANGED signin_vars
  BY <1>0, <1>3 DEF purge, signin_vars, server_vars
<1>4. CASE \E id \in Identifiers : unlock(id)
  BY <1>4, FailureKeeps DEF unlock
<1>5. ASSUME NEW t \in Tabs,
             connect(t) \/ login(t) \/ refresh(t) \/ logout(t) \/ reload(t) \/ setRememberMe(t)
      PROVE  FailuresOK'
  BY <1>0, <1>5 DEF connect, login, refresh, logout, reload, setRememberMe, server_vars
<1>6. ASSUME NEW t \in Tabs, NEW job \in Jobs, fetchChallenge(t, job) PROVE FailuresOK'
  BY <1>1, <1>6 DEF fetchChallenge
<1>7. ASSUME NEW t \in Tabs, NEW job \in Jobs, sign(t, job) PROVE FailuresOK'
  BY <1>0, <1>7 DEF sign
<1>8. ASSUME NEW t \in Tabs, NEW job \in Jobs, fetchVerify(t, job) PROVE FailuresOK'
  BY <1>1, <1>8 DEF fetchVerify
<1>9. ASSUME NEW t \in Tabs, NEW n \in signed, redeliver(t, n) PROVE FailuresOK'
  BY <1>1, <1>9 DEF redeliver
<1> QED
  BY <1>2, <1>3, <1>4, <1>5, <1>6, <1>7, <1>8, <1>9 DEF SignInNext

\* Between two resets of an identifier at most MAX_ATTEMPTS verifications fail, and
\* from the built-in bound on each comes a whole lockout after the one before it,
\* for all bounds and durations (authRateLimiter, applyAuthFailure).
THEOREM GuessesStayLimited == SignInSpec => []GuessesLimited
<1>1. SignInInit => FailuresOK
  BY HeldNothing DEF SignInInit, FailuresOK
<1>2. FailuresOK => GuessesLimited
  BY DEF FailuresOK, Held, GuessesLimited
<1> QED
  BY <1>1, <1>2, FailuresNext, PTL DEF SignInSpec
-----------------------------------------------------------------------------
(* The job queue.                                                          *)

Failed(j) == jobs[j] \in Job /\ jobs[j].state = "failed"

\* A job has its copy, or is being copied, only once it failed; a failed job has
\* exactly one of the two, unless it was spared.
CopiesOK(j) ==
    /\ j \in listeners \/ dlq[j] > 0 => Failed(j)
    /\ Failed(j) /\ j \notin spared => (dlq[j] = IF j \in listeners THEN 0 ELSE 1)

QueueTyped ==
    /\ jobs \in [QueueJobs -> Job \cup {NoJob}]
    /\ dlq \in [QueueJobs -> Nat]
    /\ listeners \subseteq QueueJobs

QueueOK == QueueTyped /\ \A j \in QueueJobs : CopiesOK(j)

\* A job in a state has a record.
LEMMA InStateFacts ==
    ASSUME QueueTyped, NEW state, NEW j \in InState(state)
    PROVE  j \in QueueJobs /\ jobs[j] \in Job /\ jobs[j].state = state
BY DEF InState, IsAdded, QueueTyped

\* A job that stalled once more is a job.
LEMMA JobUpdated ==
    ASSUME NEW q \in Job, NEW n \in Nat,
           NEW state \in {"waiting", "active", "delayed", "stalled", "completed", "failed"}
    PROVE  /\ [q EXCEPT !.state = state, !.stalled = n] \in Job
           /\ [q EXCEPT !.state = state, !.stalled = n].state = state
BY DEF Job

\* A step that moves one job between states, none of which is "failed".
LEMMA MovesJob ==
    ASSUME QueueOK, NEW j \in QueueJobs, ~Failed(j), NEW r \in Job, r.state # "failed",
           jobs' = [jobs EXCEPT ![j] = r], UNCHANGED <<dlq, listeners, spared>>
    PROVE  QueueOK'
<1>1. QueueTyped'
  BY DEF QueueOK, QueueTyped
<1>2. jobs'[j] = r /\ \A k \in QueueJobs \ {j} : jobs'[k] = jobs[k]
  BY DEF QueueOK, QueueTyped
<1>3. ~Failed(j)'
  BY <1>2 DEF Failed
<1>4. j \notin listeners /\ ~(dlq[j] > 0)
  BY DEF QueueOK, CopiesOK
<1>5. CopiesOK(j)'
  BY <1>3, <1>4 DEF CopiesOK
<1>6. ASSUME NEW k \in QueueJobs \ {j} PROVE CopiesOK(k)'
  BY <1>2 DEF QueueOK, CopiesOK, Failed
<1> QED
  BY <1>1, <1>5, <1>6 DEF QueueOK

\* processStreamJob throws: the listener and BullMQ count alike.
LEMMA ThrowKeeps ==
    ASSUME QueueOK, NEW j \in QueueJobs, jobThrows(j)
    PROVE  QueueOK'
<1> DEFINE made == jobs[j].made + 1
           r == [jobs[j] EXCEPT !.made = made,
                                !.state = IF made < jobs[j].attempts THEN "delayed" ELSE "failed"]
<1>1. QueueTyped /\ jobs[j] \in Job /\ jobs[j].state = "active"
  BY InStateFacts DEF jobThrows, QueueOK
<1>2. jobs[j].made \in Nat /\ jobs[j].attempts \in Nat
  BY <1>1, QueueAssumption DEF Job
<1>3. /\ jobs' = [jobs EXCEPT ![j] = r] /\ UNCHANGED <<dlq, spared>>
      /\ listeners' = IF made >= jobs[j].attempts THEN listeners \cup {j} ELSE listeners
  BY DEF jobThrows, UsedUp
<1>4. r \in Job /\ r.state = (IF made < jobs[j].attempts THEN "delayed" ELSE "failed")
  <2> DEFINE q == jobs[j]
             n == made
  <2>1. q \in Job /\ n \in Nat
    BY <1>1, <1>2
  <2>2. ASSUME NEW st \in {"delayed", "failed"}, r = [q EXCEPT !.made = n, !.state = st]
        PROVE  r \in Job /\ r.state = st
    <3> HIDE DEF q, n, r
    <3> QED
      BY <2>1, <2>2 DEF Job
  <2>3. CASE made < jobs[j].attempts
    <3>1. r = [q EXCEPT !.made = n, !.state = "delayed"]
      BY <2>3
    <3> QED
      BY <2>2, <2>3, <3>1
  <2>4. CASE ~(made < jobs[j].attempts)
    <3>1. r = [q EXCEPT !.made = n, !.state = "failed"]
      BY <2>4
    <3> QED
      BY <2>2, <2>4, <3>1
  <2> QED
    BY <2>3, <2>4
<1>5. ~Failed(j) /\ j \notin listeners /\ ~(dlq[j] > 0)
  BY <1>1 DEF Failed, QueueOK, CopiesOK
<1>6. CASE made < jobs[j].attempts
  <2>1. ~(made >= jobs[j].attempts)
    BY <1>2, <1>6
  <2> HIDE DEF r
  <2> QED
    BY <1>3, <1>4, <1>5, <1>6, <2>1, MovesJob
<1>7. CASE ~(made < jobs[j].attempts)
  <2>1. listeners' = listeners \cup {j} /\ r.state = "failed"
    BY <1>2, <1>3, <1>4, <1>7
  <2> HIDE DEF r, made
  <2>2. jobs'[j] = r /\ \A k \in QueueJobs \ {j} : jobs'[k] = jobs[k]
    BY <1>1, <1>3 DEF QueueTyped
  <2>3. QueueTyped'
    BY <1>1, <1>3, <1>4, <2>1 DEF QueueTyped
  <2>4. dlq[j] = 0
    BY <1>1, <1>5 DEF QueueTyped
  <2>5. CopiesOK(j)'
    BY <1>3, <1>4, <2>1, <2>2, <2>4 DEF CopiesOK, Failed
  <2>6. ASSUME NEW k \in QueueJobs \ {j} PROVE CopiesOK(k)'
    BY <1>3, <2>1, <2>2 DEF QueueOK, CopiesOK, Failed
  <2> QED
    BY <2>3, <2>5, <2>6 DEF QueueOK
<1> QED
  BY <1>6, <1>7

\* The copy is made, or refused.
LEMMA CopyKeeps ==
    ASSUME QueueOK, NEW j \in QueueJobs, addToDlq(j)
    PROVE  QueueOK'
<1>1. QueueTyped /\ j \in listeners /\ listeners' = listeners \ {j} /\ jobs' = jobs /\ Failed(j)
  BY DEF addToDlq, QueueOK, CopiesOK
<1>2. CASE dlq' = [dlq EXCEPT ![j] = @ + 1] /\ spared' = spared
  <2>1. QueueTyped'
    BY <1>1, <1>2 DEF QueueTyped
  <2>2. /\ dlq'[j] = dlq[j] + 1 /\ dlq[j] \in Nat
        /\ \A k \in QueueJobs \ {j} : dlq'[k] = dlq[k]
    BY <1>1, <1>2 DEF QueueTyped
  <2>3. j \notin spared => dlq[j] = 0
    BY <1>1 DEF QueueOK, CopiesOK
  <2>4. CopiesOK(j)'
    BY <1>1, <1>2, <2>2, <2>3 DEF CopiesOK, Failed
  <2>5. ASSUME NEW k \in QueueJobs \ {j} PROVE CopiesOK(k)'
    BY <1>1, <1>2, <2>2 DEF QueueOK, CopiesOK, Failed
  <2> QED
    BY <2>1, <2>4, <2>5 DEF QueueOK
<1>3. CASE spared' = spared \cup {j} /\ dlq' = dlq
  <2>1. QueueTyped'
    BY <1>1, <1>3 DEF QueueTyped
  <2>2. ASSUME NEW k \in QueueJobs PROVE CopiesOK(k)'
    BY <1>1, <1>3 DEF QueueOK, CopiesOK, Failed
  <2> QED
    BY <2>1, <2>2 DEF QueueOK
<1> QED
  BY <1>2, <1>3 DEF addToDlq

\* The process ends: the listeners are gone, the active jobs stall.
LEMMA DeadKeeps ==
    ASSUME QueueOK, Dead, UNCHANGED dlq, NEW A, A = InState("active"),
           \/ jobs' = [j \in QueueJobs |-> IF j \in A THEN [jobs[j] EXCEPT !.state = "stalled"] ELSE jobs[j]]
           \/ jobs' = jobs
    PROVE  QueueOK'
<1>1. QueueTyped /\ listeners' = {} /\ spared' = spared \cup listeners /\ dlq' = dlq
  BY DEF Dead, QueueOK
<1>2. \A j \in A : jobs[j] \in Job /\ jobs[j].state = "active" /\ j \in QueueJobs
  BY <1>1, InStateFacts
<1>3. ASSUME NEW j \in A PROVE LET r == [jobs[j] EXCEPT !.state = "stalled"] IN r \in Job /\ r.state = "stalled"
  BY <1>2 DEF Job
<1>4. ASSUME NEW j \in QueueJobs
      PROVE  \/ jobs'[j] = jobs[j]
             \/ jobs'[j] \in Job /\ jobs'[j].state = "stalled" /\ ~Failed(j)
  <2>1. CASE j \in A
    <3>1. ~Failed(j)
      BY <1>2, <2>1 DEF Failed
    <3> QED
      BY <1>3, <2>1, <3>1
  <2>2. CASE j \notin A
    BY <2>2
  <2> QED
    BY <2>1, <2>2
<1>5. QueueTyped'
  <2>1. jobs' \in [QueueJobs -> Job \cup {NoJob}]
    BY <1>1, <1>3 DEF QueueTyped
  <2> QED
    BY <1>1, <2>1 DEF QueueTyped
<1>6. ASSUME NEW j \in QueueJobs PROVE CopiesOK(j)'
  <2>1. CASE jobs'[j] = jobs[j]
    BY <1>1, <2>1 DEF QueueOK, CopiesOK, Failed
  <2>2. CASE jobs'[j] \in Job /\ jobs'[j].state = "stalled" /\ ~Failed(j)
    BY <1>1, <2>2 DEF QueueOK, CopiesOK, Failed
  <2> QED
    BY <1>4, <2>1, <2>2
<1> QED
  BY <1>5, <1>6 DEF QueueOK

\* A stalled job runs again, or fails and is spared.
LEMMA StalledKeeps ==
    ASSUME QueueOK, NEW j \in QueueJobs, stalledCheck(j)
    PROVE  QueueOK'
<1>1. QueueTyped /\ jobs[j] \in Job /\ jobs[j].state = "stalled" /\ UNCHANGED <<dlq, listeners>>
  BY InStateFacts DEF stalledCheck, QueueOK
<1>2. ~Failed(j) /\ jobs[j].stalled \in Nat
  BY <1>1 DEF Failed, Job
<1>3. CASE jobs' = [jobs EXCEPT ![j].state = "waiting", ![j].stalled = @ + 1] /\ UNCHANGED spared
  <2> DEFINE r == [jobs[j] EXCEPT !.state = "waiting", !.stalled = @ + 1]
  <2>1. r \in Job /\ r.state # "failed" /\ jobs' = [jobs EXCEPT ![j] = r]
    <3> DEFINE q == jobs[j]
               n == q.stalled + 1
    <3>1. jobs' = [jobs EXCEPT ![j] = r] /\ r = [q EXCEPT !.state = "waiting", !.stalled = n]
      BY <1>3
    <3>2. q \in Job /\ n \in Nat
      BY <1>1, <1>2
    <3> HIDE DEF q, n, r
    <3> QED
      BY <3>1, <3>2, JobUpdated
  <2> HIDE DEF r
  <2> QED
    BY <1>1, <1>2, <1>3, <2>1, MovesJob
<1>4. CASE jobs' = [jobs EXCEPT ![j].state = "failed"] /\ spared' = spared \cup {j}
  <2> DEFINE r == [jobs[j] EXCEPT !.state = "failed"]
  <2>1. r \in Job /\ r.state = "failed" /\ jobs' = [jobs EXCEPT ![j] = r]
    BY <1>1, <1>4 DEF Job
  <2> HIDE DEF r
  <2>2. jobs'[j] = r /\ \A k \in QueueJobs \ {j} : jobs'[k] = jobs[k]
    BY <1>1, <2>1 DEF QueueTyped
  <2>3. QueueTyped'
    BY <1>1, <2>1 DEF QueueTyped
  <2>4. CopiesOK(j)'
    BY <1>1, <1>4, <2>1, <2>2 DEF CopiesOK, Failed
  <2>5. ASSUME NEW k \in QueueJobs \ {j} PROVE CopiesOK(k)'
    BY <1>1, <1>4, <2>2 DEF QueueOK, CopiesOK, Failed
  <2> QED
    BY <2>3, <2>4, <2>5 DEF QueueOK
<1> QED
  BY <1>3, <1>4 DEF stalledCheck

\* Adding, taking, completing and delaying a job move it between states.
LEMMA PlainKeeps ==
    ASSUME QueueOK, NEW j \in QueueJobs,
           (\E attempts \in Attempts : addStreamJob(j, attempts)) \/ take(j) \/ complete(j) \/ backoff(j)
    PROVE  QueueOK'
<1>1. QueueTyped
  BY DEF QueueOK
<1>2. ASSUME NEW attempts \in Attempts, addStreamJob(j, attempts) PROVE QueueOK'
  <2> DEFINE r == [state |-> "waiting", attempts |-> attempts, made |-> 0, stalled |-> 0]
  <2>1. r \in Job /\ r.state # "failed"
    BY DEF Job
  <2>2. ~Failed(j)
    BY <1>2, QueueAssumption DEF addStreamJob, IsAdded, Failed
  <2>3. jobs' = [jobs EXCEPT ![j] = r] /\ UNCHANGED <<dlq, listeners, spared>>
    BY <1>2 DEF addStreamJob
  <2> HIDE DEF r
  <2> QED
    BY <2>1, <2>2, <2>3, MovesJob
<1>3. ASSUME NEW state \in {"waiting", "active", "delayed", "completed"}, NEW from \in {"waiting", "active", "delayed"},
             j \in InState(from), jobs' = [jobs EXCEPT ![j].state = state],
             UNCHANGED <<dlq, listeners, spared>>
      PROVE  QueueOK'
  <2> DEFINE r == [jobs[j] EXCEPT !.state = state]
  <2>1. jobs[j] \in Job /\ jobs[j].state = from
    BY <1>1, <1>3, InStateFacts
  <2>2. ~Failed(j)
    BY <2>1 DEF Failed
  <2>3. r \in Job /\ r.state # "failed" /\ jobs' = [jobs EXCEPT ![j] = r]
    BY <1>3, <2>1 DEF Job
  <2> HIDE DEF r
  <2> QED
    BY <1>3, <2>2, <2>3, MovesJob
<1>4. CASE take(j)
  BY <1>3, <1>4 DEF take
<1>5. CASE complete(j)
  BY <1>3, <1>5 DEF complete
<1>6. CASE backoff(j)
  BY <1>3, <1>6 DEF backoff
<1> QED
  BY <1>2, <1>4, <1>5, <1>6

LEMMA QueueNextKeeps == QueueOK /\ [QueueNext]_queue_vars => QueueOK'
<1> SUFFICES ASSUME QueueOK, [QueueNext]_queue_vars PROVE QueueOK'
  OBVIOUS
<1>1. ASSUME UNCHANGED <<jobs, dlq, listeners, spared>> PROVE QueueOK'
  BY <1>1 DEF QueueOK, QueueTyped, CopiesOK, Failed
<1>2. CASE sigint \/ start_worker \/ UNCHANGED queue_vars
  BY <1>1, <1>2 DEF sigint, start_worker, queue_vars
<1>3. CASE exit \/ die
  BY <1>3, DeadKeeps DEF exit, die
<1> QED
  BY <1>2, <1>3, PlainKeeps, ThrowKeeps, CopyKeeps, StalledKeeps DEF QueueNext

\* The listener's count of attempts and BullMQ's agree for every number of attempts a
\* caller may ask for, 0 included: a job is copied to the dead-letter queue once and
\* only when it will not run again, and a failed job is copied unless Redis refused the
\* copy, the process ended before it, or the job failed by stalling (worker.on 'failed').
THEOREM FailedJobsReachDlq == QueueSpec => []FailedReachesDlq
<1>1. QueueInit => QueueOK
  BY QueueAssumption DEF QueueInit, QueueOK, QueueTyped, CopiesOK, Failed
<1>2. ASSUME QueueOK PROVE FailedReachesDlq
  <2> SUFFICES ASSUME NEW j \in QueueJobs
               PROVE  /\ dlq[j] + Cardinality(listeners \cap {j}) > 0 => IsAdded(j) /\ jobs[j].state = "failed"
                      /\ j \in InState("failed") \ spared => dlq[j] + Cardinality(listeners \cap {j}) = 1
    BY DEF FailedReachesDlq
  <2>1. Cardinality(listeners \cap {j}) = IF j \in listeners THEN 1 ELSE 0
    <3>1. CASE j \in listeners
      <4>1. listeners \cap {j} = {j}
        BY <3>1
      <4> QED
        BY <3>1, <4>1, FS_Singleton
    <3>2. CASE j \notin listeners
      <4>1. listeners \cap {j} = {}
        BY <3>2
      <4> QED
        BY <3>2, <4>1, FS_EmptySet
    <3> QED
      BY <3>1, <3>2
  <2>2. dlq[j] \in Nat /\ QueueTyped /\ CopiesOK(j)
    BY <1>2 DEF QueueOK, QueueTyped
  <2>3. Failed(j) => IsAdded(j) /\ jobs[j].state = "failed"
    BY QueueAssumption DEF Failed, IsAdded
  <2>4. j \in InState("failed") => Failed(j)
    BY <2>2, InStateFacts DEF Failed
  <2>5. dlq[j] + Cardinality(listeners \cap {j}) > 0 => Failed(j)
    <3>1. dlq[j] + Cardinality(listeners \cap {j}) > 0 => j \in listeners \/ dlq[j] > 0
      BY <2>1, <2>2
    <3> QED
      BY <2>2, <3>1 DEF CopiesOK
  <2>6. Failed(j) /\ j \notin spared => dlq[j] + Cardinality(listeners \cap {j}) = 1
    <3>1. Failed(j) /\ j \notin spared => (dlq[j] = IF j \in listeners THEN 0 ELSE 1)
      BY <2>2 DEF CopiesOK
    <3> QED
      BY <2>1, <3>1
  <2> QED
    BY <2>3, <2>4, <2>5, <2>6
<1> QED
  BY <1>1, <1>2, QueueNextKeeps, PTL DEF QueueSpec
-----------------------------------------------------------------------------
(* The migrations.                                                         *)

Undoing == {"down", "undo", "rolled_back", "undone", "not_undone"}

Awaits == {"none", "before", "started", "up", "after", "success", "migrated", "failed"} \cup Undoing

Calls == [version: Versions \cup {0}, todo: SUBSET Versions, await: Awaits, current: [Versions -> Int]]

\* The call c and the versions u whose up has run: past up, its version is among
\* them; undoing, so are those to come.
CallOK(c, u) ==
    /\ c \in Calls
    /\ c.await # "none" => c.version \in Versions
    /\ c.await \in {"after", "success"} => c.version \in u
    /\ c.await \in Undoing => c.version \in u /\ c.todo \subseteq u

\* A row of success is written for such versions only.
RowsOK(h, u) == \A v \in Versions : Row(v, "up", "success") \in h => v \in u

MigrationOK ==
    /\ streams_at \in [Versions -> Int]
    /\ CallOK(call, upped)
    /\ RowsOK(history, upped)
    /\ downed \subseteq upped

\* A call that is over.
LEMMA NoCallOK ==
    ASSUME streams_at \in [Versions -> Int], NEW u
    PROVE  CallOK(NoCall, u)
<1>1. NoCall \in Calls /\ NoCall.await = "none"
  BY DEF NoCall, Calls, Awaits, Undoing
<1> QED
  BY <1>1 DEF CallOK, Undoing

\* A call that begins.
LEMMA BeginKeeps ==
    ASSUME MigrationOK, NEW todo \in SUBSET Versions, NEW await \in {"before", "down"},
           await = "down" => todo \subseteq upped, Begin(todo, await)
    PROVE  MigrationOK'
<1>1. /\ streams_at' = streams_at /\ history' = history /\ upped' = upped /\ downed' = downed
      /\ streams_at \in [Versions -> Int]
  BY DEF Begin, record_vars, MigrationOK
<1>2. CASE call' = NoCall
  <2>1. CallOK(call', upped')
    BY <1>1, <1>2, NoCallOK
  <2> QED
    BY <1>1, <2>1 DEF MigrationOK
<1>3. ASSUME NEW v \in Versions, IsFirst(v, todo, await),
             call' = [version |-> v, todo |-> todo \ {v}, await |-> await, current |-> streams_at]
      PROVE  MigrationOK'
  <2>1. call' \in Calls /\ call'.version = v /\ call'.todo = todo \ {v} /\ call'.await = await /\ v \in todo
    BY <1>1, <1>3 DEF Calls, Awaits, Undoing, IsFirst
  <2>2. CallOK(call', upped')
    BY <1>1, <2>1 DEF CallOK, Undoing
  <2> QED
    BY <1>1, <2>2 DEF MigrationOK
<1> QED
  BY <1>2, <1>3 DEF Begin

\* The rows of a step that is not the one of success say nothing of it.
LEMMA AuditKeeps ==
    ASSUME MigrationOK, NEW direction, NEW status, audit(direction, status), upped' = upped,
           direction = "up" /\ status = "success" => Version \in upped
    PROVE  RowsOK(history', upped')
<1>1. CASE history' = history
  BY <1>1 DEF MigrationOK
<1>2. CASE history' = history \cup {Row(Version, direction, status)}
  <2> SUFFICES ASSUME NEW v \in Versions, Row(v, "up", "success") \in history' PROVE v \in upped
    BY DEF RowsOK
  <2>1. CASE Row(v, "up", "success") \in history
    BY <2>1 DEF MigrationOK, RowsOK
  <2>2. CASE Row(v, "up", "success") = Row(Version, direction, status)
    BY <2>2 DEF Row
  <2> QED
    BY <1>2, <2>1, <2>2
<1> QED
  BY <1>1, <1>2 DEF audit

\* A call goes on to a step that asks for no more than the present one.
LEMMA AwaitOK ==
    ASSUME MigrationOK, NEW here, NEW await, At(here), Await(await), upped' = upped,
           \/ here = "before" /\ await = "started"
           \/ here = "started" /\ await = "up"
           \/ here = "after" /\ await = "success"
           \/ here = "success" /\ await = "migrated"
           \/ here = "down" /\ await = "undo"
           \/ here = "rolled_back" /\ await = "undone"
    PROVE  CallOK(call', upped')
<1>1. /\ call \in Calls /\ call' = [call EXCEPT !.await = await]
      /\ call.version \in Versions /\ call.await = here
  BY DEF MigrationOK, CallOK, At, Await
<1>2. call' \in Calls /\ call'.await = await /\ call'.version = call.version /\ call'.todo = call.todo
  BY <1>1 DEF Calls, Awaits, Undoing
<1> QED
  BY <1>1, <1>2 DEF MigrationOK, CallOK, Undoing

\* The loop goes on, or the call returns its data.
LEMMA NextVersionOK ==
    ASSUME MigrationOK, NEW first \in {"before", "down"}, upped' = upped, NextVersion(first),
           first = "down" => call.await \in Undoing
    PROVE  CallOK(call', upped') /\ streams_at' \in [Versions -> Int]
<1>1. call \in Calls /\ streams_at \in [Versions -> Int] /\ call.current \in [Versions -> Int]
  BY DEF MigrationOK, CallOK, Calls
<1>2. CASE streams_at' = call.current /\ call' = [NoCall EXCEPT !.current = call.current]
  <2>1. call' \in Calls /\ call'.await = "none"
    BY <1>1, <1>2 DEF NoCall, Calls, Awaits, Undoing
  <2> QED
    BY <1>1, <1>2, <2>1 DEF CallOK, Undoing
<1>3. ASSUME NEW v \in Versions, IsFirst(v, call.todo, first), streams_at' = streams_at,
             call' = [call EXCEPT !.version = v, !.todo = @ \ {v}, !.await = first]
      PROVE  CallOK(call', upped') /\ streams_at' \in [Versions -> Int]
  <2>1. /\ call' \in Calls /\ call'.await = first /\ call'.version = v
        /\ call'.todo = call.todo \ {v} /\ v \in call.todo
    BY <1>1, <1>3 DEF Calls, Awaits, Undoing, IsFirst
  <2>2. first = "down" => call.todo \subseteq upped
    BY DEF MigrationOK, CallOK
  <2> QED
    BY <1>1, <1>3, <2>1, <2>2 DEF CallOK, Undoing
<1> QED
  BY <1>2, <1>3 DEF NextVersion

\* What migrate does up to the end of up.
LEMMA UpKeeps ==
    ASSUME MigrationOK, up
    PROVE  MigrationOK'
<1>1. /\ call \in Calls /\ Version \in Versions /\ Version = call.version /\ call.current \in [Versions -> Int]
      /\ streams_at' = streams_at /\ history' = history /\ downed' = downed
  BY DEF MigrationOK, CallOK, Calls, up, At, Version, record_vars
<1>2. CASE call' = [call EXCEPT !.await = "after", !.current[Version] = @ + 1] /\ upped' = upped \cup {Version}
  <2> DEFINE c == [call.current EXCEPT ![Version] = @ + 1]
  <2>1. c \in [Versions -> Int] /\ call' = [call EXCEPT !.await = "after", !.current = c]
    BY <1>1, <1>2
  <2> HIDE DEF c
  <2>2. call' \in Calls /\ call'.await = "after" /\ call'.version = Version
    BY <1>1, <2>1 DEF Calls, Awaits, Undoing
  <2>3. CallOK(call', upped')
    BY <1>1, <1>2, <2>2 DEF CallOK, Undoing
  <2> QED
    BY <1>1, <1>2, <2>3 DEF MigrationOK, RowsOK
<1>3. CASE call' = [call EXCEPT !.await = "failed"] /\ upped' = upped
  <2>1. call' \in Calls /\ call'.await = "failed" /\ call'.version = Version
    BY <1>1, <1>3 DEF Calls, Awaits, Undoing
  <2>2. CallOK(call', upped')
    BY <1>1, <2>1 DEF CallOK, Undoing
  <2> QED
    BY <1>1, <1>3, <2>2 DEF MigrationOK
<1> QED
  BY <1>2, <1>3 DEF up

\* down only runs for a version whose up has run.
LEMMA DownKeeps ==
    ASSUME MigrationOK, down
    PROVE  MigrationOK'
<1>1. /\ call \in Calls /\ Version \in Versions /\ Version = call.version /\ call.current \in [Versions -> Int]
      /\ Version \in upped /\ call.todo \subseteq upped
      /\ streams_at' = streams_at /\ history' = history /\ upped' = upped
      /\ downed' = downed \cup {Version}
  BY DEF MigrationOK, CallOK, Calls, down, At, Version, record_vars, Undoing
<1>2. ASSUME NEW a \in {"rolled_back", "not_undone"}, NEW c \in [Versions -> Int],
             call' = [call EXCEPT !.await = a, !.current = c]
      PROVE  CallOK(call', upped')
  <2>1. call' \in Calls /\ call'.await = a /\ call'.version = Version /\ call'.todo = call.todo
    BY <1>1, <1>2 DEF Calls, Awaits, Undoing
  <2> QED
    BY <1>1, <2>1 DEF CallOK
<1>3. CASE call' = [call EXCEPT !.await = "rolled_back", !.current[Version] = @ - 1]
  <2> DEFINE c == [call.current EXCEPT ![Version] = @ - 1]
  <2>1. c \in [Versions -> Int] /\ call' = [call EXCEPT !.await = "rolled_back", !.current = c]
    BY <1>1, <1>3
  <2> HIDE DEF c
  <2>2. CallOK(call', upped')
    BY <1>2, <2>1
  <2> QED
    BY <1>1, <2>2 DEF MigrationOK
<1>4. CASE call' = [call EXCEPT !.await = "not_undone"]
  <2>1. call' = [call EXCEPT !.await = "not_undone", !.current = call.current]
    BY <1>1, <1>4 DEF Calls, Awaits, Undoing
  <2>2. CallOK(call', upped')
    BY <1>1, <1>2, <2>1
  <2> QED
    BY <1>1, <2>2 DEF MigrationOK
<1> QED
  BY <1>3, <1>4 DEF down

LEMMA MigrationNextKeeps == MigrationOK /\ [MigrationNext]_migration_vars => MigrationOK'
<1> SUFFICES ASSUME MigrationOK, [MigrationNext]_migration_vars PROVE MigrationOK'
  OBVIOUS
<1>0. streams_at \in [Versions -> Int] /\ appliedVersions \subseteq upped
  BY DEF MigrationOK, RowsOK, appliedVersions
<1>1. ASSUME CallOK(call', upped'), RowsOK(history', upped'), upped' = upped, downed' = downed,
             streams_at' = streams_at
      PROVE  MigrationOK'
  BY <1>1 DEF MigrationOK
<1>2. ASSUME Throw, RowsOK(history', upped'), upped' = upped, downed' = downed PROVE MigrationOK'
  <2>1. call' = NoCall /\ streams_at' = streams_at
    BY <1>2 DEF Throw
  <2> QED
    BY <1>0, <1>1, <1>2, <2>1, NoCallOK
<1>3. ASSUME history' = history, upped' = upped PROVE RowsOK(history', upped')
  BY <1>3 DEF MigrationOK
<1>4. CASE migrate
  BY <1>4, BeginKeeps DEF migrate
<1>5. CASE \E target \in Versions \cup {0} : rollback(target)
  <2>1. PICK target \in Versions \cup {0} : rollback(target)
    BY <1>5
  <2>2. {v \in appliedVersions : v > target} \subseteq upped
    BY <1>0
  <2>3. {v \in appliedVersions : v > target} \in SUBSET Versions
    BY DEF appliedVersions
  <2> QED
    BY <2>1, <2>2, <2>3, BeginKeeps DEF rollback
<1>6. CASE runValidate("before", "started") \/ runValidate("after", "success")
  <2>1. /\ history' = history /\ upped' = upped /\ downed' = downed
        /\ (At("before") /\ Await("started")) \/ (At("after") /\ Await("success")) \/ Throw
    BY <1>6 DEF runValidate, record_vars
  <2>2. RowsOK(history', upped')
    BY <1>3, <2>1
  <2>3. CASE At("before") /\ Await("started")
    <3>1. CallOK(call', upped')
      BY <2>1, <2>3, AwaitOK
    <3> QED
      BY <1>1, <2>1, <2>2, <2>3, <3>1 DEF Await
  <2>4. CASE At("after") /\ Await("success")
    <3>1. CallOK(call', upped')
      BY <2>1, <2>4, AwaitOK
    <3> QED
      BY <1>1, <2>1, <2>2, <2>4, <3>1 DEF Await
  <2> QED
    BY <1>2, <2>1, <2>2, <2>3, <2>4
<1>7. CASE auditStarted
  <2>1. audit("up", "started") /\ upped' = upped /\ downed' = downed /\ At("started") /\ Await("up")
    BY <1>7 DEF auditStarted, Audited
  <2>2. RowsOK(history', upped')
    BY <2>1, AuditKeeps
  <2>3. CallOK(call', upped')
    BY <2>1, AwaitOK
  <2> QED
    BY <1>1, <2>1, <2>2, <2>3 DEF Await
<1>8. CASE up
  BY <1>8, UpKeeps
<1>9. CASE auditFailed
  <2>1. audit("up", "failed") /\ upped' = upped /\ downed' = downed /\ Throw
    BY <1>9 DEF auditFailed, Audited
  <2> QED
    BY <1>2, <2>1, AuditKeeps
<1>10. CASE auditSuccess
  <2>1. /\ audit("up", "success") /\ upped' = upped /\ downed' = downed /\ At("success")
        /\ Await("migrated")
    BY <1>10 DEF auditSuccess, Audited
  <2>2. Version \in upped
    BY <2>1 DEF At, Version, MigrationOK, CallOK
  <2>3. RowsOK(history', upped')
    BY <2>1, <2>2, AuditKeeps
  <2>4. CallOK(call', upped')
    BY <2>1, AwaitOK
  <2> QED
    BY <1>1, <2>1, <2>3, <2>4 DEF Await
<1>11. CASE noDown
  BY <1>2, <1>3, <1>11 DEF noDown, record_vars
<1>12. CASE auditDown
  <2>1. audit("down", "started") /\ upped' = upped /\ downed' = downed /\ At("down") /\ Await("undo")
    BY <1>12 DEF auditDown, Audited
  <2>2. RowsOK(history', upped')
    BY <2>1, AuditKeeps
  <2>3. CallOK(call', upped')
    BY <2>1, AwaitOK
  <2> QED
    BY <1>1, <2>1, <2>2, <2>3 DEF Await
<1>13. CASE down
  BY <1>13, DownKeeps
<1>14. CASE auditRolledBack
  <2>1. /\ audit("down", "rolled_back") /\ upped' = upped /\ downed' = downed /\ At("rolled_back")
        /\ Await("undone")
    BY <1>14 DEF auditRolledBack, Audited
  <2>2. RowsOK(history', upped')
    BY <2>1, AuditKeeps
  <2>3. CallOK(call', upped')
    BY <2>1, AwaitOK
  <2> QED
    BY <1>1, <2>1, <2>2, <2>3 DEF Await
<1>15. CASE auditNotUndone
  <2>1. audit("down", "failed") /\ upped' = upped /\ downed' = downed /\ Throw
    BY <1>15 DEF auditNotUndone, Audited
  <2> QED
    BY <1>2, <2>1, AuditKeeps
<1>16. CASE killed
  BY <1>2, <1>3, <1>16 DEF killed, record_vars
<1>17. CASE nextMigration \/ nextRollback
  <2>1. /\ history' = history /\ upped' = upped /\ downed' = downed
        /\ NextVersion("before") \/ (At("undone") /\ NextVersion("down"))
    BY <1>17 DEF nextMigration, nextRollback, record_vars
  <2>2. CallOK(call', upped') /\ streams_at' \in [Versions -> Int]
    BY <2>1, NextVersionOK DEF At, Undoing
  <2> QED
    BY <1>3, <2>1, <2>2 DEF MigrationOK
<1>18. CASE UNCHANGED migration_vars
  BY <1>18 DEF migration_vars, record_vars, MigrationOK
<1> QED
  BY <1>4, <1>5, <1>6, <1>7, <1>8, <1>9, <1>10, <1>11, <1>12, <1>13, <1>14, <1>15, <1>16, <1>17,
     <1>18 DEF MigrationNext

\* Through failing validations and migrations, lost audit rows, calls cut short and any
\* alternation of migrate and rollback over any set of versions, down only runs for a
\* version whose up has run, and a version is recorded as applied only then (migrate,
\* rollback, _appliedVersions).
THEOREM RollbacksUndoApplied == MigrationSpec => []RollbackOnlyApplied
<1>1. MigrationInit => MigrationOK
  BY NoCallOK DEF MigrationInit, MigrationOK, RowsOK
<1>2. MigrationOK => RollbackOnlyApplied
  BY DEF MigrationOK, RowsOK, RollbackOnlyApplied, appliedVersions
<1> QED
  BY <1>1, <1>2, MigrationNextKeeps, PTL DEF MigrationSpec
-----------------------------------------------------------------------------
(* The approval workflow.                                                  *)

TrailEntry == [actor: People, action: {"requested", "approved", "rejected", "overridden"}]

Count(trail, action) == Cardinality(Entries(trail, action))

\* A request and its trail: pending and approved or rejected exclude each other by the
\* number of approvals, and only an overridden request has an override in its trail.
Judged(r) ==
    LET approved == Count(r.auditTrail, "approved")
        rejected == Count(r.auditTrail, "rejected")
        overridden == Count(r.auditTrail, "overridden")
    IN  /\ r.status = "pending" =>
              rejected = 0 /\ overridden = 0 /\ (approved = 0 \/ approved < r.requiredApprovals)
        /\ r.status = "approved" =>
              rejected = 0 /\ overridden = 0 /\ approved > 0 /\ approved >= r.requiredApprovals
        /\ r.status = "rejected" =>
              rejected = 1 /\ overridden = 0 /\ (approved = 0 \/ approved < r.requiredApprovals)
        /\ r.status = "overridden" => overridden > 0

FlowOK ==
    /\ approvals \in [0..FlowClock -> Request \cup {NoRequest}]
    /\ flow_clock \in 0..FlowClock
    /\ \A id \in 0..FlowClock : findRequest(id) => Judged(approvals[id])

\* The entries of an action are finitely many.
LEMMA EntriesFinite ==
    ASSUME NEW trail \in Seq(TrailEntry), NEW action
    PROVE  IsFiniteSet(Entries(trail, action)) /\ Count(trail, action) \in Nat
<1>1. IsFiniteSet(1..Len(trail))
  BY FS_Interval
<1>2. IsFiniteSet(Entries(trail, action))
  BY <1>1, FS_Subset DEF Entries
<1> QED
  BY <1>2, FS_CardinalityType DEF Count

\* One more entry is one more of its action and of no other.
LEMMA CountAppend ==
    ASSUME NEW trail \in Seq(TrailEntry), NEW e \in TrailEntry, NEW action
    PROVE  Count(Append(trail, e), action) = IF e.action = action THEN Count(trail, action) + 1
                                                                  ELSE Count(trail, action)
<1> DEFINE t == Append(trail, e)
<1>1. /\ Len(trail) \in Nat /\ Len(t) = Len(trail) + 1
      /\ t[Len(trail) + 1] = e /\ \A i \in 1..Len(trail) : t[i] = trail[i]
  OBVIOUS
<1> HIDE DEF t
<1>2. CASE e.action = action
  <2>1. Entries(t, action) = Entries(trail, action) \cup {Len(trail) + 1}
    BY <1>1, <1>2 DEF Entries
  <2>2. Len(trail) + 1 \notin Entries(trail, action)
    BY <1>1 DEF Entries
  <2>3. Cardinality(Entries(trail, action) \cup {Len(trail) + 1}) = Cardinality(Entries(trail, action)) + 1
    BY <2>2, EntriesFinite, FS_AddElement
  <2>4. Count(t, action) = Count(trail, action) + 1
    BY <2>1, <2>3 DEF Count
  <2> QED
    BY <1>2, <2>4 DEF t
<1>3. CASE e.action # action
  <2>1. Entries(t, action) = Entries(trail, action)
    BY <1>1, <1>3 DEF Entries
  <2>2. Count(t, action) = Count(trail, action)
    BY <2>1 DEF Count
  <2> QED
    BY <1>3, <2>2 DEF t
<1> QED
  BY <1>2, <1>3

\* A request of the map, its trail one entry longer and its status s.
LEMMA LoggedKeeps ==
    ASSUME FlowOK, NEW id \in 0..FlowClock, findRequest(id), NEW p \in People,
           NEW action \in {"approved", "rejected", "overridden"},
           NEW s \in {"pending", "approved", "rejected", "overridden"},
           approvals' = [approvals EXCEPT ![id].auditTrail = Logged(id, p, action), ![id].status = s],
           flow_clock' = flow_clock,
           \/ action = "overridden" /\ s = "overridden"
           \/ action = "rejected" /\ s = "rejected" /\ approvals[id].status = "pending"
           \/ /\ action = "approved" /\ approvals[id].status = "pending"
              /\ s = IF Count(approvals[id].auditTrail, "approved") + 1 >= approvals[id].requiredApprovals
                     THEN "approved" ELSE "pending"
    PROVE  FlowOK'
<1> DEFINE r == approvals[id]
           e == Entry(p, action)
           t == Append(r.auditTrail, e)
           r2 == [r EXCEPT !.auditTrail = t, !.status = s]
<1>1. r \in Request /\ Judged(r) /\ approvals' = [approvals EXCEPT ![id] = r2]
  BY DEF FlowOK, findRequest, Logged
<1>2. e \in TrailEntry /\ e.action = action
  BY DEF TrailEntry, Entry
<1>3. r.auditTrail \in Seq(TrailEntry) /\ r.requiredApprovals \in Requirements
  BY <1>1 DEF Request, TrailEntry
<1> HIDE DEF e
<1>4. t \in Seq(TrailEntry)
  BY <1>2, <1>3
<1>5. \A a : Count(t, a) = IF action = a THEN Count(r.auditTrail, a) + 1 ELSE Count(r.auditTrail, a)
  BY <1>2, <1>3, CountAppend
<1>6. \A a : Count(r.auditTrail, a) \in Nat
  BY <1>3, EntriesFinite
<1> HIDE DEF t
<1>7. /\ r2 \in Request /\ r2.auditTrail = t /\ r2.status = s
      /\ r2.requiredApprovals = r.requiredApprovals
  BY <1>1, <1>4 DEF Request, TrailEntry
<1>8. r.requiredApprovals \in Nat
  BY <1>3, FlowAssumption
<1> HIDE DEF r2
<1>9. Judged(r2)
  <2>1. CASE action = "overridden" /\ s = "overridden"
    BY <1>5, <1>6, <1>7, <2>1 DEF Judged
  <2>2. CASE action = "rejected" /\ s = "rejected" /\ r.status = "pending"
    BY <1>1, <1>5, <1>6, <1>7, <2>2 DEF Judged
  <2>3. CASE /\ action = "approved" /\ r.status = "pending"
             /\ s = IF Count(r.auditTrail, "approved") + 1 >= r.requiredApprovals THEN "approved" ELSE "pending"
    BY <1>1, <1>5, <1>6, <1>7, <1>8, <2>3 DEF Judged
  <2> QED
    BY <2>1, <2>2, <2>3
<1> HIDE DEF r
<1>10. /\ approvals' \in [0..FlowClock -> Request \cup {NoRequest}]
       /\ \A i \in 0..FlowClock : approvals'[i] = IF i = id THEN r2 ELSE approvals[i]
  BY <1>1, <1>7 DEF FlowOK
<1>11. ASSUME NEW i \in 0..FlowClock, approvals'[i] # NoRequest PROVE Judged(approvals'[i])
  BY <1>9, <1>10, <1>11 DEF FlowOK, findRequest
<1>12. flow_clock' \in 0..FlowClock
  BY DEF FlowOK
<1> QED
  BY <1>10, <1>11, <1>12 DEF FlowOK, findRequest

\* A new request has been approved, rejected and overridden by nobody.
LEMMA CreatedKeeps ==
    ASSUME FlowOK, NEW p \in People, NEW required \in Requirements, createApprovalRequest(p, required)
    PROVE  FlowOK'
<1> DEFINE e == Entry(p, "requested")
           r == [requiredApprovals |-> required, status |-> "pending", auditTrail |-> <<e>>]
<1>1. e \in TrailEntry /\ e.action = "requested"
  BY DEF TrailEntry, Entry
<1>2. approvals' = [approvals EXCEPT ![flow_clock] = r] /\ flow_clock' = flow_clock
  BY DEF createApprovalRequest
<1> HIDE DEF e
<1>3. r \in Request /\ r.auditTrail = <<e>> /\ r.status = "pending"
  BY <1>1 DEF Request, TrailEntry
<1> HIDE DEF r
<1>4. \A a : a # "requested" => Count(<<e>>, a) = 0
  <2> SUFFICES ASSUME NEW a, a # "requested" PROVE Count(<<e>>, a) = 0
    OBVIOUS
  <2>1. Entries(<<e>>, a) = {}
    BY <1>1 DEF Entries
  <2> QED
    BY <2>1, FS_EmptySet DEF Count
<1>5. Judged(r)
  BY <1>3, <1>4 DEF Judged
<1>6. /\ approvals' \in [0..FlowClock -> Request \cup {NoRequest}]
      /\ \A i \in 0..FlowClock : approvals'[i] = IF i = flow_clock THEN r ELSE approvals[i]
  BY <1>2, <1>3 DEF FlowOK
<1>7. ASSUME NEW i \in 0..FlowClock, approvals'[i] # NoRequest PROVE Judged(approvals'[i])
  BY <1>5, <1>6, <1>7 DEF FlowOK, findRequest
<1>8. flow_clock' \in 0..FlowClock
  BY <1>2 DEF FlowOK
<1> QED
  BY <1>6, <1>7, <1>8 DEF FlowOK, findRequest

\* The step of the workflow's invariant: one case per handler.
LEMMA FlowNextKeeps == FlowOK /\ [FlowNext]_flow_vars => FlowOK'
<1> SUFFICES ASSUME FlowOK, [FlowNext]_flow_vars PROVE FlowOK'
  OBVIOUS
<1>1. CASE flowTick
  BY <1>1, FlowAssumption DEF flowTick, FlowOK, findRequest
<1>2. ASSUME NEW p \in People, NEW required \in Requirements, createApprovalRequest(p, required)
      PROVE  FlowOK'
  BY <1>2, CreatedKeeps
<1>3. ASSUME NEW p \in People, NEW id \in 0..FlowClock, approveApprovalRequest(id, p)
      PROVE  FlowOK'
  <2> DEFINE r == approvals[id]
             n == Count(r.auditTrail, "approved")
             s == IF n + 1 >= r.requiredApprovals THEN "approved" ELSE "pending"
  <2>1. findRequest(id) /\ r.status = "pending" /\ flow_clock' = flow_clock
    BY <1>3 DEF approveApprovalRequest, Open, IsPending
  <2>2. r.auditTrail \in Seq(TrailEntry)
    <3>1. r \in Request
      BY <2>1 DEF FlowOK, findRequest
    <3> QED
      BY <3>1 DEF Request, TrailEntry
  <2>3. Entry(p, "approved") \in TrailEntry /\ Entry(p, "approved").action = "approved"
    BY DEF TrailEntry, Entry
  <2>4. Count(Logged(id, p, "approved"), "approved") = n + 1
    BY <2>2, <2>3, CountAppend DEF Logged
  <2>5. approvals' = [approvals EXCEPT ![id].auditTrail = Logged(id, p, "approved"), ![id].status = s]
    BY <1>3, <2>1, <2>4 DEF approveApprovalRequest, Count
  <2>6. s \in {"pending", "approved", "rejected", "overridden"}
    OBVIOUS
  <2>7. s = IF Count(approvals[id].auditTrail, "approved") + 1 >= approvals[id].requiredApprovals
            THEN "approved" ELSE "pending"
    OBVIOUS
  <2> HIDE DEF s, n
  <2> QED
    BY <2>1, <2>5, <2>6, <2>7, LoggedKeeps
<1>4. ASSUME NEW p \in People, NEW id \in 0..FlowClock, rejectApprovalRequest(id, p)
      PROVE  FlowOK'
  BY <1>4, LoggedKeeps DEF rejectApprovalRequest, Open, IsPending
<1>5. ASSUME NEW p \in People, NEW id \in 0..FlowClock, overrideApprovalRequest(id, p)
      PROVE  FlowOK'
  BY <1>5, LoggedKeeps DEF overrideApprovalRequest
<1>6. CASE UNCHANGED flow_vars
  BY <1>6 DEF flow_vars, FlowOK, findRequest
<1> QED
  BY <1>1, <1>2, <1>3, <1>4, <1>5, <1>6 DEF FlowNext

\* For any people, clock and numbers of required approvals, 0 included, and any order of
\* approvals, rejections, overrides and requests of one millisecond, the status of a
\* request is what its audit trail says (approveApprovalRequest, rejectApprovalRequest,
\* overrideApprovalRequest).
THEOREM StatusIsTheTrail == FlowSpec => []StatusMatchesTrail
<1>1. FlowInit => FlowOK
  BY FlowAssumption DEF FlowInit, FlowOK, findRequest
<1>2. ASSUME FlowOK PROVE StatusMatchesTrail
  <2> SUFFICES ASSUME NEW id \in 0..FlowClock, findRequest(id)
               PROVE  LET r == approvals[id]
                          approved == Cardinality(Entries(r.auditTrail, "approved"))
                          rejected == Cardinality(Entries(r.auditTrail, "rejected"))
                      IN  /\ r.status = "approved" => approved >= r.requiredApprovals /\ approved > 0 /\ rejected = 0
                          /\ r.status = "rejected" => rejected = 1 /\ (approved = 0 \/ approved < r.requiredApprovals)
                          /\ r.status = "overridden" <=> Entries(r.auditTrail, "overridden") # {}
    BY DEF StatusMatchesTrail
  <2> DEFINE r == approvals[id]
  <2>1. r \in Request /\ Judged(r)
    BY <1>2 DEF FlowOK, findRequest
  <2>2. r.auditTrail \in Seq(TrailEntry) /\ r.status \in {"pending", "approved", "rejected", "overridden"}
    BY <2>1 DEF Request, TrailEntry
  <2>3. Entries(r.auditTrail, "overridden") = {} <=> Count(r.auditTrail, "overridden") = 0
    BY <2>2, EntriesFinite, FS_EmptySet DEF Count
  <2>4. Count(r.auditTrail, "overridden") \in Nat
    BY <2>2, EntriesFinite
  <2>5. r.status = "overridden" <=> Entries(r.auditTrail, "overridden") # {}
    BY <2>1, <2>2, <2>3, <2>4 DEF Judged
  <2> QED
    BY <2>1, <2>5 DEF Judged, Count
<1> QED
  BY <1>1, <1>2, FlowNextKeeps, PTL DEF FlowSpec
-----------------------------------------------------------------------------
(* The snapshot store.                                                     *)

\* What a filter keeps is no longer than what it was given.
LEMMA NotOlderIsShorter ==
    ASSUME NEW q \in Seq(Nat), NEW from \in Nat
    PROVE  NotOlder(q, from) \in Seq(Nat) /\ Len(NotOlder(q, from)) <= Len(q)
<1> DEFINE A == Seq(Nat)
           Keep(kept, ts) == IF ts >= from THEN Append(kept, ts) ELSE kept
           st == [p \in A \X Nat |-> Keep(p[1], p[2])]
           S == 1..Len(q)
           Rhs(g, s) == IF s = {} THEN <<>> ELSE Keep(g[s \ {Max(s)}], q[Max(s)])
           it == CHOOSE g : g = [s \in SUBSET S |-> Rhs(g, s)]
<1>0. Len(q) \in Nat /\ DOMAIN q = S /\ \A i \in S : q[i] \in Nat
  OBVIOUS
<1>1. \A a \in A, ts \in Nat : Keep(a, ts) \in A /\ Len(Keep(a, ts)) <= Len(a) + 1
  OBVIOUS
<1>2. <<>> \in A /\ st \in [A \X Nat -> A]
  <2>1. \A p \in A \X Nat : Keep(p[1], p[2]) \in A
    <3> HIDE DEF Keep, A
    <3> QED
      BY <1>1
  <2> HIDE DEF Keep
  <2> QED
    BY <2>1
<1>3. \A s \in SUBSET S : s # {} => Max(s) \in s /\ Max(s) \in S /\ s \ {Max(s)} \in SUBSET S
  BY <1>0, LastPosition
<1> HIDE DEF Keep
<1>4. it = [s \in SUBSET S |-> Rhs(it, s)]
  <2> HIDE DEF A
  <2>0. PICK g : Folded(g, A, st, <<>>, q)
    <3> HIDE DEF st
    <3> QED
      BY <1>2, FoldExists
  <2>1. /\ g \in [SUBSET S -> A]
        /\ \A s \in SUBSET S : g[s] = IF s = {} THEN <<>> ELSE st[<<g[s \ {Max(s)}], q[Max(s)]>>]
    <3> HIDE DEF st
    <3> QED
      BY <2>0, Zenon DEF Folded
  <2>2. \A s \in SUBSET S : g[s] = Rhs(g, s)
    <3> SUFFICES ASSUME NEW s \in SUBSET S, s # {} PROVE g[s] = Rhs(g, s)
      BY <2>1
    <3>1. g[s \ {Max(s)}] \in A /\ q[Max(s)] \in Nat
      BY <1>0, <1>3, <2>1
    <3>2. <<g[s \ {Max(s)}], q[Max(s)]>> \in A \X Nat
      BY <3>1
    <3>3. st[<<g[s \ {Max(s)}], q[Max(s)]>>] = Keep(g[s \ {Max(s)}], q[Max(s)])
      BY <3>2
    <3> HIDE DEF st
    <3> QED
      BY <2>1, <3>3
  <2> HIDE DEF Rhs, st, S
  <2>3. g = [s \in SUBSET S |-> Rhs(g, s)]
    BY <2>1, <2>2
  <2> QED
    BY <2>3, Zenon
<1>5. \A s \in SUBSET S : it[s] = Rhs(it, s)
  <2> HIDE DEF it, Rhs, S
  <2> QED
    BY <1>4, Zenon
<1>6. NotOlder(q, from) = it[S]
  BY <1>0, Zenon DEF NotOlder, FoldLeft, MapThenFoldSet, Keep
<1> HIDE DEF it, A
<1>7. \A s \in SUBSET S : IsFiniteSet(s) /\ Cardinality(s) \in Nat
  <2>1. IsFiniteSet(S)
    BY <1>0, FS_Interval
  <2> QED
    BY <2>1, FS_Subset, FS_CardinalityType
<1>8. \A s \in SUBSET S : it[s] \in A /\ Len(it[s]) <= Cardinality(s)
  <2> DEFINE Good == {s \in SUBSET S : it[s] \in A /\ Len(it[s]) <= Cardinality(s)}
  <2>1. {} \in Good
    <3>1. it[{}] = <<>> /\ Len(<<>>) = 0 /\ Cardinality({}) = 0
      BY <1>5, FS_EmptySet
    <3> QED
      BY <1>2, <3>1
  <2>2. ASSUME NEW s \in SUBSET S, s # {}, \A x \in s : s \ {x} \in Good PROVE s \in Good
    <3> DEFINE r == s \ {Max(s)}
    <3>1. it[r] \in A /\ Len(it[r]) <= Cardinality(r) /\ q[Max(s)] \in Nat
      BY <1>0, <1>3, <2>2
    <3>2. it[s] = Keep(it[r], q[Max(s)])
      BY <1>5, <2>2
    <3>3. Cardinality(r) = Cardinality(s) - 1 /\ Cardinality(s) \in Nat
      BY <1>3, <1>7, <2>2, FS_RemoveElement
    <3>4. it[s] \in A /\ Len(it[s]) <= Len(it[r]) + 1
      <4> HIDE DEF r
      <4> QED
        BY <1>1, <3>1, <3>2
    <3>5. Len(it[r]) \in Nat /\ Len(it[s]) \in Nat
      BY <3>1, <3>4 DEF A
    <3>6. Len(it[s]) <= Cardinality(s)
      <4> HIDE DEF r, S
      <4> QED
        BY <3>1, <3>3, <3>4, <3>5
    <3> QED
      BY <3>4, <3>6
  <2>3. IsFiniteSet(S)
    BY <1>7
  <2> HIDE DEF Good
  <2>4. SUBSET S \subseteq Good
    <3> HIDE DEF S
    <3> QED
      BY <2>1, <2>2, <2>3, SubsetInduction
  <2> QED
    BY <2>4 DEF Good
<1>9. Cardinality(S) = Len(q)
  BY <1>0, FS_Interval
<1> QED
  BY <1>6, <1>8, <1>9 DEF A

\* A list that respects the limit.
Within(q) == retentionLimit = 0 \/ Len(q) <= retentionLimit

Busy(c) == caller[c].op # "none"

Operation == [op: Kinds \cup {"none"}, now: Nat, array: Nat]

SnapTyped ==
    /\ by_reference \in BOOLEAN
    /\ arrays \in Seq(Seq(Nat))
    /\ stored \in 0..Len(arrays)
    /\ caller \in [Callers -> Operation]
    /\ \A c \in Callers : Busy(c) => caller[c].array \in 1..Len(arrays)

\* A backend that copies: every operation has an array of its own, within the limit.
CopiesApart ==
    by_reference
    \/ \A c \in Callers : Busy(c) =>
          /\ caller[c].array # stored
          /\ Within(arrays[caller[c].array])
          /\ \A d \in Callers \ {c} : Busy(d) => caller[d].array # caller[c].array

SnapOK == SnapTyped /\ CopiesApart /\ RetentionHolds

\* slice(-retentionLimit) respects the limit.
LEMMA TrimmedWithin ==
    ASSUME NEW q \in Seq(Nat)
    PROVE  Trimmed(q) \in Seq(Nat) /\ Within(Trimmed(q))
<1>1. CASE retentionLimit = 0 \/ Len(q) <= retentionLimit
  BY <1>1 DEF Trimmed, Within
<1>2. CASE ~(retentionLimit = 0 \/ Len(q) <= retentionLimit)
  <2> DEFINE m == Len(q) - retentionLimit + 1
             n == Len(q)
  <2>1. Trimmed(q) = SubSeq(q, m, n)
    BY <1>2 DEF Trimmed
  <2>2. n \in Nat /\ m \in 1..n /\ n - m + 1 = retentionLimit
    BY <1>2, SnapAssumption
  <2>3. \A i \in m..n : q[i] \in Nat
    BY <2>2
  <2> HIDE DEF m, n
  <2>4. SubSeq(q, m, n) \in Seq(Nat) /\ Len(SubSeq(q, m, n)) = n - m + 1
    BY <2>2, <2>3, SubSeqProperties
  <2> QED
    BY <2>1, <2>2, <2>4, SnapAssumption DEF Within
<1> QED
  BY <1>1, <1>2

\* Writing back: the new array is the stored one.
LEMMA SaveKeeps ==
    ASSUME SnapOK, NEW c \in Callers, Busy(c), NEW pushed \in Seq(Nat), NEW kept \in Seq(Nat),
           save(c, pushed, kept), Within(kept) \/ (by_reference /\ caller[c].op = "cleanup")
    PROVE  SnapOK'
<1> DEFINE i == caller[c].array
           n == Len(arrays)
           b == [arrays EXCEPT ![i] = pushed]
<1>1. /\ arrays \in Seq(Seq(Nat)) /\ n \in Nat /\ i \in 1..n /\ caller \in [Callers -> Operation]
      /\ stored \in 0..n /\ by_reference \in BOOLEAN
  BY DEF SnapOK, SnapTyped
<1>2. /\ arrays' = Append(b, kept) /\ stored' = n + 1 /\ writer' = caller[c].op
      /\ caller' = [caller EXCEPT ![c] = Resting] /\ by_reference' = by_reference
  BY DEF save
<1>3. b \in Seq(Seq(Nat)) /\ Len(b) = n /\ \A j \in 1..n : b[j] = IF j = i THEN pushed ELSE arrays[j]
  BY <1>1
<1> HIDE DEF b
<1>4. /\ arrays' \in Seq(Seq(Nat)) /\ Len(arrays') = n + 1 /\ arrays'[n + 1] = kept
      /\ \A j \in 1..n : arrays'[j] = IF j = i THEN pushed ELSE arrays[j]
  BY <1>1, <1>2, <1>3
<1>5. Resting \in Operation /\ Resting.op = "none"
  BY DEF Resting, Operation
<1>6. /\ caller' \in [Callers -> Operation] /\ ~Busy(c)'
      /\ \A d \in Callers \ {c} : caller'[d] = caller[d]
  <2> HIDE DEF i, n
  <2> QED
    BY <1>1, <1>2, <1>5 DEF Busy
<1>7. SnapTyped'
  <2>1. ASSUME NEW d \in Callers, Busy(d)' PROVE caller'[d].array \in 1..(n + 1)
    <3>1. d # c /\ caller'[d] = caller[d] /\ Busy(d)
      BY <1>6, <2>1 DEF Busy
    <3>2. caller[d].array \in 1..n
      BY <3>1 DEF SnapOK, SnapTyped
    <3> QED
      BY <1>1, <3>1, <3>2
  <2>2. stored' \in 0..(n + 1)
    BY <1>1, <1>2
  <2> HIDE DEF n
  <2> QED
    BY <1>1, <1>2, <1>4, <1>6, <2>1, <2>2 DEF SnapTyped
<1>8. CopiesApart'
  <2> SUFFICES ASSUME ~by_reference, NEW d \in Callers, Busy(d)'
               PROVE  /\ caller'[d].array # stored'
                      /\ Within(arrays'[caller'[d].array])
                      /\ \A e \in Callers \ {d} : Busy(e)' => caller'[e].array # caller'[d].array
    BY <1>2 DEF CopiesApart, Within
  <2>1. d # c /\ caller'[d] = caller[d] /\ Busy(d) /\ caller[d].array \in 1..n
    BY <1>6 DEF Busy, SnapOK, SnapTyped
  <2>2. /\ Within(arrays[caller[d].array]) /\ caller[d].array # i
        /\ \A e \in Callers \ {d} : Busy(e) => caller[e].array # caller[d].array
    BY <2>1 DEF SnapOK, CopiesApart
  <2>3. caller'[d].array # stored'
    BY <1>1, <1>2, <2>1
  <2>4. arrays'[caller'[d].array] = arrays[caller[d].array]
    BY <1>4, <2>1, <2>2
  <2>5. ASSUME NEW e \in Callers \ {d}, Busy(e)' PROVE caller'[e].array # caller'[d].array
    <3>1. caller'[e] = caller[e] /\ Busy(e)
      BY <1>6, <2>5 DEF Busy
    <3> QED
      BY <2>1, <2>2, <3>1
  <2> QED
    BY <2>2, <2>3, <2>4, <2>5
<1>9. RetentionHolds'
  <2>1. Snapshots' = kept
    BY <1>1, <1>2, <1>4 DEF Snapshots
  <2>2. Within(kept) => retentionLimit = 0 \/ Len(kept) <= retentionLimit
    BY DEF Within
  <2> QED
    BY <1>2, <2>1, <2>2 DEF RetentionHolds
<1> QED
  BY <1>7, <1>8, <1>9 DEF SnapOK

\* Loading: the stored array itself, or a new one with its content.
LEMMA LoadKeeps ==
    ASSUME SnapOK, NEW c \in Callers, NEW op \in Kinds, NEW now \in Nat, load(c, op, now)
    PROVE  SnapOK'
<1> DEFINE content == IF stored = 0 THEN <<>> ELSE arrays[stored]
           shared == by_reference /\ stored # 0
           n == Len(arrays)
           k == IF shared THEN stored ELSE n + 1
           o == [op |-> op, now |-> now, array |-> k]
<1>1. /\ arrays \in Seq(Seq(Nat)) /\ n \in Nat /\ caller \in [Callers -> Operation]
      /\ stored \in 0..n /\ by_reference \in BOOLEAN
  BY DEF SnapOK, SnapTyped
<1>2. /\ arrays' = IF shared THEN arrays ELSE Append(arrays, content)
      /\ caller' = [caller EXCEPT ![c] = o]
      /\ by_reference' = by_reference /\ stored' = stored /\ writer' = writer
  BY DEF load
<1>3. content \in Seq(Nat) /\ content = Snapshots
  BY <1>1 DEF Snapshots
<1> HIDE DEF content
<1>4. /\ arrays' \in Seq(Seq(Nat)) /\ Len(arrays') >= n /\ Len(arrays') \in Nat
      /\ \A j \in 1..n : arrays'[j] = arrays[j]
      /\ k \in 1..Len(arrays')
      /\ ~by_reference => k = n + 1 /\ arrays'[k] = content
  <2>1. CASE shared
    <3>1. stored \in 1..n
      BY <1>1, <2>1
    <3> QED
      BY <1>1, <1>2, <2>1, <3>1
  <2>2. CASE ~shared
    BY <1>1, <1>2, <1>3, <2>2
  <2> QED
    BY <2>1, <2>2
<1>5. o \in Operation /\ o.array = k /\ o.op = op /\ op # "none" /\ k \in Nat
  BY <1>1, <1>4 DEF Operation, Kinds
<1> HIDE DEF k, o, shared
<1>6. /\ caller' \in [Callers -> Operation] /\ caller'[c] = o
      /\ \A d \in Callers \ {c} : caller'[d] = caller[d]
  BY <1>1, <1>2, <1>5
<1>7. SnapTyped'
  <2>1. ASSUME NEW d \in Callers, Busy(d)' PROVE caller'[d].array \in 1..Len(arrays')
    <3>1. CASE d = c
      BY <1>4, <1>5, <1>6, <3>1
    <3>2. CASE d # c
      <4>1. caller'[d] = caller[d] /\ Busy(d)
        BY <1>6, <2>1, <3>2 DEF Busy
      <4>2. caller[d].array \in 1..n
        BY <4>1 DEF SnapOK, SnapTyped
      <4> QED
        BY <1>1, <1>4, <4>1, <4>2
    <3> QED
      BY <3>1, <3>2
  <2>2. stored' \in 0..Len(arrays')
    BY <1>1, <1>2, <1>4
  <2> HIDE DEF n
  <2> QED
    BY <1>1, <1>2, <1>4, <1>6, <2>1, <2>2 DEF SnapTyped
<1>8. RetentionHolds'
  <2>1. Snapshots' = Snapshots
    BY <1>1, <1>2, <1>4 DEF Snapshots
  <2> QED
    BY <1>2, <2>1 DEF SnapOK, RetentionHolds
<1>9. CopiesApart'
  <2> SUFFICES ASSUME ~by_reference, NEW d \in Callers, Busy(d)'
               PROVE  /\ caller'[d].array # stored'
                      /\ Within(arrays'[caller'[d].array])
                      /\ \A e \in Callers \ {d} : Busy(e)' => caller'[e].array # caller'[d].array
    BY <1>2 DEF CopiesApart, Within
  <2>1. \A e \in Callers \ {c} : Busy(e)' => caller'[e] = caller[e] /\ Busy(e) /\ caller[e].array \in 1..n
    BY <1>6 DEF Busy, SnapOK, SnapTyped
  <2>2. caller'[c].array = n + 1 /\ arrays'[n + 1] = content /\ Within(content)
    BY <1>3, <1>4, <1>5, <1>6 DEF SnapOK, RetentionHolds, Within
  <2>3. CASE d = c
    BY <1>1, <1>2, <2>1, <2>2, <2>3
  <2>4. CASE d # c
    <3>1. /\ caller[d].array # stored /\ Within(arrays[caller[d].array])
          /\ \A e \in Callers \ {d} : Busy(e) => caller[e].array # caller[d].array
      BY <2>1, <2>4 DEF SnapOK, CopiesApart
    <3>2. caller'[d] = caller[d] /\ caller[d].array \in 1..n
      BY <2>1, <2>4
    <3>3. ASSUME NEW e \in Callers \ {d}, Busy(e)' PROVE caller'[e].array # caller'[d].array
      <4>1. CASE e = c
        BY <1>1, <2>2, <3>2, <4>1
      <4>2. CASE e # c
        BY <2>1, <3>1, <3>2, <3>3, <4>2
      <4> QED
        BY <4>1, <4>2
    <3> QED
      BY <1>2, <1>4, <3>1, <3>2, <3>3
  <2> QED
    BY <2>3, <2>4
<1> QED
  BY <1>7, <1>8, <1>9 DEF SnapOK

\* What a busy operation holds.
LEMMA LoadedFacts ==
    ASSUME SnapOK, NEW c \in Callers, Busy(c)
    PROVE  Loaded(c) \in Seq(Nat) /\ caller[c].now \in Nat /\ (by_reference \/ Within(Loaded(c)))
<1>1. arrays \in Seq(Seq(Nat)) /\ caller[c].array \in 1..Len(arrays) /\ caller[c] \in Operation
  BY DEF SnapOK, SnapTyped
<1>2. arrays[caller[c].array] \in Seq(Nat)
  BY <1>1
<1> QED
  BY <1>1, <1>2 DEF Loaded, SnapOK, CopiesApart, Operation

\* The step of the store's invariant: one case per operation.
LEMMA SnapNextKeeps == SnapOK /\ [SnapNext]_snap_vars => SnapOK'
<1> SUFFICES ASSUME SnapOK, [SnapNext]_snap_vars PROVE SnapOK'
  OBVIOUS
<1>1. CASE UNCHANGED snap_vars
  <2>1. /\ by_reference' = by_reference /\ arrays' = arrays /\ stored' = stored /\ writer' = writer
        /\ caller' = caller
    BY <1>1 DEF snap_vars
  <2> QED
    BY <2>1 DEF SnapOK, SnapTyped, CopiesApart, RetentionHolds, Snapshots, Within, Busy
<1>2. ASSUME NEW c \in Callers, NEW op \in Kinds, NEW now \in SnapTimes, load(c, op, now) PROVE SnapOK'
  BY <1>2, LoadKeeps, SnapAssumption
<1>3. ASSUME NEW c \in Callers, Busy(c), push(c) PROVE SnapOK'
  <2> DEFINE pushed == Append(Loaded(c), caller[c].now)
  <2>1. pushed \in Seq(Nat)
    BY <1>3, LoadedFacts
  <2>2. save(c, pushed, Trimmed(pushed))
    BY <1>3 DEF push
  <2> HIDE DEF pushed
  <2>3. Trimmed(pushed) \in Seq(Nat) /\ Within(Trimmed(pushed))
    BY <2>1, TrimmedWithin
  <2> DEFINE kept == Trimmed(pushed)
  <2>4. /\ save(c, pushed, kept) /\ kept \in Seq(Nat)
        /\ Within(kept) \/ (by_reference /\ caller[c].op = "cleanup")
    BY <2>2, <2>3
  <2> HIDE DEF kept
  <2> QED
    BY <1>3, <2>1, <2>4, SaveKeeps
<1>4. ASSUME NEW c \in Callers, checkpoint(c) PROVE SnapOK'
  <2>1. Busy(c)
    BY <1>4 DEF checkpoint, Busy
  <2>2. CASE push(c)
    BY <1>3, <2>1, <2>2
  <2>3. CASE caller' = [caller EXCEPT ![c] = Resting] /\ UNCHANGED <<by_reference, arrays, stored, writer, ops>>
    <3>1. Resting \in Operation /\ Resting.op = "none" /\ caller \in [Callers -> Operation]
      BY DEF Resting, Operation, SnapOK, SnapTyped
    <3>2. /\ caller' \in [Callers -> Operation] /\ ~Busy(c)'
          /\ \A d \in Callers \ {c} : caller'[d] = caller[d]
      BY <2>3, <3>1 DEF Busy
    <3>3. \A d \in Callers : Busy(d)' => d # c /\ caller'[d] = caller[d] /\ Busy(d)
      BY <3>2 DEF Busy
    <3>4. SnapTyped'
      BY <2>3, <3>2, <3>3 DEF SnapOK, SnapTyped
    <3>5. RetentionHolds'
      BY <2>3 DEF SnapOK, RetentionHolds, Snapshots
    <3>6. CopiesApart'
      BY <2>3, <3>3 DEF SnapOK, CopiesApart, Within
    <3> QED
      BY <3>4, <3>5, <3>6 DEF SnapOK
  <2> QED
    BY <1>4, <2>2, <2>3 DEF checkpoint
<1>5. ASSUME NEW c \in Callers, forceCheckpoint(c) PROVE SnapOK'
  BY <1>3, <1>5 DEF forceCheckpoint, Busy
<1>6. ASSUME NEW c \in Callers, cleanup(c) PROVE SnapOK'
  <2>1. Busy(c) /\ caller[c].op = "cleanup"
    BY <1>6 DEF cleanup, Busy
  <2> DEFINE q == Loaded(c)
             kept == NotOlder(q, caller[c].now)
  <2>2. q \in Seq(Nat) /\ caller[c].now \in Nat /\ (by_reference \/ Within(q))
    BY <2>1, LoadedFacts
  <2>3. save(c, q, kept)
    BY <1>6 DEF cleanup
  <2> HIDE DEF q
  <2>4. kept \in Seq(Nat) /\ Len(kept) <= Len(q)
    BY <2>2, NotOlderIsShorter
  <2> HIDE DEF kept
  <2>5. by_reference \/ Within(kept)
    BY <2>2, <2>4, SnapAssumption DEF Within
  <2> QED
    BY <2>1, <2>2, <2>3, <2>4, <2>5, SaveKeeps
<1> QED
  BY <1>1, <1>2, <1>4, <1>5, <1>6 DEF SnapNext

\* For any limit, number of overlapping operations and backend, the stored list stays
\* within its limit, except after a cleanup of a MemoryStorage array that others have
\* pushed onto (checkpoint, forceCheckpoint, cleanup).
THEOREM RetentionIsKept == SnapSpec => []RetentionHolds
<1>1. SnapInit => SnapOK
  <2> SUFFICES ASSUME SnapInit PROVE SnapOK
    OBVIOUS
  <2>1. Resting \in Operation /\ Resting.op = "none"
    BY DEF Resting, Operation
  <2>2. caller \in [Callers -> Operation] /\ \A c \in Callers : ~Busy(c)
    BY <2>1 DEF SnapInit, Busy
  <2>3. arrays = <<>> /\ stored = 0 /\ by_reference \in BOOLEAN /\ Len(<<>>) = 0
    BY DEF SnapInit
  <2>4. RetentionHolds
    BY <2>3, SnapAssumption DEF RetentionHolds, Snapshots
  <2>5. CopiesApart
    BY <2>2 DEF CopiesApart
  <2>6. SnapTyped
    BY <2>2, <2>3 DEF SnapTyped
  <2> QED
    BY <2>4, <2>5, <2>6 DEF SnapOK
<1>2. SnapOK => RetentionHolds
  BY DEF SnapOK
<1> QED
  BY <1>1, <1>2, SnapNextKeeps, PTL DEF SnapSpec
-----------------------------------------------------------------------------
(* The limits of the API keys.                                             *)

Instants == 0..KeyClock

Acceptances == [Instants -> Nat]

Usage == [count: Nat, windowStart: Nat]

KeyRecord == [ownerId: Owners, rateLimit: RateLimits, revoked: BOOLEAN, rotatedFrom: Nat \cup {Unset}]

Total(a, T) == SumFunctionOnSet(a, T)

More(a, now) == [a EXCEPT ![now] = @ + 1]

Span(from, w) == {t \in Instants : t >= from /\ t - from <= w}

After(start) == {t \in Instants : t >= start}

Before(start, w) == {t \in Instants : t >= start - w /\ t < start}

\* The window that began at start with count requests, for a limit of m in w: what it
\* accepted, and what the w before it did.
WindowOK(start, count, a, w, m) ==
    /\ Total(a, After(start)) <= count /\ Total(a, After(start)) <= m
    /\ Total(a, Before(start, w)) <= m
    /\ \A t \in Instants : t > start + w => a[t] = 0

SpansOK(a, w, m) == \A from \in Instants : Total(a, Span(from, w)) <= 2 * m

IsSet(l) == l.windowMs # Unset /\ l.max # Unset

\* A key with limit l, usage u and acceptances a.
LimitOK(l, u, a, now) ==
    /\ u = Unset => \A t \in Instants : a[t] = 0
    /\ u # Unset => u.windowStart <= now
    /\ IsSet(l) => /\ u # Unset => WindowOK(u.windowStart, u.count, a, l.windowMs, l.max)
                   /\ SpansOK(a, l.windowMs, l.max)

KeysOK ==
    /\ key_clock \in Instants
    /\ api_keys \in Seq(KeyRecord) /\ key_usage \in Seq(Usage \cup {Unset}) /\ accepted \in Seq(Acceptances)
    /\ Len(key_usage) = Len(api_keys) /\ Len(accepted) = Len(api_keys)
    /\ \A k \in Known : LimitOK(api_keys[k].rateLimit, key_usage[k], accepted[k], key_clock)

\* Totals of acceptances.
LEMMA TotalFacts ==
    ASSUME NEW a \in Acceptances, NEW T \in SUBSET Instants
    PROVE  IsFiniteSet(T) /\ Total(a, T) \in Nat /\ \A S \in SUBSET T : Total(a, S) <= Total(a, T)
<1>1. IsFiniteSet(T)
  <2>1. IsFiniteSet(Instants)
    BY KeysAssumption, FS_Interval DEF Instants
  <2> QED
    BY <2>1, FS_Subset
<1>2. \A x \in T : a[x] \in Nat
  BY DEF Acceptances
<1> QED
  BY <1>1, <1>2, SumType, SumSubset DEF Total

\* One more at an instant counts where the instant does.
LEMMA TotalMore ==
    ASSUME NEW a \in Acceptances, NEW T \in SUBSET Instants, NEW now \in Instants,
           NEW b, b = More(a, now)
    PROVE  /\ b \in Acceptances /\ \A t \in Instants \ {now} : b[t] = a[t]
           /\ Total(b, T) = IF now \in T THEN Total(a, T) + 1 ELSE Total(a, T)
<1>1. /\ b \in Acceptances /\ b[now] = a[now] + 1 /\ a[now] \in Nat
      /\ \A t \in Instants \ {now} : b[t] = a[t]
  BY DEF Acceptances, More
<1>2. \A y \in T : a[y] \in Int /\ b[y] \in Int
  BY <1>1 DEF Acceptances
<1>3. IsFiniteSet(T) /\ Total(a, T) \in Nat
  BY TotalFacts
<1>4. CASE now \in T
  <2>1. \A y \in T \ {now} : b[y] = a[y]
    BY <1>1
  <2>2. Total(b, T) = Total(a, T) + (b[now] - a[now])
    BY ONLY <1>2, <1>3, <1>4, <2>1, SumUpdate DEF Total
  <2> QED
    BY <1>1, <1>3, <1>4, <2>2
<1>5. CASE now \notin T
  <2>1. \A y \in T : a[y] \in Int /\ b[y] = a[y]
    BY <1>1, <1>2, <1>5
  <2>2. Total(b, T) = Total(a, T)
    BY <1>3, <2>1, SumSame DEF Total
  <2> QED
    BY <1>1, <1>5, <2>2
<1> QED
  BY <1>4, <1>5

\* A request in the window.
LEMMA SameWindow ==
    ASSUME NEW w \in Nat, NEW m \in Nat, NEW a \in Acceptances, NEW now \in Instants,
           NEW start \in Nat, NEW count \in Nat, WindowOK(start, count, a, w, m),
           start <= now, now <= start + w,
           NEW b, b = a \/ (b = More(a, now) /\ count + 1 <= m)
    PROVE  WindowOK(start, count + 1, b, w, m)
<1>1. After(start) \in SUBSET Instants /\ Before(start, w) \in SUBSET Instants /\ now \in Nat
  BY DEF After, Before, Instants
<1>2. Total(a, After(start)) \in Nat
  BY <1>1, TotalFacts
<1>3. CASE b = a
  <2>1. Total(a, After(start)) <= count + 1
    BY <1>2 DEF WindowOK
  <2> QED
    BY <1>3, <2>1 DEF WindowOK
<1>4. CASE b = More(a, now) /\ count + 1 <= m
  <2>1. now \in After(start) /\ now \notin Before(start, w)
    BY <1>1 DEF After, Before
  <2>2. /\ Total(b, After(start)) = Total(a, After(start)) + 1
        /\ Total(b, Before(start, w)) = Total(a, Before(start, w))
        /\ \A t \in Instants \ {now} : b[t] = a[t]
    BY <1>1, <1>4, <2>1, TotalMore
  <2>3. Total(b, After(start)) <= count + 1 /\ Total(b, After(start)) <= m
    BY <1>2, <1>4, <2>2 DEF WindowOK
  <2>4. \A t \in Instants : t > start + w => b[t] = 0
    BY <1>1, <2>2 DEF WindowOK, Instants
  <2> QED
    BY <2>2, <2>3, <2>4 DEF WindowOK
<1> QED
  BY <1>3, <1>4

\* A request that begins a window, after an older one or none.
LEMMA NewWindow ==
    ASSUME NEW w \in Nat, NEW m \in Nat, NEW a \in Acceptances, NEW now \in Instants,
           \/ \A t \in Instants : a[t] = 0
           \/ \E start, count \in Nat : WindowOK(start, count, a, w, m) /\ now > start + w,
           NEW b, b = a \/ (b = More(a, now) /\ 1 <= m)
    PROVE  WindowOK(now, 1, b, w, m)
<1>1. After(now) \in SUBSET Instants /\ Before(now, w) \in SUBSET Instants /\ now \in Nat
  BY DEF After, Before, Instants
<1>2. /\ Total(a, After(now)) = 0 /\ Total(a, Before(now, w)) <= m
      /\ \A t \in Instants : t > now + w => a[t] = 0
  <2>1. CASE \A t \in Instants : a[t] = 0
    <3>1. IsFiniteSet(After(now)) /\ IsFiniteSet(Before(now, w))
      BY <1>1, TotalFacts
    <3>2. Total(a, After(now)) = 0 /\ Total(a, Before(now, w)) = 0
      BY <1>1, <2>1, <3>1, SumZero DEF Total
    <3> QED
      BY <2>1, <3>2
  <2>2. CASE \E start, count \in Nat : WindowOK(start, count, a, w, m) /\ now > start + w
    <3>1. PICK start \in Nat, count \in Nat : WindowOK(start, count, a, w, m) /\ now > start + w
      BY <2>2
    <3>2. \A t \in After(now) : a[t] = 0
      BY <1>1, <3>1 DEF After, Instants, WindowOK
    <3>3. Total(a, After(now)) = 0
      BY <1>1, <3>2, TotalFacts, SumZero DEF Total
    <3>4. Before(now, w) \in SUBSET After(start) /\ After(start) \in SUBSET Instants
      BY <1>1, <3>1 DEF Before, After, Instants
    <3>5. /\ Total(a, Before(now, w)) <= Total(a, After(start))
          /\ Total(a, Before(now, w)) \in Nat /\ Total(a, After(start)) \in Nat
      BY <1>1, <3>4, TotalFacts
    <3>6. Total(a, Before(now, w)) <= m
      BY <3>1, <3>5 DEF WindowOK
    <3>7. \A t \in Instants : t > now + w => a[t] = 0
      BY <1>1, <3>1 DEF WindowOK, Instants
    <3> QED
      BY <3>3, <3>6, <3>7
  <2> QED
    BY <2>1, <2>2
<1>3. CASE b = a
  BY <1>2, <1>3 DEF WindowOK
<1>4. CASE b = More(a, now) /\ 1 <= m
  <2>1. now \in After(now) /\ now \notin Before(now, w)
    BY <1>1 DEF After, Before
  <2>2. /\ Total(b, After(now)) = 1 /\ Total(b, Before(now, w)) = Total(a, Before(now, w))
        /\ \A t \in Instants \ {now} : b[t] = a[t]
    BY <1>1, <1>2, <1>4, <2>1, TotalMore
  <2>3. \A t \in Instants : t > now + w => b[t] = 0
    BY <1>1, <1>2, <2>2 DEF Instants
  <2> QED
    BY <1>2, <1>4, <2>2, <2>3 DEF WindowOK
<1> QED
  BY <1>3, <1>4

\* A span with the present in it lies in the window and in the w before it.
LEMMA SpansKeep ==
    ASSUME NEW w \in Nat, NEW m \in Nat, NEW a \in Acceptances, NEW now \in Instants,
           NEW start \in Nat, NEW count \in Nat, start <= now,
           NEW b, b = a \/ b = More(a, now),
           SpansOK(a, w, m), WindowOK(start, count, b, w, m)
    PROVE  SpansOK(b, w, m)
<1>0. b \in Acceptances
  BY TotalMore
<1> SUFFICES ASSUME NEW from \in Instants PROVE Total(b, Span(from, w)) <= 2 * m
  BY DEF SpansOK
<1>1. Span(from, w) \in SUBSET Instants /\ Total(a, Span(from, w)) <= 2 * m
  BY DEF Span, SpansOK
<1>2. CASE b = a \/ now \notin Span(from, w)
  <2>1. Total(b, Span(from, w)) = Total(a, Span(from, w))
    BY <1>1, <1>2, TotalMore
  <2> QED
    BY <1>1, <2>1
<1>3. CASE now \in Span(from, w)
  <2> DEFINE P == Span(from, w) \cap Before(start, w)
             Q == Span(from, w) \cap After(start)
  <2>1. now \in Nat /\ from \in Nat /\ Span(from, w) \subseteq Nat
    BY DEF Instants, Span
  <2>2. P \cup Q = Span(from, w) /\ P \cap Q = {}
    <3>1. \A t \in Span(from, w) : t >= start - w
      BY <1>3, <2>1 DEF Span
    <3>2. \A t \in Span(from, w) : (t \in Before(start, w) /\ t \notin After(start))
                                   \/ (t \notin Before(start, w) /\ t \in After(start))
      BY <1>1, <2>1, <3>1 DEF Before, After
    <3> QED
      BY <3>2
  <2>3. /\ P \in SUBSET Before(start, w) /\ Q \in SUBSET After(start)
        /\ Before(start, w) \in SUBSET Instants /\ After(start) \in SUBSET Instants
    BY DEF Before, After
  <2> HIDE DEF P, Q
  <2>4. /\ IsFiniteSet(P) /\ IsFiniteSet(Q) /\ Total(b, P) \in Nat /\ Total(b, Q) \in Nat
        /\ Total(b, P) <= Total(b, Before(start, w)) /\ Total(b, Q) <= Total(b, After(start))
        /\ Total(b, Before(start, w)) \in Nat /\ Total(b, After(start)) \in Nat
    BY <1>0, <2>3, TotalFacts
  <2>5. Total(b, P) <= m /\ Total(b, Q) <= m
    BY <2>4 DEF WindowOK
  <2>6. \A x \in P \cup Q : b[x] \in Int
    BY <1>0, <1>1, <2>2 DEF Acceptances
  <2>7. Total(b, P \cup Q) = Total(b, P) + Total(b, Q)
    BY <2>2, <2>4, <2>6, SumUnion DEF Total
  <2>8. Total(b, Span(from, w)) = Total(b, P \cup Q)
    BY <2>2, Zenon
  <2> DEFINE x == Total(b, P)
             y == Total(b, Q)
             z == Total(b, Span(from, w))
  <2>9. x \in Nat /\ y \in Nat /\ x <= m /\ y <= m /\ z = x + y
    BY <2>4, <2>5, <2>7, <2>8
  <2> HIDE DEF x, y, z
  <2>10. z <= 2 * m
    BY <2>9
  <2> QED
    BY <2>10 DEF z
<1> QED
  BY <1>2, <1>3

\* checkRateLimit on one key.
LEMMA UsedLimit ==
    ASSUME NEW l \in RateLimits, NEW u \in Usage \cup {Unset}, NEW a \in Acceptances, NEW now \in Instants,
           LimitOK(l, u, a, now), NEW u2, NEW b,
           u2 = IF u = Unset \/ (l.windowMs # Unset /\ now - u.windowStart > l.windowMs)
                THEN [count |-> 1, windowStart |-> now] ELSE [u EXCEPT !.count = @ + 1],
           b = IF l.max # Unset /\ u2.count <= l.max THEN More(a, now) ELSE a
    PROVE  u2 \in Usage /\ b \in Acceptances /\ LimitOK(l, u2, b, now)
<1> DEFINE over == u = Unset \/ (l.windowMs # Unset /\ now - u.windowStart > l.windowMs)
<1>1. now \in Nat /\ l.windowMs \in Nat \cup {Unset} /\ l.max \in Nat \cup {Unset} /\ Unset \notin Usage
  BY KeysAssumption DEF Instants, Usage
<1>2. b \in Acceptances /\ (b = a \/ b = More(a, now))
  BY TotalMore
<1>3. u # Unset => u \in Usage /\ u.count \in Nat /\ u.windowStart \in Nat
  BY DEF Usage
<1>4. over => u2 \in Usage /\ u2.count = 1 /\ u2.windowStart = now
  BY <1>1 DEF Usage
<1>5. ~over => u2 \in Usage /\ u2.count = u.count + 1 /\ u2.windowStart = u.windowStart
  BY <1>3 DEF Usage
<1>6. u2 \in Usage /\ u2.count \in Nat /\ u2.windowStart \in Nat /\ u2.windowStart <= now /\ u2 # Unset
  <2>1. CASE over
    BY <1>1, <1>4, <2>1
  <2>2. CASE ~over
    <3>1. u # Unset /\ u.windowStart <= now
      BY <2>2 DEF LimitOK
    <3> QED
      BY <1>1, <1>3, <1>5, <2>2, <3>1
  <2> QED
    BY <2>1, <2>2
<1> SUFFICES ASSUME IsSet(l)
             PROVE  WindowOK(u2.windowStart, u2.count, b, l.windowMs, l.max) /\ SpansOK(b, l.windowMs, l.max)
  BY <1>2, <1>6 DEF LimitOK
<1> DEFINE w == l.windowMs
           m == l.max
           start == u2.windowStart
           n == u2.count
<1>7. w \in Nat /\ m \in Nat /\ SpansOK(a, w, m)
  BY <1>1 DEF IsSet, LimitOK
<1>8. b = a \/ (b = More(a, now) /\ n <= m)
  BY <1>7
<1>9. WindowOK(start, n, b, w, m)
  <2>1. CASE over
    <3>1. n = 1 /\ start = now
      BY <1>4, <2>1
    <3>2. \/ \A t \in Instants : a[t] = 0
          \/ \E older, count \in Nat : WindowOK(older, count, a, w, m) /\ now > older + w
      <4>1. CASE u = Unset
        BY <4>1 DEF LimitOK
      <4>2. CASE u # Unset
        <5>1. WindowOK(u.windowStart, u.count, a, w, m)
          BY <4>2 DEF LimitOK
        <5>2. now > u.windowStart + w
          BY <1>1, <1>3, <1>7, <2>1, <4>2
        <5> HIDE DEF w, m
        <5> QED
          BY <1>3, <4>2, <5>1, <5>2
      <4> QED
        BY <4>1, <4>2
    <3>3. b = a \/ (b = More(a, now) /\ 1 <= m)
      BY <1>8, <3>1
    <3> HIDE DEF w, m, start, n
    <3>4. WindowOK(now, 1, b, w, m)
      BY <1>7, <3>2, <3>3, NewWindow
    <3> QED
      BY <3>1, <3>4
  <2>2. CASE ~over
    <3> DEFINE c == u.count
    <3>1. n = c + 1 /\ start = u.windowStart /\ u # Unset /\ c \in Nat /\ start \in Nat
      BY <1>3, <1>5, <2>2
    <3>2. WindowOK(start, c, a, w, m) /\ start <= now
      BY <3>1 DEF LimitOK
    <3>3. now <= start + w
      BY <1>1, <1>7, <2>2, <3>1 DEF IsSet
    <3>4. b = a \/ (b = More(a, now) /\ c + 1 <= m)
      BY <1>8, <3>1
    <3> HIDE DEF w, m, start, n, c
    <3>5. WindowOK(start, c + 1, b, w, m)
      BY <1>7, <3>1, <3>2, <3>3, <3>4, SameWindow
    <3> QED
      BY <3>1, <3>5
  <2> QED
    BY <2>1, <2>2
<1>10. SpansOK(b, w, m)
  <2>1. start \in Nat /\ n \in Nat /\ start <= now
    BY <1>6
  <2> HIDE DEF w, m, start, n
  <2> QED
    BY <1>2, <1>7, <1>9, <2>1, SpansKeep
<1> QED
  BY <1>9, <1>10

\* A key that nobody has used.
LEMMA UnusedLimit ==
    ASSUME NEW l \in RateLimits, NEW now
    PROVE  LimitOK(l, Unset, [t \in Instants |-> 0], now)
<1> DEFINE a == [t \in Instants |-> 0]
<1>1. a \in Acceptances /\ \A t \in Instants : a[t] = 0
  BY DEF Acceptances
<1> HIDE DEF a
<1>2. ASSUME IsSet(l), NEW from \in Instants PROVE Total(a, Span(from, l.windowMs)) <= 2 * l.max
  <2>1. l.max \in Nat
    BY <1>2, KeysAssumption DEF IsSet
  <2>2. Span(from, l.windowMs) \in SUBSET Instants
    BY DEF Span
  <2>3. IsFiniteSet(Span(from, l.windowMs)) /\ \A t \in Span(from, l.windowMs) : a[t] = 0
    BY <1>1, <2>2, TotalFacts
  <2>4. Total(a, Span(from, l.windowMs)) = 0
    BY <2>3, SumZero DEF Total
  <2> QED
    BY <2>1, <2>4
<1>3. LimitOK(l, Unset, a, now)
  BY <1>1, <1>2 DEF LimitOK, SpansOK
<1> QED
  BY <1>3 DEF a

\* A key is added, and perhaps another one revoked.
LEMMA AddedKey ==
    ASSUME KeysOK, NEW table \in Seq(KeyRecord), NEW key \in KeyRecord, Len(table) = Len(api_keys),
           \A k \in Known : table[k].rateLimit = api_keys[k].rateLimit, Added(table, key)
    PROVE  KeysOK'
<1> DEFINE z == [t \in Instants |-> 0]
           n == Len(api_keys)
<1>1. /\ api_keys \in Seq(KeyRecord) /\ key_usage \in Seq(Usage \cup {Unset}) /\ accepted \in Seq(Acceptances)
      /\ Len(key_usage) = n /\ Len(accepted) = n /\ n \in Nat /\ key_clock \in Instants
  BY DEF KeysOK
<1>2. z \in Acceptances
  BY DEF Acceptances
<1>3. /\ api_keys' = Append(table, key) /\ key_usage' = Append(key_usage, Unset)
      /\ accepted' = Append(accepted, z) /\ key_clock' = key_clock
  BY DEF Added, Instants
<1> HIDE DEF z
<1>4. /\ api_keys' \in Seq(KeyRecord) /\ Len(api_keys') = n + 1 /\ api_keys'[n + 1] = key
      /\ \A k \in 1..n : api_keys'[k] = table[k]
  BY <1>1, <1>3
<1>5. /\ key_usage' \in Seq(Usage \cup {Unset}) /\ Len(key_usage') = n + 1 /\ key_usage'[n + 1] = Unset
      /\ \A k \in 1..n : key_usage'[k] = key_usage[k]
  BY <1>1, <1>3
<1>6. /\ accepted' \in Seq(Acceptances) /\ Len(accepted') = n + 1 /\ accepted'[n + 1] = z
      /\ \A k \in 1..n : accepted'[k] = accepted[k]
  BY <1>1, <1>2, <1>3
<1>7. ASSUME NEW k \in 1..(n + 1)
      PROVE  LimitOK(api_keys'[k].rateLimit, key_usage'[k], accepted'[k], key_clock')
  <2>1. CASE k = n + 1
    <3>1. key.rateLimit \in RateLimits
      BY DEF KeyRecord
    <3> QED
      BY <1>4, <1>5, <1>6, <2>1, <3>1, UnusedLimit DEF z
  <2>2. CASE k # n + 1
    <3>1. k \in 1..n /\ k \in Known
      BY <1>1, <2>2 DEF Known
    <3>2. LimitOK(api_keys[k].rateLimit, key_usage[k], accepted[k], key_clock)
      BY <3>1 DEF KeysOK
    <3> QED
      BY <1>3, <1>4, <1>5, <1>6, <3>1, <3>2
  <2> QED
    BY <2>1, <2>2
<1>8. Known' = 1..(n + 1)
  BY <1>4 DEF Known
<1> HIDE DEF n
<1> QED
  BY <1>1, <1>3, <1>4, <1>5, <1>6, <1>7, <1>8 DEF KeysOK

\* Revoking changes no limit.
LEMMA RevokedTable ==
    ASSUME KeysOK, NEW k \in Known, NEW table, table = [api_keys EXCEPT ![k].revoked = TRUE]
    PROVE  /\ table \in Seq(KeyRecord) /\ Len(table) = Len(api_keys)
           /\ \A i \in Known : table[i].rateLimit = api_keys[i].rateLimit
<1>1. api_keys \in Seq(KeyRecord) /\ k \in 1..Len(api_keys)
  BY DEF KeysOK, Known
<1> DEFINE r == [api_keys[k] EXCEPT !.revoked = TRUE]
<1>2. api_keys[k] \in KeyRecord
  BY <1>1
<1>3. r \in KeyRecord /\ r.rateLimit = api_keys[k].rateLimit
  BY <1>2 DEF KeyRecord
<1>4. table = [api_keys EXCEPT ![k] = r]
  BY <1>1
<1> HIDE DEF r
<1>5. table \in Seq(KeyRecord) /\ Len(table) = Len(api_keys)
      /\ \A i \in 1..Len(api_keys) : table[i] = IF i = k THEN r ELSE api_keys[i]
  BY ONLY <1>1, <1>3, <1>4
<1> QED
  BY <1>3, <1>5 DEF Known

\* A request with a key.
LEMMA UseKeeps ==
    ASSUME KeysOK, NEW k \in Known, useKey(k)
    PROVE  KeysOK'
<1> DEFINE n == Len(api_keys)
           l == api_keys[k].rateLimit
           u == key_usage[k]
           a == accepted[k]
           u2 == Counted(k)
           b == IF l.max # Unset /\ u2.count <= l.max THEN More(a, key_clock) ELSE a
<1>1. /\ api_keys \in Seq(KeyRecord) /\ key_usage \in Seq(Usage \cup {Unset}) /\ accepted \in Seq(Acceptances)
      /\ Len(key_usage) = n /\ Len(accepted) = n /\ n \in Nat /\ key_clock \in Instants /\ k \in 1..n
  BY DEF KeysOK, Known
<1>2. u \in Usage \cup {Unset} /\ a \in Acceptances /\ l \in RateLimits /\ LimitOK(l, u, a, key_clock)
  <2>1. api_keys[k] \in KeyRecord /\ u \in Usage \cup {Unset} /\ a \in Acceptances
    BY <1>1
  <2>2. l \in RateLimits
    BY <2>1 DEF KeyRecord
  <2> QED
    BY <2>1, <2>2 DEF KeysOK
<1>3. u2 = IF u = Unset \/ (l.windowMs # Unset /\ key_clock - u.windowStart > l.windowMs)
           THEN [count |-> 1, windowStart |-> key_clock] ELSE [u EXCEPT !.count = @ + 1]
  BY DEF Counted, WindowOver
<1>4. /\ key_usage' = [key_usage EXCEPT ![k] = u2] /\ accepted' = [accepted EXCEPT ![k] = b]
      /\ api_keys' = api_keys /\ key_clock' = key_clock
  BY <1>1, <1>2 DEF useKey, WithinLimit, More, Acceptances
<1>5. u2 \in Usage /\ b \in Acceptances /\ LimitOK(l, u2, b, key_clock)
  <2> DEFINE now == key_clock
  <2>1. /\ now \in Instants /\ LimitOK(l, u, a, now)
        /\ u2 = IF u = Unset \/ (l.windowMs # Unset /\ now - u.windowStart > l.windowMs)
                THEN [count |-> 1, windowStart |-> now] ELSE [u EXCEPT !.count = @ + 1]
        /\ b = IF l.max # Unset /\ u2.count <= l.max THEN More(a, now) ELSE a
    BY <1>1, <1>2, <1>3
  <2> HIDE DEF u2, b, u, a, l, now
  <2>2. u2 \in Usage /\ b \in Acceptances /\ LimitOK(l, u2, b, now)
    BY <1>2, <2>1, UsedLimit
  <2> QED
    BY <2>2 DEF now
<1> HIDE DEF u2, b
<1>6. /\ key_usage' \in Seq(Usage \cup {Unset}) /\ Len(key_usage') = n
      /\ \A i \in 1..n : key_usage'[i] = IF i = k THEN u2 ELSE key_usage[i]
  BY <1>1, <1>4, <1>5
<1>7. /\ accepted' \in Seq(Acceptances) /\ Len(accepted') = n
      /\ \A i \in 1..n : accepted'[i] = IF i = k THEN b ELSE accepted[i]
  BY <1>1, <1>4, <1>5
<1>8. ASSUME NEW i \in 1..n PROVE LimitOK(api_keys[i].rateLimit, key_usage'[i], accepted'[i], key_clock)
  <2>1. LimitOK(api_keys[i].rateLimit, key_usage[i], accepted[i], key_clock)
    BY DEF KeysOK, Known
  <2> QED
    BY <1>5, <1>6, <1>7, <2>1
<1>9. Known' = 1..n
  BY <1>4 DEF Known
<1> HIDE DEF n
<1>10. /\ Len(key_usage') = Len(api_keys') /\ Len(accepted') = Len(api_keys')
  BY <1>4, <1>6, <1>7 DEF n
<1> QED
  BY <1>1, <1>4, <1>6, <1>7, <1>8, <1>9, <1>10 DEF KeysOK

\* The step of the keys' invariant: one case per operation.
LEMMA KeysNextKeeps == KeysOK /\ [KeysNext]_key_vars => KeysOK'
<1> SUFFICES ASSUME KeysOK, [KeysNext]_key_vars PROVE KeysOK'
  OBVIOUS
<1>1. ASSUME NEW owner \in Owners, NEW limit \in RateLimits, createKey(owner, limit) PROVE KeysOK'
  <2> DEFINE key == NewKey(owner, limit, Unset)
  <2>1. key \in KeyRecord
    BY DEF NewKey, KeyRecord
  <2>2. Added(api_keys, key)
    BY <1>1 DEF createKey
  <2>3. api_keys \in Seq(KeyRecord)
    BY DEF KeysOK
  <2> HIDE DEF key
  <2> QED
    BY <2>1, <2>2, <2>3, AddedKey
<1>2. ASSUME NEW k \in Known, useKey(k) PROVE KeysOK'
  BY <1>2, UseKeeps
<1>3. ASSUME NEW k \in Known, rotateKey(k) PROVE KeysOK'
  <2> DEFINE table == [api_keys EXCEPT ![k].revoked = TRUE]
             key == NewKey(api_keys[k].ownerId, api_keys[k].rateLimit, k)
  <2>1. Added(table, key)
    BY <1>3 DEF rotateKey
  <2>2. /\ table \in Seq(KeyRecord) /\ Len(table) = Len(api_keys)
        /\ \A i \in Known : table[i].rateLimit = api_keys[i].rateLimit
    BY RevokedTable
  <2>3. api_keys[k] \in KeyRecord /\ k \in Nat
    BY DEF KeysOK, Known
  <2>4. key \in KeyRecord
    BY <2>3 DEF NewKey, KeyRecord
  <2> HIDE DEF table, key
  <2> QED
    BY <2>1, <2>2, <2>4, AddedKey
<1>4. ASSUME NEW k \in Known, revokeById(k) PROVE KeysOK'
  <2>1. /\ api_keys' \in Seq(KeyRecord) /\ Len(api_keys') = Len(api_keys)
        /\ \A i \in Known : api_keys'[i].rateLimit = api_keys[i].rateLimit
    <3>1. api_keys' = [api_keys EXCEPT ![k].revoked = TRUE]
      BY <1>4 DEF revokeById
    <3> QED
      BY <3>1, RevokedTable
  <2>2. key_usage' = key_usage /\ key_clock' = key_clock /\ accepted' = accepted /\ Known' = Known
    BY <1>4, <2>1 DEF revokeById, Known
  <2> QED
    BY <2>1, <2>2 DEF KeysOK
<1>5. CASE keyTick
  <2>1. /\ key_clock' \in Instants /\ key_clock \in Nat /\ key_clock' = key_clock + 1
        /\ api_keys' = api_keys /\ key_usage' = key_usage /\ accepted' = accepted /\ Known' = Known
    BY <1>5, KeysAssumption DEF keyTick, Instants, KeysOK, Known
  <2>2. ASSUME NEW k \in Known PROVE LimitOK(api_keys[k].rateLimit, key_usage[k], accepted[k], key_clock')
    <3>1. LimitOK(api_keys[k].rateLimit, key_usage[k], accepted[k], key_clock)
      BY DEF KeysOK
    <3>2. key_usage[k] # Unset => key_usage[k].windowStart \in Nat
      <4>1. key_usage[k] \in Usage \cup {Unset}
        BY DEF KeysOK, Known
      <4> QED
        BY <4>1 DEF Usage
    <3>3. key_usage[k] # Unset => key_usage[k].windowStart <= key_clock'
      BY <2>1, <3>1, <3>2 DEF LimitOK
    <3> QED
      BY <3>1, <3>3 DEF LimitOK
  <2> QED
    BY <2>1, <2>2 DEF KeysOK
<1>6. CASE UNCHANGED key_vars
  BY <1>6 DEF key_vars, KeysOK, Known
<1> QED
  BY <1>1, <1>2, <1>3, <1>4, <1>5, <1>6 DEF KeysNext

\* For any limits, window lengths and clock, a span of windowMs lets at most twice the
\* limit of a key through, however requests, refusals, rotations and restarts of the
\* window follow each other (apiKeyService.js, checkRateLimit).
THEOREM KeyLimitsHold == KeysSpec => []KeyLimitHolds
<1>1. KeysInit => KeysOK
  <2> SUFFICES ASSUME KeysInit PROVE KeysOK
    OBVIOUS
  <2>1. api_keys = <<>> /\ key_usage = <<>> /\ accepted = <<>> /\ Len(<<>>) = 0 /\ key_clock \in Instants
    BY KeysAssumption DEF KeysInit, Instants
  <2>2. Known = {}
    BY <2>1 DEF Known
  <2> QED
    BY <2>1, <2>2 DEF KeysOK
<1>2. KeysOK => KeyLimitHolds
  BY DEF KeysOK, LimitOK, SpansOK, IsSet, KeyLimitHolds, Total, Span, Instants
<1> QED
  BY <1>1, <1>2, KeysNextKeeps, PTL DEF KeysSpec
=============================================================================
