------------------------------- MODULE SignIn -------------------------------
(***************************************************************************)
(* Signing in with a wallet: the server's challenges, tokens and failure   *)
(* counts (api/routes/auth.js, api/middleware/authRateLimiter.js) and the  *)
(* browser tabs of one address at work on them (demo/src/useAuth.ts,       *)
(* AuthModal.tsx).  A tab's sign-in and its silent refresh are two jobs    *)
(* that may overlap; all tabs share the challenge of the address, those at *)
(* one network address share its failures too, which are counted for the   *)
(* two together, and a request whose answer was lost may come again.       *)
(***************************************************************************)
EXTENDS Naturals, Sequences

CONSTANTS
    None,
    Tabs,
    Identifiers,         \* ip:address, the network address together with the account
    getIdentifier,       \* that of the requests of each tab
    MAX_ATTEMPTS,        \* AUTH_MAX_ATTEMPTS, the limiter's own bound
    DEFAULT_ATTEMPTS,    \* DEFAULTS.maxAttempts, the bound of applyAuthFailure
    LOCKOUT,             \* AUTH_LOCKOUT_MS, the lockout of the limiter
    DEFAULT_LOCKOUT,     \* DEFAULTS.lockoutMs, that of applyAuthFailure
    NONCE_TTL,
    MaxNonces,           \* bound: challenges ever made
    MaxClock             \* bound: time

ASSUME SignInAssumption ==
    /\ getIdentifier \in [Tabs -> Identifiers]
    /\ {MAX_ATTEMPTS, DEFAULT_ATTEMPTS, LOCKOUT, DEFAULT_LOCKOUT, NONCE_TTL} \subseteq Nat \ {0}
    /\ None \notin Nat
    /\ {MaxNonces, MaxClock} \subseteq Nat

VARIABLES
    clock,
    nonce,      \* nonceStore entry of the address: [id, expiresAt] or None
    nonces,     \* challenges made so far
    tokens,     \* tokens issued for each challenge
    failures,   \* state.failures: the count of each identifier
    lockouts,   \* state.lockouts: expiresAt, or None
    misses,     \* history: when verifications failed since the last success or unlock
    signed,     \* challenges whose signature is on its way to the server
    tab,        \* the hook's state in each tab
    local,      \* localStorage: the token, or None, and the choice last stored
    session     \* sessionStorage of each tab

server_vars == <<nonce, nonces, tokens, failures, lockouts, misses, signed>>
browser_vars == <<tab, local, session>>
signin_vars == <<clock, server_vars, browser_vars>>

Jobs == {"login", "refresh"}

Idle == [step |-> "idle", nonce |-> None, remember |-> FALSE]

\* connected: publicKey is set.
NewTab == [connected |-> FALSE, token |-> None, remember |-> FALSE, loading |-> FALSE,
           job |-> [j \in Jobs |-> Idle]]

-----------------------------------------------------------------------------
(* middleware/authRateLimiter.js                                           *)

Locked(id) == lockouts[id] # None /\ lockouts[id] > clock

Exhausted(id) == failures[id] >= MAX_ATTEMPTS

\* The limiter lets a request through, forgetting a lockout that is over.
Passes(id) == ~Locked(id) /\ ~Exhausted(id)

\* Or answers 429; when a lockout is over and the count still stands, the next
\* request is locked out anew.
authRateLimiter429(id) ==
    /\ ~Passes(id)
    /\ lockouts' = IF Locked(id) THEN lockouts ELSE [lockouts EXCEPT ![id] = clock + LOCKOUT]
    /\ UNCHANGED <<nonce, nonces, tokens, failures, misses, signed>>

Unlocked(id) == [lockouts EXCEPT ![id] = None]

\* Mutant: the count starts again after a lockout.
recordFailure_anew(id) == IF lockouts[id] # None THEN 1 ELSE failures[id] + 1

recordFailure(id) == failures[id] + 1

\* The failure is recorded, and locks out from the built-in bound on.
applyAuthFailure(id) ==
    /\ failures' = [failures EXCEPT ![id] = recordFailure(id)]
    /\ lockouts' = IF recordFailure(id) >= DEFAULT_ATTEMPTS
                   THEN [lockouts EXCEPT ![id] = clock + DEFAULT_LOCKOUT]
                   ELSE Unlocked(id)
    /\ misses' = [misses EXCEPT ![id] = Append(@, clock)]

resetAuthRateLimit(id) ==
    /\ failures' = [failures EXCEPT ![id] = 0]
    /\ lockouts' = Unlocked(id)
    /\ misses' = [misses EXCEPT ![id] = <<>>]

\* POST /auth/admin/unlock
unlock(id) ==
    /\ resetAuthRateLimit(id)
    /\ UNCHANGED <<clock, nonce, nonces, tokens, signed, browser_vars>>

-----------------------------------------------------------------------------
(* routes/auth.js                                                          *)

\* POST /auth/challenge: the address has one challenge, the latest.
Challenge(id) ==
    /\ Passes(id)
    /\ nonces < MaxNonces
    /\ nonces' = nonces + 1
    /\ nonce' = [id |-> nonces + 1, expiresAt |-> clock + NONCE_TTL]
    /\ lockouts' = Unlocked(id)
    /\ UNCHANGED <<tokens, failures, misses, signed>>

Valid(n) == nonce # None /\ clock <= nonce.expiresAt /\ nonce.id = n

\* Mutant: the challenge stays for its time to live.
Consumed_later(n) == nonce

Consumed(n) == None

\* POST /auth/verify with a signature of challenge n: no challenge or an
\* expired one, a signature of another challenge, or a token.
VerifyFails(id, n) ==
    /\ Passes(id)
    /\ ~Valid(n)
    /\ applyAuthFailure(id)
    /\ nonce' = IF nonce # None /\ clock <= nonce.expiresAt THEN nonce ELSE None
    /\ UNCHANGED <<nonces, tokens, signed>>

VerifySucceeds(id, n) ==
    /\ Passes(id)
    /\ Valid(n)
    /\ resetAuthRateLimit(id)
    /\ nonce' = Consumed(n)
    /\ tokens' = [tokens EXCEPT ![n] = @ + 1]
    /\ UNCHANGED <<nonces, signed>>

\* The purge of every minute.
purge ==
    /\ nonce # None /\ nonce.expiresAt < clock
    /\ nonce' = None
    /\ UNCHANGED <<clock, nonces, tokens, failures, lockouts, misses, signed, browser_vars>>

\* A copy of a verification request arrives, early or late; nobody reads the answer.
redeliver(t, n) ==
    /\ n \in signed
    /\ \/ VerifyFails(getIdentifier[t], n) \/ VerifySucceeds(getIdentifier[t], n) \/ authRateLimiter429(getIdentifier[t])
    /\ UNCHANGED <<clock, browser_vars>>

-----------------------------------------------------------------------------
(* useAuth                                                                 *)

\* The modal: a wallet to pick or, once connected, the sign step; every control of
\* either is disabled while the hook is loading.
Offers(t, step) == ~tab[t].loading /\ step = IF tab[t].connected THEN "sign" ELSE "pick"

\* The wallet answers; a wallet that is missing or refuses leaves the tab as it was.
connect(t) ==
    /\ Offers(t, "pick")
    /\ tab' = [tab EXCEPT ![t].connected = TRUE]
    /\ UNCHANGED <<clock, server_vars, local, session>>

\* _doLogin is called, with the choice of that moment.
Started(t) == [Idle EXCEPT !.step = "challenge", !.remember = tab[t].remember]

login(t) ==
    /\ Offers(t, "sign")
    /\ tab' = [tab EXCEPT ![t].loading = TRUE, ![t].job["login"] = Started(t)]
    /\ UNCHANGED <<clock, server_vars, local, session>>

\* The timer set when the token was: it does not set loading.
refresh(t) ==
    /\ tab[t].token # None /\ tab[t].connected
    /\ tab[t].job["refresh"] = Idle
    /\ tab' = [tab EXCEPT ![t].job["refresh"] = Started(t)]
    /\ UNCHANGED <<clock, server_vars, local, session>>

\* A job's promise has settled.
Ended(t, job) ==
    [tab[t] EXCEPT !.job[job] = Idle, !.loading = IF job = "login" THEN FALSE ELSE @]

\* Step 1 of _doLogin: answered, refused, or the answer lost.
fetchChallenge(t, job) ==
    /\ tab[t].job[job].step = "challenge"
    /\ \/ /\ Challenge(getIdentifier[t])
          /\ tab' \in {[tab EXCEPT ![t].job[job].step = "sign", ![t].job[job].nonce = nonces + 1],
                       [tab EXCEPT ![t] = Ended(t, job)]}
       \/ authRateLimiter429(getIdentifier[t]) /\ tab' = [tab EXCEPT ![t] = Ended(t, job)]
    /\ UNCHANGED <<clock, local, session>>

\* Step 2: the wallet signs, or the user declines.
sign(t, job) ==
    /\ tab[t].job[job].step = "sign"
    /\ \/ /\ tab' = [tab EXCEPT ![t].job[job].step = "verify"]
          /\ signed' = signed \cup {tab[t].job[job].nonce}
       \/ tab' = [tab EXCEPT ![t] = Ended(t, job)] /\ UNCHANGED signed
    /\ UNCHANGED <<clock, nonce, nonces, tokens, failures, lockouts, misses, local, session>>

\* persistSession: the choice always goes to localStorage, the token to one of
\* the two stores.
persistSession(t, token, remember) ==
    /\ local' = [token |-> IF remember THEN token ELSE local.token, remember |-> remember]
    /\ session' = IF remember THEN session ELSE [session EXCEPT ![t] = token]

\* Step 3: a token, a refusal, or the answer lost.
fetchVerify(t, job) ==
    LET n == tab[t].job[job].nonce
    IN  /\ tab[t].job[job].step = "verify"
        /\ \/ /\ VerifySucceeds(getIdentifier[t], n)
              /\ \/ tab' = [tab EXCEPT ![t] = [Ended(t, job) EXCEPT !.token = n]] /\ persistSession(t, n, tab[t].job[job].remember)
                 \/ tab' = [tab EXCEPT ![t] = Ended(t, job)] /\ UNCHANGED <<local, session>>
           \/ /\ VerifyFails(getIdentifier[t], n) \/ authRateLimiter429(getIdentifier[t])
              /\ tab' = [tab EXCEPT ![t] = Ended(t, job)]
              /\ UNCHANGED <<local, session>>
        /\ UNCHANGED clock

\* "Change wallet".
logout(t) ==
    /\ Offers(t, "sign")
    /\ tab' = [tab EXCEPT ![t].connected = FALSE, ![t].token = None]
    /\ local' = [local EXCEPT !.token = None]
    /\ session' = [session EXCEPT ![t] = None]
    /\ UNCHANGED <<clock, server_vars>>

\* readPersistedSession on a reload: what was under way is gone.
reload(t) ==
    /\ tab' = [tab EXCEPT ![t] =
          [NewTab EXCEPT !.remember = local.remember,
                         !.token = IF local.remember THEN local.token ELSE session[t]]]
    /\ UNCHANGED <<clock, server_vars, local, session>>

setRememberMe(t) ==
    /\ Offers(t, "sign")
    /\ tab' = [tab EXCEPT ![t].remember = ~@]
    /\ UNCHANGED <<clock, server_vars, local, session>>

tick ==
    /\ clock < MaxClock
    /\ clock' = clock + 1
    /\ UNCHANGED <<server_vars, browser_vars>>

-----------------------------------------------------------------------------
SignInInit ==
    /\ clock = 0
    /\ nonce = None /\ nonces = 0 /\ signed = {}
    /\ tokens = [n \in 1..MaxNonces |-> 0]
    /\ failures = [id \in Identifiers |-> 0] /\ lockouts = [id \in Identifiers |-> None]
    /\ misses = [id \in Identifiers |-> <<>>]
    /\ tab = [t \in Tabs |-> NewTab]
    /\ local = [token |-> None, remember |-> FALSE] /\ session = [t \in Tabs |-> None]

SignInNext ==
    \/ tick \/ purge
    \/ \E id \in Identifiers : unlock(id)
    \/ \E t \in Tabs :
          \/ connect(t) \/ login(t) \/ refresh(t) \/ logout(t) \/ reload(t) \/ setRememberMe(t)
          \/ \E job \in Jobs : fetchChallenge(t, job) \/ sign(t, job) \/ fetchVerify(t, job)
          \/ \E n \in signed : redeliver(t, n)

SignInSpec == SignInInit /\ [][SignInNext]_signin_vars

-----------------------------------------------------------------------------
\* A challenge is good for one token, however the sign-ins and refreshes of all
\* tabs overlap and whatever is delivered twice (verify consumes the nonce).
OneTokenPerChallenge == \A n \in 1..MaxNonces : tokens[n] <= 1

\* Guessing is slow: between two resets of an identifier, by a success or by an
\* unlock, no more than MAX_ATTEMPTS verifications fail, and from the built-in
\* bound on each comes a lockout or more after the one before it, through
\* challenges in between, lockouts that end, the two bounds and the two durations
\* of the limiter and of applyAuthFailure, and re-deliveries.
GuessesLimited ==
    \A id \in Identifiers :
        /\ Len(misses[id]) <= MAX_ATTEMPTS
        /\ \A k \in 2..Len(misses[id]) :
              k > DEFAULT_ATTEMPTS => misses[id][k] >= misses[id][k - 1] + DEFAULT_LOCKOUT

-----------------------------------------------------------------------------
(* What comments and messages say and the code does not do.                *)

\* authRateLimiter.js, with retryAfterSeconds: "Too many failed authentication
\* attempts. Please try again later."  Once a lockout is over, only another
\* failure brings about the next one.
LockoutsEnd ==
    [][\A id \in Identifiers :
          (lockouts[id] # None /\ lockouts[id] <= clock /\ misses'[id] = misses[id])
              => lockouts'[id] \in {None, lockouts[id]}]_signin_vars

\* useAuth.ts:58, "logout() -- clears session": nothing is stored again for a tab
\* whose wallet is not connected.  A refresh under way at the logout does.
LogoutClears ==
    [][\A t \in Tabs : session'[t] \notin {None, session[t]} => tab[t].connected]_signin_vars
=============================================================================
