------------------------------ MODULE ApiKeys -------------------------------
(***************************************************************************)
(* API keys (api/services/apiKeyService.js, routes/apiKeys.js and the      *)
(* X-API-Key branch of middleware/auth.js): creation, use under the key's  *)
(* own limit, rotation and revocation.  A key is named by its place in the *)
(* table.  Every handler is synchronous, so calls are atomic; what matters *)
(* is their order and the time between them.                               *)
(***************************************************************************)
EXTENDS Integers, Sequences, Functions

CONSTANTS
    Unset,        \* a field of rateLimit that the body leaves out
    Owners,
    RateLimits,   \* rateLimit of a body: [windowMs, max], each possibly Unset
    MaxKeys,      \* bound: keys ever made
    MaxCount,     \* bound: requests counted in one window, beyond every limit
    KeyClock      \* bound: time

\* The validators only let positive integers through.
ASSUME KeysAssumption ==
    /\ Unset \notin Nat /\ Unset \notin [count: Nat, windowStart: Nat]
    /\ RateLimits \subseteq [windowMs: Nat \cup {Unset}, max: Nat \cup {Unset}]
    /\ KeyClock \in Nat

VARIABLES
    api_keys,     \* Map keys, in the order of creation
    key_usage,    \* Map usage: [count, windowStart], or Unset
    key_clock,
    accepted      \* history: how often each key was accepted at each instant

key_vars == <<api_keys, key_usage, key_clock, accepted>>

Known == 1..Len(api_keys)

NewKey(owner, limit, from) ==
    [ownerId |-> owner, rateLimit |-> limit, revoked |-> FALSE, rotatedFrom |-> from]

Added(table, key) ==
    /\ Len(api_keys) < MaxKeys
    /\ api_keys' = Append(table, key)
    /\ key_usage' = Append(key_usage, Unset)
    /\ accepted' = Append(accepted, [t \in 0..KeyClock |-> 0])
    /\ UNCHANGED key_clock

\* POST /api-keys: the validators let a limit with one of its fields through.
createKey(owner, limit) == Added(api_keys, NewKey(owner, limit, Unset))

validateKey(k) == k \in Known /\ ~api_keys[k].revoked

\* checkRateLimit.  A missing windowMs or max compares as NaN: the window never
\* restarts, or no count is within the limit.
WindowOver(k) ==
    LET windowMs == api_keys[k].rateLimit.windowMs
    IN  \/ key_usage[k] = Unset
        \/ windowMs # Unset /\ key_clock - key_usage[k].windowStart > windowMs

Counted(k) ==
    IF WindowOver(k)
    THEN [count |-> 1, windowStart |-> key_clock]
    ELSE [key_usage[k] EXCEPT !.count = @ + 1]

\* Mutant: the limit is compared before the request is counted.
WithinLimit_before(k, count) ==
    api_keys[k].rateLimit.max # Unset /\ count - 1 <= api_keys[k].rateLimit.max

WithinLimit(k, count) ==
    api_keys[k].rateLimit.max # Unset /\ count <= api_keys[k].rateLimit.max

\* A request with the key: refused requests count as well.
useKey(k) ==
    /\ validateKey(k)
    /\ Counted(k).count <= MaxCount
    /\ key_usage' = [key_usage EXCEPT ![k] = Counted(k)]
    /\ accepted' = [accepted EXCEPT ![k][key_clock] = IF WithinLimit(k, Counted(k).count) THEN @ + 1 ELSE @]
    /\ UNCHANGED <<api_keys, key_clock>>

\* POST /api-keys/:id/rotate: the key in the body, whatever the id.
rotateKey(k) ==
    /\ validateKey(k)
    /\ Added([api_keys EXCEPT ![k].revoked = TRUE],
             NewKey(api_keys[k].ownerId, api_keys[k].rateLimit, k))

\* DELETE /api-keys/:id, by any caller.
revokeById(k) ==
    /\ k \in Known
    /\ api_keys' = [api_keys EXCEPT ![k].revoked = TRUE]
    /\ UNCHANGED <<key_usage, key_clock, accepted>>

keyTick == key_clock < KeyClock /\ key_clock' = key_clock + 1 /\ UNCHANGED <<api_keys, key_usage, accepted>>

KeysInit == api_keys = <<>> /\ key_usage = <<>> /\ accepted = <<>> /\ key_clock = 0

KeysNext ==
    \/ \E owner \in Owners, limit \in RateLimits : createKey(owner, limit)
    \/ \E k \in Known : useKey(k) \/ rotateKey(k) \/ revokeById(k)
    \/ keyTick

KeysSpec == KeysInit /\ [][KeysNext]_key_vars

-----------------------------------------------------------------------------
\* Whatever the order of requests, refusals and restarts of the window, a span of
\* windowMs (both ends included) lets at most twice the limit of a key through: a
\* window may end and the next begin inside it, never two.
KeyLimitHolds ==
    \A k \in Known :
        LET limit == api_keys[k].rateLimit
        IN  Unset \notin {limit.windowMs, limit.max}
              => \A from \in 0..KeyClock :
                    SumFunctionOnSet(accepted[k], {t \in 0..KeyClock : t >= from /\ t - from <= limit.windowMs})
                      <= 2 * limit.max
=============================================================================
