--------------------------- MODULE ApiServerProofs --------------------------
(***************************************************************************)
(* Proofs about the API server: what its stored answers, its successes,    *)
(* its admin log and its exits promise, for any number of requests, keys,  *)
(* streams and restarts.  Each request is kept sound by itself, relative   *)
(* to the transactions included, the rows stored and the actions logged;   *)
(* the four results are read off that.                                     *)
(***************************************************************************)
EXTENDS ApiServer, TLAPS

\* What a request may be waiting for.
Awaits == {"admit", "lookup", "validate", "send", "confirm", "cache_get", "read_stream",
           "cache_set", "cache_del", "read", "read_active", "log", "read_log", "db",
           "db_or_not", "erase", "mail", "probe"}

\* The awaits in a list.
In(todo) == {todo[k] : k \in 1..Len(todo)}

\* Routes as records, and the routes of the API, audited or not.
RouteRecord == [idem: BOOLEAN, audited: BOOLEAN, swallows: BOOLEAN, awaits: Seq(Awaits)]

Routes == {[r EXCEPT !.audited = audited] : r \in AllRoutes, audited \in BOOLEAN}

\* A request submits at most once.
Once(todo) == \A j, k \in 1..Len(todo) : todo[j] = "send" /\ todo[k] = "send" => j = k

\* What the proofs use of a route: it does not repeat the awaits in front of its
\* handler, a submission is looked for, what submits or logs answers neither
\* from the cache nor for the probe, only submissions are idempotent, and a
\* submission whose failure is swallowed is logged.
SoundRoute(route) ==
    /\ route \in RouteRecord /\ Len(route.awaits) > 0
    /\ "admit" \notin In(route.awaits) /\ "lookup" \notin In(route.awaits) /\ Once(route.awaits)
    /\ Submits(route) => "confirm" \in In(route.awaits)
    /\ Submits(route) \/ Logs(route)
         => "cache_get" \notin In(route.awaits) /\ "probe" \notin In(route.awaits)
    /\ route.idem => Submits(route) /\ ~Logs(route) /\ ~route.swallows
    /\ route.swallows => Logs(route)

-----------------------------------------------------------------------------
(* Routes.                                                                 *)

\* Lists put together.
LEMMA ConcatIn ==
    ASSUME NEW s \in Seq(Awaits), NEW t \in Seq(Awaits)
    PROVE  s \o t \in Seq(Awaits) /\ In(s \o t) = In(s) \cup In(t) /\ Len(s \o t) = Len(s) + Len(t)
<1>1. s \o t \in Seq(Awaits) /\ Len(s \o t) = Len(s) + Len(t) /\ Len(s) \in Nat /\ Len(t) \in Nat
  OBVIOUS
<1>2. ASSUME NEW k \in 1..Len(s \o t) PROVE (s \o t)[k] \in In(s) \cup In(t)
  <2>1. CASE k <= Len(s)
    BY <1>1, <2>1 DEF In
  <2>2. CASE k > Len(s)
    <3>1. (s \o t)[k] = t[k - Len(s)] /\ k - Len(s) \in 1..Len(t)
      BY <1>1, <2>2
    <3> QED
      BY <3>1 DEF In
  <2> QED
    BY <1>1, <2>1, <2>2
<1>3. ASSUME NEW k \in 1..Len(s) PROVE s[k] \in In(s \o t)
  <2>1. (s \o t)[k] = s[k] /\ k \in 1..Len(s \o t)
    BY <1>1
  <2> QED
    BY <2>1 DEF In
<1>4. ASSUME NEW k \in 1..Len(t) PROVE t[k] \in In(s \o t)
  <2>1. (s \o t)[Len(s) + k] = t[k] /\ Len(s) + k \in 1..Len(s \o t)
    BY <1>1
  <2> QED
    BY <2>1 DEF In
<1>5. In(s \o t) \subseteq In(s) \cup In(t)
  BY <1>2 DEF In
<1>6. In(s) \cup In(t) \subseteq In(s \o t)
  <2>1. In(s) \subseteq In(s \o t)
    <3> SUFFICES ASSUME NEW x \in In(s) PROVE x \in In(s \o t)
      OBVIOUS
    <3>1. PICK k \in 1..Len(s) : x = s[k]
      BY DEF In
    <3> QED
      BY <1>3, <3>1
  <2>2. In(t) \subseteq In(s \o t)
    <3> SUFFICES ASSUME NEW x \in In(t) PROVE x \in In(s \o t)
      OBVIOUS
    <3>1. PICK k \in 1..Len(t) : x = t[k]
      BY DEF In
    <3> QED
      BY <1>4, <3>1
  <2> QED
    BY <2>1, <2>2
<1> QED
  BY <1>1, <1>5, <1>6

\* The second list starts after the first.
LEMMA ConcatAt ==
    ASSUME NEW s \in Seq(Awaits), NEW t \in Seq(Awaits)
    PROVE  \A k \in 1..Len(t) : (s \o t)[Len(s) + k] = t[k]
  OBVIOUS

\* A list with one submission at most, and a list with none.
LEMMA ConcatOnce ==
    ASSUME NEW s \in Seq(Awaits), NEW t \in Seq(Awaits), Once(s), Once(t),
           "send" \notin In(s) \/ "send" \notin In(t)
    PROVE  Once(s \o t)
<1> DEFINE u == s \o t
<1>1. Len(u) = Len(s) + Len(t) /\ Len(s) \in Nat /\ Len(t) \in Nat
  OBVIOUS
<1>2. \A k \in 1..Len(u) : \/ k \in 1..Len(s) /\ u[k] = s[k]
                           \/ k - Len(s) \in 1..Len(t) /\ u[k] = t[k - Len(s)]
  OBVIOUS
<1> HIDE DEF u
<1>3. ASSUME NEW j \in 1..Len(u), NEW k \in 1..Len(u), u[j] = "send", u[k] = "send" PROVE j = k
  <2>1. CASE "send" \notin In(s)
    <3>1. /\ j - Len(s) \in 1..Len(t) /\ t[j - Len(s)] = "send"
          /\ k - Len(s) \in 1..Len(t) /\ t[k - Len(s)] = "send"
      BY <1>2, <1>3, <2>1 DEF In
    <3>2. j - Len(s) = k - Len(s)
      BY <3>1 DEF Once
    <3> QED
      BY <1>1, <3>2
  <2>2. CASE "send" \notin In(t)
    <3>1. j \in 1..Len(s) /\ s[j] = "send" /\ k \in 1..Len(s) /\ s[k] = "send"
      BY <1>2, <1>3, <2>2 DEF In
    <3> QED
      BY <3>1 DEF Once
  <2> QED
    BY <2>1, <2>2
<1> QED
  BY <1>3 DEF Once, u

\* No submission is at most one.
LEMMA NeverOnce == \A s : "send" \notin In(s) => Once(s)
  BY DEF In, Once

\* Lists written out.
LEMMA ListsIn ==
    /\ <<>> \in Seq(Awaits) /\ In(<<>>) = {} /\ Len(<<>>) = 0
    /\ \A x \in Awaits : <<x>> \in Seq(Awaits) /\ In(<<x>>) = {x} /\ Len(<<x>>) = 1
    /\ \A x, y \in Awaits :
          <<x, y>> \in Seq(Awaits) /\ In(<<x, y>>) = {x, y} /\ Len(<<x, y>>) = 2
    /\ \A x, y, z \in Awaits :
          <<x, y, z>> \in Seq(Awaits) /\ In(<<x, y, z>>) = {x, y, z} /\ Len(<<x, y, z>>) = 3
<1>1. /\ 1..0 = {} /\ 1..1 = {1} /\ 1..2 = {1, 2} /\ 1..3 = {1, 2, 3}
  OBVIOUS
<1>2. <<>> \in Seq(Awaits) /\ In(<<>>) = {} /\ Len(<<>>) = 0
  BY <1>1 DEF In
<1>3. ASSUME NEW x \in Awaits PROVE <<x>> \in Seq(Awaits) /\ In(<<x>>) = {x} /\ Len(<<x>>) = 1
  BY <1>1 DEF In
<1>4. ASSUME NEW x \in Awaits, NEW y \in Awaits
      PROVE  <<x, y>> \in Seq(Awaits) /\ In(<<x, y>>) = {x, y} /\ Len(<<x, y>>) = 2
  BY <1>1 DEF In
<1>5. ASSUME NEW x \in Awaits, NEW y \in Awaits, NEW z \in Awaits
      PROVE  <<x, y, z>> \in Seq(Awaits) /\ In(<<x, y, z>>) = {x, y, z} /\ Len(<<x, y, z>>) = 3
  BY <1>1 DEF In
<1> QED
  BY <1>2, <1>3, <1>4, <1>5

\* A route is what its handler awaits, after the checks of its input.
LEMMA RouteIn ==
    ASSUME NEW s \in Seq(Awaits), Once(s)
    PROVE  /\ Route(s) \in RouteRecord /\ Len(Route(s).awaits) > 0 /\ Once(Route(s).awaits)
           /\ In(Route(s).awaits) = {"validate"} \cup In(s)
           /\ ~Route(s).idem /\ ~Route(s).swallows
<1> DEFINE v == <<"validate">>
           all == v \o s
<1>0. "validate" \in Awaits
  BY DEF Awaits
<1>1. v \in Seq(Awaits) /\ In(v) = {"validate"} /\ Len(v) = 1
  BY <1>0, ListsIn
<1>3. Route(s) = [idem |-> FALSE, audited |-> FALSE, swallows |-> FALSE, awaits |-> all]
  BY DEF Route
<1> HIDE DEF v
<1>2. all \in Seq(Awaits) /\ In(all) = {"validate"} \cup In(s) /\ Len(all) = 1 + Len(s) /\ Len(s) \in Nat /\ Once(all)
  <2>1. v \in Seq(Awaits)
    BY <1>1
  <2>3. "send" \notin In(v) /\ Once(v)
    BY <1>1, NeverOnce
  <2>4. Once(all)
    BY <2>1, <2>3, ConcatOnce
  <2>2. all \in Seq(Awaits) /\ In(all) = In(v) \cup In(s) /\ Len(all) = Len(v) + Len(s)
    BY <2>1, ConcatIn
  <2> HIDE DEF all
  <2> QED
    BY <1>1, <2>2, <2>4
<1> HIDE DEF all
<1> QED
  BY <1>2, <1>3 DEF RouteRecord

\* Submitting, and going on to t.
LEMMA SubmitIn ==
    /\ Submit \in Seq(Awaits) /\ In(Submit) = {"send", "confirm"} /\ Once(Submit)
    /\ \A x \in Awaits \ {"send"} : /\ Submit \o <<x>> \in Seq(Awaits) /\ Once(Submit \o <<x>>)
                                    /\ In(Submit \o <<x>>) = {"send", "confirm", x}
<1>1. "send" \in Awaits /\ "confirm" \in Awaits
  BY DEF Awaits
<1>2. Submit \in Seq(Awaits) /\ In(Submit) = {"send", "confirm"} /\ Once(Submit)
  <2>1. Once(<<"send", "confirm">>)
    BY DEF Once
  <2> QED
    BY <1>1, <2>1, ListsIn DEF Submit
<1>3. ASSUME NEW x \in Awaits \ {"send"}
      PROVE  /\ Submit \o <<x>> \in Seq(Awaits) /\ Once(Submit \o <<x>>)
             /\ In(Submit \o <<x>>) = {"send", "confirm", x}
  <2>1. <<x>> \in Seq(Awaits) /\ In(<<x>>) = {x}
    BY ListsIn
  <2>2. Submit \o <<x>> \in Seq(Awaits) /\ In(Submit \o <<x>>) = In(Submit) \cup In(<<x>>)
    BY <1>2, <2>1, ConcatIn
  <2>3. Once(<<x>>) /\ "send" \notin In(<<x>>)
    BY <2>1, NeverOnce
  <2>4. Once(Submit \o <<x>>)
    BY <1>2, <2>1, <2>3, ConcatOnce
  <2> QED
    BY <1>2, <2>1, <2>2, <2>4
<1> QED
  BY <1>2, <1>3

\* In terms of the awaits in a list.
LEMMA SubmitsLogs ==
    ASSUME NEW route \in RouteRecord
    PROVE  /\ Submits(route) <=> "send" \in In(route.awaits)
           /\ Logs(route) <=> "log" \in In(route.awaits)
  BY DEF Submits, Logs, In

\* Routes that are plain lists of awaits.
LEMMA PlainSound ==
    ASSUME NEW s \in Seq(Awaits), Once(s), "admit" \notin In(s), "lookup" \notin In(s),
           "send" \in In(s) => "confirm" \in In(s),
           "send" \in In(s) \/ "log" \in In(s) => "cache_get" \notin In(s) /\ "probe" \notin In(s)
    PROVE  SoundRoute(Route(s))
  BY RouteIn, SubmitsLogs DEF SoundRoute

\* A route that differs from a sound one in what auditLog records.
LEMMA AuditedSound ==
    ASSUME NEW r, SoundRoute(r), NEW a \in BOOLEAN
    PROVE  SoundRoute([r EXCEPT !.audited = a])
<1>1. /\ [r EXCEPT !.audited = a] \in RouteRecord
      /\ [r EXCEPT !.audited = a].awaits = r.awaits
      /\ [r EXCEPT !.audited = a].idem = r.idem
      /\ [r EXCEPT !.audited = a].swallows = r.swallows
  BY DEF SoundRoute, RouteRecord
<1> DEFINE q == [r EXCEPT !.audited = a]
<1> HIDE DEF q
<1>2. q \in RouteRecord /\ q.awaits = r.awaits /\ q.idem = r.idem /\ q.swallows = r.swallows
  BY <1>1 DEF q
<1>3. SoundRoute(q)
  BY <1>2, SubmitsLogs DEF SoundRoute
<1> QED
  BY <1>3 DEF q

\* Every route of the API is sound.
LEMMA AllRoutesSound == \A r \in AllRoutes : SoundRoute(r)
<1>1. Awaits = {"admit", "lookup", "validate", "send", "confirm", "cache_get", "read_stream",
                "cache_set", "cache_del", "read", "read_active", "log", "read_log", "db",
                "db_or_not", "erase", "mail", "probe"}
  BY DEF Awaits
<1>2. SoundRoute(Route(Submit)) /\ ~Logs(Route(Submit)) /\ Submits(Route(Submit))
  <2>1. SoundRoute(Route(Submit))
    BY SubmitIn, PlainSound
  <2>2. Route(Submit) \in RouteRecord /\ In(Route(Submit).awaits) = {"validate", "send", "confirm"}
    BY SubmitIn, RouteIn
  <2> QED
    BY <2>1, <2>2, SubmitsLogs
<1>3. SoundRoute(create_stream)
  <2> DEFINE r == Route(Submit)
             q == [r EXCEPT !.idem = TRUE, !.audited = TRUE]
  <2>1. create_stream = q
    BY DEF create_stream
  <2>2. r \in RouteRecord
    BY <1>2 DEF SoundRoute
  <2> HIDE DEF r
  <2>3. q \in RouteRecord /\ q.awaits = r.awaits /\ q.swallows = r.swallows
    BY <2>2 DEF RouteRecord
  <2>4. SoundRoute(r) /\ ~Logs(r) /\ Submits(r) /\ ~r.swallows
    BY <1>2, SubmitIn, RouteIn DEF r
  <2> HIDE DEF q
  <2>5. Submits(q) /\ ~Logs(q)
    BY <2>2, <2>3, <2>4, SubmitsLogs
  <2>6. SoundRoute(q)
    BY <2>3, <2>4, <2>5 DEF SoundRoute
  <2> QED
    BY <2>1, <2>6
<1>4. /\ SoundRoute(Route(<<"read">>)) /\ SoundRoute(Route(<<"read_log">>)) /\ SoundRoute(Route(<<"db">>))
  <2>1. ASSUME NEW x \in {"read", "read_log", "db"} PROVE SoundRoute(Route(<<x>>))
    <3> DEFINE s == <<x>>
    <3>0. x \in Awaits
      BY <1>1
    <3>1. s \in Seq(Awaits) /\ In(s) = {x}
      BY <3>0, ListsIn
    <3> HIDE DEF s
    <3>2. SoundRoute(Route(s))
      BY <3>1, NeverOnce, PlainSound
    <3> QED
      BY <3>2 DEF s
  <2> QED
    BY <2>1
<1>5. SoundRoute(Route(<<"db", "log">>))
  <2>1. "db" \in Awaits /\ "log" \in Awaits
    BY <1>1
  <2>2. <<"db", "log">> \in Seq(Awaits) /\ In(<<"db", "log">>) = {"db", "log"}
    BY <2>1, ListsIn
  <2> QED
    BY <2>2, NeverOnce, PlainSound
<1>6. SoundRoute(get_stream)
  <2> DEFINE s == <<"cache_get", "read_stream", "cache_set">>
  <2>1. "cache_get" \in Awaits /\ "read_stream" \in Awaits /\ "cache_set" \in Awaits
    BY <1>1
  <2>2. s \in Seq(Awaits) /\ In(s) = {"cache_get", "read_stream", "cache_set"}
    BY <2>1, ListsIn
  <2> HIDE DEF s
  <2>3. SoundRoute(Route(s))
    BY <2>2, NeverOnce, PlainSound
  <2> QED
    BY <2>3 DEF get_stream, s
<1>7. SoundRoute(delete_user)
  <2> DEFINE s == <<"db_or_not", "erase", "mail">>
  <2>1. "db_or_not" \in Awaits /\ "erase" \in Awaits /\ "mail" \in Awaits
    BY <1>1
  <2>2. s \in Seq(Awaits) /\ In(s) = {"db_or_not", "erase", "mail"}
    BY <2>1, ListsIn
  <2> HIDE DEF s
  <2>3. SoundRoute(Route(s))
    BY <2>2, NeverOnce, PlainSound
  <2> QED
    BY <2>3 DEF delete_user, s
<1>8. SoundRoute(Route(Submit \o <<"log">>)) /\ Logs(Route(Submit \o <<"log">>))
  <2> DEFINE s == Submit \o <<"log">>
  <2>1. s \in Seq(Awaits) /\ In(s) = {"send", "confirm", "log"} /\ Once(s)
    BY <1>1, SubmitIn
  <2> HIDE DEF s
  <2>2. SoundRoute(Route(s)) /\ Logs(Route(s))
    BY <2>1, PlainSound, RouteIn, SubmitsLogs
  <2> QED
    BY <2>2 DEF s
<1>9. SoundRoute(withdraw)
  <2> DEFINE s == Submit \o <<"cache_del">>
  <2>1. s \in Seq(Awaits) /\ In(s) = {"send", "confirm", "cache_del"} /\ Once(s)
    BY <1>1, SubmitIn
  <2> HIDE DEF s
  <2>2. SoundRoute(Route(s))
    BY <2>1, PlainSound
  <2>3. SoundRoute([Route(s) EXCEPT !.audited = TRUE])
    BY <2>2, AuditedSound
  <2> QED
    BY <2>3 DEF withdraw, s
<1>10. SoundRoute(top_up)
  <2> DEFINE s == <<"read_active">> \o Submit
             t == <<"cache_del">>
  <2>1. <<"read_active">> \in Seq(Awaits) /\ In(<<"read_active">>) = {"read_active"}
    BY <1>1, ListsIn
  <2>2. t \in Seq(Awaits) /\ In(t) = {"cache_del"}
    BY <1>1, ListsIn
  <2>3. s \in Seq(Awaits) /\ In(s) = {"read_active", "send", "confirm"} /\ Once(s)
    <3> DEFINE u == <<"read_active">>
    <3>1. u \in Seq(Awaits) /\ In(u) = {"read_active"} /\ s = u \o Submit
      BY <2>1
    <3> HIDE DEF u, s
    <3>2. u \o Submit \in Seq(Awaits) /\ In(u \o Submit) = In(u) \cup In(Submit)
      BY <3>1, SubmitIn, ConcatIn
    <3>3. Once(u) /\ "send" \notin In(u)
      BY <3>1, NeverOnce
    <3>4. Once(u \o Submit)
      BY <3>1, <3>3, SubmitIn, ConcatOnce
    <3> QED
      BY <3>1, <3>2, <3>4, SubmitIn
  <2> HIDE DEF s, t
  <2>4. s \o t \in Seq(Awaits) /\ Once(s \o t)
        /\ In(s \o t) = {"read_active", "send", "confirm", "cache_del"}
    <3>1. s \o t \in Seq(Awaits) /\ In(s \o t) = In(s) \cup In(t)
      BY <2>2, <2>3, ConcatIn
    <3>2. Once(t) /\ "send" \notin In(t)
      BY <2>2, NeverOnce
    <3>3. Once(s \o t)
      BY <2>2, <2>3, <3>2, ConcatOnce
    <3> QED
      BY <2>2, <2>3, <3>1, <3>3
  <2>5. SoundRoute(Route(s \o t))
    BY <2>4, PlainSound
  <2> QED
    BY <2>5 DEF top_up, s, t
<1>11. SoundRoute(force_cancel)
  <2> DEFINE r == Route(Submit \o <<"log">>)
             q == [r EXCEPT !.swallows = TRUE]
  <2>1. force_cancel = q
    BY DEF force_cancel
  <2>2. SoundRoute(r) /\ Logs(r) /\ r \in RouteRecord
    BY <1>8 DEF SoundRoute
  <2> HIDE DEF r
  <2>3. q \in RouteRecord /\ q.awaits = r.awaits /\ q.idem = r.idem
    BY <2>2 DEF RouteRecord
  <2> HIDE DEF q
  <2>4. Logs(q) /\ (Submits(q) <=> Submits(r))
    BY <2>2, <2>3, SubmitsLogs
  <2>5. SoundRoute(q)
    BY <2>2, <2>3, <2>4 DEF SoundRoute
  <2> QED
    BY <2>1, <2>5
<1>12. SoundRoute(ready)
  <2> DEFINE r == Route(<<>>)
             p == <<"probe">>
             q == [r EXCEPT !.awaits = p]
  <2>1. ready = q
    BY DEF ready
  <2>2. r \in RouteRecord /\ ~r.idem /\ ~r.swallows
    BY ListsIn, NeverOnce, RouteIn
  <2>3. p \in Seq(Awaits) /\ In(p) = {"probe"} /\ Len(p) = 1
    BY <1>1, ListsIn
  <2> HIDE DEF r, p
  <2>4. q \in RouteRecord /\ q.awaits = p /\ q.idem = r.idem /\ q.swallows = r.swallows
    BY <2>2, <2>3 DEF RouteRecord
  <2> HIDE DEF q
  <2>5. In(q.awaits) = {"probe"} /\ Len(q.awaits) = 1 /\ ~q.idem /\ ~q.swallows
    BY <2>2, <2>3, <2>4
  <2>6. ~Submits(q) /\ ~Logs(q)
    BY <2>4, <2>5, SubmitsLogs
  <2>7. SoundRoute(q)
    BY <2>4, <2>5, <2>6, NeverOnce DEF SoundRoute
  <2> QED
    BY <2>1, <2>7
<1> QED
  BY <1>2, <1>3, <1>4, <1>5, <1>6, <1>7, <1>8, <1>9, <1>10, <1>11, <1>12
     DEF AllRoutes, claimable, total_supply, balance, transfer, mint, token_metadata, propose, vote,
         get_proposal, initialize, pause_contract, set_min_deposit, audit_logs, audit_export,
         list_users, get_user, stats, list_webhooks, set_user_status, delete_webhook, reset_rate_limit

\* A workload may leave the audit record of a route out; nothing else.
LEMMA RoutesSound == \A route \in Routes : SoundRoute(route)
  BY AllRoutesSound, AuditedSound DEF Routes

-----------------------------------------------------------------------------
(* The invariant.                                                          *)

Answer == [code: Nat, tx: Nat \cup {None}]
Bodies == {None} \cup UNION {{c.body : c \in w.calls} : w \in Workloads}
Row == [body: {Jsonb(b) : b \in Bodies}, answer: Answer]

Request ==
    [route: Routes, stream: Streams, key: Keys \cup {None}, body: Bodies, todo: Seq(Awaits),
     tx: {"none", "sent", "included"}, got: Nat \cup {None}, wrapped: BOOLEAN,
     answer: Answer \cup {None}, lost: BOOLEAN, seen: Row \cup {None}, blind: BOOLEAN]

\* The requests whose transaction is on the ledger, and the recorded ones.
Included == {j \in 1..Len(requests) : requests[j].tx = "included"}
Logged == audit_db \cup audit_mem

\* The awaits a request of a route may have in front of it.
Ahead(route) ==
    In(route.awaits) \cup {"admit"} \cup (IF route.idem THEN {"lookup"} ELSE {})
      \cup (IF route.swallows THEN {"confirm", "log"} ELSE {})

\* A request awaits what its route does; it has a key only on an idempotent one.
OnRoute(r) ==
    /\ Len(r.todo) > 0 /\ In(r.todo) \subseteq Ahead(r.route) /\ Once(r.todo)
    /\ r.key # None => r.route.idem
    /\ r.wrapped => r.key # None

\* What is still to be sent has not been sent.
Unsent(r) == r.answer = None /\ "send" \in In(r.todo) => r.tx = "none"

\* A success names one of the transactions inc.
Backed(answer, inc) == answer.code = 200 => answer.tx \in inc

\* Until it is answered, a submission is still to be looked for or is included.
Paid(r, inc) ==
    Submits(r.route) /\ ~r.route.swallows
      => IF r.answer = None THEN "confirm" \in In(r.todo) \/ r.tx = "included"
         ELSE Backed(r.answer, inc)

\* Until it is answered, an admin action is still to be logged or is among logged.
Noted(i, r, logged) ==
    Logs(r.route) /\ r.answer = None /\ ~r.lost => "log" \in In(r.todo) \/ i \in logged

\* The look-up comes next, or after the admission.
Looking(todo) == todo[1] = "lookup" \/ (todo[1] = "admit" /\ Len(todo) > 1 /\ todo[2] = "lookup")

\* A request that came after the answer: the row is still there, and until it is
\* answered the request has not got beyond the look-up.
Replayed(r, table) ==
    r.seen # None =>
        /\ r.key \in Keys /\ table[r.key] = r.seen
        /\ ~r.blind =>
              /\ r.tx = "none"
              /\ IF r.answer = None THEN Looking(r.todo)
                 ELSE r.answer.code = 401 \/ r.answer = Replay(r.seen, r.body)

Sound(i, r, inc, table, logged) ==
    /\ r \in Request /\ OnRoute(r) /\ Unsent(r)
    /\ Paid(r, inc) /\ Noted(i, r, logged) /\ Replayed(r, table)

RequestsOK ==
    /\ requests \in Seq(Request)
    /\ \A i \in 1..Len(requests) : Sound(i, requests[i], Included, rows, Logged)

\* Rows are only written with a database, and a success in one is on the ledger.
RowsOK ==
    /\ rows \in [Keys -> Row \cup {None}]
    /\ \A k \in Keys : rows[k] # None => pool = TRUE /\ Backed(rows[k].answer, Included)

\* The inserts under way are of answered requests with a key.
InsertsOK ==
    \A i : <<"row", i>> \in background =>
        /\ i \in 1..Len(requests) /\ requests[i].answer # None
        /\ requests[i].key \in Keys /\ pool = TRUE

\* Only a process that serves has requests in flight.
PhaseOK ==
    /\ phase \in {"loading", "up", "stopping", "closing", "ending", "late", "exited"}
    /\ phase \in {"loading", "closing", "ending", "exited"} => Drained

ChainOK ==
    /\ workload \in Workloads /\ pool \in BOOLEAN
    /\ streams \in [Streams -> [version: Nat, active: BOOLEAN]]
    /\ cache \in [Streams -> [version: Nat \cup {None}, expires: BOOLEAN] \cup {None}]

ApiInv == ChainOK /\ RequestsOK /\ RowsOK /\ InsertsOK /\ PhaseOK

-----------------------------------------------------------------------------
(* What keeps a request sound.                                             *)

\* More transactions included, more rows, more actions recorded.
LEMMA SoundGrows ==
    ASSUME NEW i, NEW r, NEW inc, NEW table, NEW logged, NEW inc2, NEW table2, NEW logged2,
           Sound(i, r, inc, table, logged), inc \subseteq inc2, logged \subseteq logged2,
           \A k \in Keys : table[k] # None => table2[k] = table[k]
    PROVE  Sound(i, r, inc2, table2, logged2)
<1>1. Paid(r, inc2)
  BY DEF Sound, Paid, Backed
<1>2. Noted(i, r, logged2)
  BY DEF Sound, Noted
<1>3. Replayed(r, table2)
  BY DEF Sound, Replayed
<1> QED
  BY <1>1, <1>2, <1>3 DEF Sound

\* The fields of a request that was changed.
Keeps(q, r) ==
    /\ q.route = r.route /\ q.stream = r.stream /\ q.key = r.key /\ q.body = r.body
    /\ q.lost = r.lost /\ q.seen = r.seen

\* The answer a request gets.
AnswerOf(i, r, code) == [code |-> code, tx |-> IF code = 200 /\ r.tx # "none" THEN i ELSE None]
Answered(i, r, code) == [r EXCEPT !.answer = AnswerOf(i, r, code)]
Stepped(r) == [r EXCEPT !.todo = Tail(@)]
Advanced(i, r) == IF Len(r.todo) = 1 THEN Answered(i, r, 200) ELSE Stepped(r)

\* A request that differs in its answer.
LEMMA AnsweredIs ==
    ASSUME NEW r \in Request, NEW a \in Answer
    PROVE  LET q == [r EXCEPT !.answer = a]
           IN  /\ q \in Request /\ Keeps(q, r) /\ q.answer = a /\ q.todo = r.todo /\ q.tx = r.tx
               /\ q.blind = r.blind /\ q.wrapped = r.wrapped
  BY DEF Request, Keeps

\* A request that differs in what it has in front of it.
LEMMA SteppedIs ==
    ASSUME NEW r \in Request, NEW todo \in Seq(Awaits)
    PROVE  LET q == [r EXCEPT !.todo = todo]
           IN  /\ q \in Request /\ Keeps(q, r) /\ q.answer = r.answer /\ q.todo = todo /\ q.tx = r.tx
               /\ q.blind = r.blind /\ q.wrapped = r.wrapped
  BY DEF Request, Keeps

\* What is left of a list.
LEMMA TailIn ==
    ASSUME NEW s \in Seq(Awaits), Len(s) > 1
    PROVE  /\ Tail(s) \in Seq(Awaits) /\ Len(Tail(s)) > 0 /\ In(s) = {Head(s)} \cup In(Tail(s))
           /\ Once(s) => Once(Tail(s)) /\ (Head(s) = "send" => "send" \notin In(Tail(s)))
           /\ Tail(s)[1] = s[2]
<1>1. /\ Tail(s) \in Seq(Awaits) /\ Len(Tail(s)) = Len(s) - 1 /\ Len(s) \in Nat /\ Head(s) = s[1]
      /\ \A k \in 1..Len(Tail(s)) : Tail(s)[k] = s[k + 1]
  OBVIOUS
<1>2. In(s) = {Head(s)} \cup In(Tail(s))
  <2>1. ASSUME NEW k \in 1..Len(s) PROVE s[k] \in {Head(s)} \cup In(Tail(s))
    <3>1. CASE k = 1
      BY <1>1, <3>1
    <3>2. CASE k > 1
      <4>1. k - 1 \in 1..Len(Tail(s)) /\ Tail(s)[k - 1] = s[k]
        BY <1>1, <3>2
      <4> QED
        BY <4>1 DEF In
    <3> QED
      BY <3>1, <3>2
  <2>2. ASSUME NEW k \in 1..Len(Tail(s)) PROVE Tail(s)[k] \in In(s)
    <3>1. k + 1 \in 1..Len(s) /\ Tail(s)[k] = s[k + 1]
      BY <1>1
    <3> QED
      BY <3>1 DEF In
  <2>3. Head(s) \in In(s)
    <3>1. 1 \in 1..Len(s)
      BY <1>1
    <3> QED
      BY <1>1, <3>1 DEF In
  <2>4. In(s) \subseteq {Head(s)} \cup In(Tail(s))
    BY <2>1 DEF In
  <2>5. In(Tail(s)) \subseteq In(s)
    <3> SUFFICES ASSUME NEW x \in In(Tail(s)) PROVE x \in In(s)
      OBVIOUS
    <3>1. PICK k \in 1..Len(Tail(s)) : x = Tail(s)[k]
      BY DEF In
    <3> QED
      BY <2>2, <3>1
  <2> QED
    BY <2>3, <2>4, <2>5
<1>3. ASSUME Once(s) PROVE Once(Tail(s)) /\ (Head(s) = "send" => "send" \notin In(Tail(s)))
  <2>1. \A k \in 1..Len(Tail(s)) : k + 1 \in 1..Len(s) /\ k + 1 # 1 /\ 1 \in 1..Len(s)
    BY <1>1
  <2>2. ASSUME NEW j \in 1..Len(Tail(s)), NEW k \in 1..Len(Tail(s)),
               Tail(s)[j] = "send", Tail(s)[k] = "send"
        PROVE  j = k
    <3>1. j + 1 = k + 1
      BY <1>1, <1>3, <2>1, <2>2 DEF Once
    <3> QED
      BY <3>1
  <2>3. ASSUME Head(s) = "send", NEW k \in 1..Len(Tail(s)), Tail(s)[k] = "send" PROVE FALSE
    BY <1>1, <1>3, <2>1, <2>3 DEF Once
  <2> QED
    BY <2>2, <2>3 DEF Once, In
<1> QED
  BY <1>1, <1>2, <1>3

-----------------------------------------------------------------------------
(* One await of a request.                                                 *)

\* The answer of a handler.
LEMMA AnswerType ==
    ASSUME NEW i \in Nat, NEW r, NEW code \in Nat
    PROVE  /\ AnswerOf(i, r, code) \in Answer /\ AnswerOf(i, r, code) # None
           /\ AnswerOf(i, r, code).code = code
           /\ code = 200 /\ r.tx # "none" => AnswerOf(i, r, code).tx = i
<1>1. AnswerOf(i, r, code) \in Answer
  BY DEF AnswerOf, Answer
<1>2. None \notin Answer
  BY ApiAssumption DEF Answer
<1>3. AnswerOf(i, r, code) # None
  BY <1>1, <1>2
<1> QED
  BY <1>1, <1>3 DEF AnswerOf

\* An answer by the handler: a success only of a transaction that is included,
\* and nothing to a request whose answer is stored, unless the look-up failed.
LEMMA RespondSound ==
    ASSUME NEW i \in Nat, NEW r \in Request, NEW code \in Nat, NEW inc, NEW table, NEW logged,
           OnRoute(r), r.tx = "included" => i \in inc,
           Submits(r.route) /\ ~r.route.swallows /\ code = 200 => r.tx = "included",
           r.seen # None => r.key \in Keys /\ table[r.key] = r.seen /\ r.blind
    PROVE  /\ Sound(i, Answered(i, r, code), inc, table, logged)
           /\ Keeps(Answered(i, r, code), r) /\ Answered(i, r, code).tx = r.tx
           /\ Answered(i, r, code).answer = AnswerOf(i, r, code)
           /\ Answered(i, r, code).wrapped = r.wrapped
<1> DEFINE a == AnswerOf(i, r, code)
           q == Answered(i, r, code)
<1>1. a \in Answer /\ a # None /\ a.code = code /\ (code = 200 /\ r.tx # "none" => a.tx = i)
  BY AnswerType
<1>2. /\ q \in Request /\ Keeps(q, r) /\ q.answer = a /\ q.todo = r.todo /\ q.tx = r.tx
      /\ q.blind = r.blind /\ q.wrapped = r.wrapped
  <2> HIDE DEF a
  <2>1. q = [r EXCEPT !.answer = a]
    BY DEF Answered, a
  <2> HIDE DEF q
  <2> QED
    BY <1>1, <2>1, AnsweredIs
<1> HIDE DEF a, q
<1>3. OnRoute(q) /\ Unsent(q)
  BY <1>1, <1>2 DEF OnRoute, Unsent, Keeps
<1>4. Paid(q, inc)
  BY <1>1, <1>2 DEF Paid, Backed, Keeps
<1>5. Noted(i, q, logged)
  BY <1>1, <1>2 DEF Noted
<1>6. Replayed(q, table)
  BY <1>1, <1>2 DEF Replayed, Keeps
<1>7. Sound(i, q, inc, table, logged)
  BY <1>2, <1>3, <1>4, <1>5, <1>6 DEF Sound
<1> QED
  BY <1>2, <1>7 DEF a, q

\* An unanswered request that may go on to its next await.
Ready(i, r, inc, table, logged) ==
    /\ r \in Request /\ OnRoute(r) /\ r.answer = None /\ ~r.lost
    /\ r.tx = "included" => i \in inc
    /\ Submits(r.route) /\ ~r.route.swallows
         => r.tx = "included" \/ ("confirm" \in In(r.todo) /\ Head(r.todo) # "confirm")
    /\ Logs(r.route) => i \in logged \/ ("log" \in In(r.todo) /\ Head(r.todo) # "log")
    /\ "send" \in In(r.todo) => Head(r.todo) = "send" \/ r.tx = "none"
    /\ r.seen # None =>
          /\ r.key \in Keys /\ table[r.key] = r.seen
          /\ \/ r.blind
             \/ r.tx = "none" /\ Head(r.todo) = "admit" /\ Len(r.todo) > 1 /\ r.todo[2] = "lookup"

\* Such a request stays sound when its await has returned.
LEMMA AdvanceSound ==
    ASSUME NEW i \in Nat, NEW r, NEW inc, NEW table, NEW logged, Ready(i, r, inc, table, logged)
    PROVE  /\ Sound(i, Advanced(i, r), inc, table, logged)
           /\ Keeps(Advanced(i, r), r) /\ Advanced(i, r).tx = r.tx
           /\ Advanced(i, r).wrapped = r.wrapped
           /\ Len(r.todo) # 1 => Advanced(i, r).answer = None
           /\ Len(r.todo) = 1 /\ Logs(r.route) => i \in logged
<1> USE DEF Ready
<1>1. r.todo \in Seq(Awaits) /\ Len(r.todo) \in Nat /\ Len(r.todo) > 0
  BY DEF Request, OnRoute
<1>2. CASE Len(r.todo) = 1
  <2>1. In(r.todo) = {Head(r.todo)}
    BY <1>1, <1>2 DEF In
  <2>2. /\ Submits(r.route) /\ ~r.route.swallows => r.tx = "included"
        /\ r.seen # None => r.key \in Keys /\ table[r.key] = r.seen /\ r.blind
        /\ Logs(r.route) => i \in logged
    BY <1>2, <2>1
  <2>3. /\ Sound(i, Answered(i, r, 200), inc, table, logged)
        /\ Keeps(Answered(i, r, 200), r) /\ Answered(i, r, 200).tx = r.tx
        /\ Answered(i, r, 200).wrapped = r.wrapped
    BY <2>2, RespondSound
  <2> QED
    BY <1>2, <2>2, <2>3 DEF Advanced
<1>3. CASE Len(r.todo) # 1
  <2> DEFINE rest == Tail(r.todo)
             q == Stepped(r)
  <2>1. /\ rest \in Seq(Awaits) /\ Len(rest) > 0 /\ In(r.todo) = {Head(r.todo)} \cup In(rest)
        /\ Once(rest) /\ (Head(r.todo) = "send" => "send" \notin In(rest)) /\ rest[1] = r.todo[2]
    <3>1. r.todo \in Seq(Awaits) /\ Len(r.todo) > 1 /\ Once(r.todo)
      <4>0. \A n \in Nat : n > 0 /\ n # 1 => n > 1
        OBVIOUS
      <4>1. Len(r.todo) > 1
        BY <1>1, <1>3, <4>0, Zenon
      <4> QED
        BY <1>1, <4>1 DEF OnRoute
    <3> QED
      BY ONLY <3>1, TailIn
  <2>2. /\ q \in Request /\ Keeps(q, r) /\ q.answer = None /\ q.todo = rest /\ q.tx = r.tx
        /\ q.blind = r.blind /\ q.wrapped = r.wrapped
    <3> HIDE DEF rest
    <3>1. q = [r EXCEPT !.todo = rest]
      BY DEF Stepped, rest
    <3> HIDE DEF q
    <3> QED
      BY <2>1, <3>1, SteppedIs
  <2>3. Advanced(i, r) = q
    BY <1>3 DEF Advanced
  <2> HIDE DEF rest, q
  <2>4. OnRoute(q) /\ Unsent(q)
    BY <2>1, <2>2 DEF OnRoute, Unsent, Keeps
  <2>5. Paid(q, inc)
    BY <2>1, <2>2 DEF Paid, Keeps
  <2>6. Noted(i, q, logged)
    BY <2>1, <2>2 DEF Noted, Keeps
  <2>7. Replayed(q, table)
    BY <2>1, <2>2 DEF Replayed, Looking, Keeps
  <2>8. Sound(i, q, inc, table, logged)
    BY <2>2, <2>4, <2>5, <2>6, <2>7 DEF Sound
  <2> QED
    BY <1>3, <2>2, <2>3, <2>8
<1> QED
  BY <1>2, <1>3

\* What an await of request i does: the request stays sound, an admin success is
\* recorded, and an insert is started only for an answer under a key.
Effect(i, q) ==
    /\ requests' = [requests EXCEPT ![i] = q]
    /\ Sound(i, q, Included, rows, Logged') /\ Keeps(q, requests[i])
    /\ requests[i].tx = "included" => q.tx = "included"
    /\ q.answer # None /\ Logs(q.route) /\ q.answer.code = 200 => i \in Logged'
    /\ \A j : <<"row", j>> \in background' =>
          \/ <<"row", j>> \in background
          \/ j = i /\ q.answer # None /\ q.key \in Keys /\ pool = TRUE

Changes(i) == \E q : Effect(i, q)

\* An answer of the handler, as a step of the server.
LEMMA RespondChanges ==
    ASSUME NEW i \in Nat, NEW r \in Request, NEW code \in Nat, Respond(i, r, code),
           OnRoute(r), Keeps(r, requests[i]), pool \in BOOLEAN,
           requests[i].tx = "included" => r.tx = "included",
           r.tx = "included" => i \in Included,
           Submits(r.route) /\ ~r.route.swallows /\ code = 200 => r.tx = "included",
           Logs(r.route) /\ code = 200 => i \in Logged',
           r.seen # None => r.key \in Keys /\ rows[r.key] = r.seen /\ r.blind
    PROVE  Changes(i)
<1> DEFINE q == Answered(i, r, code)
<1>1. /\ Sound(i, q, Included, rows, Logged') /\ Keeps(q, r) /\ q.tx = r.tx
      /\ q.answer = AnswerOf(i, r, code) /\ q.wrapped = r.wrapped
  <2> DEFINE inc == Included
             table == rows
             logged == Logged'
  <2>1. r.tx = "included" => i \in inc
    OBVIOUS
  <2>2. r.seen # None => r.key \in Keys /\ table[r.key] = r.seen /\ r.blind
    OBVIOUS
  <2> HIDE DEF inc, table, logged
  <2>3. /\ Sound(i, q, inc, table, logged) /\ Keeps(q, r) /\ q.tx = r.tx
        /\ q.answer = AnswerOf(i, r, code) /\ q.wrapped = r.wrapped
    BY <2>1, <2>2, RespondSound
  <2> QED
    BY <2>3 DEF inc, table, logged
<1>2. q.answer # None /\ q.answer.code = code
  BY <1>1, AnswerType
<1>3. requests' = [requests EXCEPT ![i] = q]
  BY DEF Respond, Answered, AnswerOf
<1>4. background' = background \cup (IF r.route.audited THEN {<<"audit", i>>} ELSE {})
                               \cup (IF Stored(r, code) THEN {<<"row", i>>} ELSE {})
  BY DEF Respond
<1>5. ASSUME NEW j, <<"row", j>> \in background', <<"row", j>> \notin background
      PROVE  j = i /\ Stored(r, code)
  BY <1>4, <1>5
<1>6. Stored(r, code) => r.key \in Keys /\ pool = TRUE
  BY DEF Stored, OnRoute, Request
<1> HIDE DEF q
<1>7. Keeps(q, requests[i])
  BY <1>1 DEF Keeps
<1>8. Effect(i, q)
  BY <1>1, <1>2, <1>3, <1>5, <1>6, <1>7 DEF Effect, Keeps
<1> QED
  BY <1>8 DEF Changes

\* An await that has returned, as a step of the server.
LEMMA ContinueChanges ==
    ASSUME NEW i \in Nat, NEW r, Continue(i, r), Ready(i, r, Included, rows, Logged'),
           Keeps(r, requests[i]), pool \in BOOLEAN,
           requests[i].tx = "included" => r.tx = "included"
    PROVE  Changes(i)
<1> DEFINE q == Advanced(i, r)
<1>1. /\ Sound(i, q, Included, rows, Logged') /\ Keeps(q, r) /\ q.tx = r.tx
      /\ q.wrapped = r.wrapped /\ (Len(r.todo) # 1 => q.answer = None)
      /\ Len(r.todo) = 1 /\ Logs(r.route) => i \in Logged'
  <2> DEFINE inc == Included
             table == rows
             logged == Logged'
  <2>1. Ready(i, r, inc, table, logged)
    OBVIOUS
  <2> HIDE DEF inc, table, logged
  <2>2. /\ Sound(i, q, inc, table, logged) /\ Keeps(q, r) /\ q.tx = r.tx
        /\ q.wrapped = r.wrapped /\ (Len(r.todo) # 1 => q.answer = None)
        /\ Len(r.todo) = 1 /\ Logs(r.route) => i \in logged
    BY <2>1, AdvanceSound
  <2> QED
    BY <2>2 DEF inc, table, logged
<1>2. CASE Len(r.todo) = 1
  <2>1. Respond(i, r, 200)
    BY <1>2 DEF Continue
  <2>2. In(r.todo) = {Head(r.todo)}
    BY <1>2 DEF Ready, Request, In
  <2>3. /\ r \in Request /\ OnRoute(r) /\ (r.tx = "included" => i \in Included)
        /\ Submits(r.route) /\ ~r.route.swallows => r.tx = "included"
        /\ Logs(r.route) => i \in Logged'
        /\ r.seen # None => r.key \in Keys /\ rows[r.key] = r.seen /\ r.blind
    BY <1>1, <1>2, <2>2 DEF Ready
  <2> QED
    BY <2>1, <2>3, RespondChanges
<1>3. CASE Len(r.todo) # 1
  <2>1. requests' = [requests EXCEPT ![i] = q] /\ background' = background
    BY <1>3 DEF Continue, Advanced, Stepped
  <2> HIDE DEF q
  <2>2. Keeps(q, requests[i])
    BY <1>1 DEF Keeps
  <2>3. Effect(i, q)
    BY <1>1, <1>3, <2>1, <2>2 DEF Effect
  <2> QED
    BY <2>3 DEF Changes
<1> QED
  BY <1>2, <1>3

\* A version p of request i in the hands of its handler.
Handled(i, p) ==
    /\ p \in Request /\ OnRoute(p) /\ SoundRoute(p.route) /\ p.answer = None /\ ~p.lost
    /\ Keeps(p, requests[i]) /\ pool \in BOOLEAN
    /\ requests[i].tx = "included" => p.tx = "included"
    /\ p.tx = "included" => i \in Included
    /\ p.seen # None => p.key \in Keys /\ rows[p.key] = p.seen /\ p.blind

\* What is known of a request at an await.
LEMMA AtFacts ==
    ASSUME ApiInv, NEW i \in 1..Len(requests), NEW h, At(i, h)
    PROVE  LET r == requests[i]
           IN  /\ r \in Request /\ OnRoute(r) /\ Unsent(r) /\ SoundRoute(r.route)
               /\ r.answer = None /\ ~r.lost /\ Head(r.todo) = h /\ h \in In(r.todo)
               /\ h \in Ahead(r.route) /\ Keeps(r, r) /\ pool \in BOOLEAN
               /\ r.tx = "included" => i \in Included
               /\ Paid(r, Included) /\ Noted(i, r, Logged) /\ Replayed(r, rows)
               /\ h \notin {"admit", "lookup"} => Handled(i, r)
<1> DEFINE r == requests[i]
<1>1. /\ r \in Request /\ OnRoute(r) /\ Unsent(r)
      /\ Paid(r, Included) /\ Noted(i, r, Logged) /\ Replayed(r, rows)
  BY DEF ApiInv, RequestsOK, Sound
<1>2. r.answer = None /\ ~r.lost /\ Head(r.todo) = h
  BY DEF At, InFlight
<1>3. r.tx = "included" => i \in Included
  BY DEF Included
<1>4. pool \in BOOLEAN
  BY DEF ApiInv, ChainOK
<1> HIDE DEF r
<1>5. r.route \in Routes /\ r.todo \in Seq(Awaits) /\ Len(r.todo) > 0
  BY <1>1 DEF Request, OnRoute
<1>6. SoundRoute(r.route)
  BY <1>5, RoutesSound
<1>7. h = r.todo[1] /\ 1 \in 1..Len(r.todo)
  BY <1>2, <1>5
<1>8. h \in In(r.todo)
  BY <1>7 DEF In
<1>9. h \in Ahead(r.route)
  BY <1>1, <1>8 DEF OnRoute
<1>10. Keeps(r, r)
  BY DEF Keeps
<1>11. ASSUME h \notin {"admit", "lookup"} PROVE Handled(i, r)
  <2>1. r.seen # None => r.key \in Keys /\ rows[r.key] = r.seen /\ r.blind
    BY <1>1, <1>2, <1>7, <1>11 DEF Replayed, Looking
  <2> QED
    BY <1>1, <1>2, <1>3, <1>4, <1>6, <1>10, <2>1 DEF Handled, r
<1> QED
  BY <1>1, <1>2, <1>3, <1>4, <1>6, <1>8, <1>9, <1>10, <1>11 DEF r

\* After any await but the look-up a request may go on, provided that a
\* submission looked for is included and an action to be logged is.
LEMMA GoesOn ==
    ASSUME ApiInv, NEW i \in 1..Len(requests), NEW h, At(i, h), h # "lookup",
           Continue(i, requests[i]), Logged \subseteq Logged',
           h = "confirm" => requests[i].tx = "included", h = "log" => i \in Logged'
    PROVE  Changes(i)
<1> DEFINE r == requests[i]
<1>1. /\ r \in Request /\ OnRoute(r) /\ Unsent(r) /\ r.answer = None /\ ~r.lost
      /\ Head(r.todo) = h /\ Keeps(r, r) /\ pool \in BOOLEAN
      /\ r.tx = "included" => i \in Included
      /\ Paid(r, Included) /\ Noted(i, r, Logged) /\ Replayed(r, rows)
  BY AtFacts
<1>2. r.todo \in Seq(Awaits) /\ Len(r.todo) > 0
  BY <1>1 DEF Request, OnRoute
<1> HIDE DEF r
<1>3. Head(r.todo) = r.todo[1]
  BY <1>2
<1>4. Submits(r.route) /\ ~r.route.swallows
        => r.tx = "included" \/ ("confirm" \in In(r.todo) /\ Head(r.todo) # "confirm")
  BY <1>1 DEF Paid, r
<1>5. Logs(r.route) => i \in Logged' \/ ("log" \in In(r.todo) /\ Head(r.todo) # "log")
  BY <1>1 DEF Noted
<1>6. "send" \in In(r.todo) => r.tx = "none"
  BY <1>1 DEF Unsent
<1>7. r.seen # None =>
        /\ r.key \in Keys /\ rows[r.key] = r.seen
        /\ \/ r.blind
           \/ r.tx = "none" /\ Head(r.todo) = "admit" /\ Len(r.todo) > 1 /\ r.todo[2] = "lookup"
  BY <1>1, <1>3 DEF Replayed, Looking
<1>8. Ready(i, r, Included, rows, Logged')
  BY <1>1, <1>4, <1>5, <1>6, <1>7 DEF Ready
<1>9. Continue(i, r) /\ Keeps(r, requests[i]) /\ (requests[i].tx = "included" => r.tx = "included")
  BY <1>1 DEF r
<1> QED
  BY <1>1, <1>8, <1>9, ContinueChanges

\* An answer that is no success, or one of a route that neither submits nor logs.
LEMMA Responds ==
    ASSUME NEW i \in Nat, NEW p, Handled(i, p), NEW code \in Nat, Respond(i, p, code),
           code = 200 => ~Submits(p.route) /\ ~Logs(p.route)
    PROVE  Changes(i)
<1>1. /\ p \in Request /\ OnRoute(p) /\ Keeps(p, requests[i]) /\ pool \in BOOLEAN
      /\ requests[i].tx = "included" => p.tx = "included"
      /\ p.tx = "included" => i \in Included
      /\ p.seen # None => p.key \in Keys /\ rows[p.key] = p.seen /\ p.blind
  BY DEF Handled
<1> QED
  BY <1>1, RespondChanges

\* What errorHandler answers is never a success.
LEMMA Errors ==
    ASSUME NEW i \in Nat, NEW p, Handled(i, p), errorHandler(i, p)
    PROVE  Changes(i)
<1>1. PICK code \in {400, 500} : Respond(i, p, code)
  BY DEF errorHandler
<1>2. code \in Nat /\ code # 200
  OBVIOUS
<1> QED
  BY <1>1, <1>2, Responds

\* A failed submission: an error, or on to the log.
LEMMA Fails ==
    ASSUME NEW i \in Nat, NEW p, Handled(i, p), Fail(i, p)
    PROVE  Changes(i)
<1>1. CASE ~p.route.swallows
  BY <1>1, Errors DEF Fail
<1>2. CASE p.route.swallows
  <2> DEFINE t == <<"confirm", "log">>
             q == [p EXCEPT !.todo = t]
  <2>1. Continue(i, q)
    BY <1>2 DEF Fail
  <2>2. t \in Seq(Awaits) /\ In(t) = {"confirm", "log"} /\ Len(t) = 2 /\ Head(t) = "confirm"
    <3>1. "confirm" \in Awaits /\ "log" \in Awaits
      BY DEF Awaits
    <3> QED
      BY <3>1, ListsIn
  <2>3. Once(t)
    BY <2>2, NeverOnce
  <2> HIDE DEF t
  <2>4. p \in Request /\ q = [p EXCEPT !.todo = t]
    BY DEF Handled
  <2> HIDE DEF q
  <2>5. /\ q \in Request /\ Keeps(q, p) /\ q.answer = p.answer /\ q.todo = t /\ q.tx = p.tx
        /\ q.blind = p.blind /\ q.wrapped = p.wrapped
    BY <2>2, <2>4, SteppedIs
  <2>6. q.route.swallows /\ In(q.todo) \subseteq Ahead(q.route)
    BY <1>2, <2>2, <2>5 DEF Keeps, Ahead
  <2>7. OnRoute(q)
    <3>1. (p.key # None => p.route.idem) /\ (p.wrapped => p.key # None)
      BY DEF Handled, OnRoute
    <3>2. Len(t) > 0
      BY <2>2
    <3>3. Len(q.todo) > 0 /\ Once(q.todo)
      BY <2>3, <2>5, <3>2, Zenon
    <3> QED
      BY <2>5, <2>6, <3>1, <3>3 DEF OnRoute, Keeps
  <2>8. Ready(i, q, Included, rows, Logged')
    BY <2>2, <2>5, <2>6, <2>7 DEF Handled, Ready, Keeps
  <2>9. /\ Keeps(q, requests[i]) /\ pool \in BOOLEAN
        /\ requests[i].tx = "included" => q.tx = "included"
    BY <2>5 DEF Handled, Keeps
  <2> QED
    BY <2>1, <2>8, <2>9, ContinueChanges
<1> QED
  BY <1>1, <1>2

-----------------------------------------------------------------------------
(* The awaits, one by one.                                                 *)

\* An answer in front of the handler changes nothing but the request.
LEMMA Refuses ==
    ASSUME NEW i \in Nat, NEW a \in Answer, Refuse(i, a), requests[i] \in Request,
           OnRoute(requests[i]), requests[i].answer = None, Replayed(requests[i], rows),
           Submits(requests[i].route) /\ ~requests[i].route.swallows => Backed(a, Included),
           Logs(requests[i].route) => a.code # 200,
           requests[i].seen # None /\ ~requests[i].blind
             => a.code = 401 \/ a = Replay(requests[i].seen, requests[i].body)
    PROVE  Changes(i)
<1> DEFINE r == requests[i]
           q == [r EXCEPT !.answer = a]
<1>1. /\ q \in Request /\ Keeps(q, r) /\ q.answer = a /\ q.todo = r.todo /\ q.tx = r.tx
      /\ q.blind = r.blind /\ q.wrapped = r.wrapped
  BY AnsweredIs
<1>2. requests' = [requests EXCEPT ![i] = q] /\ background' = background
  BY DEF Refuse
<1>3. a # None
  BY ApiAssumption DEF Answer
<1>4. /\ OnRoute(r) /\ Replayed(r, rows) /\ r.answer = None
      /\ Submits(r.route) /\ ~r.route.swallows => Backed(a, Included)
      /\ Logs(r.route) => a.code # 200
      /\ r.seen # None /\ ~r.blind => a.code = 401 \/ a = Replay(r.seen, r.body)
  OBVIOUS
<1>5. Keeps(q, requests[i]) /\ (requests[i].tx = "included" => q.tx = "included")
  BY <1>1
<1> HIDE DEF q, r
<1>6. OnRoute(q) /\ Unsent(q)
  BY <1>1, <1>3, <1>4 DEF OnRoute, Unsent, Keeps
<1>7. Paid(q, Included)
  BY <1>1, <1>3, <1>4 DEF Paid, Keeps
<1>8. Noted(i, q, Logged')
  BY <1>1, <1>3 DEF Noted
<1>9. Replayed(q, rows)
  BY <1>1, <1>3, <1>4 DEF Replayed, Keeps
<1>10. Sound(i, q, Included, rows, Logged')
  BY <1>1, <1>6, <1>7, <1>8, <1>9 DEF Sound
<1>11. Effect(i, q)
  BY <1>1, <1>2, <1>4, <1>5, <1>10 DEF Effect, Keeps
<1> QED
  BY <1>11 DEF Changes

\* A request is let in or refused.
LEMMA AdmitChanges ==
    ASSUME ApiInv, NEW i \in 1..Len(requests), admit(i)
    PROVE  Changes(i)
<1>1. At(i, "admit") /\ Logged' = Logged /\ i \in Nat
  BY DEF admit, Logged
<1>2. CASE Continue(i, requests[i])
  BY <1>1, <1>2, GoesOn
<1>3. CASE Refuse(i, [code |-> 401, tx |-> None])
  <2> DEFINE a == [code |-> 401, tx |-> None]
  <2>1. a \in Answer /\ a.code = 401
    BY DEF Answer
  <2>2. Refuse(i, a)
    BY <1>3
  <2> HIDE DEF a
  <2>3. Backed(a, Included) /\ a.code # 200
    BY <2>1 DEF Backed
  <2>4. /\ requests[i] \in Request /\ OnRoute(requests[i]) /\ requests[i].answer = None
        /\ Replayed(requests[i], rows)
    BY <1>1, AtFacts
  <2> QED
    BY <1>1, <2>1, <2>2, <2>3, <2>4, Refuses
<1> QED
  BY <1>2, <1>3 DEF admit

\* The fields of a request whose look-up is over, or whose transaction is sent.
LEMMA PatchedIs ==
    ASSUME NEW r \in Request
    PROVE  /\ LET q == [r EXCEPT !.wrapped = TRUE]
              IN  /\ q \in Request /\ Keeps(q, r) /\ q.answer = r.answer /\ q.todo = r.todo /\ q.tx = r.tx
                  /\ q.blind = r.blind
           /\ LET q == [r EXCEPT !.blind = TRUE]
              IN  /\ q \in Request /\ Keeps(q, r) /\ q.answer = r.answer /\ q.todo = r.todo /\ q.tx = r.tx
                  /\ q.blind /\ q.wrapped = r.wrapped
           /\ LET q == [r EXCEPT !.tx = "sent"]
              IN  /\ q \in Request /\ Keeps(q, r) /\ q.answer = r.answer /\ q.todo = r.todo /\ q.tx = "sent"
                  /\ q.blind = r.blind /\ q.wrapped = r.wrapped
           /\ \A v \in Nat \cup {None} :
                 LET q == [r EXCEPT !.got = v]
                 IN  /\ q \in Request /\ Keeps(q, r) /\ q.answer = r.answer /\ q.todo = r.todo
                     /\ q.tx = r.tx /\ q.blind = r.blind /\ q.wrapped = r.wrapped
<1>1. LET q == [r EXCEPT !.wrapped = TRUE]
      IN  /\ q \in Request /\ Keeps(q, r) /\ q.answer = r.answer /\ q.todo = r.todo /\ q.tx = r.tx
          /\ q.blind = r.blind
  BY DEF Request, Keeps
<1>2. LET q == [r EXCEPT !.blind = TRUE]
      IN  /\ q \in Request /\ Keeps(q, r) /\ q.answer = r.answer /\ q.todo = r.todo /\ q.tx = r.tx
          /\ q.blind /\ q.wrapped = r.wrapped
  BY DEF Request, Keeps
<1>3. LET q == [r EXCEPT !.tx = "sent"]
      IN  /\ q \in Request /\ Keeps(q, r) /\ q.answer = r.answer /\ q.todo = r.todo /\ q.tx = "sent"
          /\ q.blind = r.blind /\ q.wrapped = r.wrapped
  BY DEF Request, Keeps
<1>4. ASSUME NEW v \in Nat \cup {None}
      PROVE  LET q == [r EXCEPT !.got = v]
             IN  /\ q \in Request /\ Keeps(q, r) /\ q.answer = r.answer /\ q.todo = r.todo
                 /\ q.tx = r.tx /\ q.blind = r.blind /\ q.wrapped = r.wrapped
  BY DEF Request, Keeps
<1> QED
  BY <1>1, <1>2, <1>3, <1>4

\* On an idempotent route a version of the request that is not to be replayed
\* goes on from the look-up.
LEMMA LookupGoesOn ==
    ASSUME ApiInv, NEW i \in 1..Len(requests), At(i, "lookup"), Logged' = Logged,
           NEW q \in Request, Keeps(q, requests[i]), q.answer = requests[i].answer,
           q.todo = requests[i].todo, q.tx = requests[i].tx, q.wrapped => q.key # None,
           q.seen # None => q.blind, Continue(i, q)
    PROVE  Changes(i)
<1> DEFINE r == requests[i]
<1>1. /\ r \in Request /\ OnRoute(r) /\ Unsent(r) /\ SoundRoute(r.route)
      /\ r.answer = None /\ ~r.lost /\ Head(r.todo) = "lookup" /\ "lookup" \in Ahead(r.route)
      /\ r.tx = "included" => i \in Included
      /\ pool \in BOOLEAN /\ Paid(r, Included) /\ Replayed(r, rows)
  BY AtFacts
<1>2. /\ Keeps(q, r) /\ q.answer = r.answer /\ q.todo = r.todo /\ q.tx = r.tx
      /\ requests[i].tx = "included" => q.tx = "included"
  OBVIOUS
<1> HIDE DEF r
<1>3. r.route.idem /\ ~Logs(r.route)
  BY <1>1 DEF Ahead, SoundRoute
<1>4. OnRoute(q)
  BY <1>1, <1>2 DEF OnRoute, Keeps
<1>5. Submits(q.route) /\ ~q.route.swallows => q.tx = "included" \/ "confirm" \in In(q.todo)
  BY <1>1, <1>2 DEF Paid, Keeps
<1>6. ~Logs(q.route) /\ ("send" \in In(q.todo) => q.tx = "none")
  BY <1>1, <1>2, <1>3 DEF Unsent, Keeps
<1>7. q.seen # None => q.key \in Keys /\ rows[q.key] = q.seen /\ q.blind
  BY <1>1, <1>2 DEF Replayed, Keeps
<1>8. q.answer = None /\ ~q.lost /\ Head(q.todo) = "lookup" /\ (q.tx = "included" => i \in Included)
  BY <1>1, <1>2 DEF Keeps
<1>9. Ready(i, q, Included, rows, Logged')
  BY <1>4, <1>5, <1>6, <1>7, <1>8 DEF Ready
<1>10. i \in Nat
  OBVIOUS
<1> QED
  BY <1>1, <1>2, <1>9, <1>10, ContinueChanges

\* The look-up: nothing stored, a replay, another body, or a failed query.
LEMMA LookupChanges ==
    ASSUME ApiInv, NEW i \in 1..Len(requests), lookup(i)
    PROVE  Changes(i)
<1> DEFINE r == requests[i]
<1>1. At(i, "lookup") /\ Logged' = Logged /\ i \in Nat
  BY DEF lookup, Logged
<1>2. /\ r \in Request /\ OnRoute(r) /\ SoundRoute(r.route) /\ "lookup" \in Ahead(r.route)
      /\ r.answer = None /\ Replayed(r, rows) /\ Keeps(r, r)
  BY <1>1, AtFacts
<1>3. r.key \in Keys \cup {None} /\ (r.wrapped => r.key # None)
  BY <1>2 DEF Request, OnRoute
<1>4. CASE r.key = None /\ Continue(i, r)
  <2>1. r.seen = None
    BY <1>2, <1>4, ApiAssumption DEF Replayed
  <2> QED
    BY <1>1, <1>2, <1>3, <1>4, <2>1, LookupGoesOn
<1>5. CASE /\ r.key # None /\ (pool => rows[r.key] = None)
           /\ Continue(i, [r EXCEPT !.wrapped = TRUE])
  <2>1. r.seen = None
    BY <1>2, <1>5 DEF Replayed, ApiInv, RowsOK
  <2> DEFINE q == [r EXCEPT !.wrapped = TRUE]
  <2>2. q \in Request /\ Keeps(q, r) /\ q.answer = r.answer /\ q.todo = r.todo /\ q.tx = r.tx
    BY <1>2, PatchedIs
  <2>3. Continue(i, q)
    BY <1>5
  <2> HIDE DEF q
  <2>4. q.key # None /\ q.seen = None
    BY <1>5, <2>1, <2>2 DEF Keeps
  <2> QED
    BY <1>1, <2>2, <2>3, <2>4, LookupGoesOn
<1>6. CASE /\ r.key # None /\ pool /\ rows[r.key] # None
           /\ Refuse(i, Replay(rows[r.key], r.body))
  <2> DEFINE row == rows[r.key]
             a   == Replay(row, r.body)
  <2>1. row \in Row /\ Backed(row.answer, Included)
    BY <1>3, <1>6 DEF ApiInv, RowsOK
  <2>2. r.seen # None => r.seen = row
    BY <1>2 DEF Replayed
  <2>3. ~Logs(r.route)
    BY <1>2 DEF Ahead, SoundRoute
  <2>4. Refuse(i, a) /\ (r.seen # None => a = Replay(r.seen, r.body))
    BY <1>6, <2>2
  <2> HIDE DEF row
  <2>5. a \in Answer /\ Backed(a, Included)
    BY <2>1 DEF Replay, Row, Answer, Backed
  <2> HIDE DEF a
  <2> QED
    BY <1>1, <1>2, <2>3, <2>4, <2>5, Refuses
<1>7. CASE r.key # None /\ pool /\ Continue(i, [r EXCEPT !.blind = TRUE])
  <2> DEFINE q == [r EXCEPT !.blind = TRUE]
  <2>1. /\ q \in Request /\ Keeps(q, r) /\ q.answer = r.answer /\ q.todo = r.todo /\ q.tx = r.tx
        /\ q.blind /\ q.wrapped = r.wrapped
    BY <1>2, PatchedIs
  <2>2. Continue(i, q)
    BY <1>7
  <2> HIDE DEF q
  <2>3. q.key # None
    BY <1>7, <2>1 DEF Keeps
  <2> QED
    BY <1>1, <2>1, <2>2, <2>3, LookupGoesOn
<1> QED
  BY <1>4, <1>5, <1>6, <1>7 DEF lookup

\* The submission: what is sent is still to be looked for.
LEMMA SendChanges ==
    ASSUME ApiInv, NEW i \in 1..Len(requests), send(i)
    PROVE  Changes(i)
<1> DEFINE r == requests[i]
           q == [r EXCEPT !.tx = "sent"]
<1>1. At(i, "send") /\ Logged' = Logged /\ i \in Nat
  BY DEF send, Logged
<1>2. /\ r \in Request /\ OnRoute(r) /\ Unsent(r) /\ r.answer = None /\ Head(r.todo) = "send"
      /\ "send" \in In(r.todo) /\ Paid(r, Included) /\ Noted(i, r, Logged) /\ ~r.lost
      /\ Handled(i, r)
  BY <1>1, AtFacts
<1>3. Continue(i, q) \/ Fail(i, q) \/ Fail(i, r)
  BY DEF send
<1>4. /\ q \in Request /\ Keeps(q, r) /\ q.answer = r.answer /\ q.todo = r.todo /\ q.tx = "sent"
      /\ q.blind = r.blind /\ q.wrapped = r.wrapped
  BY <1>2, PatchedIs
<1>5. r.tx = "none" /\ requests[i].tx # "included" /\ Keeps(q, requests[i])
  BY <1>2, <1>4 DEF Unsent
<1> HIDE DEF r, q
<1>6. OnRoute(q)
  BY <1>2, <1>4 DEF OnRoute, Keeps
<1>7. Handled(i, q)
  BY <1>2, <1>4, <1>5, <1>6 DEF Handled, Keeps
<1>8. Submits(q.route) /\ ~q.route.swallows => "confirm" \in In(q.todo)
  BY <1>2, <1>4, <1>5 DEF Paid, Keeps
<1>9. Logs(q.route) => i \in Logged' \/ "log" \in In(q.todo)
  BY <1>1, <1>2, <1>4 DEF Noted, Keeps
<1>10. Head(q.todo) = "send"
  BY <1>2, <1>4
<1>11. Ready(i, q, Included, rows, Logged')
  BY <1>4, <1>7, <1>8, <1>9, <1>10 DEF Ready, Handled
<1>12. CASE Continue(i, q)
  BY <1>1, <1>5, <1>7, <1>11, <1>12, ContinueChanges DEF Handled
<1> QED
  BY <1>1, <1>2, <1>3, <1>7, <1>12, Fails

\* The submission is found on the ledger, or the request fails.
LEMMA ConfirmChanges ==
    ASSUME ApiInv, NEW i \in 1..Len(requests), confirm(i)
    PROVE  Changes(i)
<1>1. At(i, "confirm") /\ Logged' = Logged /\ i \in Nat
  BY DEF confirm, Logged
<1>2. CASE Confirmed(requests[i]) /\ Continue(i, requests[i])
  <2>1. requests[i].tx = "included"
    BY <1>2 DEF Confirmed
  <2> QED
    BY <1>1, <1>2, <2>1, GoesOn
<1>3. CASE Fail(i, requests[i])
  <2>1. Handled(i, requests[i])
    BY <1>1, AtFacts
  <2> QED
    BY <1>1, <1>3, <2>1, Fails
<1> QED
  BY <1>2, <1>3 DEF confirm

\* The handlers that read: on, a client error or a throw.
LEMMA PlainChanges ==
    ASSUME ApiInv, NEW i \in 1..Len(requests), NEW h, At(i, h),
           h \notin {"admit", "lookup", "confirm", "log"}, Logged' = Logged,
           \/ Continue(i, requests[i])
           \/ \E code \in {400, 404, 500, 503} : Respond(i, requests[i], code)
           \/ errorHandler(i, requests[i])
    PROVE  Changes(i)
<1>1. i \in Nat /\ Logged \subseteq Logged'
  OBVIOUS
<1>2. Handled(i, requests[i])
  BY AtFacts
<1>3. CASE Continue(i, requests[i])
  BY <1>1, <1>3, GoesOn
<1>4. ASSUME NEW code \in {400, 404, 500, 503}, Respond(i, requests[i], code) PROVE Changes(i)
  <2>1. code \in Nat /\ code # 200
    OBVIOUS
  <2> QED
    BY <1>1, <1>2, <1>4, <2>1, Responds
<1>5. CASE errorHandler(i, requests[i])
  BY <1>1, <1>2, <1>5, Errors
<1> QED
  BY <1>3, <1>4, <1>5

\* Checks of the input, reads of the chain and queries.
LEMMA ReadChanges ==
    ASSUME ApiInv, NEW i \in 1..Len(requests),
           validate(i) \/ read(i) \/ read_active(i) \/ query(i)
    PROVE  Changes(i)
<1>1. CASE validate(i)
  <2>1. /\ At(i, "validate") /\ Logged' = Logged
        /\ Continue(i, requests[i]) \/ Respond(i, requests[i], 400)
    BY <1>1 DEF validate, Logged
  <2> QED
    BY <2>1, PlainChanges
<1>2. CASE read(i)
  <2>1. /\ At(i, "read") /\ Logged' = Logged
        /\ Continue(i, requests[i]) \/ errorHandler(i, requests[i])
    BY <1>2 DEF read, Logged
  <2> QED
    BY <2>1, PlainChanges
<1>3. CASE read_active(i)
  <2>1. /\ At(i, "read_active") /\ Logged' = Logged
        /\ \/ Continue(i, requests[i]) \/ errorHandler(i, requests[i])
           \/ Respond(i, requests[i], 400) \/ Respond(i, requests[i], 404)
    BY <1>3 DEF read_active, Logged
  <2> QED
    BY <2>1, PlainChanges
<1>4. CASE query(i)
  <2>1. PICK h \in {"db", "db_or_not", "read_log", "erase", "mail"} :
          /\ At(i, h)
          /\ \/ Continue(i, requests[i]) \/ Respond(i, requests[i], 400)
             \/ Respond(i, requests[i], 404) \/ Respond(i, requests[i], 500)
    BY <1>4 DEF query
  <2>2. Logged' = Logged
    BY <1>4 DEF query, Logged
  <2> QED
    BY <2>1, <2>2, PlainChanges
<1> QED
  BY <1>1, <1>2, <1>3, <1>4

\* Entries written to the cache and taken out of it.
LEMMA CacheChanges ==
    ASSUME ApiInv, NEW i \in 1..Len(requests), setStream(i) \/ invalidateStream(i)
    PROVE  Changes(i)
<1>1. Logged' = Logged /\ Continue(i, requests[i]) /\ (At(i, "cache_set") \/ At(i, "cache_del"))
  BY DEF setStream, invalidateStream, Logged
<1> QED
  BY <1>1, PlainChanges

\* The record fetched is no part of what is proved of a request.
LEMMA GotHandled ==
    ASSUME NEW i, NEW r, Handled(i, r), NEW v \in Nat \cup {None}
    PROVE  /\ Handled(i, [r EXCEPT !.got = v]) /\ Keeps([r EXCEPT !.got = v], r)
           /\ [r EXCEPT !.got = v].todo = r.todo /\ [r EXCEPT !.got = v].tx = r.tx
<1> DEFINE q == [r EXCEPT !.got = v]
<1>1. r \in Request
  BY DEF Handled
<1>2. /\ q \in Request /\ Keeps(q, r) /\ q.answer = r.answer /\ q.todo = r.todo
      /\ q.tx = r.tx /\ q.blind = r.blind /\ q.wrapped = r.wrapped
  BY <1>1, PatchedIs
<1> HIDE DEF q
<1>3. OnRoute(q)
  BY <1>2 DEF Handled, OnRoute, Keeps
<1>4. Handled(i, q)
  BY <1>2, <1>3 DEF Handled, Keeps
<1> QED
  BY <1>2, <1>4 DEF q

\* A stream read from the chain.
LEMMA ReadStreamChanges ==
    ASSUME ApiInv, NEW i \in 1..Len(requests), read_stream(i)
    PROVE  Changes(i)
<1> DEFINE r == requests[i]
           v == streams[r.stream].version
           q == [r EXCEPT !.got = v]
<1>1. At(i, "read_stream") /\ Logged' = Logged /\ (Continue(i, q) \/ errorHandler(i, r))
  BY DEF read_stream, Logged
<1>2. /\ r \in Request /\ Unsent(r) /\ r.answer = None /\ Head(r.todo) = "read_stream"
      /\ Paid(r, Included) /\ Noted(i, r, Logged) /\ ~r.lost /\ Handled(i, r)
  BY <1>1, AtFacts
<1>3. CASE errorHandler(i, r)
  BY <1>1, <1>2, <1>3, PlainChanges
<1>4. CASE Continue(i, q)
  <2>1. v \in Nat \cup {None}
    BY <1>2 DEF ApiInv, ChainOK, Request
  <2> HIDE DEF v
  <2>2. Handled(i, q) /\ Keeps(q, r) /\ q.todo = r.todo /\ q.tx = r.tx
    BY <1>2, <2>1, GotHandled
  <2>3. requests[i].tx = "included" => q.tx = "included"
    BY <2>2
  <2>4. Keeps(q, requests[i]) /\ pool \in BOOLEAN
    BY <2>2 DEF Handled
  <2> HIDE DEF r, q
  <2>5. Ready(i, q, Included, rows, Logged')
    BY <1>1, <1>2, <2>2 DEF Handled, Ready, Paid, Noted, Unsent, Keeps
  <2> QED
    BY <1>4, <2>3, <2>4, <2>5, ContinueChanges
<1> QED
  BY <1>1, <1>3, <1>4

\* Answers from the cache and of the probe: on routes that neither submit nor log.
LEMMA AnswersChanges ==
    ASSUME ApiInv, NEW i \in 1..Len(requests), getStream(i) \/ checkReadiness(i)
    PROVE  Changes(i)
<1> DEFINE r == requests[i]
<1>1. i \in Nat
  OBVIOUS
<1>2. ASSUME NEW h \in {"cache_get", "probe"}, At(i, h)
      PROVE  Handled(i, r) /\ ~Submits(r.route) /\ ~Logs(r.route)
  <2>1. Handled(i, r) /\ SoundRoute(r.route) /\ h \in Ahead(r.route)
    BY <1>2, AtFacts
  <2>2. h \in In(r.route.awaits)
    BY <2>1 DEF Ahead
  <2> QED
    BY <2>1, <2>2 DEF SoundRoute
<1>3. CASE getStream(i)
  <2>1. At(i, "cache_get") /\ Logged' = Logged
    BY <1>3 DEF getStream, Logged
  <2>2. CASE Continue(i, r)
    BY <2>1, <2>2, PlainChanges
  <2>3. CASE cache[r.stream] # None /\ Respond(i, [r EXCEPT !.got = cache[r.stream].version], 200)
    <3> DEFINE v == cache[r.stream].version
               q == [r EXCEPT !.got = v]
    <3>1. Handled(i, r) /\ ~Submits(r.route) /\ ~Logs(r.route)
      BY <1>2, <2>1
    <3>2. v \in Nat \cup {None}
      BY <2>3, <3>1 DEF ApiInv, ChainOK, Handled, Request
    <3>3. Respond(i, q, 200)
      BY <2>3
    <3> HIDE DEF v
    <3>4. Handled(i, q) /\ Keeps(q, r)
      BY <3>1, <3>2, GotHandled
    <3> HIDE DEF q, r
    <3>5. ~Submits(q.route) /\ ~Logs(q.route)
      BY <3>1, <3>4 DEF Keeps
    <3> QED
      BY <1>1, <3>3, <3>4, <3>5, Responds
  <2> QED
    BY <1>3, <2>2, <2>3 DEF getStream
<1>4. CASE checkReadiness(i)
  <2>1. PICK code \in {200, 503} : Respond(i, r, code)
    BY <1>4 DEF checkReadiness
  <2>2. Handled(i, r) /\ ~Submits(r.route) /\ ~Logs(r.route)
    BY <1>2, <1>4 DEF checkReadiness
  <2>3. code \in Nat
    OBVIOUS
  <2> QED
    BY <1>1, <2>1, <2>2, <2>3, Responds
<1> QED
  BY <1>3, <1>4

\* An admin action recorded.
LEMMA LogChanges ==
    ASSUME ApiInv, NEW i \in 1..Len(requests), logAdminAction(i)
    PROVE  Changes(i)
<1>1. At(i, "log") /\ Continue(i, requests[i])
  BY DEF logAdminAction
<1>2. i \in Logged' /\ Logged \subseteq Logged'
  BY DEF logAdminAction, Recorded, Logged
<1> QED
  BY <1>1, <1>2, GoesOn

\* Every await.
LEMMA HandlerChanges ==
    ASSUME ApiInv, NEW i \in 1..Len(requests), HandlerStep(i)
    PROVE  /\ Changes(i) /\ Logged \subseteq Logged' /\ phase \in {"up", "stopping", "late"}
           /\ UNCHANGED <<process, streams, rows>>
<1>1. Changes(i)
  BY AdmitChanges, LookupChanges, SendChanges, ConfirmChanges, ReadChanges, CacheChanges,
     ReadStreamChanges, AnswersChanges, LogChanges DEF HandlerStep
<1>2. /\ Logged \subseteq Logged' /\ phase \in {"up", "stopping", "late"}
      /\ UNCHANGED <<process, streams, rows>>
  BY DEF HandlerStep, admit, lookup, validate, send, confirm, read, read_stream, read_active,
         getStream, setStream, invalidateStream, logAdminAction, Recorded, query, checkReadiness,
         At, Logged
<1> QED
  BY <1>1, <1>2

-----------------------------------------------------------------------------
(* The invariant is kept.                                                  *)

\* One request changed, as an await or the chain changes it.
LEMMA OneRequest ==
    ASSUME ApiInv, NEW i \in 1..Len(requests), NEW q,
           requests' = [requests EXCEPT ![i] = q], Sound(i, q, Included, rows, Logged'),
           requests[i].tx = "included" => q.tx = "included",
           Logged \subseteq Logged', rows' = rows, pool' = pool
    PROVE  RequestsOK' /\ RowsOK' /\ Len(requests') = Len(requests) /\ requests'[i] = q
           /\ \A j \in 1..Len(requests) : j # i => requests'[j] = requests[j]
<1>1. requests \in Seq(Request) /\ q \in Request
  BY DEF ApiInv, RequestsOK, Sound
<1>2. /\ requests' \in Seq(Request) /\ Len(requests') = Len(requests) /\ requests'[i] = q
      /\ \A j \in 1..Len(requests) : j # i => requests'[j] = requests[j]
  BY <1>1
<1>3. Included \subseteq Included'
  BY <1>2 DEF Included
<1>4. ASSUME NEW j \in 1..Len(requests)
      PROVE  Sound(j, requests'[j], Included', rows', Logged')
  <2> DEFINE r == requests'[j]
             inc == Included
             inc2 == Included'
             logged == Logged
             logged2 == Logged'
             table == rows
             table2 == rows'
  <2>1. inc \subseteq inc2 /\ logged \subseteq logged2 /\ table2 = table
    BY <1>3
  <2>2. Sound(j, r, inc, table, logged) \/ Sound(j, r, inc, table, logged2)
    BY <1>2 DEF ApiInv, RequestsOK
  <2> HIDE DEF r, inc, inc2, logged, logged2, table, table2
  <2>3. Sound(j, r, inc2, table2, logged2)
    BY <2>1, <2>2, SoundGrows
  <2> QED
    BY <2>3 DEF r, inc2, table2, logged2
<1>5. RequestsOK'
  BY <1>2, <1>4 DEF RequestsOK
<1>6. RowsOK'
  BY <1>3 DEF ApiInv, RowsOK, Backed
<1> QED
  BY <1>2, <1>5, <1>6

\* What an await leaves in the cache.
LEMMA CacheType ==
    ASSUME ApiInv, NEW i \in 1..Len(requests), HandlerStep(i)
    PROVE  cache' \in [Streams -> [version: Nat \cup {None}, expires: BOOLEAN] \cup {None}]
<1> DEFINE r == requests[i]
           T == [version: Nat \cup {None}, expires: BOOLEAN] \cup {None}
<1>1. cache \in [Streams -> T] /\ r \in Request
  BY DEF ApiInv, ChainOK, RequestsOK, Sound
<1>2. Entry(r.got) \in T /\ None \in T
  BY <1>1 DEF Entry, Request
<1>3. cache' \in {cache, [cache EXCEPT ![r.stream] = Entry(r.got)], [cache EXCEPT ![r.stream] = None]}
  BY DEF HandlerStep, admit, lookup, validate, send, confirm, read, read_stream, read_active,
         getStream, setStream, invalidateStream, logAdminAction, query, checkReadiness
<1> HIDE DEF T
<1>4. cache' \in [Streams -> T]
  BY <1>1, <1>2, <1>3
<1> QED
  BY <1>4 DEF T

\* Every await keeps the invariant.
LEMMA HandlerKeeps ==
    ASSUME ApiInv, NEW i \in 1..Len(requests), HandlerStep(i)
    PROVE  ApiInv'
<1>1. /\ Changes(i) /\ Logged \subseteq Logged' /\ phase \in {"up", "stopping", "late"}
      /\ UNCHANGED <<process, streams, rows>>
  BY HandlerChanges
<1>2. PICK q : Effect(i, q)
  BY <1>1 DEF Changes
<1>3. pool' = pool /\ phase' = phase /\ workload' = workload /\ streams' = streams /\ rows' = rows
  BY <1>1 DEF process
<1>4. /\ RequestsOK' /\ RowsOK' /\ Len(requests') = Len(requests) /\ requests'[i] = q
      /\ \A j \in 1..Len(requests) : j # i => requests'[j] = requests[j]
  <2>1. /\ requests' = [requests EXCEPT ![i] = q] /\ Sound(i, q, Included, rows, Logged')
        /\ requests[i].tx = "included" => q.tx = "included"
    BY <1>2 DEF Effect
  <2> QED
    BY <1>1, <1>3, <2>1, OneRequest
<1>5. ChainOK'
  BY <1>3, CacheType DEF ApiInv, ChainOK
<1>6. PhaseOK'
  BY <1>1, <1>3 DEF PhaseOK
<1>7. InsertsOK'
  <2> SUFFICES ASSUME NEW j, <<"row", j>> \in background'
               PROVE  /\ j \in 1..Len(requests') /\ requests'[j].answer # None
                      /\ requests'[j].key \in Keys /\ pool' = TRUE
    BY DEF InsertsOK
  <2>1. CASE j = i /\ q.answer # None /\ q.key \in Keys /\ pool = TRUE
    BY <1>3, <1>4, <2>1
  <2>2. CASE <<"row", j>> \in background
    <3>1. /\ j \in 1..Len(requests) /\ requests[j].answer # None
          /\ requests[j].key \in Keys /\ pool = TRUE
      BY <2>2 DEF ApiInv, InsertsOK
    <3>2. InFlight(i)
      BY DEF HandlerStep, admit, lookup, validate, send, confirm, read, read_stream, read_active,
             getStream, setStream, invalidateStream, logAdminAction, query, checkReadiness, At
    <3>3. j # i
      BY <3>1, <3>2 DEF InFlight
    <3> QED
      BY <1>3, <1>4, <3>1, <3>3
  <2> QED
    BY <1>2, <2>1, <2>2 DEF Effect
<1> QED
  BY <1>4, <1>5, <1>6, <1>7 DEF ApiInv

\* A request as it arrives.
LEMMA NewSound ==
    ASSUME ApiInv, NEW i, NEW route \in Routes, NEW st \in Streams, NEW key \in Keys \cup {None},
           NEW body \in Bodies, key # None => route.idem
    PROVE  /\ Sound(i, NewRequest(route, st, key, body), Included, rows, Logged)
           /\ NewRequest(route, st, key, body).tx = "none"
           /\ NewRequest(route, st, key, body).answer = None
<1> DEFINE first  == <<"admit">>
           second == IF route.idem THEN <<"lookup">> ELSE <<>>
           front  == first \o second
           todo   == front \o route.awaits
           seen   == IF key = None THEN None ELSE rows[key]
           r      == NewRequest(route, st, key, body)
<1>1. SoundRoute(route) /\ route.awaits \in Seq(Awaits) /\ route.idem \in BOOLEAN
  BY RoutesSound DEF SoundRoute, RouteRecord
<1>0. "admit" \in Awaits /\ "lookup" \in Awaits
  BY DEF Awaits
<1>2. first \in Seq(Awaits) /\ In(first) = {"admit"} /\ Len(first) = 1
  BY <1>0, ListsIn
<1>3. /\ second \in Seq(Awaits) /\ In(second) = (IF route.idem THEN {"lookup"} ELSE {})
      /\ Len(second) = IF route.idem THEN 1 ELSE 0
  <2>1. <<"lookup">> \in Seq(Awaits) /\ In(<<"lookup">>) = {"lookup"} /\ Len(<<"lookup">>) = 1
    BY <1>0, ListsIn
  <2>2. CASE route.idem
    BY <2>1, <2>2
  <2>3. CASE ~route.idem
    BY <2>3, ListsIn
  <2> QED
    BY <2>2, <2>3
<1>4. first[1] = "admit" /\ (route.idem => second[1] = "lookup")
  OBVIOUS
<1>5. r = [route |-> route, stream |-> st, key |-> key, body |-> body, todo |-> todo,
           tx |-> "none", got |-> None, wrapped |-> FALSE, answer |-> None, lost |-> FALSE,
           seen |-> seen, blind |-> FALSE]
  BY DEF NewRequest
<1> HIDE DEF first, second
<1>6. /\ front \in Seq(Awaits) /\ In(front) = In(first) \cup In(second)
      /\ Len(front) = Len(first) + Len(second)
  BY <1>2, <1>3, ConcatIn
<1>7. front[1] = "admit" /\ (route.idem => front[2] = "lookup" /\ Len(front) = 2)
  <2>1. front[1] = "admit"
    BY <1>2, <1>3, <1>4
  <2>2. ASSUME route.idem PROVE front[2] = "lookup" /\ Len(front) = 2
    <3>1. second \in Seq(Awaits) /\ Len(second) = 1 /\ second[1] = "lookup"
      BY <1>3, <1>4, <2>2
    <3>2. first \in Seq(Awaits) /\ Len(first) = 1
      BY <1>2
    <3>3. \A k \in 1..Len(second) : (first \o second)[Len(first) + k] = second[k]
      BY <3>1, <3>2, ConcatAt
    <3>4. 1 \in 1..Len(second) /\ Len(first) + 1 = 2
      BY <3>1, <3>2
    <3>5. (first \o second)[2] = second[1]
      BY <3>3, <3>4
    <3>6. Len(front) = 2
      BY <1>6, <3>1, <3>2
    <3> QED
      BY <3>1, <3>5, <3>6
  <2> QED
    BY <2>1, <2>2
<1>8. Len(front) > 0 /\ "send" \notin In(front)
  <2>1. Len(front) > 0
    BY <1>2, <1>3, <1>6
  <2> QED
    BY <1>2, <1>3, <1>6, <2>1
<1> HIDE DEF front
<1>9. /\ todo \in Seq(Awaits) /\ In(todo) = In(front) \cup In(route.awaits)
      /\ Len(todo) = Len(front) + Len(route.awaits)
  BY <1>1, <1>6, ConcatIn
<1>10. Once(todo)
  <2>1. Once(front) /\ Once(route.awaits)
    BY <1>1, <1>8, NeverOnce DEF SoundRoute
  <2> QED
    BY <1>1, <1>6, <1>8, <2>1, ConcatOnce
<1>11. Len(todo) > 0 /\ (route.idem => Looking(todo))
  <2>1. Len(front) \in Nat /\ Len(route.awaits) \in Nat /\ Len(route.awaits) > 0
    BY <1>1, <1>6 DEF SoundRoute
  <2>2. Len(todo) > 0
    BY <1>8, <1>9, <2>1
  <2>3. ASSUME route.idem PROVE Looking(todo)
    <3>1. todo[1] = "admit" /\ todo[2] = "lookup"
      BY <1>1, <1>6, <1>7, <2>1, <2>3
    <3>2. Len(todo) > 1
      BY <1>7, <1>9, <2>1, <2>3
    <3> QED
      BY <3>1, <3>2 DEF Looking
  <2> QED
    BY <2>2, <2>3
<1> HIDE DEF todo
<1>12. seen \in Row \cup {None} /\ (seen # None => key \in Keys /\ rows[key] = seen)
  BY DEF ApiInv, RowsOK
<1> HIDE DEF seen, r
<1>13. /\ r.route = route /\ r.key = key /\ r.body = body /\ r.todo = todo /\ r.tx = "none"
       /\ ~r.wrapped /\ r.answer = None /\ ~r.lost /\ r.seen = seen /\ ~r.blind
  BY <1>5
<1>14. r \in Request
  BY <1>5, <1>9, <1>12 DEF Request
<1>15. OnRoute(r)
  <2>1. In(todo) \subseteq Ahead(route)
    BY <1>2, <1>3, <1>6, <1>9 DEF Ahead
  <2> QED
    BY <1>10, <1>11, <1>13, <2>1, Zenon DEF OnRoute
<1>16. Unsent(r)
  BY <1>13 DEF Unsent
<1>17. Paid(r, Included)
  BY <1>1, <1>9, <1>13 DEF Paid, SoundRoute
<1>18. Noted(i, r, Logged)
  <2>1. Logs(route) => "log" \in In(route.awaits)
    BY <1>1, SubmitsLogs DEF SoundRoute
  <2> QED
    BY <1>9, <1>13, <2>1 DEF Noted
<1>19. Replayed(r, rows)
  <2>1. seen # None => key \in Keys /\ rows[key] = seen /\ Looking(todo)
    BY <1>11, <1>12, ApiAssumption
  <2> QED
    BY <1>13, <2>1 DEF Replayed
<1> QED
  BY <1>13, <1>14, <1>15, <1>16, <1>17, <1>18, <1>19 DEF Sound, r

\* A request arrives.
LEMMA ArrivalKeeps ==
    ASSUME ApiInv, Arrival
    PROVE  /\ ApiInv'
           /\ \A j \in 1..Len(requests) : requests'[j] = requests[j]
<1>1. PICK route \in workload.routes, st \in Streams :
         \/ ~route.idem /\ receive(route, st, None, None)
         \/ route.idem /\ \E c \in workload.calls : receive(route, st, c.key, c.body)
  BY DEF Arrival
<1>2. workload \in Workloads
  BY DEF ApiInv, ChainOK
<1>3. route \in Routes
  BY <1>1, <1>2, ApiAssumption DEF Routes
<1>4. PICK key \in Keys \cup {None}, body \in Bodies :
         receive(route, st, key, body) /\ (key # None => route.idem)
  <2>1. CASE ~route.idem /\ receive(route, st, None, None)
    BY <2>1 DEF Bodies
  <2>2. CASE route.idem /\ \E c \in workload.calls : receive(route, st, c.key, c.body)
    <3>1. PICK c \in workload.calls : receive(route, st, c.key, c.body)
      BY <2>2
    <3>2. c.key \in Keys \cup {None}
      BY <1>2, ApiAssumption
    <3>3. c.body \in Bodies
      BY <1>2 DEF Bodies
    <3> QED
      BY <2>2, <3>1, <3>2, <3>3
  <2> QED
    BY <1>1, <2>1, <2>2
<1> DEFINE r == NewRequest(route, st, key, body)
           n == Len(requests) + 1
<1>5. Sound(n, r, Included, rows, Logged) /\ r.tx = "none" /\ r.answer = None
  BY <1>3, <1>4, NewSound
<1>6. /\ phase \in {"up", "late"} /\ requests' = Append(requests, r)
      /\ UNCHANGED <<process, streams, cache, stores>>
  BY <1>4 DEF receive
<1> HIDE DEF r
<1>7. requests \in Seq(Request) /\ r \in Request
  BY <1>5 DEF ApiInv, RequestsOK, Sound
<1>8. /\ requests' \in Seq(Request) /\ Len(requests') = n /\ requests'[n] = r
      /\ \A j \in 1..Len(requests) : requests'[j] = requests[j]
  BY <1>6, <1>7
<1>9. 1..Len(requests') = 1..Len(requests) \cup {n} /\ n \notin 1..Len(requests)
  BY <1>7, <1>8
<1>10. /\ workload' = workload /\ pool' = pool /\ phase' = phase /\ streams' = streams
       /\ cache' = cache /\ rows' = rows /\ background' = background /\ Logged' = Logged
  BY <1>6 DEF process, stores, Logged
<1> HIDE DEF n
<1>11. Included' = Included
  <2>1. \A j \in 1..Len(requests') : requests'[j].tx = "included" <=> j \in Included
    BY <1>5, <1>8, <1>9 DEF Included
  <2>2. Included' = {j \in 1..Len(requests') : requests'[j].tx = "included"}
    BY DEF Included
  <2>3. Included \subseteq 1..Len(requests')
    BY <1>9 DEF Included
  <2> QED
    BY <2>1, <2>2, <2>3
<1>12. \A j \in 1..Len(requests') : Sound(j, requests'[j], Included, rows, Logged)
  BY <1>5, <1>8, <1>9 DEF ApiInv, RequestsOK
<1>13. RequestsOK'
  BY <1>8, <1>10, <1>11, <1>12 DEF RequestsOK
<1>14. RowsOK' /\ ChainOK' /\ PhaseOK'
  BY <1>6, <1>10, <1>11 DEF ApiInv, RowsOK, ChainOK, PhaseOK
<1>15. InsertsOK'
  BY <1>8, <1>9, <1>10 DEF ApiInv, InsertsOK
<1> QED
  BY <1>8, <1>13, <1>14, <1>15 DEF ApiInv

\* A transaction is included.
LEMMA IncludeKeeps ==
    ASSUME ApiInv, NEW i \in 1..Len(requests), include(i)
    PROVE  /\ ApiInv'
           /\ \A j \in 1..Len(requests) : requests'[j].answer = requests[j].answer
<1> DEFINE r == requests[i]
           q == [r EXCEPT !.tx = "included"]
<1>1. /\ r.tx = "sent" /\ requests' = [requests EXCEPT ![i] = q] /\ streams' = Applied(r)
      /\ workload' = workload /\ pool' = pool /\ phase' = phase /\ cache' = cache
      /\ rows' = rows /\ background' = background /\ Logged' = Logged
  BY DEF include, process, stores, Logged
<1>2. Sound(i, r, Included, rows, Logged) /\ r \in Request
  BY DEF ApiInv, RequestsOK, Sound
<1>3. /\ q \in Request /\ Keeps(q, r) /\ q.answer = r.answer /\ q.todo = r.todo
      /\ q.tx = "included" /\ q.blind = r.blind /\ q.wrapped = r.wrapped
  BY <1>2 DEF Request, Keeps
<1>4. Applied(r) \in [Streams -> [version: Nat, active: BOOLEAN]]
  <2>1. streams \in [Streams -> [version: Nat, active: BOOLEAN]] /\ r.stream \in Streams
    BY <1>2 DEF ApiInv, ChainOK, Request
  <2>2. streams[r.stream].version + 1 \in Nat
    BY <2>1
  <2> DEFINE ended == [version |-> streams[r.stream].version + 1, active |-> FALSE]
             moved == [streams[r.stream] EXCEPT !.version = @ + 1]
  <2>3. Applied(r) \in {streams, [streams EXCEPT ![r.stream] = ended],
                        [streams EXCEPT ![r.stream] = moved]}
    BY DEF Applied
  <2>4. /\ ended \in [version: Nat, active: BOOLEAN]
        /\ moved \in [version: Nat, active: BOOLEAN]
    BY <2>1, <2>2
  <2> HIDE DEF ended, moved
  <2> QED
    BY <2>1, <2>3, <2>4
<1> HIDE DEF r, q
<1>5. Sound(i, q, Included, rows, Logged)
  <2>1. OnRoute(q) /\ Unsent(q) /\ Paid(q, Included)
    BY <1>1, <1>2, <1>3 DEF Sound, OnRoute, Unsent, Paid, Keeps
  <2>2. Noted(i, q, Logged) /\ Replayed(q, rows)
    BY <1>1, <1>2, <1>3 DEF Sound, Noted, Replayed, Keeps
  <2> QED
    BY <1>3, <2>1, <2>2 DEF Sound
<1>6. /\ RequestsOK' /\ RowsOK' /\ Len(requests') = Len(requests) /\ requests'[i] = q
      /\ \A j \in 1..Len(requests) : j # i => requests'[j] = requests[j]
  <2>1. Sound(i, q, Included, rows, Logged') /\ Logged \subseteq Logged'
    BY <1>1, <1>5
  <2> QED
    BY <1>1, <1>3, <2>1, OneRequest
<1>7. \A j \in 1..Len(requests) :
         requests'[j].answer = requests[j].answer /\ requests'[j].lost = requests[j].lost
           /\ requests'[j].key = requests[j].key
  BY <1>3, <1>6 DEF Keeps, r
<1>8. ChainOK'
  BY <1>1, <1>4 DEF ApiInv, ChainOK
<1>9. PhaseOK'
  BY <1>1, <1>6, <1>7 DEF ApiInv, PhaseOK, Drained, InFlight
<1>10. InsertsOK'
  BY <1>1, <1>6, <1>7 DEF ApiInv, InsertsOK
<1> QED
  BY <1>6, <1>7, <1>8, <1>9, <1>10 DEF ApiInv

\* Streams and cache entries that change without a request.
LEMMA ElsewhereKeeps ==
    ASSUME ApiInv, \E st \in Streams : ttl(st) \/ \E active \in BOOLEAN : elsewhere(st, active)
    PROVE  ApiInv' /\ requests' = requests
<1>1. PICK st \in Streams : ttl(st) \/ \E active \in BOOLEAN : elsewhere(st, active)
  OBVIOUS
<1>2. /\ workload' = workload /\ pool' = pool /\ phase' = phase /\ requests' = requests
      /\ rows' = rows /\ background' = background /\ Logged' = Logged
  BY <1>1 DEF ttl, elsewhere, process, stores, Logged
<1>3. ChainOK'
  <2>1. CASE ttl(st)
    BY <1>2, <2>1 DEF ttl, ApiInv, ChainOK
  <2>2. ASSUME NEW active \in BOOLEAN, elsewhere(st, active) PROVE ChainOK'
    <3>1. streams[st].version + 1 \in Nat
      BY DEF ApiInv, ChainOK
    <3>2. cache' = cache
          /\ streams' = [streams EXCEPT ![st] = [version |-> @.version + 1, active |-> active]]
      BY <2>2 DEF elsewhere
    <3> QED
      BY <1>2, <3>1, <3>2 DEF ApiInv, ChainOK
  <2> QED
    BY <1>1, <2>1, <2>2
<1>4. Included' = Included
  BY <1>2 DEF Included
<1> QED
  BY <1>2, <1>3, <1>4
     DEF ApiInv, RequestsOK, RowsOK, InsertsOK, PhaseOK, Drained, InFlight

\* An answer is recorded under its key, unless there is one.
LEMMA StoreKeeps ==
    ASSUME ApiInv, NEW i \in 1..Len(requests), storeRow(i)
    PROVE  ApiInv' /\ requests' = requests
<1> DEFINE r == requests[i]
           row == [body |-> Jsonb(r.body), answer |-> r.answer]
<1>1. /\ workload' = workload /\ pool' = pool /\ phase' = phase /\ requests' = requests
      /\ streams' = streams /\ cache' = cache /\ Logged' = Logged
      /\ <<"row", i>> \in background /\ background' \subseteq background
      /\ rows' \in {rows, Insert(i)}
  BY DEF storeRow, process, Logged
<1>2. r.answer # None /\ r.key \in Keys /\ pool = TRUE
  BY <1>1 DEF ApiInv, InsertsOK
<1>3. Sound(i, r, Included, rows, Logged)
  BY DEF ApiInv, RequestsOK
<1>4. rows' = rows \/ (rows[r.key] = None /\ rows' = [rows EXCEPT ![r.key] = row])
  BY <1>1 DEF Insert
<1> HIDE DEF r
<1>5. r.route \in Routes /\ r.key # None /\ r.route.idem
  BY <1>2, <1>3, ApiAssumption DEF Sound, OnRoute, Request
<1>6. Backed(r.answer, Included)
  <2>1. SoundRoute(r.route)
    BY <1>5, RoutesSound
  <2>2. Submits(r.route) /\ ~r.route.swallows
    BY <1>5, <2>1 DEF SoundRoute
  <2> QED
    BY <1>2, <1>3, <2>2 DEF Sound, Paid
<1>7. row \in Row /\ Backed(row.answer, Included)
  BY <1>2, <1>3, <1>6 DEF Sound, Request, Row
<1> HIDE DEF row
<1>8. Included' = Included
  BY <1>1 DEF Included
<1>9. rows \in [Keys -> Row \cup {None}]
  BY DEF ApiInv, RowsOK
<1>10. \A k \in Keys : rows[k] # None => rows'[k] = rows[k]
  BY <1>2, <1>4, <1>9
<1>11. RowsOK'
  <2>1. rows' \in [Keys -> Row \cup {None}]
    BY <1>4, <1>7, <1>9
  <2>2. \A k \in Keys : rows'[k] # None => pool = TRUE /\ Backed(rows'[k].answer, Included)
    BY <1>2, <1>4, <1>7, <1>9 DEF ApiInv, RowsOK
  <2> QED
    BY <1>1, <1>8, <2>1, <2>2 DEF RowsOK
<1>12. RequestsOK'
  <2>1. ASSUME NEW j \in 1..Len(requests) PROVE Sound(j, requests[j], Included, rows', Logged)
    <3> DEFINE p == requests[j]
               inc == Included
               table == rows
               table2 == rows'
               logged == Logged
    <3>1. Sound(j, p, inc, table, logged)
      BY DEF ApiInv, RequestsOK
    <3>2. \A k \in Keys : table[k] # None => table2[k] = table[k]
      BY <1>10
    <3> HIDE DEF p, inc, table, table2, logged
    <3>3. Sound(j, p, inc, table2, logged)
      BY <3>1, <3>2, SoundGrows
    <3> QED
      BY <3>3 DEF p, inc, table2, logged
  <2> QED
    BY <1>1, <1>8, <2>1 DEF ApiInv, RequestsOK
<1>13. ChainOK' /\ InsertsOK' /\ PhaseOK'
  BY <1>1 DEF ApiInv, ChainOK, InsertsOK, PhaseOK, Drained, InFlight
<1> QED
  BY <1>1, <1>11, <1>12, <1>13 DEF ApiInv

\* A record more in the log.
LEMMA AuditKeeps ==
    ASSUME ApiInv, NEW i \in 1..Len(requests), createAuditLog(i)
    PROVE  ApiInv' /\ requests' = requests
<1>1. /\ workload' = workload /\ pool' = pool /\ phase' = phase /\ requests' = requests
      /\ streams' = streams /\ cache' = cache /\ rows' = rows
      /\ background' \subseteq background
  BY DEF createAuditLog, process
<1>2. Logged \subseteq Logged'
  BY DEF createAuditLog, Recorded, Logged
<1>3. Included' = Included
  BY <1>1 DEF Included
<1>4. ASSUME NEW j \in 1..Len(requests) PROVE Sound(j, requests[j], Included, rows, Logged')
  <2> DEFINE p == requests[j]
             inc == Included
             table == rows
             logged == Logged
             logged2 == Logged'
  <2>1. Sound(j, p, inc, table, logged) /\ logged \subseteq logged2
    BY <1>2 DEF ApiInv, RequestsOK
  <2> HIDE DEF p, inc, table, logged, logged2
  <2>2. Sound(j, p, inc, table, logged2)
    BY <2>1, SoundGrows
  <2> QED
    BY <2>2 DEF p, inc, table, logged2
<1>5. RequestsOK'
  BY <1>1, <1>3, <1>4 DEF ApiInv, RequestsOK
<1>6. ChainOK' /\ RowsOK' /\ InsertsOK' /\ PhaseOK'
  BY <1>1, <1>3 DEF ApiInv, ChainOK, RowsOK, InsertsOK, PhaseOK, Drained, InFlight
<1> QED
  BY <1>1, <1>5, <1>6 DEF ApiInv

\* The process ends: what was not answered never is.
LEMMA ExitKeeps ==
    ASSUME ApiInv, NEW code, Exit(code)
    PROVE  /\ ApiInv'
           /\ \A j \in 1..Len(requests) : requests'[j].answer = requests[j].answer
<1> DEFINE left == [j \in 1..Len(requests) |->
                       [requests[j] EXCEPT !.lost = @ \/ requests[j].answer = None]]
<1>1. /\ workload' = workload /\ pool' = pool /\ phase' = "exited" /\ requests' = left
      /\ streams' = streams /\ cache' = cache /\ rows' = rows /\ background' = {}
  BY DEF Exit
<1>2. requests \in Seq(Request) /\ Len(requests) \in Nat
  BY DEF ApiInv, RequestsOK
<1>3. ASSUME NEW j \in 1..Len(requests)
      PROVE  LET r == requests[j]
                 q == left[j]
             IN  /\ q \in Request /\ q.answer = r.answer
                 /\ q.todo = r.todo /\ q.tx = r.tx /\ q.blind = r.blind /\ q.wrapped = r.wrapped
                 /\ q.route = r.route /\ q.key = r.key /\ q.seen = r.seen /\ q.body = r.body
                 /\ q.answer = None => q.lost
  <2> DEFINE r == requests[j]
             q == left[j]
             b == r.lost \/ r.answer = None
  <2>1. r \in Request /\ b \in BOOLEAN /\ q = [r EXCEPT !.lost = b]
    BY <1>2
  <2>2. r.answer = None => b
    OBVIOUS
  <2> HIDE DEF r, q, b
  <2>3. /\ q \in Request /\ q.answer = r.answer /\ q.lost = b
        /\ q.todo = r.todo /\ q.tx = r.tx /\ q.blind = r.blind /\ q.wrapped = r.wrapped
        /\ q.route = r.route /\ q.key = r.key /\ q.seen = r.seen /\ q.body = r.body
    BY <2>1 DEF Request
  <2> QED
    BY <2>2, <2>3 DEF r, q
<1>4. left \in Seq(Request) /\ Len(left) = Len(requests) /\ DOMAIN left = 1..Len(requests)
  <2>1. \A j \in 1..Len(requests) : left[j] \in Request
    BY <1>3
  <2>2. left \in [1..Len(requests) -> Request]
    BY <2>1
  <2> HIDE DEF left
  <2> QED
    BY <1>2, <2>2
<1> HIDE DEF left
<1>5. Included' = Included
  BY <1>1, <1>3, <1>4 DEF Included
<1>6. ASSUME NEW j \in 1..Len(requests) PROVE Sound(j, left[j], Included, rows, Logged')
  <2> DEFINE r == requests[j]
             q == left[j]
             inc == Included
             table == rows
             logged == Logged
             logged2 == Logged'
  <2>1. Sound(j, r, inc, table, logged)
    BY DEF ApiInv, RequestsOK
  <2>2. /\ q \in Request /\ q.answer = r.answer /\ q.todo = r.todo /\ q.tx = r.tx
        /\ q.blind = r.blind /\ q.wrapped = r.wrapped /\ q.route = r.route /\ q.key = r.key
        /\ q.seen = r.seen /\ q.body = r.body /\ (q.answer = None => q.lost)
    BY <1>3
  <2> HIDE DEF r, q, inc, table, logged, logged2
  <2>3. OnRoute(q) /\ Unsent(q) /\ Paid(q, inc)
    BY <2>1, <2>2 DEF Sound, OnRoute, Unsent, Paid
  <2>4. Noted(j, q, logged2) /\ Replayed(q, table)
    BY <2>1, <2>2 DEF Sound, Noted, Replayed
  <2>5. Sound(j, q, inc, table, logged2)
    BY <2>2, <2>3, <2>4 DEF Sound
  <2> QED
    BY <2>5 DEF q, inc, table, logged2
<1>7. RequestsOK'
  BY <1>1, <1>4, <1>5, <1>6 DEF RequestsOK
<1>8. ChainOK' /\ RowsOK' /\ InsertsOK'
  BY <1>1, <1>5 DEF ApiInv, ChainOK, RowsOK, InsertsOK
<1>9. PhaseOK'
  BY <1>1, <1>3, <1>4 DEF PhaseOK, Drained, InFlight
<1>10. \A j \in 1..Len(requests) : requests'[j].answer = requests[j].answer
  BY <1>1, <1>3
<1> QED
  BY <1>7, <1>8, <1>9, <1>10 DEF ApiInv

\* The process starts, is told to stop, has stopped and starts again.
LEMMA PhaseKeeps ==
    ASSUME ApiInv, start \/ shutdown \/ stopServer \/ restart
    PROVE  ApiInv' /\ requests' = requests /\ phase' # "exited"
<1>1. /\ UNCHANGED <<workload, pool, requests, streams, cache, stores>>
      /\ phase' \in {"loading", "up", "stopping", "closing", "ending", "late"}
      /\ phase' \in {"loading", "closing", "ending"} => Drained
  BY DEF start, Loading, shutdown, stopServer, restart, ApiInv, PhaseOK
<1>2. /\ workload' = workload /\ pool' = pool /\ requests' = requests /\ streams' = streams
      /\ cache' = cache /\ rows' = rows /\ background' = background /\ Logged' = Logged
  BY <1>1 DEF stores, Logged
<1>3. Included' = Included
  BY <1>2 DEF Included
<1>4. PhaseOK'
  BY <1>1, <1>2 DEF PhaseOK, Drained, InFlight
<1> QED
  BY <1>1, <1>2, <1>3, <1>4 DEF ApiInv, ChainOK, RequestsOK, RowsOK, InsertsOK

\* A step keeps the invariant, answers an admin request with success only once
\* it is recorded, and ends the process with code 0 only when nobody waits.
LEMMA ApiStep ==
    ASSUME ApiInv, [ApiNext]_api_vars
    PROVE  /\ ApiInv'
           /\ \A i \in 1..Len(requests) :
                 (requests[i].answer = None /\ requests'[i].answer # None
                    /\ Logs(requests[i].route) /\ requests'[i].answer.code = 200)
                 => i \in audit_db' \cup audit_mem'
<1> DEFINE Recorded200 ==
               \A i \in 1..Len(requests) :
                   (requests[i].answer = None /\ requests'[i].answer # None
                      /\ Logs(requests[i].route) /\ requests'[i].answer.code = 200)
                   => i \in audit_db' \cup audit_mem'
<1>1. (\A j \in 1..Len(requests) : requests'[j].answer = requests[j].answer) => Recorded200
  OBVIOUS
<1>2. CASE Arrival
  <2>1. ApiInv' /\ \A j \in 1..Len(requests) : requests'[j] = requests[j]
    BY <1>2, ArrivalKeeps
  <2> QED
    BY <1>1, <2>1
<1>3. ASSUME NEW i \in 1..Len(requests), HandlerStep(i) PROVE ApiInv' /\ Recorded200
  <2>1. ApiInv'
    BY <1>3, HandlerKeeps
  <2>2. PICK q : Effect(i, q)
    BY <1>3, HandlerChanges DEF Changes
  <2>3. requests \in Seq(Request) /\ requests' = [requests EXCEPT ![i] = q]
    BY <2>2 DEF ApiInv, RequestsOK, Effect
  <2>4. requests'[i] = q /\ \A j \in 1..Len(requests) : j # i => requests'[j] = requests[j]
    BY <2>3
  <2>5. /\ q.answer # None /\ Logs(q.route) /\ q.answer.code = 200 => i \in audit_db' \cup audit_mem'
        /\ q.route = requests[i].route
    BY <2>2 DEF Effect, Keeps, Logged
  <2> QED
    BY <2>1, <2>4, <2>5
<1>4. CASE ChainStep \/ \E s \in Streams : ttl(s)
  <2>1. CASE \E s \in Streams : ttl(s) \/ \E active \in BOOLEAN : elsewhere(s, active)
    BY <1>1, <2>1, ElsewhereKeeps
  <2>2. ASSUME NEW i \in 1..Len(requests), include(i) PROVE ApiInv' /\ Recorded200
    BY <1>1, <2>2, IncludeKeeps
  <2> QED
    BY <1>4, <2>1, <2>2 DEF ChainStep
<1>5. CASE BackgroundStep
  <2>1. PICK i \in 1..Len(requests) : storeRow(i) \/ createAuditLog(i)
    BY <1>5 DEF BackgroundStep
  <2>2. ApiInv' /\ requests' = requests
    BY <2>1, StoreKeeps, AuditKeeps
  <2> QED
    BY <1>1, <2>2
<1>6. CASE ProcessStep
  <2>1. CASE start \/ shutdown \/ stopServer \/ restart
    BY <1>1, <2>1, PhaseKeeps
  <2>2. ASSUME NEW code, Exit(code) PROVE ApiInv' /\ Recorded200
    BY <1>1, <2>2, ExitKeeps
  <2> QED
    BY <1>6, <2>1, <2>2 DEF ProcessStep, loadFails, closePool, forceExit, crash
<1>7. CASE UNCHANGED api_vars
  <2>1. /\ workload' = workload /\ pool' = pool /\ phase' = phase /\ requests' = requests
        /\ streams' = streams /\ cache' = cache /\ rows' = rows /\ background' = background
        /\ Logged' = Logged
    BY <1>7 DEF api_vars, process, stores, Logged
  <2>2. Included' = Included
    BY <2>1 DEF Included
  <2>3. ApiInv'
    BY <2>1, <2>2
       DEF ApiInv, ChainOK, RequestsOK, RowsOK, InsertsOK, PhaseOK, Drained, InFlight
  <2> QED
    BY <1>1, <2>1, <2>3
<1> QED
  BY <1>2, <1>3, <1>4, <1>5, <1>6, <1>7 DEF ApiNext

\* No request has been received yet.
LEMMA ApiStart == ApiInit => ApiInv
<1> SUFFICES ASSUME ApiInit PROVE ApiInv
  OBVIOUS
<1>1. requests = <<>> /\ Len(requests) = 0 /\ 1..Len(requests) = {}
  BY DEF ApiInit
<1>2. ChainOK
  <2>1. workload \in Workloads /\ pool \in BOOLEAN
    BY ApiAssumption DEF ApiInit
  <2> QED
    BY <2>1 DEF ApiInit, ChainOK
<1>3. RequestsOK /\ PhaseOK
  <2>1. requests \in Seq(Request)
    BY <1>1
  <2> QED
    BY <1>1, <2>1 DEF ApiInit, RequestsOK, PhaseOK, Drained
<1>4. RowsOK /\ InsertsOK
  BY DEF ApiInit, RowsOK, InsertsOK
<1> QED
  BY <1>2, <1>3, <1>4 DEF ApiInv

\* The invariant holds throughout.
LEMMA ApiInvariance == ApiSpec => []ApiInv
<1>1. ApiInv /\ [ApiNext]_api_vars => ApiInv'
  BY ApiStep
<1> QED
  BY <1>1, ApiStart, PTL DEF ApiSpec

-----------------------------------------------------------------------------
(* What is proved.                                                         *)

\* A request that arrives after an answer was stored under its key gets that
\* answer, or 422 for a body that is not, in the order of its keys too, the one
\* the column returns, and sends nothing, however many requests with that key
\* overlapped and however often the process died in between
\* (idempotencyMiddleware).
THEOREM RepliesAreFaithful == ApiSpec => []ReplayIsFaithful
<1>1. ASSUME ApiInv PROVE ReplayIsFaithful
  <2>1. ASSUME NEW i \in 1..Len(requests), requests[i].seen # None, ~requests[i].blind
        PROVE  /\ requests[i].tx = "none"
               /\ requests[i].answer # None /\ requests[i].answer.code # 401
                    => requests[i].answer = Replay(requests[i].seen, requests[i].body)
    <3>1. Replayed(requests[i], rows)
      BY <1>1 DEF ApiInv, RequestsOK, Sound
    <3> QED
      BY <2>1, <3>1 DEF Replayed
  <2> QED
    BY <2>1 DEF ReplayIsFaithful, Replay
<1> QED
  BY <1>1, ApiInvariance, PTL

\* A request of a submitting route that is answered 200 names a transaction
\* that is on the ledger, its own or, replayed, another request's
\* (submitContractTransaction, idempotencyMiddleware).
THEOREM SuccessesAreOnChain == ApiSpec => []SuccessIsOnChain
<1>1. ASSUME ApiInv PROVE SuccessIsOnChain
  <2>1. ASSUME NEW i \in 1..Len(requests), requests[i].answer # None,
               requests[i].answer.code = 200, Submits(requests[i].route),
               ~requests[i].route.swallows
        PROVE  requests[i].answer.tx # None /\ requests[requests[i].answer.tx].tx = "included"
    <3>1. Paid(requests[i], Included)
      BY <1>1 DEF ApiInv, RequestsOK, Sound
    <3>2. requests[i].answer.tx \in Included
      BY <2>1, <3>1 DEF Paid, Backed
    <3>3. /\ requests[i].answer.tx \in 1..Len(requests)
          /\ requests[requests[i].answer.tx].tx = "included"
      BY <3>2 DEF Included
    <3>4. None \notin Nat
      BY ApiAssumption
    <3> QED
      BY <3>3, <3>4
  <2> QED
    BY <2>1 DEF SuccessIsOnChain
<1> QED
  BY <1>1, ApiInvariance, PTL

\* No admin request is answered with success before its action is recorded, in
\* the table or in memory, whichever calls failed on the way (logAdminAction).
THEOREM AdminAnswersAreLogged == ApiSpec => AdminAnswersLogged
<1>1. ASSUME ApiInv, [ApiNext]_api_vars
      PROVE  [\A i \in 1..Len(requests) :
                 (requests[i].answer = None /\ requests'[i].answer # None
                    /\ Logs(requests[i].route) /\ requests'[i].answer.code = 200)
                 => i \in audit_db' \cup audit_mem']_api_vars
  BY <1>1, ApiStep
<1> QED
  BY <1>1, ApiInvariance, PTL DEF ApiSpec, AdminAnswersLogged

\* A process that ends with code 0 leaves no request unanswered, unless it was
\* told to stop while it was loading and listened nevertheless: the server was
\* closed, and every request served, before the pool was (shutdown, stopServer).
THEOREM CleanExitsDropNobody == ApiSpec => CleanExitDropsNobody
<1>1. ASSUME ApiInv, [ApiNext]_api_vars
      PROVE  [(phase \notin {"exited", "late"} /\ phase' = "exited" /\ exit_code' = 0)
                 => \A i \in 1..Len(requests) : ~InFlight(i)]_api_vars
  <2> SUFFICES ASSUME ApiNext, phase \notin {"exited", "late"}, phase' = "exited", exit_code' = 0
               PROVE  Drained
    BY <1>1 DEF Drained
  <2>1. closePool
    <3>1. CASE Arrival \/ ChainStep \/ BackgroundStep \/ \E s \in Streams : ttl(s)
      <4>1. phase' = phase
        BY <3>1 DEF Arrival, receive, ChainStep, include, elsewhere, BackgroundStep, storeRow,
                    createAuditLog, ttl, process
      <4> QED
        BY <4>1
    <3>2. ASSUME NEW i \in 1..Len(requests), HandlerStep(i) PROVE FALSE
      <4>1. UNCHANGED <<process, streams, rows>>
        BY <1>1, <3>2, HandlerChanges
      <4> QED
        BY <4>1 DEF process
    <3>3. CASE ProcessStep
      <4>1. ~(start \/ shutdown \/ stopServer \/ restart)
        BY <1>1, PhaseKeeps
      <4>2. ~(loadFails \/ forceExit \/ crash)
        BY DEF loadFails, forceExit, crash, Exit
      <4> QED
        BY <3>3, <4>1, <4>2 DEF ProcessStep
    <3> QED
      BY <3>1, <3>2, <3>3 DEF ApiNext
  <2> QED
    BY <1>1, <2>1 DEF closePool, ApiInv, PhaseOK
<1> QED
  BY <1>1, ApiInvariance, PTL DEF ApiSpec, CleanExitDropsNobody
=============================================================================
