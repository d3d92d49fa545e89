------------------------------- MODULE MCApi --------------------------------
(* Instances of the API server for TLC. *)
EXTENDS ApiServer

CONSTANTS k1, b1, b2

Call(key, body) == [key |-> key, body |-> body]

Workload(routes, calls, pools, n, at_once, others, ends) ==
    [routes |-> routes, calls |-> calls, pools |-> pools, requests |-> n, in_flight |-> at_once,
     changes |-> others, stops |-> ends]

\* A body with its keys in the order of the JSONB column, or in another one.
Body(content, sorted) == [content |-> content, sorted |-> sorted]

OneCall == {Call(k1, Body(b1, TRUE))}
AllCalls == {Call(k1, Body(b1, TRUE)), Call(k1, Body(b1, FALSE)), Call(k1, Body(b2, TRUE)),
             Call(None, Body(b1, TRUE))}

\* The record auditLog makes of an answer touches nothing else: it is left out
\* where three creations meet.
Unaudited == [create_stream EXCEPT !.audited = FALSE]

\* Two creations that overlap and a retry; a key used for another body; reads
\* beside changes of a stream; the routes that log; a process that stops, dies
\* and starts again; every route by itself.
Traffic ==
    {Workload({Unaudited}, OneCall, {TRUE}, 3, 2, 0, 0),
     Workload({create_stream}, AllCalls, BOOLEAN, 2, 2, 0, 0),
     Workload({get_stream, withdraw, top_up}, {}, {TRUE}, 2, 2, 1, 0),
     Workload({set_min_deposit, force_cancel, set_user_status}, {}, BOOLEAN, 2, 2, 0, 0),
     Workload({create_stream, get_stream, set_min_deposit}, OneCall, {TRUE}, 2, 1, 0, 1),
     Workload(AllRoutes, OneCall, BOOLEAN, 1, 1, 1, 1)}

\* A client that retries only when it has an answer.
PatientClient == {Workload({create_stream}, OneCall, {TRUE}, 2, 1, 0, 0)}
=============================================================================
