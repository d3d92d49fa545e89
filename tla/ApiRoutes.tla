------------------------------ MODULE ApiRoutes -----------------------------
(***************************************************************************)
(* The routes of the REST API (api/routes), each as the awaits its handler *)
(* makes, in order.  Between two awaits anything else may run, so this is  *)
(* all of a handler that other requests, the chain and the stores see; the *)
(* formats it checks before the first await are "validate", which answers  *)
(* 400 or goes on.                                                         *)
(***************************************************************************)
EXTENDS Naturals, Sequences

\* submitContractTransaction: account, simulation and sending, then one look
\* for the result.
Submit == <<"send", "confirm">>

\* idem: wrapped by the idempotency middleware.  audited: wrapped by auditLog.
\* swallows: a failed submission is ignored.  awaits: the handler.
Route(awaits) == [idem |-> FALSE, audited |-> FALSE, swallows |-> FALSE,
                  awaits |-> <<"validate">> \o awaits]

-----------------------------------------------------------------------------
(* routes/streams.js                                                       *)

create_stream == [Route(Submit) EXCEPT !.idem = TRUE, !.audited = TRUE]

get_stream == Route(<<"cache_get", "read_stream", "cache_set">>)

claimable == Route(<<"read">>)

withdraw == [Route(Submit \o <<"cache_del">>) EXCEPT !.audited = TRUE]

\* The stream is read and its status checked before the submission.
top_up == Route(<<"read_active">> \o Submit \o <<"cache_del">>)

-----------------------------------------------------------------------------
(* routes/tokens.js, routes/governance.js                                  *)

total_supply == Route(<<"read">>)
balance == Route(<<"read">>)
transfer == Route(Submit)
mint == Route(Submit)

\* Three calls at once, and a cache of an hour in front of them.
token_metadata == Route(<<"read">>)

propose == Route(Submit)
vote == Route(Submit)
get_proposal == Route(<<"read">>)

-----------------------------------------------------------------------------
(* routes/admin.js, routes/users.js                                        *)

initialize == Route(Submit \o <<"log">>)
pause_contract == Route(Submit \o <<"log">>)
set_min_deposit == Route(Submit \o <<"log">>)

\* The submission may fail for any reason; the cancellation is logged and
\* answered as done.
force_cancel == [Route(Submit \o <<"log">>) EXCEPT !.swallows = TRUE]

audit_logs == Route(<<"read_log">>)
audit_export == Route(<<"read_log">>)

list_users == Route(<<"db">>)
get_user == Route(<<"db">>)
stats == Route(<<"db">>)
list_webhooks == Route(<<"db">>)
set_user_status == Route(<<"db", "log">>)
delete_webhook == Route(<<"db", "log">>)
reset_rate_limit == Route(<<"db", "log">>)

\* The address of the confirmation mail, the deletion and the mail: a failure
\* of the database or of the mail is swallowed.
delete_user == Route(<<"db_or_not", "erase", "mail">>)

-----------------------------------------------------------------------------
(* server.js                                                               *)

\* The readiness probe: nothing to validate, both checks at once.
ready == [Route(<<>>) EXCEPT !.awaits = <<"probe">>]

-----------------------------------------------------------------------------
AllRoutes ==
    {create_stream, get_stream, claimable, withdraw, top_up, total_supply, balance,
     transfer, mint, token_metadata, propose, vote, get_proposal, initialize,
     pause_contract, set_min_deposit, force_cancel, audit_logs, audit_export,
     list_users, get_user, stats, list_webhooks, set_user_status, delete_webhook,
     reset_rate_limit, delete_user, ready}

Submits(route) == \E i \in 1..Len(route.awaits) : route.awaits[i] = "send"

Logs(route) == \E i \in 1..Len(route.awaits) : route.awaits[i] = "log"
=============================================================================
