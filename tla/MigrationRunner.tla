--------------------------- MODULE MigrationRunner --------------------------
(***************************************************************************)
(* Versioned migrations of stream data (services/migration/                *)
(* migrationRunner.js), one action per await.  The streams belong to the   *)
(* caller, who passes them in and keeps what is returned; a call that      *)
(* throws, or a process that dies, returns nothing.  Rows of               *)
(* migration_history are written by _audit, which swallows every error.    *)
(***************************************************************************)
EXTENDS Integers

CONSTANTS
    Versions,     \* registered versions, numbered in their sorted order
    NoDown,       \* versions registered without a down function
    MaxCalls      \* bound: calls of migrate and rollback

ASSUME MigrationAssumption == Versions \subseteq Nat \ {0}

VARIABLES
    has_db,       \* the runner was given a database
    history,      \* rows of migration_history, without repetitions
    streams_at,   \* the caller's data: net number of times each version was applied
    call,         \* the call under way: its version and those to come, what it awaits,
                  \* its data
    calls,
    unrecorded,   \* history: a row was lost
    upped, downed \* history: versions whose up, and whose down, has run

record_vars == <<history, unrecorded>>
migration_vars == <<has_db, record_vars, streams_at, call, calls, upped, downed>>

NoCall == [version |-> 0, todo |-> {}, await |-> "none", current |-> streams_at]

Row(v, direction, status) == <<v, direction, status>>

\* Mutant: a migration that was started counts as applied.
appliedVersions_started ==
    {v \in Versions : Row(v, "up", "started") \in history /\ Row(v, "down", "success") \notin history}

\* The query.  A rollback is recorded as rolled_back, never as success.
appliedVersions ==
    {v \in Versions : Row(v, "up", "success") \in history /\ Row(v, "down", "success") \notin history}

\* v is the first of todo: _sortedVersions, reversed for a rollback.
IsFirst(v, todo, await) == v \in todo /\ \A w \in todo : IF await = "down" THEN w <= v ELSE v <= w

\* A call with nothing to do returns the streams as they came.
Begin(todo, await) ==
    /\ call.await = "none" /\ calls < MaxCalls
    /\ calls' = calls + 1
    /\ \/ todo = {} /\ call' = NoCall
       \/ \E v \in Versions :
             /\ IsFirst(v, todo, await)
             /\ call' = [version |-> v, todo |-> todo \ {v}, await |-> await, current |-> streams_at]
    /\ UNCHANGED <<has_db, record_vars, streams_at, upped, downed>>

migrate == Begin(Versions \ appliedVersions, "before")

rollback(target) == Begin({v \in appliedVersions : v > target}, "down")

At(await) == call.await = await

Version == call.version

Throw == call' = NoCall /\ UNCHANGED streams_at

Await(await) == call' = [call EXCEPT !.await = await] /\ UNCHANGED streams_at

\* The loop goes on to the next version, or the call returns its data.
NextVersion(first) ==
    \/ /\ call.todo = {}
       /\ streams_at' = call.current
       /\ call' = [NoCall EXCEPT !.current = call.current]
    \/ /\ \E v \in Versions :
             /\ IsFirst(v, call.todo, first)
             /\ call' = [call EXCEPT !.version = v, !.todo = @ \ {v}, !.await = first]
       /\ UNCHANGED streams_at

\* _audit, with or without a database, and when the insert fails.
audit(direction, status) ==
    \/ has_db /\ history' = history \cup {Row(Version, direction, status)} /\ UNCHANGED unrecorded
    \/ unrecorded' = TRUE /\ UNCHANGED history

\* _runValidate: its own row, of direction 'validation', fails the table's CHECK.
runValidate(label, next) ==
    /\ At(label)
    /\ Await(next) \/ Throw
    /\ UNCHANGED <<has_db, record_vars, calls, upped, downed>>

Audited(await, direction, status) ==
    /\ At(await)
    /\ audit(direction, status)
    /\ UNCHANGED <<has_db, calls, upped, downed>>

auditStarted == Audited("started", "up", "started") /\ Await("up")

up ==
    /\ At("up")
    /\ \/ /\ call' = [call EXCEPT !.await = "after", !.current[Version] = @ + 1]
          /\ upped' = upped \cup {Version}
       \/ call' = [call EXCEPT !.await = "failed"] /\ UNCHANGED upped
    /\ UNCHANGED <<has_db, record_vars, streams_at, calls, downed>>

auditFailed == Audited("failed", "up", "failed") /\ Throw

auditSuccess == Audited("success", "up", "success") /\ Await("migrated")

nextMigration ==
    /\ At("migrated")
    /\ NextVersion("before")
    /\ UNCHANGED <<has_db, record_vars, calls, upped, downed>>

\* A version without down stops the rollback before anything is written.
noDown == At("down") /\ Version \in NoDown /\ Throw
            /\ UNCHANGED <<has_db, record_vars, calls, upped, downed>>

auditDown == Audited("down", "down", "started") /\ Version \notin NoDown /\ Await("undo")

down ==
    /\ At("undo")
    /\ downed' = downed \cup {Version}
    /\ \/ call' = [call EXCEPT !.await = "rolled_back", !.current[Version] = @ - 1]
       \/ call' = [call EXCEPT !.await = "not_undone"]
    /\ UNCHANGED <<has_db, record_vars, streams_at, calls, upped>>

auditRolledBack == Audited("rolled_back", "down", "rolled_back") /\ Await("undone")

nextRollback ==
    /\ At("undone")
    /\ NextVersion("down")
    /\ UNCHANGED <<has_db, record_vars, calls, upped, downed>>

auditNotUndone == Audited("not_undone", "down", "failed") /\ Throw

\* The process dies; the caller starts over with the data it had.
killed ==
    /\ ~At("none")
    /\ Throw
    /\ UNCHANGED <<has_db, record_vars, calls, upped, downed>>

MigrationInit ==
    /\ has_db \in BOOLEAN
    /\ history = {} /\ unrecorded = FALSE
    /\ streams_at = [v \in Versions |-> 0]
    /\ call = NoCall /\ calls = 0
    /\ upped = {} /\ downed = {}

MigrationNext ==
    \/ migrate \/ \E target \in Versions \cup {0} : rollback(target)
    \/ runValidate("before", "started") \/ runValidate("after", "success")
    \/ auditStarted \/ up \/ auditFailed \/ auditSuccess \/ nextMigration
    \/ noDown \/ auditDown \/ down \/ auditRolledBack \/ nextRollback \/ auditNotUndone
    \/ killed

MigrationSpec == MigrationInit /\ [][MigrationNext]_migration_vars

-----------------------------------------------------------------------------
\* Through validations and migrations that fail, lost audit rows, calls cut short
\* and any alternation of migrate and rollback, down only ever runs for a version
\* whose up has run to its end, and a version is recorded as applied only then.
RollbackOnlyApplied == downed \cup appliedVersions \subseteq upped

-----------------------------------------------------------------------------
(* What a comment says and the code does not do.                           *)

\* migrationRunner.js:58, "Return the set of versions that have been successfully
\* applied": between calls, and if no row was lost, the recorded versions are those
\* the data has.  A rollback, or a call that fails after its first version, breaks it.
RecordMatchesData ==
    has_db /\ ~unrecorded /\ At("none") => appliedVersions = {v \in Versions : streams_at[v] > 0}
=============================================================================
