----------------------------- MODULE MCServices -----------------------------
(***************************************************************************)
(* Small instances of the services that keep their own state beside the    *)
(* contract.  They share nothing, so each behaviour explores one of them   *)
(* and leaves the others as they start.                                    *)
(***************************************************************************)
EXTENDS SignIn, ApiKeys, StreamWorkflow, JobQueue, MigrationRunner, SnapshotStore

CONSTANTS t1, t2, a1, j1, j2, c1, c2

VARIABLE focus

\* Both tabs are of one account and behind one network address.
OneAddress == [t \in Tabs |-> 1]

\* A full limit, one without max and one without windowMs.
Limits == {[windowMs |-> 1, max |-> 1], [windowMs |-> 2, max |-> Unset], [windowMs |-> Unset, max |-> 2]}

Rest(name) ==
    /\ name # "signin" => UNCHANGED signin_vars
    /\ name # "keys" => UNCHANGED key_vars
    /\ name # "workflow" => UNCHANGED flow_vars
    /\ name # "queue" => UNCHANGED queue_vars
    /\ name # "migration" => UNCHANGED migration_vars
    /\ name # "snapshot" => UNCHANGED snap_vars

MCInit ==
    /\ focus \in {"signin", "keys", "workflow", "queue", "migration", "snapshot"}
    /\ SignInInit /\ KeysInit /\ FlowInit /\ QueueInit /\ MigrationInit /\ SnapInit
    /\ has_db \/ focus = "migration"
    /\ by_reference \/ focus = "snapshot"

MCNext ==
    /\ UNCHANGED focus
    /\ Rest(focus)
    /\ \/ focus = "signin" /\ SignInNext
       \/ focus = "keys" /\ KeysNext
       \/ focus = "workflow" /\ FlowNext
       \/ focus = "queue" /\ QueueNext
       \/ focus = "migration" /\ MigrationNext
       \/ focus = "snapshot" /\ SnapNext

MCSpec == MCInit /\ [][MCNext]_<<focus, signin_vars, key_vars, flow_vars, queue_vars, migration_vars, snap_vars>>
=============================================================================
