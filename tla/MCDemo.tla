------------------------------- MODULE MCDemo -------------------------------
(***************************************************************************)
(* Small worlds for the demo.  The newest stream is one no page can see:   *)
(* the scans and the form look for the count less one, and ids start at 1. *)
(***************************************************************************)
EXTENDS DemoApp, TLC

Pays(status) == [employer |-> Me, employee |-> Other, status |-> status]
Earns == [employer |-> Other, employee |-> Me, status |-> "Active"]

World(open, streams, amount) == [open |-> open, ledger |-> streams, takes_amount |-> amount]

DemoWorlds ==
    {World({"employer"}, <<Pays("Paused"), Pays("Paused"), Pays("Cancelled")>>, FALSE),
     World({"employee"}, <<Earns, Pays("Cancelled")>>, FALSE),
     World({"employee"}, <<Earns, Pays("Cancelled")>>, TRUE),
     World({"demo"}, <<Earns>>, TRUE),
     World({"employee", "demo"}, <<>>, FALSE),
     World({"batch"}, <<>>, FALSE)}

\* The slots are alike.
Alike == Permutations(Slots)

Mounts == [page \in {"employer", "employee", "batch"} |-> IF page = "employer" THEN 1 ELSE 2]

=============================================================================
