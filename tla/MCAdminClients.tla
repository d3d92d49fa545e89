--------------------------- MODULE MCAdminClients ---------------------------
(* An instance of the administration for TLC. *)
EXTENDS AdminClients

\* A proposal for each parameter, one value above the range of a u32.
Passed == {[param |-> "MinDeposit", new_value |-> 6], [param |-> "MaxDuration", new_value |-> 3],
           [param |-> "FeeBps", new_value |-> 6]}
=============================================================================
