---------------------------- MODULE MCGovernance ----------------------------
(* An instance of the governance for TLC. *)
EXTENDS Governance, TLC

\* Accounts only differ in whether they have voted.
Voters == Permutations(Accounts)
=============================================================================
