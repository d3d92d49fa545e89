----------------------------- MODULE MCMultisig -----------------------------
(* Instances of the multisig for TLC. *)
EXTENDS MultisigAdmin

CONSTANTS a1, a2, a3

\* Three signers, or a list that names one of two twice.
Lists == {<<a1, a2, a3>>, <<a2, a2, a3>>}
=============================================================================
