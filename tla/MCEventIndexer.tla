--------------------------- MODULE MCEventIndexer ---------------------------
(* Instances of the event indexer for TLC. *)
EXTENDS EventIndexer

CONSTANTS p1, p2
=============================================================================
