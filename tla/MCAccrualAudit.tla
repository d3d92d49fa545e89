--------------------------- MODULE MCAccrualAudit ---------------------------
(* Instances of the metered stream contract for TLC. *)
EXTENDS AccrualAudit

CONSTANTS er, ee, tok

NoFee == {[min_deposit |-> 1, fee_bps |-> 0, max_streams |-> 2,
           admin_nonce |-> 0, paused |-> FALSE]}

NoAllowList == {{}}

Purse == [a \in Accounts |-> IF a = er THEN 8 ELSE 0]
=============================================================================
