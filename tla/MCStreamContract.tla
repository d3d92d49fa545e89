-------------------------- MODULE MCStreamContract --------------------------
(* Instances of the stream contract for TLC. *)
EXTENDS EscrowAccounting

CONSTANTS er, ee, adm, tok, tok2

MCConfig(bps, limit) ==
    [min_deposit |-> 1, fee_bps |-> bps, max_streams |-> limit,
     admin_nonce |-> 0, paused |-> FALSE]

Paused(c) == [c EXCEPT !.paused = TRUE]

\* A quarter of each withdrawal as the fee, or none.
FeeConfigs == {MCConfig(0, 2), MCConfig(1, 2)}
OneFee == {MCConfig(1, 2)}
PauseConfigs == {MCConfig(0, 2), Paused(MCConfig(1, 1))}

NoAllowList == {{}}
SomeAllowLists == {{}, {tok}}

Purse == [a \in Accounts |-> IF a = er THEN 8 ELSE 0]
=============================================================================
