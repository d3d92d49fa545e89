---------------------------- MODULE MCPayStream -----------------------------
(* Instances of the whole contract for TLC. *)
EXTENDS PayStream

CONSTANTS er, ee, tok

Signers == {<<er, ee>>}

Purse == [a \in Accounts |-> IF a = er THEN 4 ELSE 0]
=============================================================================
