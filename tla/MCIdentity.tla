----------------------------- MODULE MCIdentity -----------------------------
(* An instance of Identity: one token for each of two keys, one of them too *)
(* young at first, and seconds of two ticks.                                *)
EXTENDS Identity, TLC

CONSTANTS k1, k2, r1, r2

Early == [key |-> k1, nbf |-> 0, exp |-> 1, addressed |-> TRUE]
Late == [key |-> k2, nbf |-> 1, exp |-> 3, addressed |-> TRUE]
MCTokens == (r1 :> {Early, Late}) @@ (r2 :> {Late})
MCDrifts == {-1, 0, 1}
=============================================================================
