----------------------------- MODULE MCFailover -----------------------------
(* Two callers whose ladders share a model, as the first rung of one and   *)
(* the last of the other; one model always works.                          *)
EXTENDS Failover

CONSTANTS a, b, r

MCModels == {a, b, r}
MCReliable == {r}
MCLadders == {<<a, b>>, <<b, r>>, <<>>}
=============================================================================
