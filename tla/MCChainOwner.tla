---------------------------- MODULE MCChainOwner ----------------------------
(* Model values for TLC: two processes that compete for the row.             *)
EXTENDS ChainOwner, TLC

CONSTANTS p1, p2, k1, k2, k3, k4

MCBackoff == <<1, 1>>

Identities == Permutations({p1, p2}) \cup Permutations({k1, k2, k3, k4})
=============================================================================
