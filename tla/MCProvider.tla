------------------------------ MODULE MCProvider ------------------------------
(* The instance of Provider for TLC: one process with two concurrent calls. *)
EXTENDS Provider, TLC

CONSTANTS w1, w2, P

MCWorkers   == {w1, w2}
MCProcessOf == [w \in MCWorkers |-> P]
Symmetric   == Permutations(MCWorkers)
=============================================================================
