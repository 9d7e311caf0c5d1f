----------------------------- MODULE MCStateFile -----------------------------
(* The instance of StateFile for TLC. *)
EXTENDS StateFile

CONSTANTS p1, p2, i1, i2, c1

(* Once a lock file was removed under a launch nothing is claimed any more. *)
NotTorn == torn = "no"
=============================================================================
