------------------------------- MODULE MCWrites -------------------------------
(* Instances of Writes for TLC. *)
EXTENDS Writes

CONSTANTS a, b, B1, B2

OneSet       == {a}
OneBracketOf == [s \in OneSet |-> B1]

(* Two sets of two brackets. *)
TwoSets      == {a, b}
TwoBracketOf == [s \in TwoSets |-> IF s = a THEN B1 ELSE B2]
=============================================================================
