-------------------------------- MODULE MCDesk --------------------------------
(* Instances of Desk for TLC. *)
EXTENDS Desk

CONSTANTS a, b, c, p, q, r, B1, B2, pc, ps5

(* Two sets that share the player q, of two brackets or of one. *)
TwoSets      == {a, b}
BracketOfTwo == [s \in TwoSets |-> IF s = a THEN B1 ELSE B2]
BracketOfOne == [s \in TwoSets |-> B1]
PlayersOfTwo == [s \in TwoSets |-> IF s = a THEN {p, q} ELSE {q, r}]

OneSet          == {a}
BracketOfOneSet == [s \in OneSet |-> B1]
PlayersOfOneSet == [s \in OneSet |-> {p, q}]

OneType    == [x \in {B1, B2} |-> {pc}]
OneTypeOne == [x \in {B1} |-> {pc}]

FreeBoard == [st \in Setups |-> [kind |-> "Free", set |-> NoSet, type |-> pc]]

(* Station 3 has not arrived. *)
TwoOfThree ==
    [st \in Setups |-> [kind |-> IF st = 3 THEN "Absent" ELSE "Free", set |-> NoSet, type |-> pc]]

(* Where no roster changes and sets are started as they are called, two     *)
(* states are one when they differ only in the history of the reports, in   *)
(* the call stamps, which are read of called sets alone, or in the numbers  *)
(* of the two stations.  No property of the run that looks so reads these.  *)
Turned(f)  == [st \in Setups |-> f[3 - st]]
Second(of) == of[2].kind # "Free" /\ (of[1].kind = "Free" \/ of[2].set = a)
AllFree(of) == \A st \in Setups : of[st].kind = "Free"
Turns ==
    \/ Second(board)
    \/ AllFree(board) /\ draft # NoDraft /\ draft[1] = 2
    \/ AllFree(board) /\ draft = NoDraft /\ undo # NoUndo /\ Second(undo.board)
AlikeStations ==
    LET shown(of) == IF Turns THEN Turned(of) ELSE of
        before    == IF undo = NoUndo THEN undo
                     ELSE [undo EXCEPT !.calledAt = {}, !.board = shown(@)]
        reported  == IF Turns /\ draft # NoDraft THEN <<3 - draft[1], draft[2]>> ELSE draft
    IN  <<shown(board), tomb, flags, pools, snoozes, before, alerted, resting, softBusy,
          reported, tables, world>>

ReadySite == [s \in Sets |-> "Ready"]
=============================================================================
