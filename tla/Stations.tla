------------------------------- MODULE Stations -------------------------------
(***************************************************************************)
(* What the desk promises: each station is free or seats one set, a set    *)
(* sits on one station, and no player is needed on two stations at once.   *)
(* One set at a time is seated; any number of stations may free together.  *)
(***************************************************************************)
CONSTANTS Sets, Setups, PlayersOf, NoSet

VARIABLE seat     \* the set each station seats, or NoSet

Init == seat = [st \in Setups |-> NoSet]

Taken == {seat[st] : st \in Setups} \ {NoSet}

Take(st, s) ==
    /\ seat[st] = NoSet
    /\ s \notin Taken
    /\ \A t \in Taken : PlayersOf[s] \cap PlayersOf[t] = {}
    /\ seat' = [seat EXCEPT ![st] = s]

Leave(freed) ==
    /\ \A st \in freed : seat[st] # NoSet
    /\ seat' = [st \in Setups |-> IF st \in freed THEN NoSet ELSE seat[st]]

Next ==
    \/ \E st \in Setups, s \in Sets : Take(st, s)
    \/ \E freed \in SUBSET Setups : Leave(freed)

Spec == Init /\ [][Next]_seat
=============================================================================
