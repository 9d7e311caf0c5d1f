-------------------------------- MODULE MCReads --------------------------------
(* A behaviour runs gg-admin processes or the desk's polls, never both: they *)
(* share nothing but the conversions.  A search beside another process meets *)
(* it at the pool and the cache only, which every command that reads a      *)
(* tournament treats as `roster` does.                                     *)
EXTENDS MCAdmin, Tables

Slot(p, f, e, who) == [prereq |-> p, from |-> f, place |-> 1, entrant |-> e, players |-> who]
Raw(i, id, round, slots) ==
    [id |-> id, group |-> 1, round |-> round, ident |-> i, started |-> Null, done |-> Null,
     winner |-> Null, slots |-> slots]
MCRows ==
    <<Raw(Null, 14, 2, <<>>),
      Raw(1, 11, 1, <<Slot("seed", Null, 1, <<1>>), Slot("odd", Null, 2, <<Null>>)>>),
      [Raw(2, 12, 2, <<Slot("set", 11, 3, <<3>>), Slot("set", Null, 4, <<2>>)>>) EXCEPT !.started = 0]>>
MCSubstitutes == 12 :> 22
Games(n, k) == [round |-> n, games |-> k]
MCPhaseGroups ==
    <<[id |-> Null, type |-> "SWISS", rounds |-> Null, start |-> Null, wave |-> Null, bestOf |-> <<Games(2, 3)>>],
      [id |-> 1, type |-> "DOUBLE_ELIMINATION", rounds |-> Null, start |-> Null, wave |-> 1,
       bestOf |-> <<Games(1, Null), Games(2, 3), Games(2, 5)>>]>>

VARIABLE client

ReadsInit ==
    /\ client \in {"admin", "desk"}
    /\ Init /\ TablesInit
    /\ client = "admin" /\ job[p2].do = "find" => job[p1].do \in {"roster", "find", "pool"}
    /\ client = "desk" => job = (p1 :> [do |-> "pool", how |-> "add", t |-> 2])
                               @@ (p2 :> [do |-> "pool", how |-> "remove", t |-> 3])

AdminRuns == client = "admin" /\ Next /\ UNCHANGED <<client, tableVars>>
DeskPolls == client = "desk" /\ TablesNext /\ UNCHANGED <<client, vars>>

ReadsSpec == ReadsInit /\ [][AdminRuns \/ DeskPolls]_<<client, vars, tableVars>>
=============================================================================
