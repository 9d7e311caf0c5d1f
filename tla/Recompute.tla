------------------------------- MODULE Recompute -------------------------------
(***************************************************************************)
(* What the desk shows of a world (core/src/world.rs recompute): the call  *)
(* sheet of each free station, the headline queue merged from them, why    *)
(* every other set cannot be called, what is left for each player, the     *)
(* rollup of each bracket and the stations that have nothing left to do.   *)
(*                                                                         *)
(* Every state of a projection is a world that the desk could be looking   *)
(* at.  Nobody has waited, and no set is snoozed: module Desk models that. *)
(***************************************************************************)
EXTENDS Projections

-----------------------------------------------------------------------------
(* callable, with every reason and not just the first. *)

TableView == [m \in Names |-> View(m)]
PlayerFlags == [p \in Players |-> IF p \in world.force THEN "force" ELSE "none"]

SetReasons(n) ==
    {r \in {"Completed", "RemotelyActive", "RemotelyCalled", "AwaitingRemoteCompletion",
            "SlotsUnresolved", "HasPlaceholder"} :
        CASE r = "Completed"       -> Named(n).done
          [] r = "RemotelyActive"  -> View(n) \in C!RemotelyActive /\ n \notin world.tomb.suppressActive
          [] r = "RemotelyCalled"  -> View(n) \in C!CalledViews /\ n \notin world.tomb.suppressCalled
          [] r = "AwaitingRemoteCompletion" -> n \in world.tomb.awaiting
          [] r = "SlotsUnresolved" -> ~AllOccupied(Named(n))
          [] r = "HasPlaceholder"  -> Named(n).placeholder}

BracketReasons(b, t) ==
    {r \in {"ConflictOnlyBracket", "BracketHeld", "BracketNotOpen", "NoPermittedFreeSetup"} :
        CASE r = "ConflictOnlyBracket"  -> world.mode[b] = "ConflictOnly"
          [] r = "BracketHeld"          -> b \in world.held
          [] r = "BracketNotOpen"       -> world.opens[b] > t
          [] r = "NoPermittedFreeSetup" ->
                C!FreeStations(board) \cap C!Pool(b, board, world.pools) = {}}

PlayerReasons(n, p, t) ==
    {r \in {"PlayerDisqualified", "PlayerBusy", "RestWindow"} :
        CASE r = "PlayerDisqualified" -> Absent(n[1], p)
          [] r = "PlayerBusy"         -> ~C!Idle(p, n, board, TableView, PlayerFlags, world.tomb, world.softBusy)
          [] r = "RestWindow"         -> p \in Resting(t)}

Reasons(n, t) ==
    SetReasons(n) \cup BracketReasons(n[1], t) \cup UNION {PlayerReasons(n, p, t) : p \in PlayersIn(n)}

-----------------------------------------------------------------------------
(* recompute. *)

Unplayed == {n \in Names : ~Named(n).done}

(* What is neither on a station nor callable, with its reasons. *)
Blocked ==
    [n \in {m \in Unplayed \ C!Assigned(board) : Reasons(m, clock) # {}} |-> Reasons(n, clock)]

PerSetup == [st \in C!FreeStations(board) |-> Options(st)]

(* merged_queue: every set that some free station lists, once, sorted anew. *)
Queue == Greedy(UNION {ToSet(PerSetup[st]) : st \in DOMAIN PerSetup})

(* aggregate_remaining is Simulation's AllRemaining.  The projection is     *)
(* only run when stations times open sets stay within the ceiling.         *)
Affordable(tbl, brd) ==
    \/ world.ceiling = 0
    \/ Cardinality(C!OnBoard(brd)) * TotalOf([b \in Brackets |-> Cardinality(OpenSets(tbl[b]))], Brackets)
         <= world.ceiling

(* The rollup of a bracket when the projection from `world` is over; -1 for *)
(* a finish that is not known.                                             *)
Summary(b) ==
    LET known == Affordable(world.tables, world.board)
    IN  [incompleteSets    |-> Cardinality(OpenSets(world.tables[b])),
         criticalPath      |-> CriticalPath(world.tables[b], world.groups[b]),
         projectedFinish   |-> IF known /\ b \in Finished THEN FinishOf(b) ELSE -1,
         projectionBlocked |-> known /\ world.mode[b] = "Full" /\ Unfinished(b) # {}]

(* exhausted_setups: it serves brackets, and all of those are over. *)
Serving(st) == {b \in Brackets : world.mode[b] = "Full" /\ st \in C!Pool(b, board, world.pools)}
IsOver(b)   == tables[b] # <<>> /\ OpenSets(tables[b]) = {}

(* Variant: one of them suffices. *)
ExhaustedByOne == {st \in Setups : \E b \in Serving(st) : IsOver(b)}

PoolExhausted == {st \in Setups : Serving(st) # {} /\ \A b \in Serving(st) : IsOver(b)}

-----------------------------------------------------------------------------
(* Properties. *)

(* The call sheet accounts for every set: one that is still to be played is *)
(* on a station, in the queue, or explained by a reason, and never in the   *)
(* queue and explained.  The projection follows the sheet: a station takes *)
(* the first set of the queue that it may take (save one that is on another *)
(* station already), and none that was reported exhausted takes a set.     *)
QueuedOrBlocked ==
    LET queued == ToSet(Queue)
    IN  /\ Unplayed \ C!Assigned(board) = queued \cup DOMAIN Blocked
        /\ queued \cap DOMAIN Blocked = {}
Takes(st, m) == st \in C!Pool(m[1], board, world.pools)
TakenFirst(st, n) ==
    /\ st \notin PoolExhausted
    /\ \/ n \in C!Assigned(board)
       \/ LET queue == Queue IN
          \E k \in DOMAIN queue : /\ queue[k] = n /\ Takes(st, n)
                                  /\ \A i \in 1..(k - 1) : ~Takes(st, queue[i])
SheetFollowed ==
    [][phase = "calls" /\ phase' = "calls" =>
         /\ QueuedOrBlocked
         /\ \A st \in Setups : board'[st].set \notin {NoSet, board[st].set} => TakenFirst(st, board'[st].set)
      ]_allVars

(* The critical path of a bracket is a floor: where everybody is present    *)
(* and nothing is under way when the projection starts, no bracket is       *)
(* projected to finish sooner than that many sets take one after another,   *)
(* across pools, swiss rounds, cuts and resets.  Every bracket has a        *)
(* finish or is blocked, never both, if the projection is run at all.      *)
Untouched == world.absent = {} /\ world.force = {} /\ InFlight(world) = <<>>
PathsAreFloors ==
    phase = "ended" /\ world.action.do = "none" =>
        \A b \in {c \in Brackets : world.mode[c] = "Full"} :
            LET row == Summary(b) IN
            /\ Affordable(world.tables, world.board) => row.projectionBlocked = (row.projectedFinish < 0)
            /\ Untouched /\ row.projectedFinish >= 0 /\ row.incompleteSets > 0 =>
                  row.projectedFinish >= world.now + row.criticalPath * world.estimates[b]
=============================================================================
