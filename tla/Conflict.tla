------------------------------- MODULE Conflict -------------------------------
(***************************************************************************)
(* The busy index and the callable predicate of the scheduler core         *)
(* (tools/scheduler/core/src/conflict.rs): who is busy and why, which      *)
(* stations a bracket may use, and when a set may be called.               *)
(*                                                                         *)
(* The operators are functions of the board, the player flags, the         *)
(* tombstones and the last-good set tables; the state itself belongs to    *)
(* module Desk.  A player stands for a canonical conflict key: an aliased  *)
(* player id, or the entrant when the identity is degraded.  A set stands  *)
(* for a (bracket, SetKey) pair.                                           *)
(***************************************************************************)
EXTENDS Integers, FiniteSets

CONSTANTS
    Sets,           \* (bracket, SetKey) pairs
    Players,        \* canonical conflict keys
    Brackets,
    Setups,         \* station numbers
    Types,          \* setup types (hardware classes)
    BracketOf,      \* Sets -> Brackets
    PlayersOf,      \* Sets -> SUBSET Players: the occupants once resolved
    BracketTypes,   \* Brackets -> SUBSET Types: the config's setup_types
    ConflictOnly,   \* brackets polled for evidence, never called
    NoSet,          \* a station that holds no set
    AllowAny,       \* pool override: open to every bracket
    NoOverride      \* no pool override

ASSUME ConflictAssumption ==
    /\ BracketOf \in [Sets -> Brackets]
    /\ PlayersOf \in [Sets -> SUBSET Players]
    /\ BracketTypes \in [Brackets -> SUBSET Types]
    /\ ConflictOnly \subseteq Brackets
    /\ Setups \subseteq Nat \ {0}
    /\ Types # {}
    /\ NoSet \notin Sets
    /\ AllowAny \notin Brackets /\ NoOverride \notin Brackets
    /\ AllowAny # NoOverride

-----------------------------------------------------------------------------
(* What a table says of one set.  "Absent": not in the table.  "Pending":  *)
(* it cannot be played yet (a slot unresolved, a placeholder or            *)
(* disqualified occupant, its bracket not open).  The rest are the         *)
(* combinations of the state int with startedAt; "Odd" is a state int the  *)
(* desk cannot interpret.                                                  *)
SetView == {"Absent", "Pending", "Ready", "Called", "Active",
            "ActiveCalled", "Odd", "Done"}

RemotelyActive == {"Active", "ActiveCalled"}
CalledViews    == {"Called", "ActiveCalled"}
NotLive        == {"Absent", "Done"}
NotPlayable    == {"Absent", "Pending", "Done"}

(* A station: off the roster, free, or holding a set we called / started. *)
Seated  == {"Called", "InProgress"}
Station == [kind : {"Absent", "Free"}, set : {NoSet}, type : Types]
             \cup [kind : Seated, set : Sets, type : Types]
Boards  == [Setups -> Station]

Tombstones == [awaiting : SUBSET Sets,
               suppressActive : SUBSET Sets,
               suppressCalled : SUBSET Sets]

Flags     == {"none", "resting", "departed", "force"}
Overrides == Brackets \cup {AllowAny, NoOverride}

SetsOf(b)      == {s \in Sets : BracketOf[s] = b}
OnBoard(board) == {st \in Setups : board[st].kind # "Absent"}

(* Variant: the stations whose players are seated do not count. *)
AssignedCalled(board) == {board[st].set : st \in {x \in Setups : board[x].kind = "Called"}}

(* Every set some station holds (world.rs assigned_sets). *)
Assigned(board) == {board[st].set : st \in {x \in Setups : board[x].kind \in Seated}}

-----------------------------------------------------------------------------
(* ConflictIndex::build.  A claim says that a set keeps a player busy, with *)
(* the precedence of its evidence: 3 our own station, 2 remote startedAt,   *)
(* 1 a known CALLED state int, 0 an escalated unknown state int.            *)
(* Variant: a set the site shows under way is left to the remote claims. *)
LocalClaimsCalled(p, board, table) ==
    {[level |-> 3, set |-> s] :
        s \in {x \in Assigned(board) : /\ table[x] \notin NotLive \cup RemotelyActive
                                       /\ p \in PlayersOf[x]}}
LocalClaims(p, board, table) ==
    {[level |-> 3, set |-> s] :
        s \in {x \in Assigned(board) : table[x] \notin NotLive /\ p \in PlayersOf[x]}}

RemoteClaims(p, table, flags, tomb, softBusy) ==
    IF flags[p] = "force" THEN {} ELSE
    LET evidence == {s \in Sets : /\ table[s] \notin NotLive
                                  /\ s \notin tomb.awaiting
                                  /\ p \in PlayersOf[s]}
        active   == {s \in evidence : table[s] \in RemotelyActive /\ s \notin tomb.suppressActive}
        called   == {s \in evidence : table[s] \in CalledViews /\ s \notin tomb.suppressCalled}
    IN  {[level |-> 2, set |-> s] : s \in active}
          \cup {[level |-> 1, set |-> s] : s \in called}
          \cup {[level |-> 0, set |-> s] : s \in evidence \cap softBusy}

Claims(p, board, table, flags, tomb, softBusy) ==
    LocalClaims(p, board, table) \cup RemoteClaims(p, table, flags, tomb, softBusy)

(* The index keeps one source per player: a claim of the highest           *)
(* precedence, the first met among equals.  The order in which the tables  *)
(* list the sets is not fixed, so any of them may be the one kept.         *)
Kept(p, board, table, flags, tomb, softBusy) ==
    LET claims == Claims(p, board, table, flags, tomb, softBusy)
    IN  {c \in claims : \A d \in claims : d.level <= c.level}

(* A set never blocks itself: evidence it generated does not count. *)
Idle(p, s, board, table, flags, tomb, softBusy) ==
    LET kept == Kept(p, board, table, flags, tomb, softBusy)
    IN  kept # {} => \E c \in kept : c.set = s

-----------------------------------------------------------------------------
(* effective_pool: matching-type stations not overridden away, plus the    *)
(* stations dedicated to the bracket or open to all.                       *)
Pool(b, board, pools) ==
    {st \in OnBoard(board) :
        \/ pools[st] = NoOverride /\ board[st].type \in BracketTypes[b]
        \/ pools[st] \in {b, AllowAny}}

FreeStations(board) == {st \in Setups : board[st].kind = "Free"}

(* The reasons that concern the set's own evidence. *)
SetBlocked(s, table, tomb) ==
    \/ table[s] \in RemotelyActive /\ s \notin tomb.suppressActive
    \/ table[s] \in CalledViews /\ s \notin tomb.suppressCalled
    \/ s \in tomb.awaiting

(* callable: no block reason remains.  `resting` are the players whose     *)
(* rest window is still open, `snoozed` the sets whose snooze is.          *)
Callable(s, board, table, flags, tomb, softBusy, pools, resting, snoozed) ==
    /\ BracketOf[s] \notin ConflictOnly
    /\ table[s] \notin NotPlayable
    /\ ~SetBlocked(s, table, tomb)
    /\ FreeStations(board) \cap Pool(BracketOf[s], board, pools) # {}
    /\ \A p \in PlayersOf[s] :
          /\ flags[p] \notin {"resting", "departed"}
          /\ p \notin resting
          /\ Idle(p, s, board, table, flags, tomb, softBusy)
    /\ s \notin snoozed
=============================================================================
