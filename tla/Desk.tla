--------------------------------- MODULE Desk ---------------------------------
(***************************************************************************)
(* The scheduler desk: the overlay kept by AppState and the handlers of    *)
(* tools/scheduler/core/src/app.rs that change it, one action per handler, *)
(* together with the world they react to: the set tables of the tournament *)
(* site, and the poller's snapshots of them on their way to the desk.      *)
(*                                                                         *)
(* The write half of the handlers (enqueue_write, handle_write_result) is  *)
(* module Writes, the sequence gate is in module Polling.  Here the effect *)
(* of a confirmed write on the local table is the action MergeWrite, and   *)
(* snapshots arrive in order.                                              *)
(***************************************************************************)
EXTENDS Conflict

CONSTANTS
    CallAction,     \* config call_action: the status a committed call applies
    Escalate,       \* config escalate_unpinned_state_deviation
    RestWindow,     \* whether config rest_window_secs > 0
    InitialBoard,   \* the roster at launch
    InitialSite,    \* the site's sets at launch
    NoUndo, NoDraft,
    \* Bounds: what the operator, the other TOs and the network do in a run.
    FlaggedPlayers, \* players whose flags are edited
    SnoozedSets,    \* sets that are snoozed
    ReportedSets,   \* sets whose result is reported from the desk
    Reassigned,     \* stations that are reassigned, added or retired
    SiteViews,      \* the views the site's sets go through
    LostSets,       \* sets a torn fetch may miss
    VanishingSets,  \* sets that may stay missing for more than one fetch
    ReopenedSets    \* finished sets that may be reset on the site

ASSUME DeskAssumption ==
    /\ CallAction \in Seated
    /\ Escalate \in BOOLEAN /\ RestWindow \in BOOLEAN
    /\ InitialBoard \in [Setups -> [kind : {"Absent", "Free"}, set : {NoSet}, type : Types]]
    /\ InitialSite \in [Sets -> SetView]
    /\ FlaggedPlayers \subseteq Players /\ Reassigned \subseteq Setups
    /\ SnoozedSets \subseteq Sets /\ ReportedSets \subseteq Sets
    /\ SiteViews \subseteq SetView
    /\ LostSets \subseteq Sets /\ VanishingSets \subseteq LostSets
    /\ ReopenedSets \subseteq Sets

VARIABLES
    board,      \* SetupBoard
    tomb,       \* Tombstones
    flags,      \* PlayerFlags
    pools,      \* pool_overrides
    snoozes,    \* snoozes not yet expired
    calledAt,   \* the sets that have a called_at stamp
    undo,       \* the single UndoSnapshot, or NoUndo
    alerted,    \* no_show_alerted
    resting,    \* players whose last_completed is within the rest window
    softBusy,   \* soft_busy
    draft,      \* the open report modal's station and set, or NoDraft
    crossed,    \* history: the sets reported from a station that had lost them
                \* to another one, ever since; no handler reads it
    table,      \* the last-good set tables, all brackets
    suspects,   \* the tearing guard's suspects, all brackets
    site,       \* the sets as the tournament site has them
    fetched,    \* the snapshots captured and not yet applied
    inFlight    \* the brackets that have one

undoable == <<board, tomb, flags, pools, snoozes, calledAt>>
local    == <<alerted, resting, softBusy, draft, crossed>>
tables   == <<table, suspects>>
world    == <<site, fetched, inFlight>>
vars     == <<undoable, undo, local, tables, world>>

Overlay == [board : Boards, tomb : Tombstones, flags : [Players -> Flags],
            pools : [Setups -> Overrides], snoozes : SUBSET Sets,
            calledAt : SUBSET Sets]

TypeOK ==
    /\ board \in Boards
    /\ tomb \in Tombstones
    /\ flags \in [Players -> Flags]
    /\ pools \in [Setups -> Overrides]
    /\ snoozes \subseteq Sets
    /\ calledAt \subseteq Sets
    /\ undo \in Overlay \cup {NoUndo}
    /\ alerted \subseteq Sets
    /\ resting \subseteq Players
    /\ softBusy \subseteq Sets
    /\ draft \in (Setups \X Sets) \cup {NoDraft}
    /\ crossed \subseteq Sets
    /\ table \in [Sets -> SetView]
    /\ suspects \subseteq Sets
    /\ site \in [Sets -> SetView]
    /\ fetched \in [Sets -> SetView]
    /\ inFlight \subseteq Brackets

Init ==
    /\ board = InitialBoard
    /\ tomb = [awaiting |-> {}, suppressActive |-> {}, suppressCalled |-> {}]
    /\ flags = [p \in Players |-> "none"]
    /\ pools = [st \in Setups |-> NoOverride]
    /\ snoozes = {} /\ calledAt = {}
    /\ undo = NoUndo
    /\ alerted = {} /\ resting = {} /\ softBusy = {}
    /\ draft = NoDraft /\ crossed = {}
    /\ site = InitialSite
    /\ table = InitialSite      \* preflight's fetch doubles as the first snapshot
    /\ suspects = {}
    /\ fetched = [s \in Sets |-> "Absent"]
    /\ inFlight = {}

-----------------------------------------------------------------------------
(* Helpers of the handlers. *)

Holds(st, s) == board[st].kind \in Seated /\ board[st].set = s

Freed(station) == [station EXCEPT !.kind = "Free", !.set = NoSet]
Gone(station)  == [station EXCEPT !.kind = "Absent"]
Fresh(type)    == [kind |-> "Free", set |-> NoSet, type |-> type]
Seat(station, kind, s) == [station EXCEPT !.kind = kind, !.set = s]

(* push_undo: the snapshot of the overlay before the change. *)
PushUndo == undo' = [board |-> board, tomb |-> tomb, flags |-> flags,
                     pools |-> pools, snoozes |-> snoozes, calledAt |-> calledAt]

(* stamp_desk_finish: the players' rest windows start now.  A set gone     *)
(* from the table stamps nobody.                                           *)
Stamped(s) == IF RestWindow /\ table[s] # "Absent" THEN PlayersOf[s] ELSE {}

(* Variant: only the set is checked again, the ranking vouches for its players. *)
CanCallRanked(s) ==
    BracketOf[s] \notin ConflictOnly /\ table[s] \notin NotPlayable /\ ~SetBlocked(s, table, tomb)
CanCall(s) == Callable(s, board, table, flags, tomb, softBusy, pools, resting, snoozes)

-----------------------------------------------------------------------------
(* The operator.  An open report keeps nothing else out: the keys of the   *)
(* terminal go to the modal, but the buttons behind the browser's dialog   *)
(* still act on the desk.                                                  *)

(* commit_entry: the picker's Enter and the queue's quick-call.  The entry  *)
(* may come from a stale ranking, so s and st are any set and station, and *)
(* everything is verified against the current state.                       *)
Call(s, st) ==
    /\ s \notin Assigned(board)
    /\ CanCall(s)
    /\ st \in FreeStations(board) \cap Pool(BracketOf[s], board, pools)
    /\ PushUndo
    /\ board' = [board EXCEPT ![st] = Seat(@, CallAction, s)]
    /\ calledAt' = calledAt \cup {s}
    /\ UNCHANGED <<tomb, flags, pools, snoozes, local, tables, world>>

(* progress: `p`, the players of a called set are seated. *)
Progress(st) ==
    /\ board[st].kind = "Called"
    /\ PushUndo
    /\ board' = [board EXCEPT ![st].kind = "InProgress"]
    /\ UNCHANGED <<tomb, flags, pools, snoozes, calledAt, local, tables, world>>

(* free: `f`, the desk says the set is over. *)
Free(st) ==
    /\ board[st].kind \in Seated
    /\ LET s == board[st].set IN
        /\ PushUndo
        /\ board' = [board EXCEPT ![st] = Freed(@)]
        /\ tomb' = [tomb EXCEPT !.awaiting = @ \cup {s}]
        /\ resting' = resting \cup Stamped(s)
        /\ alerted' = alerted \ {s}
    /\ UNCHANGED <<flags, pools, snoozes, calledAt, softBusy, draft, crossed, tables, world>>

(* Variant: only the CALLED evidence is suppressed. *)
RequeueCalled(st) ==
    /\ board[st].kind \in Seated
    /\ LET s == board[st].set IN
        /\ PushUndo
        /\ board' = [board EXCEPT ![st] = Freed(@)]
        /\ tomb' = [tomb EXCEPT !.suppressCalled = @ \cup {s}]
        /\ calledAt' = calledAt \ {s}
        /\ alerted' = alerted \ {s}
    /\ UNCHANGED <<flags, pools, snoozes, resting, softBusy, draft, crossed, tables, world>>

(* requeue: `r`, a no-show goes back to the queue. *)
Requeue(st) ==
    /\ board[st].kind \in Seated
    /\ LET s == board[st].set IN
        /\ PushUndo
        /\ board' = [board EXCEPT ![st] = Freed(@)]
        /\ tomb' = [tomb EXCEPT !.suppressCalled = @ \cup {s},
                                !.suppressActive = @ \cup {s}]
        /\ calledAt' = calledAt \ {s}
        /\ alerted' = alerted \ {s}
    /\ UNCHANGED <<flags, pools, snoozes, resting, softBusy, draft, crossed, tables, world>>

(* open_report: `g`, the modal that builds a result for the set on a station. *)
OpenReport(st) ==
    /\ board[st].kind \in Seated
    /\ board[st].set \in ReportedSets /\ table[board[st].set] # "Absent"
    /\ draft' = <<st, board[st].set>>
    /\ UNCHANGED <<undoable, undo, alerted, resting, softBusy, crossed, tables, world>>

(* The modal closes, or another one takes its place; the picker's Enter too *)
(* runs with no report open. *)
CloseReport ==
    /\ draft # NoDraft
    /\ draft' = NoDraft
    /\ UNCHANGED <<undoable, undo, alerted, resting, softBusy, crossed, tables, world>>

(* submit_report: the result goes out and the station frees, like `f`.     *)
(* Polls and the desk's other actions ran while the modal was open, so the *)
(* station may no longer hold the set, and another one may.                *)
SubmitReport ==
    /\ draft # NoDraft
    /\ LET st == draft[1]
           s  == draft[2] IN
        /\ PushUndo
        /\ board' = IF Holds(st, s) THEN [board EXCEPT ![st] = Freed(@)] ELSE board
        /\ tomb' = [tomb EXCEPT !.awaiting = @ \cup {s}]
        /\ resting' = resting \cup Stamped(s)
        /\ calledAt' = calledAt \ {s}
        /\ alerted' = alerted \ {s}
        /\ crossed' = crossed \cup ({s} \cap Assigned(board'))
    /\ draft' = NoDraft
    /\ UNCHANGED <<flags, pools, snoozes, softBusy, tables, world>>

(* snooze: `z` on a queue entry. *)
Snooze(s) ==
    /\ s \in SnoozedSets
    /\ CanCall(s) /\ s \notin Assigned(board)
    /\ PushUndo
    /\ snoozes' = snoozes \cup {s}
    /\ UNCHANGED <<board, tomb, flags, pools, calledAt, local, tables, world>>

(* cycle_flag: resting -> departed -> force-available -> clear.  Only the  *)
(* flags modal cycles, and there is one modal.                             *)
FlagCycle == {<<"none", "resting">>, <<"resting", "departed">>,
              <<"departed", "force">>, <<"force", "none">>}

CycleFlag(p) ==
    /\ draft = NoDraft
    /\ p \in FlaggedPlayers
    /\ PushUndo
    /\ \E next \in Flags :
          <<flags[p], next>> \in FlagCycle /\ flags' = [flags EXCEPT ![p] = next]
    /\ UNCHANGED <<board, tomb, pools, snoozes, calledAt, local, tables, world>>

(* reassign_setup: `a`; a station off the board is refused.  It closes     *)
(* whatever modal is open.                                                 *)
Reassign(st, over) ==
    /\ st \in Reassigned \cap OnBoard(board)
    /\ PushUndo
    /\ pools' = [pools EXCEPT ![st] = over]
    /\ draft' = NoDraft
    /\ UNCHANGED <<board, tomb, flags, snoozes, calledAt, alerted, resting, softBusy, crossed,
                   tables, world>>

(* retire_setup: only a free station leaves, with its pool override. *)
Retire(st) ==
    /\ st \in Reassigned
    /\ board[st].kind = "Free"
    /\ PushUndo
    /\ board' = [board EXCEPT ![st] = Gone(@)]
    /\ pools' = [pools EXCEPT ![st] = NoOverride]
    /\ UNCHANGED <<tomb, flags, snoozes, calledAt, local, tables, world>>

(* add_setup_station: the lowest number not on the board is reused. *)
LowestUnused(st) ==
    /\ board[st].kind = "Absent"
    /\ \A x \in Setups : x < st => board[x].kind # "Absent"

AddStation(st, type) ==
    /\ st \in Reassigned /\ LowestUnused(st)
    /\ PushUndo
    /\ board' = [board EXCEPT ![st] = Fresh(type)]
    /\ UNCHANGED <<tomb, flags, pools, snoozes, calledAt, local, tables, world>>

(* set_setup_count: adds the lowest unused numbers, or retires free        *)
(* stations, highest number first; occupied ones stay.                     *)
OfType(type) == {st \in OnBoard(board) : board[st].type = type}

Lowest(n, S, T) ==
    /\ T \subseteq S /\ Cardinality(T) = n
    /\ \A x \in T, y \in S \ T : x < y
Highest(n, S, T) ==
    /\ T \subseteq S /\ Cardinality(T) <= n
    /\ Cardinality(T) < n => T = S
    /\ \A x \in T, y \in S \ T : x > y

SetCount(type, target, changed) ==
    /\ changed \subseteq Reassigned
    /\ LET count == Cardinality(OfType(type)) IN
        \/ /\ target > count
           /\ Lowest(target - count, Setups \ OnBoard(board), changed)
           /\ board' = [st \in Setups |-> IF st \in changed
                          THEN Fresh(type) ELSE board[st]]
           /\ UNCHANGED pools
        \/ /\ target < count
           /\ Highest(count - target, OfType(type) \cap FreeStations(board), changed)
           /\ board' = [st \in Setups |-> IF st \in changed
                          THEN Gone(board[st]) ELSE board[st]]
           /\ pools' = [st \in Setups |-> IF st \in changed THEN NoOverride ELSE pools[st]]
    /\ PushUndo
    /\ UNCHANGED <<tomb, flags, snoozes, calledAt, local, tables, world>>

(* Variant: the called stamps are not restored. *)
UndoKeepingStamps ==
    /\ undo # NoUndo
    /\ board' = undo.board /\ tomb' = undo.tomb /\ flags' = undo.flags
    /\ pools' = undo.pools /\ snoozes' = undo.snoozes
    /\ undo' = NoUndo
    /\ UNCHANGED <<calledAt, local, tables, world>>

(* undo: restores the overlay, not the rest windows nor the writes. *)
Undo ==
    /\ undo # NoUndo
    /\ board' = undo.board /\ tomb' = undo.tomb /\ flags' = undo.flags
    /\ pools' = undo.pools /\ snoozes' = undo.snoozes /\ calledAt' = undo.calledAt
    /\ undo' = NoUndo
    /\ UNCHANGED <<local, tables, world>>

Operator ==
    \/ \E s \in Sets, st \in Setups : Call(s, st)
    \/ \E st \in Setups : Progress(st) \/ Free(st) \/ Requeue(st) \/ OpenReport(st)
    \/ CloseReport
    \/ SubmitReport
    \/ \E s \in Sets : Snooze(s)
    \/ \E p \in Players : CycleFlag(p)
    \/ \E st \in Setups, over \in Overrides : Reassign(st, over)
    \/ \E st \in Setups : Retire(st)
    \/ \E st \in Setups, type \in Types : AddStation(st, type)
    \/ \E type \in Types, target \in 0..Cardinality(Reassigned),
          changed \in SUBSET Reassigned : SetCount(type, target, changed)
    \/ Undo

-----------------------------------------------------------------------------
(* Polls. *)

(* apply_tearing_guard: a set missing from an otherwise good snapshot is   *)
(* carried forward once, as a suspect.                                     *)
Missing(b) == {s \in SetsOf(b) : table[s] # "Absent" /\ fetched[s] = "Absent"}

Applied(b) ==
    [s \in Sets |-> IF BracketOf[s] # b \/ s \in Missing(b) \ suspects
                    THEN table[s] ELSE fetched[s]]

(* ingest_deviations: a state int that changed to one we cannot interpret. *)
Deviations(b, next) ==
    {s \in SetsOf(b) : next[s] = "Odd" /\ table[s] \notin {"Absent", "Odd"}}

(* Results that are news: diff_snapshots against the last-good table. *)
News(b, next) == {s \in SetsOf(b) : next[s] = "Done" /\ table[s] # "Done"}

(* The wedge guard: stations still holding a set that finished, from an     *)
(* undo after the release or a restart.                                    *)
NeverWedged(b, next) == {}  \* variant: results only release when they are news
Wedged(b, next) == {s \in Assigned(board) \cap SetsOf(b) : next[s] = "Done"}

(* apply_snapshot: the table is replaced, results that are news release    *)
(* what the desk kept about their sets, the wedge guard does the same for  *)
(* stations still holding a finished set, and the soft-busy list of the    *)
(* bracket is rebuilt.  `recent` are the new results whose completedAt is  *)
(* within the rest window.                                                 *)
ApplySnapshot(b, recent) ==
    /\ b \in inFlight
    /\ LET next     == Applied(b)
           released == News(b, next) \cup Wedged(b, next) IN
        /\ recent \subseteq (IF RestWindow THEN News(b, next) ELSE {})
        /\ table' = next
        /\ suspects' = (suspects \ SetsOf(b)) \cup (Missing(b) \ suspects)
        /\ resting' = resting \cup UNION {PlayersOf[s] : s \in recent}
        /\ tomb' = [tomb EXCEPT !.awaiting = @ \ released,
                                !.suppressActive = @ \ released,
                                !.suppressCalled = @ \ released]
        /\ snoozes' = snoozes \ released
        /\ calledAt' = calledAt \ released
        /\ alerted' = alerted \ released
        /\ board' = [st \in Setups |-> IF board[st].set \in released
                                       THEN Freed(board[st]) ELSE board[st]]
        /\ softBusy' = (softBusy \ SetsOf(b))
                         \cup (IF Escalate THEN Deviations(b, next) ELSE {})
    /\ inFlight' = inFlight \ {b}
    /\ fetched' = [s \in Sets |-> IF BracketOf[s] = b THEN "Absent" ELSE fetched[s]]
    /\ UNCHANGED <<flags, pools, undo, draft, crossed, site>>

(* handle_poll's other outcomes: a failed cycle, or a snapshot the sequence *)
(* gate refuses, changes no overlay state.                                  *)
LosePoll(b) ==
    /\ b \in inFlight
    /\ inFlight' = inFlight \ {b}
    /\ fetched' = [s \in Sets |-> IF BracketOf[s] = b THEN "Absent" ELSE fetched[s]]
    /\ UNCHANGED <<undoable, undo, local, tables, site>>

(* poll_cycle: the sets of one event as the site has them now.  A torn     *)
(* paginated fetch may miss some; VanishingSets bounds which ones may be   *)
(* missed by two fetches in a row.                                         *)
Fetch(b, lost) ==
    /\ b \notin inFlight
    /\ lost \subseteq SetsOf(b) \cap LostSets
    /\ lost \cap suspects \subseteq VanishingSets
    /\ inFlight' = inFlight \cup {b}
    /\ fetched' = [s \in Sets |->
                      IF BracketOf[s] # b THEN fetched[s]
                      ELSE IF s \in lost THEN "Absent" ELSE site[s]]
    /\ UNCHANGED <<undoable, undo, local, tables, site>>

(* merge_remote_set on a confirmed write: the payload's state int (CALLED   *)
(* or not) and its startedAt, never the completion.                         *)
Merged(view, called, started) ==
    IF started \/ view \in RemotelyActive
    THEN IF called THEN "ActiveCalled" ELSE "Active"
    ELSE IF called THEN "Called" ELSE "Ready"

(* The result of one of our writes.  Its effect on the site came before,   *)
(* as a SiteStep, and the site may have moved on since; module Writes has   *)
(* the steps between.                                                       *)
MergeWrite(s, called, started) ==
    /\ table[s] \notin NotPlayable
    /\ site[s] \notin {"Absent", "Pending", "Ready"}
    /\ started => site[s] \in RemotelyActive \cup {"Done"}
    /\ Merged(table[s], called, started) \in SiteViews
    /\ table' = [table EXCEPT ![s] = Merged(@, called, started)]
    /\ UNCHANGED <<undoable, undo, local, suspects, world>>

-----------------------------------------------------------------------------
(* The clock. *)

(* scan_no_shows on a tick: the called sets whose stamp is older than the  *)
(* threshold are alerted, once.                                            *)
Waiting == {board[st].set : st \in {x \in Setups : board[x].kind = "Called"}}

NoShow(overdue) ==
    /\ overdue # {}
    /\ overdue \subseteq (Waiting \cap calledAt) \ alerted
    /\ alerted' = alerted \cup overdue
    /\ UNCHANGED <<undoable, undo, resting, softBusy, draft, crossed, tables, world>>

SnoozeExpires(s) ==
    /\ s \in snoozes
    /\ snoozes' = snoozes \ {s}
    /\ undo' = IF undo = NoUndo THEN NoUndo ELSE [undo EXCEPT !.snoozes = @ \ {s}]
    /\ UNCHANGED <<board, tomb, flags, pools, calledAt, local, tables, world>>

RestExpires(p) ==
    /\ p \in resting
    /\ resting' = resting \ {p}
    /\ UNCHANGED <<undoable, undo, alerted, softBusy, draft, crossed, tables, world>>

(* The site: the bracket advances, and other TOs act on it. *)
SiteMoves ==
    ({"Absent"} \X {"Pending", "Ready"})
    \cup ({"Pending"} \X {"Ready"})
    \cup ({"Ready"} \X {"Called", "Active", "Odd", "Done"})
    \cup ({"Called"} \X {"Active", "ActiveCalled", "Odd", "Done"})
    \cup ({"Active"} \X {"ActiveCalled", "Done"})
    \cup ({"Odd"} \X {"Active", "Done"})
    \cup ({"ActiveCalled"} \X {"Done"})

SiteStep(s) ==
    /\ \/ \E view \in SiteViews :
             <<site[s], view>> \in SiteMoves /\ site' = [site EXCEPT ![s] = view]
       \/ /\ s \in ReopenedSets /\ site[s] = "Done"
          /\ site' = [site EXCEPT ![s] = "Ready"]
    /\ UNCHANGED <<undoable, undo, local, tables, fetched, inFlight>>

Environment ==
    \/ \E b \in Brackets : LosePoll(b)
    \/ \E b \in Brackets : \E recent \in SUBSET SetsOf(b) : ApplySnapshot(b, recent)
    \/ \E b \in Brackets : \E lost \in SUBSET (SetsOf(b) \cap LostSets) : Fetch(b, lost)
    \/ \E s \in Sets : SiteStep(s) \/ SnoozeExpires(s)
    \/ \E s \in Sets, called, started \in BOOLEAN : MergeWrite(s, called, started)
    \/ \E overdue \in SUBSET Sets : NoShow(overdue)
    \/ \E p \in Players : RestExpires(p)

Next == Operator \/ Environment

Spec == Init /\ [][Next]_vars

-----------------------------------------------------------------------------
(* Properties. *)

Live(s) == table[s] \notin NotLive

OneSeat(bd) ==
    \A x, y \in Setups : bd[x].set = bd[y].set /\ bd[x].set # NoSet => x = y

(* A set is called on at most one station at a time (commit_entry,         *)
(* retries, undo and the polls that free stations together).               *)
OneStationPerSet == OneSeat(board)

SeatsLive(bd, x) == bd[x].set # NoSet /\ Live(bd[x].set)

DisjointPlayers(bd) ==
    \A x, y \in Setups :
        x # y /\ SeatsLive(bd, x) /\ SeatsLive(bd, y)
        => PlayersOf[bd[x].set] \cap PlayersOf[bd[y].set] = {}

(* No player is needed on two stations at once, across brackets: what the  *)
(* busy index is for.  A set the table shows finished needs nobody.        *)
NoDoubleBooking == DisjointPlayers(board)

(* "Pool overrides only ever name stations on the board": a reused station *)
(* number never inherits one (retire, add, count and undo together).       *)
OverridesOnBoard == \A st \in Setups : pools[st] # NoOverride => board[st].kind # "Absent"

(* A set the desk said is over (f / g) sits on no station: it can be       *)
(* neither called again nor brought back by undo while the note stands.    *)
(* Except a set reported from a station that had lost it to another one:   *)
(* submit_report frees the draft's station alone.                          *)
AwaitingOffBoard == tomb.awaiting \cap Assigned(board) \subseteq crossed

(* A called set keeps the stamp its no-show timer counts from, or the desk *)
(* has said that it is over.                                               *)
CalledSetsStamped ==
    \A st \in Setups : board[st].kind = "Called" => board[st].set \in calledAt \cup tomb.awaiting

(* Whatever is undone, retired, re-queued, released or reported late, the   *)
(* notes kept beside the board agree with it: tombstones, stamps and pool   *)
(* overrides.                                                               *)
NotesFollowBoard == AwaitingOffBoard /\ CalledSetsStamped /\ OverridesOnBoard

(* A re-queued set ranks again: no evidence about the set itself blocks it. *)
(* Except a set that was also reported, from a station that had lost it:    *)
(* requeue leaves its tombstone, and it ranks when the result is in.        *)
RequeuedRanksAgain ==
    [][\A st \in Setups :
          Requeue(st) /\ board[st].set \notin crossed
          => ~SetBlocked(board[st].set, table', tomb')]_vars

(* The desk implements Stations: a station seats the set it holds while    *)
(* the table shows that set live.                                          *)
SeatOf(bd, sets, st) ==
    IF bd[st].set # NoSet /\ sets[bd[st].set] \notin NotLive THEN bd[st].set ELSE NoSet

Seating == [st \in Setups |-> SeatOf(board, table, st)]

Promise == INSTANCE Stations WITH seat <- Seating

SeatsOneAtATime == Promise!Spec

(* A station whose set finished on the site is freed in the end, whatever  *)
(* the operator undoes meanwhile: results release stations, and the wedge  *)
(* guard the ones the diff misses.                                         *)
FinishedStationsFree ==
    \A st \in Setups, s \in Sets :
        (Holds(st, s) /\ site[s] = "Done") ~> ~Holds(st, s)

(* The poller's loop: it keeps fetching, and not every cycle fails.        *)
PollFairness ==
    \A b \in Brackets :
        /\ WF_vars(\E lost \in SUBSET (SetsOf(b) \cap LostSets) : Fetch(b, lost))
        /\ SF_vars(\E recent \in SUBSET SetsOf(b) : ApplySnapshot(b, recent))

FairSpec == Spec /\ PollFairness
=============================================================================
