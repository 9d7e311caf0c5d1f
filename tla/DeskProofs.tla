------------------------------ MODULE DeskProofs ------------------------------
(***************************************************************************)
(* Theorems about the desk for every set of brackets, sets, players and    *)
(* stations: its type invariant, that a set sits on one station, and that  *)
(* no player is needed on two stations at once.                            *)
(***************************************************************************)
EXTENDS Desk, TLAPS

(* A freed station and a station given a set are stations. *)
LEMMA FreedStation == \A x \in Station : Freed(x) \in Station /\ Freed(x).set = NoSet /\ Freed(x).kind = "Free"
  BY DEF Station, Seated, Freed

LEMMA SeatStation ==
  ASSUME NEW x \in Station, NEW kind \in Seated, NEW s \in Sets
  PROVE  /\ Seat(x, kind, s) \in Station
         /\ Seat(x, kind, s).set = s /\ Seat(x, kind, s).kind = kind
  BY DEF Station, Seated, Seat

LEMMA GoneStation == \A x \in Station : x.kind = "Free" =>
        Gone(x) \in Station /\ Gone(x).set = NoSet /\ Gone(x).kind = "Absent"
  BY ConflictAssumption DEF Station, Seated, Gone

LEMMA FreshStation == \A type \in Types : 
        Fresh(type) \in Station /\ Fresh(type).set = NoSet /\ Fresh(type).kind = "Free"
  BY DEF Station, Fresh

(* The overlay push_undo saves is one undo can restore. *)
LEMMA PushedOverlay == TypeOK /\ PushUndo => undo' \in Overlay
  BY DEF TypeOK, PushUndo, Overlay

(* A seated station holds a set. *)
LEMMA SeatedHolds ==
  ASSUME TypeOK, NEW st \in Setups
  PROVE  /\ board[st] \in Station
         /\ board[st].kind \in Seated <=> board[st].set # NoSet
         /\ board[st].kind \in Seated <=> board[st].set \in Sets
  BY ConflictAssumption DEF TypeOK, Boards, Station, Seated

-----------------------------------------------------------------------------
(* Type correctness. *)

LEMMA InitType == Init => TypeOK
<1> SUFFICES ASSUME Init PROVE TypeOK
  OBVIOUS
<1>1. board \in Boards
  BY DeskAssumption DEF Init, Boards, Station
<1>2. tomb \in Tombstones
  BY DEF Init, Tombstones
<1>3. flags \in [Players -> Flags] /\ pools \in [Setups -> Overrides]
  BY DEF Init, Flags, Overrides
<1>4. table \in [Sets -> SetView] /\ site \in [Sets -> SetView] /\ fetched \in [Sets -> SetView]
  BY DeskAssumption DEF Init, SetView
<1> QED
  BY <1>1, <1>2, <1>3, <1>4 DEF Init, TypeOK

LEMMA OperatorType == TypeOK /\ Operator => TypeOK'
<1> SUFFICES ASSUME TypeOK, Operator PROVE TypeOK'
  OBVIOUS
<1> USE DEF local, tables, world, undoable
<1>1. ASSUME NEW s \in Sets, NEW st \in Setups, Call(s, st) PROVE TypeOK'
  <2>1. board' \in Boards
    BY <1>1, SeatStation, DeskAssumption DEF Call, TypeOK, Boards
  <2> QED
    BY <1>1, <2>1, PushedOverlay DEF Call, TypeOK
<1>2. ASSUME NEW st \in Setups, Progress(st) PROVE TypeOK'
  <2>1. board' \in Boards
    BY <1>2 DEF Progress, TypeOK, Boards, Station, Seated
  <2> QED
    BY <1>2, <2>1, PushedOverlay DEF Progress, TypeOK
<1>3. ASSUME NEW st \in Setups, Free(st) PROVE TypeOK'
  <2>1. board[st].set \in Sets
    BY <1>3, SeatedHolds DEF Free
  <2>2. board' \in Boards
    BY <1>3, FreedStation DEF Free, TypeOK, Boards
  <2>3. tomb' \in Tombstones
    BY <1>3, <2>1 DEF Free, TypeOK, Tombstones
  <2>4. Stamped(board[st].set) \subseteq Players
    BY <2>1, ConflictAssumption DEF Stamped
  <2> QED
    BY <1>3, <2>2, <2>3, <2>4, PushedOverlay DEF Free, TypeOK
<1>4. ASSUME NEW st \in Setups, Requeue(st) PROVE TypeOK'
  <2>1. board[st].set \in Sets
    BY <1>4, SeatedHolds DEF Requeue
  <2>2. board' \in Boards
    BY <1>4, FreedStation DEF Requeue, TypeOK, Boards
  <2>3. tomb' \in Tombstones
    BY <1>4, <2>1 DEF Requeue, TypeOK, Tombstones
  <2> QED
    BY <1>4, <2>2, <2>3, PushedOverlay DEF Requeue, TypeOK
<1>5. ASSUME NEW st \in Setups, OpenReport(st) PROVE TypeOK'
  BY <1>5, SeatedHolds DEF OpenReport, TypeOK
<1>6. ASSUME CloseReport PROVE TypeOK'
  BY <1>6 DEF CloseReport, TypeOK
<1>7. ASSUME SubmitReport PROVE TypeOK'
  <2>1. draft[1] \in Setups /\ draft[2] \in Sets
    BY <1>7 DEF SubmitReport, TypeOK
  <2>2. board' \in Boards
    BY <1>7, <2>1, FreedStation DEF SubmitReport, TypeOK, Boards
  <2>3. tomb' \in Tombstones
    BY <1>7, <2>1 DEF SubmitReport, TypeOK, Tombstones
  <2>4. Stamped(draft[2]) \subseteq Players
    BY <2>1, ConflictAssumption DEF Stamped
  <2> QED
    BY <1>7, <2>2, <2>3, <2>4, PushedOverlay DEF SubmitReport, TypeOK
<1>8. ASSUME NEW s \in Sets, Snooze(s) PROVE TypeOK'
  BY <1>8, PushedOverlay DEF Snooze, TypeOK
<1>9. ASSUME NEW p \in Players, CycleFlag(p) PROVE TypeOK'
  <2>1. flags' \in [Players -> Flags]
    BY <1>9 DEF CycleFlag, TypeOK
  <2> QED
    BY <1>9, <2>1, PushedOverlay DEF CycleFlag, TypeOK
<1>10. ASSUME NEW st \in Setups, NEW over \in Overrides, Reassign(st, over) PROVE TypeOK'
  BY <1>10, PushedOverlay DEF Reassign, TypeOK
<1>11. ASSUME NEW st \in Setups, Retire(st) PROVE TypeOK'
  <2>1. board' \in Boards
    BY <1>11, GoneStation DEF Retire, TypeOK, Boards
  <2>2. pools' \in [Setups -> Overrides]
    BY <1>11 DEF Retire, TypeOK, Overrides
  <2> QED
    BY <1>11, <2>1, <2>2, PushedOverlay DEF Retire, TypeOK
<1>12. ASSUME NEW st \in Setups, NEW type \in Types, AddStation(st, type) PROVE TypeOK'
  <2>1. board' \in Boards
    BY <1>12, FreshStation DEF AddStation, TypeOK, Boards
  <2> QED
    BY <1>12, <2>1, PushedOverlay DEF AddStation, TypeOK
<1>13. ASSUME NEW type \in Types, NEW target, NEW changed \in SUBSET Reassigned,
              SetCount(type, target, changed)
       PROVE  TypeOK'
  <2>1. CASE /\ board' = [st \in Setups |-> IF st \in changed
                            THEN Fresh(type) ELSE board[st]]
             /\ UNCHANGED pools
    <3>1. board' \in Boards
      BY <2>1, FreshStation DEF TypeOK, Boards
    <3> QED
      BY <1>13, <2>1, <3>1, PushedOverlay DEF SetCount, TypeOK
  <2>2. CASE /\ changed \subseteq OfType(type) \cap FreeStations(board)
             /\ board' = [st \in Setups |-> IF st \in changed
                            THEN Gone(board[st]) ELSE board[st]]
             /\ pools' = [st \in Setups |-> IF st \in changed THEN NoOverride ELSE pools[st]]
    <3>1. board' \in Boards
      BY <2>2, GoneStation DEF TypeOK, Boards, FreeStations
    <3>2. pools' \in [Setups -> Overrides]
      BY <2>2 DEF TypeOK, Overrides
    <3> QED
      BY <1>13, <2>2, <3>1, <3>2, PushedOverlay DEF SetCount, TypeOK
  <2> QED
    BY <1>13, <2>1, <2>2 DEF SetCount, Highest
<1>14. ASSUME Undo PROVE TypeOK'
  BY <1>14 DEF Undo, TypeOK, Overlay
<1> QED
  BY <1>1, <1>2, <1>3, <1>4, <1>5, <1>6, <1>7, <1>8, <1>9, <1>10, <1>11, <1>12, <1>13, <1>14
  DEF Operator

LEMMA EnvironmentType == TypeOK /\ Environment => TypeOK'
<1> SUFFICES ASSUME TypeOK, Environment PROVE TypeOK'
  OBVIOUS
<1> USE DEF local, tables, world, undoable
<1>0. "Absent" \in SetView
  BY DEF SetView
<1>1. ASSUME NEW b \in Brackets, LosePoll(b) PROVE TypeOK'
  BY <1>1, <1>0 DEF LosePoll, TypeOK
<1>2. ASSUME NEW b \in Brackets, NEW recent \in SUBSET SetsOf(b), ApplySnapshot(b, recent)
      PROVE  TypeOK'
  <2>1. board' \in Boards
    <3>1. PICK released : board' = [st \in Setups |-> IF board[st].set \in released
                                        THEN Freed(board[st]) ELSE board[st]]
      BY <1>2 DEF ApplySnapshot
    <3> QED
      BY <3>1, FreedStation DEF TypeOK, Boards
  <2>2. tomb' \in Tombstones /\ snoozes' \subseteq Sets /\ calledAt' \subseteq Sets /\ alerted' \subseteq Sets
    BY <1>2 DEF ApplySnapshot, TypeOK, Tombstones
  <2>3. table' \in [Sets -> SetView]
    BY <1>2 DEF ApplySnapshot, Applied, TypeOK
  <2>4. suspects' \subseteq Sets
    BY <1>2 DEF ApplySnapshot, Missing, SetsOf, TypeOK
  <2>5. softBusy' \subseteq Sets
    BY <1>2 DEF ApplySnapshot, Deviations, SetsOf, TypeOK
  <2>6. resting' \subseteq Players
    <3>1. resting' = resting \cup UNION {PlayersOf[s] : s \in recent}
      BY <1>2 DEF ApplySnapshot
    <3>2. \A s \in recent : PlayersOf[s] \subseteq Players
      BY ConflictAssumption DEF SetsOf
    <3> QED
      BY <3>1, <3>2 DEF TypeOK
  <2>7. fetched' \in [Sets -> SetView] /\ inFlight' \subseteq Brackets
    BY <1>2, <1>0 DEF ApplySnapshot, TypeOK
  <2> QED
    BY <1>2, <2>1, <2>2, <2>3, <2>4, <2>5, <2>6, <2>7 DEF ApplySnapshot, TypeOK
<1>3. ASSUME NEW b \in Brackets, NEW lost \in SUBSET (SetsOf(b) \cap LostSets), Fetch(b, lost)
      PROVE  TypeOK'
  BY <1>3, <1>0 DEF Fetch, TypeOK
<1>4. ASSUME NEW s \in Sets, SiteStep(s) PROVE TypeOK'
  <2>1. "Ready" \in SetView
    BY DEF SetView
  <2>2. site' \in [Sets -> SetView]
    BY <1>4, <2>1, DeskAssumption DEF SiteStep, TypeOK
  <2> QED
    BY <1>4, <2>2 DEF SiteStep, TypeOK
<1>5. ASSUME NEW s \in Sets, SnoozeExpires(s) PROVE TypeOK'
  <2>1. undo' \in Overlay \cup {NoUndo}
    BY <1>5 DEF SnoozeExpires, TypeOK, Overlay
  <2> QED
    BY <1>5, <2>1 DEF SnoozeExpires, TypeOK
<1>6. ASSUME NEW s \in Sets, NEW called \in BOOLEAN, NEW started \in BOOLEAN,
             MergeWrite(s, called, started)
      PROVE  TypeOK'
  BY <1>6, DeskAssumption DEF MergeWrite, TypeOK
<1>7. ASSUME NEW overdue \in SUBSET Sets, NoShow(overdue) PROVE TypeOK'
  BY <1>7 DEF NoShow, TypeOK
<1>8. ASSUME NEW p \in Players, RestExpires(p) PROVE TypeOK'
  BY <1>8 DEF RestExpires, TypeOK
<1> QED
  BY <1>1, <1>2, <1>3, <1>4, <1>5, <1>6, <1>7, <1>8 DEF Environment

LEMMA NextType == TypeOK /\ [Next]_vars => TypeOK'
<1> SUFFICES ASSUME TypeOK, [Next]_vars PROVE TypeOK'
  OBVIOUS
<1>1. CASE Next
  BY <1>1, OperatorType, EnvironmentType DEF Next
<1>2. CASE UNCHANGED vars
  BY <1>2 DEF TypeOK, vars, undoable, local, tables, world
<1> QED
  BY <1>1, <1>2

(* The overlay, the tables and the environment keep their types. *)
THEOREM TypeCorrect == Spec => []TypeOK
<1>1. Init => TypeOK
  BY InitType
<1>2. TypeOK /\ [Next]_vars => TypeOK'
  BY NextType
<1> QED
  BY <1>1, <1>2, PTL DEF Spec

-----------------------------------------------------------------------------
(* A set sits on one station, and on none while its finish awaits          *)
(* confirmation, unless it was reported from a station that had lost it.   *)

(* Stations gain no set between two boards. *)
Shrinks(bd, next) == \A st \in Setups : next[st].set \in {bd[st].set, NoSet}

SeatsOK(bd, tb) == OneSeat(bd) /\ tb.awaiting \cap Assigned(bd) \subseteq crossed

(* The overlay undo restores is as good as the one on the desk. *)
StationInv ==
    /\ SeatsOK(board, tomb)
    /\ undo # NoUndo => SeatsOK(undo.board, undo.tomb)

LEMMA BoardStation ==
  ASSUME NEW bd \in Boards, NEW st \in Setups
  PROVE  /\ bd[st] \in Station
         /\ bd[st].kind \in Seated <=> bd[st].set # NoSet
         /\ bd[st].kind \in Seated <=> bd[st].set \in Sets
  BY ConflictAssumption DEF Boards, Station, Seated

(* The assigned sets are the sets on the stations. *)
LEMMA AssignedSets ==
  ASSUME NEW bd \in Boards
  PROVE  /\ Assigned(bd) \subseteq Sets
         /\ \A s \in Sets : s \in Assigned(bd) <=> \E st \in Setups : bd[st].set = s
<1>1. \A st \in Setups : bd[st].kind \in Seated <=> bd[st].set \in Sets
  BY BoardStation
<1> QED
  BY <1>1 DEF Assigned

LEMMA ShrunkSeats ==
  ASSUME NEW bd \in Boards, NEW next \in Boards, Shrinks(bd, next)
  PROVE  /\ OneSeat(bd) => OneSeat(next)
         /\ Assigned(next) \subseteq Assigned(bd)
<1>1. NoSet \notin Sets
  BY ConflictAssumption
<1>2. OneSeat(bd) => OneSeat(next)
  BY DEF Shrinks, OneSeat
<1>3. Assigned(next) \subseteq Assigned(bd)
  BY <1>1, AssignedSets DEF Shrinks
<1> QED
  BY <1>2, <1>3

(* Only a call or an undo puts a set on a station, and only a desk finish  *)
(* or an undo adds an awaiting note.                                       *)
LEMMA Steps ==
  ASSUME TypeOK, TypeOK', [Next]_vars
  PROVE  \/ \E s \in Sets, st \in Setups : Call(s, st)
         \/ Undo
         \/ \E st \in Setups : Free(st)
         \/ SubmitReport
         \/ /\ Shrinks(board, board')
            /\ tomb'.awaiting \subseteq tomb.awaiting
<1> DEFINE Quiet == Shrinks(board, board') /\ tomb'.awaiting \subseteq tomb.awaiting
<1>1. UNCHANGED <<board, tomb>> => Quiet
  BY DEF Shrinks
<1>2. CASE Operator
  <2>1. ASSUME NEW st \in Setups, Progress(st) PROVE Quiet
    BY <2>1 DEF Progress, TypeOK, Boards, Shrinks
  <2>2. ASSUME NEW st \in Setups, Requeue(st) PROVE Quiet
    <3>1. board' = [board EXCEPT ![st] = Freed(@)] /\ tomb'.awaiting = tomb.awaiting
      BY <2>2 DEF Requeue, TypeOK, Tombstones
    <3> QED
      BY <3>1, FreedStation DEF TypeOK, Boards, Shrinks
  <2>3. ASSUME NEW st \in Setups, Retire(st) PROVE Quiet
    BY <2>3, GoneStation DEF Retire, TypeOK, Boards, Shrinks
  <2>4. ASSUME NEW st \in Setups, NEW type \in Types, AddStation(st, type) PROVE Quiet
    BY <2>4, FreshStation DEF AddStation, TypeOK, Boards, Shrinks
  <2>5. ASSUME NEW type \in Types, NEW target, NEW changed \in SUBSET Reassigned,
               SetCount(type, target, changed)
        PROVE  Quiet
    <3>1. tomb' = tomb
      BY <2>5 DEF SetCount
    <3>2. CASE board' = [st \in Setups |-> IF st \in changed THEN Fresh(type) ELSE board[st]]
      BY <3>1, <3>2, FreshStation DEF Shrinks
    <3>3. CASE /\ changed \subseteq OfType(type) \cap FreeStations(board)
               /\ board' = [st \in Setups |-> IF st \in changed THEN Gone(board[st]) ELSE board[st]]
      BY <3>1, <3>3, GoneStation DEF Shrinks, TypeOK, Boards, FreeStations
    <3> QED
      BY <2>5, <3>2, <3>3 DEF SetCount, Highest
  <2>6. ASSUME \/ \E st \in Setups : OpenReport(st)
               \/ CloseReport
               \/ \E s \in Sets : Snooze(s)
               \/ \E p \in Players : CycleFlag(p)
               \/ \E st \in Setups, over \in Overrides : Reassign(st, over)
        PROVE  Quiet
    BY <2>6, <1>1 DEF OpenReport, CloseReport, Snooze, CycleFlag, Reassign, undoable
  <2> QED
    BY <1>2, <2>1, <2>2, <2>3, <2>4, <2>5, <2>6 DEF Operator
<1>3. CASE Environment
  <2>1. ASSUME NEW b \in Brackets, NEW recent \in SUBSET SetsOf(b), ApplySnapshot(b, recent)
        PROVE  Quiet
    <3>1. PICK released : /\ board' = [st \in Setups |-> IF board[st].set \in released
                                         THEN Freed(board[st]) ELSE board[st]]
                          /\ tomb' = [tomb EXCEPT !.awaiting = @ \ released,
                                                  !.suppressActive = @ \ released,
                                                  !.suppressCalled = @ \ released]
      BY <2>1 DEF ApplySnapshot
    <3>2. tomb'.awaiting = tomb.awaiting \ released
      BY <3>1 DEF TypeOK, Tombstones
    <3>3. Shrinks(board, board')
      BY <3>1, FreedStation DEF TypeOK, Boards, Shrinks
    <3> QED
      BY <3>2, <3>3
  <2>2. ASSUME \/ \E b \in Brackets : LosePoll(b)
               \/ \E b \in Brackets : \E lost \in SUBSET (SetsOf(b) \cap LostSets) : Fetch(b, lost)
               \/ \E s \in Sets : SiteStep(s) \/ SnoozeExpires(s)
               \/ \E s \in Sets, called, started \in BOOLEAN : MergeWrite(s, called, started)
               \/ \E overdue \in SUBSET Sets : NoShow(overdue)
               \/ \E p \in Players : RestExpires(p)
        PROVE  Quiet
    BY <2>2, <1>1 DEF LosePoll, Fetch, SiteStep, SnoozeExpires, MergeWrite, NoShow, RestExpires, undoable
  <2> QED
    BY <1>3, <2>1, <2>2 DEF Environment
<1>4. CASE UNCHANGED vars
  BY <1>4, <1>1 DEF vars, undoable
<1> QED
  BY <1>2, <1>3, <1>4 DEF Next

(* What undo restores: the overlay of an earlier state, the current one    *)
(* when push_undo just saved it.                                           *)
LEMMA UndoSteps ==
  ASSUME TypeOK, TypeOK', [Next]_vars
  PROVE  \/ PushUndo /\ Operator /\ ~Undo
         \/ undo' = NoUndo
         \/ /\ undo # NoUndo
            /\ undo'.board = undo.board /\ undo'.tomb = undo.tomb
            /\ undo'.pools = undo.pools /\ undo'.calledAt = undo.calledAt
<1>1. CASE \E s \in Sets : SnoozeExpires(s)
  BY <1>1 DEF SnoozeExpires, TypeOK, Overlay
<1>2. CASE Operator
  BY <1>2 DEF Operator, Call, Progress, Free, Requeue, OpenReport, CloseReport, SubmitReport,
              Snooze, CycleFlag, Reassign, Retire, AddStation, SetCount, Undo
<1>3. CASE UNCHANGED undo
  BY <1>3
<1>4. CASE Environment /\ ~\E s \in Sets : SnoozeExpires(s)
  <2>1. UNCHANGED undo
    BY <1>4 DEF Environment, LosePoll, ApplySnapshot, Fetch, SiteStep, MergeWrite, NoShow, RestExpires
  <2> QED
    BY <2>1
<1> QED
  BY <1>1, <1>2, <1>3, <1>4 DEF Next, vars

(* The history of the reports only grows. *)
LEMMA CrossedGrows == [Next]_vars => crossed \subseteq crossed'
<1>1. CASE Operator
  BY <1>1 DEF Operator, Call, Progress, Free, Requeue, OpenReport, CloseReport, SubmitReport,
              Snooze, CycleFlag, Reassign, Retire, AddStation, SetCount, Undo, local
<1>2. CASE Environment \/ UNCHANGED vars
  BY <1>2 DEF Environment, LosePoll, ApplySnapshot, Fetch, SiteStep, SnoozeExpires, MergeWrite,
              NoShow, RestExpires, local, vars
<1> QED
  BY <1>1, <1>2 DEF Next

LEMMA StationInit == Init => StationInv
<1> SUFFICES ASSUME Init PROVE StationInv
  OBVIOUS
<1>1. \A st \in Setups : board[st].set = NoSet
  BY DeskAssumption DEF Init
<1>2. tomb.awaiting = {}
  BY DEF Init
<1> QED
  BY <1>1, <1>2 DEF Init, StationInv, SeatsOK, OneSeat

LEMMA StationStep == TypeOK /\ TypeOK' /\ StationInv /\ [Next]_vars => StationInv'
<1> SUFFICES ASSUME TypeOK, TypeOK', StationInv, [Next]_vars PROVE StationInv'
  OBVIOUS
<1>1. board \in Boards /\ board' \in Boards
  BY DEF TypeOK
<1>0. crossed \subseteq crossed'
  BY CrossedGrows
<1>2. SeatsOK(board, tomb)'
  <2>1. ASSUME NEW s \in Sets, NEW st \in Setups, Call(s, st) PROVE SeatsOK(board, tomb)'
    <3>1. \A x \in Setups : board[x].set # s
      BY <2>1, <1>1, AssignedSets DEF Call
    <3>2. s \notin tomb.awaiting /\ tomb' = tomb
      BY <2>1 DEF Call, CanCall, Callable, SetBlocked
    <3>3. \A x \in Setups : board'[x].set = IF x = st THEN s ELSE board[x].set
      BY <2>1, <1>1, SeatStation, DeskAssumption DEF Call, Boards
    <3>4. OneSeat(board')
      BY <3>1, <3>3 DEF OneSeat, StationInv, SeatsOK
    <3>5. Assigned(board') \subseteq Assigned(board) \cup {s}
      BY <3>3, <1>1, AssignedSets
    <3> QED
      BY <1>0, <3>2, <3>4, <3>5 DEF SeatsOK, StationInv
  <2>2. CASE Undo
    BY <1>0, <2>2 DEF Undo, StationInv, SeatsOK
  <2>3. ASSUME NEW st \in Setups, Free(st) PROVE SeatsOK(board, tomb)'
    <3> DEFINE s == board[st].set
    <3>1. s \in Sets
      BY <2>3, <1>1, BoardStation DEF Free
    <3>2. tomb'.awaiting = tomb.awaiting \cup {s}
      BY <2>3 DEF Free, TypeOK, Tombstones
    <3>3. \A x \in Setups : board'[x].set = IF x = st THEN NoSet ELSE board[x].set
      BY <2>3, <1>1, FreedStation DEF Free, Boards
    <3>4. \A x \in Setups : board'[x].set # s
      BY <3>1, <3>3, ConflictAssumption DEF StationInv, SeatsOK, OneSeat
    <3>5. Shrinks(board, board')
      BY <3>3 DEF Shrinks
    <3> QED
      BY <1>0, <3>1, <3>2, <3>4, <3>5, <1>1, AssignedSets, ShrunkSeats DEF SeatsOK, StationInv
  <2>4. CASE SubmitReport
    <3> DEFINE st == draft[1]
               s  == draft[2]
    <3>1. draft # NoDraft /\ st \in Setups /\ s \in Sets
      BY <2>4 DEF SubmitReport, TypeOK
    <3>2. tomb'.awaiting = tomb.awaiting \cup {s}
      BY <2>4 DEF SubmitReport, TypeOK, Tombstones
    <3>3. \A x \in Setups : board'[x].set = IF x = st /\ Holds(st, s) THEN NoSet ELSE board[x].set
      BY <2>4, <1>1, <3>1, FreedStation DEF SubmitReport, Boards
    <3>4. Shrinks(board, board')
      BY <3>3 DEF Shrinks
    <3>5. {s} \cap Assigned(board') \subseteq crossed'
      BY <2>4 DEF SubmitReport
    <3> QED
      BY <1>0, <3>2, <3>4, <3>5, <1>1, ShrunkSeats DEF SeatsOK, StationInv
  <2>5. CASE Shrinks(board, board') /\ tomb'.awaiting \subseteq tomb.awaiting
    BY <1>0, <2>5, <1>1, ShrunkSeats DEF SeatsOK, StationInv
  <2> QED
    BY <2>1, <2>2, <2>3, <2>4, <2>5, Steps
<1>3. (undo # NoUndo => SeatsOK(undo.board, undo.tomb))'
  <2>1. CASE PushUndo
    BY <1>0, <2>1 DEF PushUndo, StationInv, SeatsOK
  <2>2. CASE ~PushUndo
    BY <1>0, <2>2, UndoSteps DEF StationInv, SeatsOK
  <2> QED
    BY <2>1, <2>2
<1> QED
  BY <1>2, <1>3 DEF StationInv

(* A set is called on at most one station at a time. *)
THEOREM OneStation == Spec => []OneStationPerSet
<1>1. TypeOK /\ StationInv /\ [Next]_vars => TypeOK' /\ StationInv'
  BY NextType, StationStep
<1>2. StationInv => OneStationPerSet
  BY DEF StationInv, SeatsOK, OneStationPerSet
<1> QED
  BY InitType, StationInit, <1>1, <1>2, PTL DEF Spec

(* A set the desk said is over sits on no station, unless it was reported  *)
(* from a station that had lost it to another one.                         *)
THEOREM FinishedOffBoard == Spec => []AwaitingOffBoard
<1>1. TypeOK /\ StationInv /\ [Next]_vars => TypeOK' /\ StationInv'
  BY NextType, StationStep
<1>2. StationInv => AwaitingOffBoard
  BY DEF StationInv, SeatsOK, AwaitingOffBoard
<1> QED
  BY InitType, StationInit, <1>1, <1>2, PTL DEF Spec

(* A re-queued set that was not reported so ranks again. *)
THEOREM Requeues == Spec => RequeuedRanksAgain
<1>1. TypeOK /\ StationInv /\ [Next]_vars => TypeOK' /\ StationInv'
  BY NextType, StationStep
<1>2. ASSUME TypeOK, StationInv, NEW st \in Setups, Requeue(st), board[st].set \notin crossed
      PROVE  ~SetBlocked(board[st].set, table', tomb')
  <2> DEFINE s == board[st].set
  <2>1. board \in Boards
    BY <1>2 DEF TypeOK
  <2>2. s \in Sets /\ s \in Assigned(board)
    BY <1>2, <2>1, BoardStation, AssignedSets DEF Requeue
  <2>3. s \in tomb'.suppressCalled /\ s \in tomb'.suppressActive /\ tomb'.awaiting = tomb.awaiting
    BY <1>2, <2>2 DEF Requeue, TypeOK, Tombstones
  <2>4. s \notin tomb'.awaiting
    BY <1>2, <2>2, <2>3 DEF StationInv, SeatsOK
  <2> QED
    BY <2>3, <2>4 DEF SetBlocked
<1>3. TypeOK /\ StationInv /\ [Next]_vars =>
        [\A st \in Setups : Requeue(st) /\ board[st].set \notin crossed
                              => ~SetBlocked(board[st].set, table', tomb')]_vars
  BY <1>2
<1> QED
  BY InitType, StationInit, <1>1, <1>3, PTL DEF Spec, RequeuedRanksAgain

-----------------------------------------------------------------------------
(* The notes kept beside the board stay with it: pool overrides name       *)
(* stations on the board, and a called set keeps the stamp of its no-show  *)
(* timer or is said to be over.  Undo restores them all together.          *)

NotesOK(bd, overrides, noted) ==
    \A st \in Setups : /\ overrides[st] # NoOverride => bd[st].kind # "Absent"
                       /\ bd[st].kind = "Called" => bd[st].set \in noted

Noted == calledAt \cup tomb.awaiting

NotesInv ==
    /\ NotesOK(board, pools, Noted)
    /\ undo # NoUndo => NotesOK(undo.board, undo.pools, undo.calledAt \cup undo.tomb.awaiting)

LEMMA NotesInit == Init => NotesInv
<1> SUFFICES ASSUME Init PROVE NotesInv
  OBVIOUS
<1>1. \A st \in Setups : pools[st] = NoOverride /\ board[st].kind # "Called"
  BY DeskAssumption DEF Init
<1> QED
  BY <1>1 DEF Init, NotesInv, NotesOK

LEMMA NotesStep ==
  ASSUME TypeOK, TypeOK', StationInv, NotesInv, [Next]_vars
  PROVE  NotesInv'
<1> DEFINE OK == NotesOK(board, pools, Noted)'
<1>1. board \in Boards /\ board' \in Boards /\ pools \in [Setups -> Overrides] /\ OneSeat(board)
  BY DEF TypeOK, StationInv, SeatsOK
<1>2. ASSUME \A x \in Setups :
                \/ board'[x].kind = "Free"
                \/ board'[x].kind = board[x].kind /\ (board[x].kind = "Called"
                      => board'[x].set = board[x].set /\ board[x].set \in Noted'),
             UNCHANGED pools
      PROVE  OK
  BY <1>2 DEF NotesInv, NotesOK
<1>3. ASSUME NEW s \in Sets, NEW st \in Setups, Call(s, st) PROVE OK
  <2>1. board' = [board EXCEPT ![st] = Seat(board[st], CallAction, s)] /\ Noted' = Noted \cup {s}
        /\ pools' = pools
    BY <1>3 DEF Call, Noted
  <2>2. board'[st].kind # "Absent" /\ board'[st].set = s
    BY <2>1, <1>1, SeatStation, DeskAssumption DEF Boards, Seated
  <2>3. \A x \in Setups : x # st => board'[x] = board[x]
    BY <2>1, <1>1 DEF Boards
  <2> QED
    BY <2>1, <2>2, <2>3 DEF NotesInv, NotesOK
<1>4. ASSUME NEW st \in Setups, Progress(st) PROVE OK
  <2>1. board'[st].kind = "InProgress" /\ pools' = pools /\ Noted' = Noted
    BY <1>4, <1>1 DEF Progress, Boards, Station, Noted
  <2>2. \A x \in Setups : x # st => board'[x] = board[x]
    BY <1>4, <1>1 DEF Progress, Boards
  <2> QED
    BY <2>1, <2>2, <1>4 DEF Progress, NotesInv, NotesOK
<1>5. ASSUME NEW st \in Setups, Free(st) \/ Requeue(st) PROVE OK
  <2>1. board' = [board EXCEPT ![st] = Freed(board[st])] /\ pools' = pools
        /\ Noted \ {board[st].set} \subseteq Noted'
    BY <1>5 DEF Free, Requeue, Noted, TypeOK, Tombstones
  <2>2. board[st].set # NoSet
    BY <1>5, <1>1, BoardStation DEF Free, Requeue
  <2>3. board'[st].kind = "Free"
    BY <2>1, <1>1, FreedStation DEF Boards
  <2>4. \A x \in Setups : x # st => board'[x] = board[x] /\ board[x].set # board[st].set
    BY <2>1, <2>2, <1>1 DEF Boards, OneSeat
  <2> QED
    BY <2>1, <2>3, <2>4, <1>2 DEF NotesInv, NotesOK
<1>6. ASSUME SubmitReport PROVE OK
  <2> DEFINE st == draft[1]
             s  == draft[2]
  <2>1. st \in Setups /\ s \in Sets /\ draft # NoDraft
    BY <1>6 DEF SubmitReport, TypeOK
  <2>2. /\ board' = IF Holds(st, s) THEN [board EXCEPT ![st] = Freed(board[st])] ELSE board
        /\ pools' = pools /\ calledAt' = calledAt \ {s}
    BY <1>6 DEF SubmitReport
  <2>3. tomb'.awaiting = tomb.awaiting \cup {s}
    BY <1>6 DEF SubmitReport, TypeOK, Tombstones
  <2>4. Noted \subseteq Noted'
    BY <2>2, <2>3 DEF Noted
  <2>5. \A x \in Setups : board'[x].kind = "Free" \/ board'[x] = board[x]
    BY <2>1, <2>2, <1>1, FreedStation DEF Boards
  <2> QED
    BY <2>2, <2>4, <2>5, <1>2 DEF NotesInv, NotesOK
<1>7. ASSUME NEW st \in Setups, NEW over \in Overrides, Reassign(st, over) PROVE OK
  BY <1>7, <1>1 DEF Reassign, NotesInv, NotesOK, OnBoard, Noted
<1>8. ASSUME NEW st \in Setups, Retire(st) PROVE OK
  <2>1. /\ board' = [board EXCEPT ![st] = Gone(board[st])]
        /\ pools' = [pools EXCEPT ![st] = NoOverride] /\ Noted' = Noted
    BY <1>8 DEF Retire, Noted
  <2>2. board'[st].kind # "Called" /\ pools'[st] = NoOverride
    BY <1>8, <2>1, <1>1, GoneStation DEF Retire, Boards
  <2>3. \A x \in Setups : x # st => board'[x] = board[x] /\ pools'[x] = pools[x]
    BY <2>1, <1>1 DEF Boards
  <2> QED
    BY <2>1, <2>2, <2>3 DEF NotesInv, NotesOK
<1>9. ASSUME NEW st \in Setups, NEW type \in Types, AddStation(st, type) PROVE OK
  <2>1. \A x \in Setups : board'[x].kind = IF x = st THEN "Free" ELSE board[x].kind
    BY <1>9, <1>1, FreshStation DEF AddStation, Boards
  <2>2. \A x \in Setups : x # st => board'[x] = board[x]
    BY <1>9, <1>1 DEF AddStation, Boards
  <2>3. pools' = pools /\ Noted' = Noted
    BY <1>9 DEF AddStation, Noted
  <2>4. \A x \in Setups : pools'[x] # NoOverride => board'[x].kind # "Absent"
    BY <2>1, <2>3 DEF NotesInv, NotesOK
  <2>5. \A x \in Setups : board'[x].kind = "Called" => board'[x].set \in Noted'
    BY <2>1, <2>2, <2>3 DEF NotesInv, NotesOK
  <2> QED
    BY <2>4, <2>5 DEF NotesOK
<1>10. ASSUME NEW type \in Types, NEW target, NEW changed \in SUBSET Reassigned,
              SetCount(type, target, changed)
       PROVE  OK
  <2>1. Noted' = Noted
    BY <1>10 DEF SetCount, Noted
  <2>2. CASE /\ board' = [st \in Setups |-> IF st \in changed THEN Fresh(type) ELSE board[st]]
             /\ UNCHANGED pools
    BY <2>1, <2>2, FreshStation DEF NotesInv, NotesOK
  <2>3. CASE /\ changed \subseteq OfType(type) \cap FreeStations(board)
             /\ board' = [st \in Setups |-> IF st \in changed THEN Gone(board[st]) ELSE board[st]]
             /\ pools' = [st \in Setups |-> IF st \in changed THEN NoOverride ELSE pools[st]]
    <3>1. ASSUME NEW x \in changed, x \in Setups PROVE board'[x].kind # "Called" /\ pools'[x] = NoOverride
      BY <2>3, <3>1, <1>1, GoneStation DEF FreeStations, Boards
    <3>2. ASSUME NEW x \in Setups, x \notin changed PROVE board'[x] = board[x] /\ pools'[x] = pools[x]
      BY <2>3, <3>2
    <3> QED
      BY <2>1, <3>1, <3>2 DEF NotesInv, NotesOK
  <2> QED
    BY <1>10, <2>2, <2>3 DEF SetCount, Highest
<1>11. CASE Undo
  BY <1>11 DEF Undo, NotesInv, Noted
<1>12. ASSUME UNCHANGED <<board, pools, calledAt, tomb>> PROVE OK
  BY <1>12 DEF NotesInv, Noted
<1>13. CASE Operator
  <2>1. ASSUME \/ \E st \in Setups : OpenReport(st)
               \/ CloseReport
               \/ \E s \in Sets : Snooze(s)
               \/ \E p \in Players : CycleFlag(p)
        PROVE  OK
    BY <2>1, <1>12 DEF OpenReport, CloseReport, Snooze, CycleFlag, undoable
  <2>2. OK
    BY <2>1, <1>13, <1>3, <1>4, <1>5, <1>6, <1>7, <1>8, <1>9, <1>10, <1>11 DEF Operator, NotesInv
  <2>3. (undo # NoUndo => NotesOK(undo.board, undo.pools, undo.calledAt \cup undo.tomb.awaiting))'
    <3>1. CASE PushUndo
      BY <3>1 DEF PushUndo, NotesInv, Noted
    <3>2. CASE ~PushUndo
      BY <3>2, UndoSteps DEF NotesInv
    <3> QED
      BY <3>1, <3>2
  <2> QED
    BY <2>2, <2>3 DEF NotesInv
<1>14. CASE Environment \/ UNCHANGED vars
  <2>1. ASSUME NEW b \in Brackets, NEW recent \in SUBSET SetsOf(b), ApplySnapshot(b, recent) PROVE OK
    <3>1. PICK released :
             /\ board' = [st \in Setups |-> IF board[st].set \in released THEN Freed(board[st]) ELSE board[st]]
             /\ calledAt' = calledAt \ released /\ tomb'.awaiting = tomb.awaiting \ released
             /\ UNCHANGED pools
      BY <2>1 DEF ApplySnapshot, TypeOK, Tombstones
    <3>2. ASSUME NEW x \in Setups, board[x].set \in released PROVE board'[x].kind = "Free"
      BY <3>1, <3>2, <1>1, FreedStation DEF Boards
    <3>3. ASSUME NEW x \in Setups, board[x].set \notin released PROVE board'[x] = board[x]
      BY <3>1, <3>3
    <3> QED
      BY <3>1, <3>2, <3>3, <1>2 DEF NotesInv, NotesOK, Noted
  <2>2. OK
    BY <2>1, <1>12, <1>14 DEF Environment, LosePoll, Fetch, SiteStep, SnoozeExpires, MergeWrite,
                              NoShow, RestExpires, undoable, vars
  <2>3. (undo # NoUndo => NotesOK(undo.board, undo.pools, undo.calledAt \cup undo.tomb.awaiting))'
    <3>1. CASE PushUndo
      BY <3>1 DEF PushUndo, NotesInv, Noted
    <3>2. CASE ~PushUndo
      BY <3>2, UndoSteps DEF NotesInv
    <3> QED
      BY <3>1, <3>2
  <2> QED
    BY <2>2, <2>3 DEF NotesInv
<1> QED
  BY <1>13, <1>14 DEF Next

(* Pool overrides only ever name stations on the board. *)
THEOREM PoolsOnBoard == Spec => []OverridesOnBoard
<1>1. TypeOK /\ StationInv /\ NotesInv /\ [Next]_vars => TypeOK' /\ StationInv' /\ NotesInv'
  BY NextType, StationStep, NotesStep
<1>2. NotesInv => OverridesOnBoard
  BY DEF NotesInv, NotesOK, OverridesOnBoard
<1> QED
  BY InitType, StationInit, NotesInit, <1>1, <1>2, PTL DEF Spec

(* A called set keeps the stamp its no-show timer counts from, or the desk *)
(* has said that it is over.                                               *)
THEOREM StampsKept == Spec => []CalledSetsStamped
<1>1. TypeOK /\ StationInv /\ NotesInv /\ [Next]_vars => TypeOK' /\ StationInv' /\ NotesInv'
  BY NextType, StationStep, NotesStep
<1>2. NotesInv => CalledSetsStamped
  BY DEF NotesInv, NotesOK, Noted, CalledSetsStamped
<1> QED
  BY InitType, StationInit, NotesInit, <1>1, <1>2, PTL DEF Spec

(* Tombstones, call stamps and pool overrides follow the board, whatever    *)
(* is undone, retired, re-queued, released or reported late.               *)
THEOREM NotesFollow == Spec => []NotesFollowBoard
<1>1. AwaitingOffBoard /\ CalledSetsStamped /\ OverridesOnBoard => NotesFollowBoard
  BY DEF NotesFollowBoard
<1> QED
  BY FinishedOffBoard, StampsKept, PoolsOnBoard, <1>1, PTL

-----------------------------------------------------------------------------
(* No player is needed on two stations at once, when no set of the site is *)
(* lost by two fetches in a row or reset after its result.                 *)

SeatsPresent(bd) == \A st \in Setups : bd[st].set # NoSet => table[bd[st].set] # "Absent"

Booked(bd) == DisjointPlayers(bd) /\ SeatsPresent(bd)

BookingInv == Booked(board) /\ (undo # NoUndo => Booked(undo.board))

(* The table and the snapshot under way are behind the site, the table     *)
(* behind the snapshot: what is present or done stays so.                  *)
WorldInv ==
    \A s \in Sets :
        /\ table[s] = "Done" \/ fetched[s] = "Done" => site[s] = "Done"
        /\ table[s] # "Absent" \/ fetched[s] # "Absent" => site[s] # "Absent"
        /\ BracketOf[s] \in inFlight =>
              /\ table[s] = "Done" => fetched[s] \in {"Done", "Absent"}
              /\ table[s] # "Absent" /\ fetched[s] = "Absent" => s \notin suspects

Steady == VanishingSets = {} /\ ReopenedSets = {}

(* The busy index keeps the players of a seated set from being called: a   *)
(* station of ours outranks every remote claim, so the one source kept for *)
(* such a player is a seated set, never the set being called.              *)
LEMMA CalledPlayersIdle ==
  ASSUME TypeOK,
         NEW s \in Sets, s \notin Assigned(board), CanCall(s),
         NEW y \in Setups, SeatsLive(board, y)
  PROVE  PlayersOf[s] \cap PlayersOf[board[y].set] = {}
<1> SUFFICES ASSUME NEW p \in PlayersOf[s], p \in PlayersOf[board[y].set] PROVE FALSE
  OBVIOUS
<1> DEFINE t     == board[y].set
           mine  == LocalClaims(p, board, table)
           other == RemoteClaims(p, table, flags, tomb, softBusy)
           kept  == Kept(p, board, table, flags, tomb, softBusy)
           held  == [level |-> 3, set |-> t]
<1>1. board \in Boards
  BY DEF TypeOK
<1>2. t \in Sets /\ t \in Assigned(board) /\ table[t] \notin NotLive
  BY <1>1, BoardStation, AssignedSets DEF SeatsLive, Live
<1>3. held \in mine
  BY <1>2 DEF LocalClaims
<1>4. \A c \in mine : c.level = 3 /\ c.set \in Assigned(board)
  BY DEF LocalClaims
<1>5. \A c \in other : c.level \in 0..2
  BY DEF RemoteClaims
<1>6. \A c \in kept : c \in mine \cup other /\ held.level <= c.level
  BY <1>3 DEF Kept, Claims
<1>7. held.level = 3
  OBVIOUS
<1>8. \A c \in kept : c.set # s
  BY <1>4, <1>5, <1>6, <1>7
<1>9. held \in kept
  <2>1. \A c \in mine \cup other : c.level <= held.level
    BY <1>4, <1>5, <1>7
  <2> QED
    BY <1>3, <2>1 DEF Kept, Claims
<1>10. Idle(p, s, board, table, flags, tomb, softBusy)
  BY DEF CanCall, Callable
<1> QED
  BY <1>8, <1>9, <1>10 DEF Idle

(* A smaller board needs no more players. *)
LEMMA ShrunkBooked ==
  ASSUME NEW bd, NEW next, Shrinks(bd, next), Booked(bd)
  PROVE  Booked(next)
  BY DEF Shrinks, Booked, DisjointPlayers, SeatsPresent, SeatsLive

LEMMA WorldInit == Init => WorldInv
  BY DeskAssumption DEF Init, WorldInv

LEMMA WorldStep ==
  ASSUME Steady, TypeOK, TypeOK', WorldInv, [Next]_vars
  PROVE  WorldInv'
<1>1. ASSUME UNCHANGED <<table, suspects, site, fetched, inFlight>> PROVE WorldInv'
  BY <1>1 DEF WorldInv
<1>2. CASE Operator
  <2>1. UNCHANGED <<table, suspects, site, fetched, inFlight>>
    BY <1>2 DEF Operator, Call, Progress, Free, Requeue, OpenReport, CloseReport, SubmitReport,
                Snooze, CycleFlag, Reassign, Retire, AddStation, SetCount, Undo, tables, world
  <2> QED
    BY <2>1, <1>1
<1>3. ASSUME NEW b \in Brackets, LosePoll(b) PROVE WorldInv'
  BY <1>3 DEF LosePoll, WorldInv, TypeOK, undoable, local, tables
<1>4. ASSUME NEW b \in Brackets, NEW recent \in SUBSET SetsOf(b), ApplySnapshot(b, recent)
      PROVE  WorldInv'
  <2>1. /\ b \in inFlight /\ inFlight' = inFlight \ {b} /\ site' = site
        /\ table' = Applied(b)
        /\ suspects' = (suspects \ SetsOf(b)) \cup (Missing(b) \ suspects)
        /\ fetched' = [s \in Sets |-> IF BracketOf[s] = b THEN "Absent" ELSE fetched[s]]
    BY <1>4 DEF ApplySnapshot
  <2>2. ASSUME NEW s \in Sets, BracketOf[s] # b
        PROVE  /\ table'[s] = table[s] /\ fetched'[s] = fetched[s]
               /\ s \in suspects' <=> s \in suspects
    BY <2>1, <2>2 DEF Applied, Missing, SetsOf
  <2>3. ASSUME NEW s \in Sets, BracketOf[s] = b
        PROVE  table'[s] \in {table[s], fetched[s]} /\ fetched'[s] = "Absent" /\ b \notin inFlight'
    BY <2>1, <2>3 DEF Applied
  <2> QED
    BY <2>1, <2>2, <2>3 DEF WorldInv
<1>5. ASSUME NEW b \in Brackets, NEW lost \in SUBSET (SetsOf(b) \cap LostSets), Fetch(b, lost)
      PROVE  WorldInv'
  <2>1. /\ lost \cap suspects = {} /\ inFlight' = inFlight \cup {b}
        /\ UNCHANGED <<table, suspects, site>>
        /\ fetched' = [s \in Sets |-> IF BracketOf[s] # b THEN fetched[s]
                                      ELSE IF s \in lost THEN "Absent" ELSE site[s]]
    BY <1>5 DEF Fetch, Steady, tables
  <2>2. ASSUME NEW s \in Sets, BracketOf[s] = b
        PROVE  fetched'[s] \in {"Absent", site[s]} /\ (fetched'[s] = "Absent" /\ site[s] # "Absent" => s \in lost)
    BY <2>1, <2>2
  <2>3. ASSUME NEW s \in Sets, BracketOf[s] # b
        PROVE  fetched'[s] = fetched[s] /\ (BracketOf[s] \in inFlight' <=> BracketOf[s] \in inFlight)
    BY <2>1, <2>3
  <2> QED
    BY <2>1, <2>2, <2>3 DEF WorldInv
<1>6. ASSUME NEW s \in Sets, SiteStep(s) PROVE WorldInv'
  <2>1. PICK view \in SiteViews : <<site[s], view>> \in SiteMoves /\ site' = [site EXCEPT ![s] = view]
    BY <1>6 DEF SiteStep, Steady
  <2>2. site[s] # "Done" /\ view # "Absent"
    BY <2>1 DEF SiteMoves
  <2> QED
    BY <1>6, <2>1, <2>2 DEF SiteStep, WorldInv, TypeOK, tables
<1>7. ASSUME NEW s \in Sets, NEW called \in BOOLEAN, NEW started \in BOOLEAN,
             MergeWrite(s, called, started)
      PROVE  WorldInv'
  <2>1. PICK view : view \notin NotLive /\ table' = [table EXCEPT ![s] = view]
    BY <1>7 DEF MergeWrite, Merged, NotLive
  <2>2. table[s] \notin NotLive
    BY <1>7 DEF MergeWrite, NotPlayable, NotLive
  <2> QED
    BY <1>7, <2>1, <2>2 DEF MergeWrite, NotLive, WorldInv, TypeOK, world
<1>8. ASSUME \/ \E s \in Sets : SnoozeExpires(s)
             \/ \E overdue \in SUBSET Sets : NoShow(overdue)
             \/ \E p \in Players : RestExpires(p)
             \/ UNCHANGED vars
      PROVE  WorldInv'
  <2>1. UNCHANGED <<table, suspects, site, fetched, inFlight>>
    BY <1>8 DEF SnoozeExpires, NoShow, RestExpires, tables, world, vars
  <2> QED
    BY <2>1, <1>1
<1> QED
  BY <1>2, <1>3, <1>4, <1>5, <1>6, <1>7, <1>8 DEF Next, Environment

(* A set in the table stays there, and a finished one stays finished. *)
LEMMA TableStep ==
  ASSUME Steady, TypeOK, TypeOK', WorldInv, [Next]_vars,
         NEW s \in Sets, table[s] # "Absent"
  PROVE  table'[s] # "Absent" /\ (table[s] = "Done" => table'[s] = "Done")
<1>1. ASSUME NEW b \in Brackets, NEW recent \in SUBSET SetsOf(b), ApplySnapshot(b, recent)
      PROVE  table'[s] # "Absent" /\ (table[s] = "Done" => table'[s] = "Done")
  <2>1. b \in inFlight /\ table' = Applied(b)
    BY <1>1 DEF ApplySnapshot
  <2>2. CASE BracketOf[s] # b
    BY <2>1, <2>2 DEF Applied
  <2>3. CASE BracketOf[s] = b /\ fetched[s] = "Absent"
    <3>1. s \in Missing(b) \ suspects
      BY <2>1, <2>3 DEF WorldInv, Missing, SetsOf
    <3> QED
      BY <2>1, <3>1 DEF Applied
  <2>4. CASE BracketOf[s] = b /\ fetched[s] # "Absent"
    <3>1. table'[s] = fetched[s]
      BY <2>1, <2>4 DEF Applied, Missing
    <3> QED
      BY <2>1, <2>4, <3>1 DEF WorldInv
  <2> QED
    BY <2>2, <2>3, <2>4
<1>2. ASSUME NEW t \in Sets, NEW called \in BOOLEAN, NEW started \in BOOLEAN,
             MergeWrite(t, called, started)
      PROVE  table'[s] # "Absent" /\ (table[s] = "Done" => table'[s] = "Done")
  <2>1. PICK view : view # "Absent" /\ table' = [table EXCEPT ![t] = view]
    BY <1>2 DEF MergeWrite, Merged
  <2>2. table[t] # "Done"
    BY <1>2 DEF MergeWrite, NotPlayable
  <2> QED
    BY <2>1, <2>2 DEF TypeOK
<1>3. CASE UNCHANGED table
  BY <1>3
<1>4. CASE Operator
  BY <1>3, <1>4 DEF Operator, Call, Progress, Free, Requeue, OpenReport, CloseReport, SubmitReport,
              Snooze, CycleFlag, Reassign, Retire, AddStation, SetCount, Undo, tables
<1>5. CASE Environment
  BY <1>1, <1>2, <1>3, <1>5 DEF Environment, LosePoll, Fetch, SiteStep, SnoozeExpires, NoShow,
                                RestExpires, tables
<1> QED
  BY <1>3, <1>4, <1>5 DEF Next, vars, tables

(* A board with no double booking keeps none while the tables move. *)
LEMMA BookedStep ==
  ASSUME Steady, TypeOK, TypeOK', WorldInv, [Next]_vars,
         NEW bd \in Boards, Booked(bd)
  PROVE  Booked(bd)'
<1>1. ASSUME NEW st \in Setups, bd[st].set # NoSet
      PROVE  bd[st].set \in Sets /\ table[bd[st].set] # "Absent"
  BY <1>1, BoardStation DEF Booked, SeatsPresent
<1>2. ASSUME NEW st \in Setups, bd[st].set # NoSet
      PROVE  table'[bd[st].set] # "Absent" /\ (table[bd[st].set] = "Done" => table'[bd[st].set] = "Done")
  BY <1>1, <1>2, TableStep
<1>3. ASSUME NEW st \in Setups, SeatsLive(bd, st)' PROVE SeatsLive(bd, st)
  BY <1>1, <1>2, <1>3 DEF SeatsLive, Live, NotLive
<1>4. DisjointPlayers(bd)'
  BY <1>3 DEF DisjointPlayers, Booked
<1>5. SeatsPresent(bd)'
  BY <1>2 DEF SeatsPresent
<1> QED
  BY <1>4, <1>5 DEF Booked

LEMMA BookingStep ==
  ASSUME Steady, TypeOK, TypeOK', WorldInv, BookingInv, [Next]_vars
  PROVE  BookingInv'
<1>1. board \in Boards /\ board' \in Boards
  BY DEF TypeOK
<1>2. \A bd \in Boards : Booked(bd) => Booked(bd)'
  BY BookedStep
<1>3. Booked(board)'
  <2>1. ASSUME NEW s \in Sets, NEW st \in Setups, Call(s, st) PROVE Booked(board)'
    <3>1. \A x \in Setups : board'[x].set = IF x = st THEN s ELSE board[x].set
      BY <2>1, <1>1, SeatStation, DeskAssumption DEF Call, Boards
    <3>2. table' = table /\ table[s] # "Absent"
      BY <2>1 DEF Call, tables, CanCall, Callable, NotPlayable
    <3>3. \A y \in Setups : SeatsLive(board, y) => PlayersOf[s] \cap PlayersOf[board[y].set] = {}
      BY <2>1, CalledPlayersIdle DEF Call
    <3>4. ASSUME NEW x \in Setups, x # st, SeatsLive(board, x)'
          PROVE  SeatsLive(board, x) /\ board'[x].set = board[x].set
      BY <3>1, <3>2, <3>4 DEF SeatsLive, Live
    <3>5. DisjointPlayers(board)'
      BY <3>1, <3>3, <3>4 DEF DisjointPlayers, BookingInv, Booked
    <3>6. SeatsPresent(board)'
      BY <3>1, <3>2 DEF SeatsPresent, BookingInv, Booked
    <3> QED
      BY <3>5, <3>6 DEF Booked
  <2>2. CASE Undo
    <3>1. undo.board \in Boards /\ board' = undo.board /\ Booked(undo.board)
      BY <2>2 DEF Undo, TypeOK, Overlay, BookingInv
    <3> QED
      BY <3>1, <1>2
  <2>3. CASE Shrinks(board, board')
    <3>1. Booked(board')
      BY <2>3, ShrunkBooked DEF BookingInv
    <3> QED
      BY <3>1, <1>1, <1>2
  <2>4. ASSUME NEW st \in Setups, Free(st) PROVE Shrinks(board, board')
    BY <2>4, <1>1, FreedStation DEF Free, Boards, Shrinks
  <2>5. CASE SubmitReport
    <3>1. draft[1] \in Setups
      BY <2>5 DEF SubmitReport, TypeOK
    <3>2. Shrinks(board, board')
      BY <2>5, <3>1, <1>1, FreedStation DEF SubmitReport, Boards, Shrinks
    <3> QED
      BY <3>2, <2>3
  <2> QED
    BY <2>1, <2>2, <2>3, <2>4, <2>5, Steps
<1>4. (undo # NoUndo => Booked(undo.board))'
  <2>1. CASE PushUndo
    <3>1. undo'.board = board
      BY <2>1 DEF PushUndo
    <3> QED
      BY <3>1, <1>1, <1>2 DEF BookingInv
  <2>2. CASE undo # NoUndo /\ undo'.board = undo.board
    <3>1. undo.board \in Boards
      BY <2>2 DEF TypeOK, Overlay
    <3> QED
      BY <2>2, <3>1, <1>2 DEF BookingInv
  <2> QED
    BY <2>1, <2>2, UndoSteps
<1> QED
  BY <1>3, <1>4 DEF BookingInv

LEMMA BookingInit == Init => BookingInv
<1>1. Init => \A st \in Setups : board[st].set = NoSet
  BY DeskAssumption DEF Init
<1> QED
  BY <1>1 DEF Init, BookingInv, Booked, DisjointPlayers, SeatsPresent, SeatsLive

(* No player is needed on two stations at once. *)
THEOREM NoDoubles == ASSUME Steady PROVE Spec => []NoDoubleBooking
<1>2. TypeOK /\ WorldInv /\ BookingInv /\ [Next]_vars => TypeOK' /\ WorldInv' /\ BookingInv'
  BY NextType, WorldStep, BookingStep
<1>3. BookingInv => NoDoubleBooking
  BY DEF BookingInv, Booked, NoDoubleBooking
<1> QED
  BY InitType, WorldInit, BookingInit, <1>2, <1>3, PTL DEF Spec

-----------------------------------------------------------------------------
(* The desk implements Stations. *)

(* Two boards seat the same sets, but for one station, which one of them   *)
(* has free: undo gives back or takes away one seat at most.               *)
Differ(bd, x) == SeatOf(bd, table, x) # SeatOf(board, table, x)

Near(bd) ==
    /\ \A x \in Setups : Differ(bd, x) => NoSet \in {SeatOf(bd, table, x), SeatOf(board, table, x)}
    /\ \A x, y \in Setups : Differ(bd, x) /\ Differ(bd, y) => x = y

NearInv == undo # NoUndo => Near(undo.board)

(* The operator changes the set of one station at a time, and the tables   *)
(* not at all.                                                             *)
OneChange(bd, next) ==
    /\ \A x \in Setups : next[x].set # bd[x].set => bd[x].set = NoSet \/ next[x].set = NoSet
    /\ \A x, y \in Setups : next[x].set # bd[x].set /\ next[y].set # bd[y].set => x = y

LEMMA OperatorChanges ==
  ASSUME TypeOK, TypeOK', Operator, ~Undo
  PROVE  OneChange(board, board') /\ UNCHANGED table
<1> USE DEF OneChange
<1>1. UNCHANGED table
  BY DEF Operator, Call, Progress, Free, Requeue, OpenReport, CloseReport, SubmitReport,
         Snooze, CycleFlag, Reassign, Retire, AddStation, SetCount, Undo, tables
<1>2. board \in Boards
  BY DEF TypeOK
<1>3. UNCHANGED board => OneChange(board, board')
  OBVIOUS
<1>4. ASSUME NEW st \in Setups, NEW new, new.set = NoSet \/ board[st].set = NoSet,
             board' = [board EXCEPT ![st] = new]
      PROVE  OneChange(board, board')
  <2>1. \A x \in Setups : board'[x] = IF x = st THEN new ELSE board[x]
    BY <1>4, <1>2 DEF Boards
  <2> QED
    BY <1>4, <2>1
<1>5. ASSUME NEW s \in Sets, NEW st \in Setups, Call(s, st) PROVE OneChange(board, board')
  <2>1. board[st].set = NoSet
    BY <1>5, <1>2, BoardStation DEF Call, FreeStations, Seated
  <2> QED
    BY <1>5, <2>1, <1>4 DEF Call
<1>6. ASSUME NEW st \in Setups, Progress(st) PROVE OneChange(board, board')
  <2>1. \A x \in Setups : board'[x].set = board[x].set
    BY <1>6, <1>2 DEF Progress, Boards
  <2> QED
    BY <2>1
<1>7. ASSUME NEW st \in Setups, Free(st) \/ Requeue(st) PROVE OneChange(board, board')
  <2>1. board' = [board EXCEPT ![st] = Freed(board[st])]
    BY <1>7 DEF Free, Requeue
  <2> QED
    BY <2>1, <1>2, <1>4, FreedStation DEF Boards
<1>8. ASSUME SubmitReport PROVE OneChange(board, board')
  <2>1. PICK st \in Setups : UNCHANGED board \/ board' = [board EXCEPT ![st] = Freed(board[st])]
    BY <1>8 DEF SubmitReport, TypeOK
  <2> QED
    BY <2>1, <1>2, <1>3, <1>4, FreedStation DEF Boards
<1>9. ASSUME NEW st \in Setups, Retire(st) PROVE OneChange(board, board')
  <2>1. Gone(board[st]).set = NoSet
    BY <1>9, <1>2, GoneStation DEF Retire, Boards
  <2> QED
    BY <1>9, <2>1, <1>4 DEF Retire
<1>10. ASSUME NEW st \in Setups, NEW type \in Types, AddStation(st, type)
       PROVE  OneChange(board, board')
  BY <1>10, <1>4, FreshStation DEF AddStation
<1>11. ASSUME NEW type \in Types, NEW target, NEW changed \in SUBSET Reassigned,
              SetCount(type, target, changed)
       PROVE  OneChange(board, board')
  <2>1. ASSUME NEW x \in Setups PROVE board'[x].set = board[x].set
    <3>1. CASE /\ changed \subseteq Setups \ OnBoard(board)
               /\ board' = [st \in Setups |-> IF st \in changed THEN Fresh(type) ELSE board[st]]
      <4>1. x \in changed => board[x].set = NoSet
        BY <3>1, <1>2, BoardStation DEF OnBoard, Seated
      <4> QED
        BY <3>1, <4>1, FreshStation
    <3>2. CASE /\ changed \subseteq OfType(type) \cap FreeStations(board)
               /\ board' = [st \in Setups |-> IF st \in changed THEN Gone(board[st]) ELSE board[st]]
      <4>1. x \in changed => board[x].kind = "Free" /\ board[x].set = NoSet
        BY <3>2, <1>2, BoardStation DEF FreeStations, Seated
      <4>2. board[x] \in Station
        BY <1>2, BoardStation
      <4> QED
        BY <3>2, <4>1, <4>2, GoneStation
    <3> QED
      BY <1>11, <3>1, <3>2 DEF SetCount, Highest, Lowest
  <2> QED
    BY <2>1
<1>12. ASSUME \/ \E st \in Setups : OpenReport(st)
              \/ CloseReport
              \/ \E s \in Sets : Snooze(s)
              \/ \E p \in Players : CycleFlag(p)
              \/ \E st \in Setups, over \in Overrides : Reassign(st, over)
       PROVE  OneChange(board, board')
  <2>1. UNCHANGED board
    BY <1>12 DEF OpenReport, CloseReport, Snooze, CycleFlag, Reassign, undoable
  <2> QED
    BY <2>1
<1>13. OneChange(board, board')
  BY <1>5, <1>6, <1>7, <1>8, <1>9, <1>10, <1>11, <1>12 DEF Operator
<1> QED
  BY <1>1, <1>13

(* A seat of a board only empties while the tables move: when its set is   *)
(* finished.                                                               *)
LEMMA SeatStep ==
  ASSUME Steady, TypeOK, TypeOK', WorldInv, [Next]_vars,
         NEW bd \in Boards, SeatsPresent(bd), NEW st \in Setups,
         NEW seat, seat = SeatOf(bd, table, st)
  PROVE  SeatOf(bd, table', st) = IF seat # NoSet /\ table'[seat] # "Done" THEN seat ELSE NoSet
<1>1. CASE bd[st].set = NoSet
  BY <1>1 DEF SeatOf
<1>2. CASE bd[st].set # NoSet
  <2>1. bd[st].set \in Sets /\ table[bd[st].set] # "Absent"
    BY <1>2, BoardStation DEF SeatsPresent
  <2>2. table'[bd[st].set] # "Absent" /\ (table[bd[st].set] = "Done" => table'[bd[st].set] = "Done")
    BY <2>1, TableStep
  <2> QED
    BY <1>2, <2>1, <2>2 DEF SeatOf, NotLive
<1> QED
  BY <1>1, <1>2

(* Apart from the operator's, a change of the board frees a station of a   *)
(* finished set.                                                           *)
LEMMA Releases ==
  ASSUME TypeOK, TypeOK', [Next]_vars, ~Operator, NEW st \in Setups
  PROVE  \/ board'[st].set = board[st].set
         \/ /\ board'[st].set = NoSet /\ board[st].set # NoSet
            /\ table'[board[st].set] = "Done"
<1>1. ASSUME NEW b \in Brackets, NEW recent \in SUBSET SetsOf(b), ApplySnapshot(b, recent),
             board[st].set # NoSet
      PROVE  \/ board'[st].set = board[st].set
             \/ board'[st].set = NoSet /\ table'[board[st].set] = "Done"
  <2>1. PICK released \in SUBSET Sets :
           /\ \A s \in released : table'[s] = "Done"
           /\ board' = [x \in Setups |-> IF board[x].set \in released THEN Freed(board[x]) ELSE board[x]]
    <3> DEFINE released == News(b, Applied(b)) \cup Wedged(b, Applied(b))
    <3>1. released \in SUBSET Sets /\ \A s \in released : Applied(b)[s] = "Done"
      BY DEF SetsOf, News, Wedged
    <3>2. /\ table' = Applied(b)
          /\ board' = [x \in Setups |-> IF board[x].set \in released THEN Freed(board[x]) ELSE board[x]]
      BY <1>1 DEF ApplySnapshot
    <3>3. \A s \in released : table'[s] = "Done"
      BY <3>1, <3>2
    <3> QED
      BY <3>1, <3>2, <3>3
  <2> QED
    BY <2>1, FreedStation DEF TypeOK, Boards
<1>2. ASSUME NEW b \in Brackets, NEW recent \in SUBSET SetsOf(b), ApplySnapshot(b, recent),
             board[st].set = NoSet
      PROVE  board'[st].set = board[st].set
  <2>1. PICK released : board' = [x \in Setups |-> IF board[x].set \in released
                                                 THEN Freed(board[x]) ELSE board[x]]
    BY <1>2 DEF ApplySnapshot
  <2> QED
    BY <1>2, <2>1, FreedStation DEF TypeOK, Boards
<1>3. CASE UNCHANGED board
  BY <1>3
<1>4. CASE Environment
  BY <1>1, <1>2, <1>3, <1>4 DEF Environment, LosePoll, Fetch, SiteStep, SnoozeExpires, MergeWrite,
                                NoShow, RestExpires, undoable
<1> QED
  BY <1>3, <1>4 DEF Next, vars, undoable

LEMMA NearStep ==
  ASSUME Steady, TypeOK, TypeOK', WorldInv, BookingInv, NearInv, [Next]_vars
  PROVE  NearInv'
<1>1. board \in Boards /\ board' \in Boards
  BY DEF TypeOK
<1>2. CASE PushUndo /\ Operator /\ ~Undo
  <2>1. OneChange(board, board') /\ table' = table /\ undo'.board = board
    BY <1>2, OperatorChanges DEF PushUndo
  <2>2. \A x \in Setups : board'[x].set = board[x].set
                           => SeatOf(board', table, x) = SeatOf(board, table, x)
    BY DEF SeatOf
  <2>3. \A x \in Setups : board[x].set = NoSet => SeatOf(board, table, x) = NoSet
    BY DEF SeatOf
  <2>4. \A x \in Setups : board'[x].set = NoSet => SeatOf(board', table, x) = NoSet
    BY DEF SeatOf
  <2> QED
    BY <2>1, <2>2, <2>3, <2>4 DEF NearInv, Near, Differ, OneChange
<1>3. CASE undo # NoUndo /\ undo'.board = undo.board /\ ~(PushUndo /\ Operator /\ ~Undo)
  <2> DEFINE bd == undo.board
  <2>1. bd \in Boards /\ SeatsPresent(bd) /\ SeatsPresent(board)
    BY <1>3 DEF TypeOK, Overlay, BookingInv, Booked
  <2>2. CASE ~Operator
    <3>1. ASSUME NEW x \in Setups
          PROVE  SeatOf(board', table', x) = SeatOf(board, table', x)
      BY <2>2, Releases DEF SeatOf, NotLive
    <3>2. ASSUME NEW x \in Setups, SeatOf(bd, table, x) = SeatOf(board, table, x)
          PROVE  SeatOf(bd, table', x) = SeatOf(board', table', x)
      BY <3>1, <3>2, <2>1, <1>1, SeatStep
    <3>3. ASSUME NEW x \in Setups, SeatOf(bd, table, x) = NoSet
          PROVE  SeatOf(bd, table', x) = NoSet
      BY <3>3, <2>1, SeatStep
    <3>4. ASSUME NEW x \in Setups, SeatOf(board, table, x) = NoSet
          PROVE  SeatOf(board', table', x) = NoSet
      BY <3>1, <3>4, <2>1, <1>1, SeatStep
    <3>5. Near(bd)
      BY <1>3 DEF NearInv
    <3> QED
      BY <1>3, <3>2, <3>3, <3>4, <3>5 DEF NearInv, Near, Differ
  <2>3. CASE Operator
    <3>1. UNCHANGED <<board, table>> \/ undo' = NoUndo
      BY <1>3, <2>3 DEF Operator, Call, Progress, Free, Requeue, OpenReport, CloseReport, SubmitReport,
                 Snooze, CycleFlag, Reassign, Retire, AddStation, SetCount, Undo, undoable, tables
    <3> QED
      BY <1>3, <3>1 DEF NearInv, Near, Differ
  <2> QED
    BY <2>2, <2>3
<1> QED
  BY <1>2, <1>3, UndoSteps DEF NearInv

LEMMA RefineInit == Init => Promise!Init
<1> SUFFICES ASSUME Init PROVE Promise!Init
  OBVIOUS
<1>1. \A st \in Setups : SeatOf(board, table, st) = NoSet
  BY DeskAssumption DEF Init, SeatOf
<1> QED
  BY <1>1 DEF Promise!Init, Seating

LEMMA RefineStep ==
  ASSUME Steady, TypeOK, TypeOK', StationInv, WorldInv, BookingInv, NearInv, [Next]_vars
  PROVE  [Promise!Next]_Seating
<1>1. board \in Boards /\ board' \in Boards /\ SeatsPresent(board)
  BY DEF TypeOK, BookingInv, Booked
<1>2. ASSUME \A x \in Setups : Seating'[x] \in {Seating[x], NoSet}
      PROVE  Promise!Next
  <2> DEFINE freed == {x \in Setups : Seating'[x] # Seating[x]}
  <2>1. \A st \in freed : Seating[st] # NoSet
    BY <1>2
  <2>2. Seating' = [st \in Setups |-> IF st \in freed THEN NoSet ELSE Seating[st]]
    <3>1. \A st \in Setups : Seating'[st] = IF st \in freed THEN NoSet ELSE Seating[st]
      BY <1>2
    <3> QED
      BY <3>1 DEF Seating
  <2>3. freed \in SUBSET Setups
    OBVIOUS
  <2>4. Promise!Leave(freed)
    BY <2>1, <2>2 DEF Promise!Leave
  <2> QED
    BY <2>3, <2>4 DEF Promise!Next
<1>3. ASSUME NEW bd \in Boards, Booked(bd), OneSeat(bd),
             NEW st \in Setups, NEW s \in Sets,
             SeatOf(bd, table, st) = s,
             Seating[st] = NoSet,
             \A x \in Setups : x # st => Seating[x] = SeatOf(bd, table, x),
             \A x \in Setups : Seating'[x] = SeatOf(bd, table, x)
      PROVE  Promise!Next
  <2>1. Seating' = [Seating EXCEPT ![st] = s]
    BY <1>3 DEF Seating
  <2>2. ASSUME NEW t \in Promise!Taken PROVE t # s /\ PlayersOf[s] \cap PlayersOf[t] = {}
    <3>1. PICK x \in Setups : Seating[x] = t /\ t # NoSet
      BY DEF Promise!Taken
    <3>2. x # st /\ SeatOf(bd, table, x) = t
      BY <1>3, <3>1
    <3>3. s # NoSet
      BY ConflictAssumption
    <3>4. /\ bd[x].set = t /\ SeatsLive(bd, x)
          /\ bd[st].set = s /\ SeatsLive(bd, st)
      BY <1>3, <3>1, <3>2, <3>3 DEF SeatOf, SeatsLive, Live
    <3> QED
      BY <1>3, <3>2, <3>4, <3>3 DEF Booked, DisjointPlayers, OneSeat
  <2>3. Promise!Take(st, s)
    BY <1>3, <2>1, <2>2 DEF Promise!Take
  <2> QED
    BY <2>3 DEF Promise!Next
<1>4. ASSUME NEW s \in Sets, NEW st \in Setups, Call(s, st) PROVE Promise!Next
  <2>1. table' = table /\ table[s] \notin NotLive /\ s \notin Assigned(board)
    BY <1>4 DEF Call, tables, CanCall, Callable, NotPlayable, NotLive
  <2>2. board[st].set = NoSet
    BY <1>4, <1>1, BoardStation DEF Call, FreeStations, Seated
  <2>3. \A x \in Setups : board'[x].set = IF x = st THEN s ELSE board[x].set
    BY <1>4, <1>1, SeatStation, DeskAssumption DEF Call, Boards
  <2>4. SeatOf(board', table, st) = s
    BY <2>1, <2>3, ConflictAssumption DEF SeatOf
  <2>5. Booked(board')
    <3>1. \A y \in Setups : SeatsLive(board, y) => PlayersOf[s] \cap PlayersOf[board[y].set] = {}
      BY <1>4, CalledPlayersIdle DEF Call
    <3>2. ASSUME NEW x \in Setups, x # st, SeatsLive(board', x)
          PROVE  SeatsLive(board, x) /\ board'[x].set = board[x].set
      BY <2>3, <3>2 DEF SeatsLive
    <3>3. DisjointPlayers(board')
      BY <2>3, <3>1, <3>2 DEF DisjointPlayers, BookingInv, Booked
    <3>4. SeatsPresent(board')
      BY <1>1, <2>1, <2>3 DEF SeatsPresent, NotLive
    <3> QED
      BY <3>3, <3>4 DEF Booked
  <2>6. OneSeat(board')
    <3>1. \A x \in Setups : board[x].set # s
      BY <1>1, <2>1, AssignedSets
    <3> QED
      BY <2>3, <3>1 DEF OneSeat, StationInv, SeatsOK
  <2>7. \A x \in Setups : Seating'[x] = SeatOf(board', table, x)
    BY <2>1 DEF Seating
  <2>8. \A x \in Setups : x # st => Seating[x] = SeatOf(board', table, x)
    BY <2>3 DEF Seating, SeatOf
  <2>9. Seating[st] = NoSet
    BY <2>2 DEF Seating, SeatOf
  <2> QED
    BY <1>1, <1>3, <2>4, <2>5, <2>6, <2>7, <2>8, <2>9
<1>5. CASE Undo
  <2> DEFINE bd == undo.board
  <2>1. bd \in Boards /\ Booked(bd) /\ OneSeat(bd) /\ Near(bd)
    BY <1>5 DEF Undo, TypeOK, Overlay, BookingInv, StationInv, SeatsOK, NearInv
  <2>2. \A x \in Setups : Seating'[x] = SeatOf(bd, table, x) /\ Seating[x] = SeatOf(board, table, x)
    BY <1>5 DEF Undo, Seating, tables
  <2>3. CASE \E st \in Setups : Differ(bd, st) /\ SeatOf(bd, table, st) # NoSet
    <3>1. PICK st \in Setups : Differ(bd, st) /\ SeatOf(bd, table, st) # NoSet
      BY <2>3
    <3>2. SeatOf(board, table, st) = NoSet
      BY <2>1, <3>1 DEF Near
    <3>3. \A x \in Setups : x # st => SeatOf(board, table, x) = SeatOf(bd, table, x)
      BY <2>1, <3>1 DEF Near, Differ
    <3>4. SeatOf(bd, table, st) \in Sets
      BY <2>1, <3>1, BoardStation DEF SeatOf
    <3> QED
      BY <1>3, <2>1, <2>2, <3>2, <3>3, <3>4
  <2>4. CASE \A st \in Setups : Differ(bd, st) => SeatOf(bd, table, st) = NoSet
    BY <1>2, <2>2, <2>4 DEF Differ
  <2> QED
    BY <2>3, <2>4
<1>6. CASE Shrinks(board, board')
  <2>1. ASSUME NEW x \in Setups PROVE Seating'[x] \in {Seating[x], NoSet}
    <3>1. Seating[x] = SeatOf(board, table, x) /\ Seating'[x] = SeatOf(board', table', x)
      BY DEF Seating
    <3>2. SeatOf(board, table', x) \in {SeatOf(board, table, x), NoSet}
      BY <1>1, SeatStep
    <3>3. SeatOf(board', table', x) \in {SeatOf(board, table', x), NoSet}
      BY <1>6 DEF Shrinks, SeatOf
    <3> QED
      BY <3>1, <3>2, <3>3
  <2> QED
    BY <1>2, <2>1
<1>7. ASSUME NEW st \in Setups, Free(st) PROVE Shrinks(board, board')
  BY <1>7, <1>1, FreedStation DEF Free, Boards, Shrinks
<1>8. ASSUME SubmitReport PROVE Shrinks(board, board')
  <2>1. draft[1] \in Setups
    BY <1>8 DEF SubmitReport, TypeOK
  <2> QED
    BY <1>8, <2>1, <1>1, FreedStation DEF SubmitReport, Boards, Shrinks
<1> QED
  BY <1>4, <1>5, <1>6, <1>7, <1>8, Steps

(* The desk implements the abstract stations: it seats one set at a time,  *)
(* on a free station, and never one that needs a seated player.            *)
THEOREM Refinement == ASSUME Steady PROVE Spec => SeatsOneAtATime
<1> DEFINE Inv == TypeOK /\ StationInv /\ WorldInv /\ BookingInv /\ NearInv
<1>1. Init => Inv
  <2>1. Init => NearInv
    BY DEF Init, NearInv
  <2> QED
    BY <2>1, InitType, StationInit, WorldInit, BookingInit
<1>2. Inv /\ [Next]_vars => Inv'
  BY NextType, StationStep, WorldStep, BookingStep, NearStep
<1>3. Inv /\ Inv' /\ [Next]_vars => [Promise!Next]_Seating
  BY RefineStep
<1>4. Init => Promise!Init
  BY RefineInit
<1> HIDE DEF Inv
<1> QED
  BY <1>1, <1>2, <1>3, <1>4, PTL DEF Spec, SeatsOneAtATime, Promise!Spec
=============================================================================
