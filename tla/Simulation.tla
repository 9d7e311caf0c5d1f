------------------------------- MODULE Simulation -------------------------------
(***************************************************************************)
(* The greedy forward simulation (tools/scheduler/core/src/simulator.rs):  *)
(* from a snapshot of the world to the projected end of every bracket, by  *)
(* an event queue of completions and wakes, with the callable predicate of *)
(* module Conflict and the scores of ranker.rs over module BracketGraph.   *)
(*                                                                         *)
(* A behaviour is one run of simulate_inner; the worlds it starts from are *)
(* the initial states.  Brackets, groups, players and keys are numbers, in *)
(* the order of their names.  Time is in units of an estimate.             *)
(***************************************************************************)
EXTENDS BracketGraph

CONSTANTS
    Brackets, Setups, Players, Types,
    NoSet, AllowAny, NoOverride,
    Worlds,     \* the snapshots to simulate
    MaxTime     \* Bound: no projection reaches it

ASSUME SimulationAssumption ==
    /\ Brackets \subseteq Nat /\ Setups \subseteq Nat /\ Players \subseteq Nat \ {Nobody}
    /\ IsFiniteSet(Brackets) /\ IsFiniteSet(Players)
    /\ NoSet \notin Nat \X (Nat \X Int \X Nat)
    /\ MaxTime \in Nat

VARIABLES
    world,     \* the SimWorld, and the action forced on it
    tables,    \* the sets of each bracket
    board,
    since,     \* last_completed, -1 for never
    events,    \* [at, n, set]: the completion of a set, or a wake (NoSet)
    pushed,    \* seq
    clock,
    hold,      \* hold_setup, or 0
    finish,    \* finish_by_bracket, or -1
    phase      \* where simulate_inner stands

vars == <<world, tables, board, since, events, pushed, clock, hold, finish, phase>>

Slots == [from : Nat, place : {1, 2}, who : Players \cup {Nobody}]
SimSets ==
    [id : Int, key : Nat \X Int \X Nat,
     done : BOOLEAN, started : BOOLEAN, called : BOOLEAN, placeholder : BOOLEAN,
     winner : Players \cup {Nobody}, slots : Seq(Slots)]

TypeOK ==
    /\ \E w \in Worlds : world = [w EXCEPT !.action = world.action]
    /\ tables \in [Brackets -> Seq(SimSets)]
    /\ \A st \in Setups : board[st].kind \in {"Free", "Called", "InProgress"}
    /\ since \in [Players -> -1..MaxTime]
    /\ \A e \in events : e.at \in 0..MaxTime /\ e.n < pushed
    /\ clock \in 0..MaxTime
    /\ hold \in Setups \cup {0}
    /\ finish \in [Brackets -> -1..MaxTime]
    /\ phase \in {"action", "walkovers", "calls", "next", "ended"}

-----------------------------------------------------------------------------
(* The world as the callable predicate sees it.  A set is named by its      *)
(* bracket and key.                                                        *)

NamesIn(tbl) == UNION {{<<b, tbl[b][i].key>> : i \in DOMAIN tbl[b]} : b \in Brackets}
PlaceIn(sets, key) == LET places == {i \in DOMAIN sets : sets[i].key = key} IN CHOOSE i \in places : TRUE
SetIn(tbl, n) == tbl[n[1]][PlaceIn(tbl[n[1]], n[2])]

Names       == NamesIn(tables)
Position(n) == PlaceIn(tables[n[1]], n[2])
Named(n)    == SetIn(tables, n)

(* Variant: only one of the entrants is looked up. *)
FirstOccupants(n) == {Named(n).slots[1].who} \ {Nobody}
PlayersIn(n) == Occupants(Named(n))

View(n) ==
    LET set == Named(n) IN
    IF set.done THEN "Done"
    ELSE CASE set.started /\ set.called  -> "ActiveCalled"
           [] set.started /\ ~set.called -> "Active"
           [] set.called /\ ~set.started -> "Called"
           [] OTHER                      -> "Ready"

C == INSTANCE Conflict WITH
        Sets <- Names,
        BracketOf <- [n \in Names |-> n[1]],
        PlayersOf <- [n \in Names |-> PlayersIn(n)],
        BracketTypes <- world.types,
        ConflictOnly <- {b \in Brackets : world.mode[b] = "ConflictOnly"}

IsOpen(b, t) == b \notin world.held /\ world.opens[b] <= t
Absent(b, p) == <<b, p>> \in world.absent

(* conflict_index: rest windows, and the horizon of those who were resting  *)
(* when the snapshot was taken.                                            *)
Resting(t) ==
    {p \in Players : \/ world.window > 0 /\ since[p] >= 0 /\ since[p] + world.window > t
                     \/ p \in world.resting \ world.force /\ world.horizon > t}

(* callable, at time t: its own bracket and occupants, and the index. *)
Playable(n, t) ==
    /\ AllOccupied(Named(n)) /\ ~Named(n).placeholder
    /\ IsOpen(n[1], t)
    /\ \A p \in PlayersIn(n) : ~Absent(n[1], p)

Candidates(t) ==
    {n \in Names :
        /\ Playable(n, t)
        /\ C!Callable(n, board, [m \in Names |-> View(m)],
                      [p \in Players |-> IF p \in world.force THEN "force" ELSE "none"],
                      world.tomb, world.softBusy, world.pools,
                      Resting(t), {})}

-----------------------------------------------------------------------------
(* GreedyRanker over the candidates of one station; nobody has waited. *)

AllRemaining(p) ==
    TotalOf([b \in Brackets |-> Remaining(tables[b], world.groups[b], p)], Brackets)

Score(n) ==
    100 * Depths(tables[n[1]], world.groups[n[1]])[Position(n)]
      + 5 * Greatest({AllRemaining(p) : p \in PlayersIn(n)}, 0)
      + Unblocks(tables[n[1]], Position(n))

KeyBefore(k, l) ==
    \/ k[1] < l[1]
    \/ k[1] = l[1] /\ k[2] < l[2]
    \/ k[1] = l[1] /\ k[2] = l[2] /\ k[3] < l[3]

(* The highest score first, then the lower bracket and key. *)
Scored(candidates) == {[score |-> Score(n), n |-> n] : n \in candidates}
Before(x, y) ==
    \/ x.score > y.score
    \/ x.score = y.score /\ x.n[1] < y.n[1]
    \/ x.score = y.score /\ x.n[1] = y.n[1] /\ KeyBefore(x.n[2], y.n[2])

Greedy(candidates) ==
    LET ranked == Ordered(Scored(candidates), Before) IN [k \in DOMAIN ranked |-> ranked[k].n]

On(st, candidates) == {n \in candidates : st \in C!Pool(n[1], board, world.pools)}

(* next_assignment: the first free station, in board order and not held,    *)
(* that has a candidate.                                                   *)
Takers(candidates) == {st \in C!FreeStations(board) \ {hold} : On(st, candidates) # {}}

Estimate(n) == world.estimates[n[1]] + (IF world.noise THEN n[2][3] % 2 ELSE 0)

-----------------------------------------------------------------------------
(* Events. *)

Push(queue, n, at, set) == queue \cup {[at |-> at, n |-> n, set |-> set]}
PushAll(queue, n, entries) ==
    queue \cup {[at |-> entries[i].at, n |-> n + i - 1, set |-> entries[i].set] : i \in DOMAIN entries}

Earliest == CHOOSE e \in events : \A f \in events : e.at < f.at \/ (e.at = f.at /\ e.n <= f.n)

(* assign: the set starts now and ends one estimate later. *)
Seat(st, n) ==
    /\ tables' = [tables EXCEPT ![n[1]][Position(n)].started = TRUE]
    /\ board' = [board EXCEPT ![st].kind = "InProgress", ![st].set = n]
    /\ events' = Push(events, pushed, clock + Estimate(n), n)
    /\ pushed' = pushed + 1

-----------------------------------------------------------------------------
(* apply_completion. *)

(* Variant: winner and loser change places. *)
PlacedInverted(slot, id, winner, loser) ==
    IF slot.from = id /\ slot.who = Nobody
    THEN [slot EXCEPT !.who = IF slot.place = 2 THEN winner ELSE loser] ELSE slot

Placed(slot, id, winner, loser) ==
    IF slot.from = id /\ slot.who = Nobody
    THEN [slot EXCEPT !.who = IF slot.place = 2 THEN loser ELSE winner] ELSE slot

Resolved(set) == IF AllOccupied(set) THEN [set EXCEPT !.placeholder = FALSE] ELSE set

(* The first entrant who is there wins, the other one loses; the slots that *)
(* wait for this set are filled, except those of a reset.                  *)
Decided(b, sets, i) ==
    LET slots   == sets[i].slots
        present == {k \in DOMAIN slots : slots[k].who # Nobody /\ ~Absent(b, slots[k].who)}
        least(S, default) == IF S = {} THEN default ELSE CHOOSE k \in S : \A l \in S : k <= l
        won     == least(present, 1)
        lost    == least({k \in DOMAIN slots : k # won /\ slots[k].who # Nobody}, 0)
        winner  == IF slots = <<>> THEN Nobody ELSE slots[won].who
        loser   == IF lost = 0 THEN Nobody ELSE slots[lost].who
        filled(set) ==
            IF set.done \/ ResetShaped(set) THEN set
            ELSE Resolved([set EXCEPT !.slots =
                    [k \in DOMAIN set.slots |-> Placed(set.slots[k], sets[i].id, winner, loser)]])
    IN  [j \in DOMAIN sets |-> IF j = i THEN [sets[i] EXCEPT !.done = TRUE, !.winner = winner]
                               ELSE filled(sets[j])]

InOrder(S) == Ordered(S, <)

(* synthesize_due_swiss_rounds: a swiss group whose round is over gets the  *)
(* next one, its entrants paired in order, an odd one out.                 *)
NewRound(b, sets, group) ==
    LET members == Members(sets, group)
        round   == Greatest({RoundOf(sets[i]) : i \in members}, 0)
        players == InOrder({p \in Entrants(sets, members) : ~Absent(b, p)})
        pairing(k) == [id |-> 100 * group.id + 10 * round + k,
                       key |-> <<group.id, round + 1, 100 + k>>,
                       done |-> FALSE, started |-> FALSE, called |-> FALSE, placeholder |-> FALSE,
                       winner |-> Nobody,
                       slots |-> [x \in 1..2 |-> [from |-> 0, place |-> 1, who |-> players[2 * k - 2 + x]]]]
    IN  IF \/ group.kind # "swiss" \/ members = {}
           \/ round >= group.rounds
           \/ members \cap OpenSets(sets) # {}
        THEN <<>> ELSE [k \in 1..(Len(players) \div 2) |-> pairing(k)]

NewRounds(b, sets) ==
    FlattenSeq([g \in DOMAIN world.groups[b] |-> NewRound(b, sets, world.groups[b][g])])

GroupFinished(sets, group) ==
    /\ Members(sets, group) # {}
    /\ Members(sets, group) \cap OpenSets(sets) = {}
    /\ group.kind = "swiss" =>
          Greatest({RoundOf(sets[i]) : i \in Members(sets, group)}, 0) >= group.rounds

Pending(slot) == slot.who = Nobody /\ slot.from = 0

(* Most wins first, then the lower entrant. *)
Qualifiers(b, sets, prev, cur) ==
    LET wins(p) == Cardinality({i \in prev : sets[i].winner = p})
    IN  Ordered({p \in Entrants(sets, prev) \ Entrants(sets, cur) : ~Absent(b, p)},
                LAMBDA p, q : wins(p) > wins(q) \/ (wins(p) = wins(q) /\ p < q))

(* fill_group_progressions: when every group of a stage is finished, its    *)
(* qualifiers take the pending slots of the next one, in table order.      *)
InStage(b, sets, s) == UNION {Members(sets, world.groups[b][g]) : g \in Stages(world.groups[b])[s]}

PendingBefore(sets, cur, i, k) ==
    {x \in cur \X {1, 2} :
        /\ x[2] \in DOMAIN sets[x[1]].slots /\ Pending(sets[x[1]].slots[x[2]])
        /\ x[1] < i \/ (x[1] = i /\ x[2] < k)}

StageFilled(b, sets, s) ==
    LET cur  == InStage(b, sets, s) \cap OpenSets(sets)
        list == Qualifiers(b, sets, InStage(b, sets, s - 1), InStage(b, sets, s))
        turn(i, k) == Cardinality(PendingBefore(sets, cur, i, k)) + 1
        slot(i, k) == IF Pending(sets[i].slots[k]) /\ turn(i, k) <= Len(list)
                      THEN [sets[i].slots[k] EXCEPT !.who = list[turn(i, k)]] ELSE sets[i].slots[k]
        seated(i)  == [sets[i] EXCEPT !.slots = [k \in DOMAIN sets[i].slots |-> slot(i, k)]]
        short == {i \in cur : \E k \in DOMAIN sets[i].slots :
                    Pending(sets[i].slots[k]) /\ turn(i, k) > Len(list)}
    IN  IF \A g \in Stages(world.groups[b])[s - 1] : GroupFinished(sets, world.groups[b][g])
        THEN [i \in DOMAIN sets |->
                IF i \notin cur THEN sets[i]
                ELSE IF \E j \in short : j <= i THEN seated(i) ELSE Resolved(seated(i))]
        ELSE sets

Progressed(b, sets) ==
    FoldLeft(LAMBDA done, s : StageFilled(b, done, s), sets,
             [s \in 1..(Len(Stages(world.groups[b])) - 1) |-> s + 1])

(* Variant: no wake when the rest windows of this set are over. *)
WakesWithoutRest(t, changed) ==
    IF changed THEN <<[at |-> t, set |-> NoSet]>> ELSE <<>>

Wakes(t, changed) ==
    (IF world.window > 0 THEN <<[at |-> t + world.window, set |-> NoSet]>> ELSE <<>>)
      \o (IF changed THEN <<[at |-> t, set |-> NoSet]>> ELSE <<>>)

(* Every station that serves the set is freed, also when the set is gone or *)
(* was completed before.                                                   *)
Vacated(n) ==
    [st \in Setups |-> IF board[st].set = n THEN [board[st] EXCEPT !.kind = "Free", !.set = NoSet]
                       ELSE board[st]]

Refilled(before, after) == \E i \in DOMAIN before : Occupants(after[i]) # Occupants(before[i])

Completed(n, t, queue) ==
    /\ board' = Vacated(n)
    /\ IF n \notin Names \/ Named(n).done
       THEN /\ events' = queue
            /\ UNCHANGED <<tables, since, pushed, finish>>
       ELSE \E b \in {n[1]} :
            \E sets \in {Decided(b, tables[b], Position(n))} :
            \E grown \in {sets \o NewRounds(b, sets)} :
            \E done \in {Progressed(b, grown)} :
            \E wakes \in {Wakes(t, grown # sets \/ Refilled(grown, done))} :
                /\ tables' = [tables EXCEPT ![b] = done]
                /\ finish' = IF world.mode[b] = "Full" THEN [finish EXCEPT ![b] = Larger(@, t)] ELSE finish
                /\ since' = [p \in Players |->
                       IF world.window > 0 /\ p \in PlayersIn(n) THEN Larger(since[p], t) ELSE since[p]]
                /\ events' = PushAll(queue, pushed, wakes)
                /\ pushed' = pushed + Len(wakes)

-----------------------------------------------------------------------------
(* SimState::init. *)

(* initial_in_flight: what is awaited, called or on a station ends one      *)
(* estimate from now, what is under way one estimate after it started.     *)
InFlight(w) ==
    LET started(n) == w.startedAt + w.estimates[n[1]] + (IF w.noise THEN n[2][3] % 2 ELSE 0)
        fresh(n)   == w.now + w.estimates[n[1]] + (IF w.noise THEN n[2][3] % 2 ELSE 0)
        entry(n, set) ==
            CASE n \in w.tomb.awaiting -> <<[at |-> fresh(n), set |-> n]>>
              [] n \notin w.tomb.awaiting /\ set.started ->
                    <<[at |-> Larger(started(n), w.now + 1), set |-> n]>>
              [] n \notin w.tomb.awaiting /\ ~set.started
                 /\ (set.called \/ \E st \in Setups : w.board[st].set = n) ->
                    <<[at |-> fresh(n), set |-> n]>>
              [] OTHER -> <<>>
        ofBracket(b) == FlattenSeq([i \in DOMAIN w.tables[b] |->
                            IF w.tables[b][i].done THEN <<>>
                            ELSE entry(<<b, w.tables[b][i].key>>, w.tables[b][i])])
    IN  FlattenSeq([x \in 1..Cardinality(Brackets) |-> ofBracket(InOrder(Brackets)[x])])

FirstWakes(w) ==
    <<[at |-> w.horizon, set |-> NoSet]>>
      \o SetToSeq({[at |-> w.since[p] + w.window, set |-> NoSet] :
                      p \in {q \in Players : w.window > 0 /\ w.since[q] >= 0 /\ w.since[q] + w.window > w.now}})
      \o SetToSeq({[at |-> w.opens[b], set |-> NoSet] : b \in {c \in Brackets : w.opens[c] > w.now}})

(* A snapshot to start from.  What it has under way has its players, none   *)
(* of them in two such sets; an action to force is one the ranker offers:   *)
(* its set has its players, and nobody is taken from a set under way.       *)
UnderwayIn(w, tbl, brd) ==
    {n \in NamesIn(tbl) \ w.tomb.awaiting :
        LET set == SetIn(tbl, n) IN
        /\ ~set.done
        /\ \/ set.started /\ n \notin w.tomb.suppressActive
           \/ set.called /\ n \notin w.tomb.suppressCalled
           \/ n \in C!Assigned(brd)}
Clash(w, tbl, m, n) == (Occupants(SetIn(tbl, m)) \cap Occupants(SetIn(tbl, n))) \ w.force
Apart(w, tbl, brd)  == \A m, n \in UnderwayIn(w, tbl, brd) : m # n => Clash(w, tbl, m, n) = {}

MayForce(w, n) ==
    /\ n \in NamesIn(w.tables) /\ AllOccupied(SetIn(w.tables, n))
    /\ \A m \in UnderwayIn(w, w.tables, w.board) \ {n} : Clash(w, w.tables, m, n) = {}

Groups == [id : Nat, kind : Kinds, rounds : Nat, phase : Nat, order : Nat]
IsWorld(w) ==
    /\ {"now", "startedAt", "tables", "groups", "board", "opens", "since", "window", "horizon", "estimates",
        "noise", "mode", "held", "types", "pools", "absent", "resting", "force", "tomb", "softBusy", "action",
        "use", "station", "speed"} \subseteq DOMAIN w
    /\ {w.now, w.startedAt, w.window, w.horizon} \subseteq Nat /\ w.speed \in Nat \ {0}
    /\ w.tables \in [Brackets -> Seq(SimSets)] /\ w.groups \in [Brackets -> Seq(Groups)]
    /\ w.board \in [Setups -> [kind : {"Free", "Called", "InProgress"},
                               set : NamesIn(w.tables) \cup {NoSet}, type : Types]]
    /\ w.since \in [Players -> Nat \cup {-1}]
    /\ w.mode \in [Brackets -> {"Full", "ConflictOnly"}]
    /\ w.opens \in [Brackets -> Nat] /\ w.estimates \in [Brackets -> Nat]
    /\ \A n \in UnderwayIn(w, w.tables, w.board) : AllOccupied(SetIn(w.tables, n))
    /\ Apart(w, w.tables, w.board)
    /\ w.action.do = "call" => MayForce(w, w.action.set)
ASSUME WorldsAssumption == \A w \in Worlds : IsWorld(w)

Init ==
    \E w \in Worlds :
        \E first \in {FirstWakes(w) \o InFlight(w)} :
        /\ world = w
        /\ tables = w.tables /\ board = w.board /\ since = w.since
        /\ events = PushAll({}, 0, first) /\ pushed = Len(first)
        /\ clock = w.now /\ hold = 0
        /\ finish = [b \in Brackets |-> -1]
        /\ phase = "action"

(* The same once more, with the first decision forced. *)
Again(action) ==
    \E first \in {FirstWakes(world) \o InFlight(world)} :
    /\ world' = [world EXCEPT !.action = action]
    /\ tables' = world.tables /\ board' = world.board /\ since' = world.since
    /\ events' = PushAll({}, 0, first) /\ pushed' = Len(first)
    /\ clock' = world.now /\ hold' = 0
    /\ finish' = [b \in Brackets |-> -1]
    /\ phase' = "action"

-----------------------------------------------------------------------------
(* simulate_inner. *)

(* apply_action: the first decision of a rollout is forced. *)
ForceCall ==
    /\ phase = "action" /\ world.action.do = "call"
    /\ Seat(world.action.st, world.action.set)
    /\ phase' = "walkovers"
    /\ UNCHANGED <<world, since, clock, hold, finish>>

ForceHold ==
    /\ phase = "action" /\ world.action.do # "call"
    /\ hold' = IF world.action.do = "hold" THEN world.action.st ELSE 0
    /\ phase' = "walkovers"
    /\ UNCHANGED <<world, tables, board, since, events, pushed, clock, finish>>

(* find_walkover: a resolved set of an open bracket with an absent entrant. *)
Walkovers(t) ==
    {n \in Names :
        /\ world.mode[n[1]] = "Full" /\ IsOpen(n[1], t)
        /\ ~Named(n).done /\ AllOccupied(Named(n)) /\ ~ResetShaped(Named(n))
        /\ \E p \in PlayersIn(n) : Absent(n[1], p)}

Walkover ==
    /\ phase = "walkovers"
    /\ \E found \in {Walkovers(clock)} : \E n \in found :
          /\ \A m \in found : n[1] < m[1] \/ (n[1] = m[1] /\ Position(n) <= Position(m))
          /\ Completed(n, clock, events)
    /\ UNCHANGED <<world, clock, hold, phase>>

NoWalkover ==
    /\ phase = "walkovers" /\ Walkovers(clock) = {}
    /\ phase' = "calls"
    /\ UNCHANGED <<world, tables, board, since, events, pushed, clock, hold, finish>>

Assign ==
    /\ phase = "calls"
    /\ \E candidates \in {Candidates(clock)} : \E takers \in {Takers(candidates)} :
          \E st \in takers :
             /\ \A other \in takers : st <= other
             /\ \E scored \in {Scored(On(st, candidates))} : \E first \in scored :
                   /\ \A x \in scored : ~Before(x, first)
                   /\ Seat(st, first.n)
    /\ UNCHANGED <<world, since, clock, hold, finish, phase>>

NoAssignment ==
    /\ phase = "calls" /\ Takers(Candidates(clock)) = {}
    /\ phase' = "next"
    /\ UNCHANGED <<world, tables, board, since, events, pushed, clock, hold, finish>>

(* Variant: the event stays in the queue. *)
RestKept(e) == IF e.set = NoSet THEN events ELSE events \ {e}

Rest(e) == events \ {e}

Pop ==
    /\ phase = "next" /\ events # {}
    /\ LET e == Earliest
           t == Larger(clock, e.at)
       IN  /\ clock' = t
           /\ hold' = 0
           /\ IF e.set = NoSet
              THEN events' = Rest(e) /\ UNCHANGED <<tables, board, since, pushed, finish>>
              ELSE Completed(e.set, t, Rest(e))
    /\ phase' = "walkovers"
    /\ UNCHANGED world

End ==
    /\ phase = "next" /\ events = {}
    /\ phase' = "ended"
    /\ UNCHANGED <<world, tables, board, since, events, pushed, clock, hold, finish>>

Next ==
    \/ ForceCall \/ ForceHold
    \/ Walkover \/ NoWalkover
    \/ Assign \/ NoAssignment
    \/ Pop \/ End

(* WF_vars(Next), spelled out: some action is enabled until the end.  TLC   *)
(* would evaluate ENABLED Next, which costs more than all of Next.         *)
Keeps == []<>(phase = "ended") \/ []<><<Next>>_vars

Spec == Init /\ [][Next]_vars /\ Keeps

-----------------------------------------------------------------------------
(* outcome: a bracket with open sets is blocked and has no finish. *)

Unfinished(b) == OpenSets(tables[b]) \ Excluded(tables[b])
Finished      == {b \in Brackets : world.mode[b] = "Full" /\ Unfinished(b) = {}}
FinishOf(b)   == IF finish[b] < 0 THEN world.now ELSE finish[b]
OverallFinish == Greatest({FinishOf(b) : b \in Finished}, world.now)

-----------------------------------------------------------------------------
(* Properties. *)

(* The projection never has a player in two places: of two sets that are    *)
(* on a station, under way or called anywhere, no player is in both, save   *)
(* those declared available, sets whose finish is only awaited, and what    *)
(* the site shows of a set the desk has just reset.                        *)
OneSetAtATime == Apart(world, tables, board)

(* Nothing that could be played waits for want of a wake: when the clock is *)
(* about to move, no set becomes callable and no walkover falls due before   *)
(* the next event, nor ever if there is none.  Both can only change at the  *)
(* moments when a bracket opens or a rest ends.                            *)
NextTime == IF events = {} THEN MaxTime ELSE Earliest.at
Moments  == {clock, world.horizon} \cup {world.opens[b] : b \in Brackets}
              \cup {since[p] + world.window : p \in Players}
NothingMissed ==
    phase = "next" => \A t \in Moments \cap clock..(NextTime - 1) : Walkovers(t) = {} /\ Takers(Candidates(t)) = {}

(* A bracket that is projected to its end was played out: in each of its    *)
(* elimination groups one entrant alone has lost less often than it takes   *)
(* to be eliminated, a loss in a set the table leaves out counted; and on   *)
(* the way nobody was paired twice in a round, neither in one that was      *)
(* synthesized nor in a stage that was filled from the one before.         *)
Losses(b, S, p) ==
    LET sets == tables[b]
        seats  == {x \in S \X {1, 2} : x[2] \in DOMAIN sets[x[1]].slots}
        before == {x \in seats : LET slot == sets[x[1]].slots[x[2]] IN
                                    slot.who = p /\ slot.place = 2 /\ slot.from \in Dangling(sets)}
    IN  Cardinality({i \in S : sets[i].done /\ p \in Occupants(sets[i]) /\ sets[i].winner # p})
          + Cardinality(before)
Survivors ==
    phase = "ended" =>
        \A b \in Finished : \A g \in DOMAIN world.groups[b] :
            LET S     == Members(tables[b], world.groups[b][g])
                lives == IF \E i \in S : \E k \in DOMAIN tables[b][i].slots : tables[b][i].slots[k].place = 2
                         THEN 2 ELSE 1
            IN  world.groups[b][g].kind = "elim" /\ Entrants(tables[b], S) # {} =>
                    Cardinality({p \in Entrants(tables[b], S) : Losses(b, S, p) < lives}) = 1

PairedOnce ==
    \A b \in Brackets : \A p \in Players :
        LET seats == UNION {{<<i, k>> : k \in {l \in DOMAIN tables[b][i].slots :
                                                 tables[b][i].slots[l].who = p}} : i \in DOMAIN tables[b]}
        IN  \A s, x \in seats :
                s # x => \/ GroupOf(tables[b][s[1]]) # GroupOf(tables[b][x[1]])
                         \/ RoundOf(tables[b][s[1]]) # RoundOf(tables[b][x[1]])
PlayedOut == Survivors /\ PairedOnce

(* The depth that ranks a set is the length of the longest chain of sets    *)
(* still to be played that wait for it, whatever order the search took and  *)
(* however far the bracket is; a cycle is reported exactly when there is    *)
(* one (brackets of elimination groups only).                              *)
Waiting(sets, i) ==
    {j \in DOMAIN sets \ Excluded(sets) : \E k \in DOMAIN sets[j].slots : sets[j].slots[k].from = sets[i].id}
Longest(sets, i) ==
    LET longest[x \in (DOMAIN sets) \X SUBSET DOMAIN sets] ==
            (IF sets[x[1]].done THEN 0 ELSE 1)
              + Greatest({longest[<<j, x[2] \cup {j}>>] : j \in Waiting(sets, x[1]) \ x[2]}, 0)
    IN  longest[<<i, {i}>>]
Downstream(sets, i) ==
    LET further(S) == S \cup UNION {Waiting(sets, j) : j \in S}
        reach[n \in 0..Len(sets)] == IF n = 0 THEN Waiting(sets, i) ELSE further(reach[n - 1])
    IN  reach[Len(sets)]
DepthsAreLongest ==
    \A b \in {c \in Brackets : \A g \in DOMAIN world.groups[c] : world.groups[c][g].kind = "elim"} :
        LET found  == Searched(tables[b], world.groups[b])
            cyclic == \E i \in DOMAIN tables[b] : i \in Downstream(tables[b], i)
        IN  /\ cyclic <=> found.cycles # {}
            /\ cyclic \/ \A i \in DOMAIN tables[b] \ Excluded(tables[b]) :
                            found.depth[i] = Longest(tables[b], i)
=============================================================================
