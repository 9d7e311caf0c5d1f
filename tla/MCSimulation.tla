----------------------------- MODULE MCSimulation -----------------------------
(* Instances of Simulation and Projections for TLC: worlds of two brackets *)
(* made by Synth.                                                          *)
EXTENDS Recompute, Synth

CONSTANTS pc, ps5

Of(made) == [sets |-> made.sets, groups |-> <<made.group>>]
Joined(made) == [sets   |-> FlattenSeq([i \in DOMAIN made |-> made[i].sets]),
                 groups |-> [i \in DOMAIN made |-> made[i].group]]

(* Bracket 1: double elimination with and without byes, single elimination, *)
(* two pools before a cut, their groups listed out of order, and a swiss    *)
(* before a cut in which one seat is taken.                                *)
Format(f) ==
    CASE f = "double" -> Of(Seeded(1, <<1, 2, 3, 4>>, TRUE))
      [] f = "byes"   -> Of(Seeded(1, <<2, 1, 3>>, TRUE))
      [] f = "single" -> Of(Seeded(1, <<1, 2, 3, 4>>, FALSE))
      [] f = "pools"  ->
           LET all == Joined(<<Unseeded(3, 4), RoundRobin(1, <<1, 4>>), RoundRobin(2, <<2, 3>>)>>)
           IN  [sets   |-> [all.sets EXCEPT ![1].placeholder = TRUE],
                groups |-> [g \in 1..3 |-> LET at == IF g = 1 THEN 2 ELSE 1
                                           IN  [all.groups[g] EXCEPT !.phase = at, !.order = at]]]
      [] f = "swiss"  ->
           LET all == Joined(<<Swiss(1, <<1, 2, 3, 4>>, 2), Unseeded(2, 4)>>)
           IN  [all EXCEPT !.sets[4].slots[1].who = 1]

(* Bracket 2: one set, of player 1 and a player of its own. *)
OneSet == Seeded(1, <<1, 5>>, FALSE).sets

Station(kind, set, type) == [kind |-> kind, set |-> set, type |-> type]
Free(type) == Station("Free", NoSet, type)

Never  == [p \in Players |-> -1]
OnePc  == [st \in Setups |-> IF st = 1 THEN Free(pc) ELSE Free(ps5)]
TwoPcs == [st \in Setups |-> Free(pc)]

Action(do, st, set) == [do |-> do, st |-> st, set |-> set]

(* The world that the others vary: `made` is bracket 1, `single` bracket 2. *)
Base(made, single) ==
    [now |-> 1, startedAt |-> 0,
     tables |-> [b \in {1, 2} |-> IF b = 1 THEN made.sets ELSE single],
     groups |-> [b \in {1, 2} |-> IF b = 1 THEN made.groups ELSE <<MadeGroup(1, "elim", 0)>>],
     mode |-> [b \in {1, 2} |-> "Full"], opens |-> [b \in {1, 2} |-> 0], held |-> {},
     types |-> [b \in {1, 2} |-> {pc}], pools |-> [st \in Setups |-> NoOverride], board |-> TwoPcs,
     absent |-> {}, resting |-> {}, force |-> {}, since |-> Never, window |-> 0, horizon |-> 3,
     tomb |-> [awaiting |-> {}, suppressActive |-> {}, suppressCalled |-> {}], softBusy |-> {},
     estimates |-> [b \in {1, 2} |-> b + 1], noise |-> FALSE, action |-> Action("none", 0, NoSet),
     use |-> "summary", ceiling |-> 0, station |-> 1, samples |-> FALSE, epsilon |-> 0, speed |-> 1]

Final2  == <<2, <<1, 1, 1>>>>
First1  == <<1, <<1, 1, 1>>>>

(* In each family of worlds, w is the base of format f. *)

(* Absent entrants, rest windows and one or two stations. *)
Attended(w) ==
    {[w EXCEPT !.absent = absent, !.window = window, !.board = stations] :
        window \in {0, 2}, stations \in {OnePc, TwoPcs},
        absent \in {{}, {<<1, 1>>}, {<<1, 1>>, <<1, 4>>}, {<<1, 3>>, <<2, 1>>}}}

(* A bracket that opens late, rests under way, and a first decision. *)
Timed(w) ==
    {[w EXCEPT !.opens[2] = 6, !.window = 3, !.since[2] = 0, !.resting = {1, 3}, !.force = force,
               !.noise = TRUE, !.action = action] :
        force \in {{}, {1}},
        action \in {Action("none", 0, NoSet), Action("hold", 1, NoSet), Action("call", 2, Final2)}}

(* Sets that are under way or called when the projection starts, a set on a *)
(* station among them once the site shows it.                              *)
UnderWay(w) ==
    {[w EXCEPT !.tables[2][1].started = TRUE, !.tables[2][1].called = called, !.board[1] = st,
               !.window = 2, !.tomb.awaiting = awaiting] :
        called \in BOOLEAN, awaiting \in {{}, {Final2}},
        st \in {Free(pc), Station("InProgress", Final2, pc)}}
    \cup {[w EXCEPT !.tables[2][1].called = TRUE, !.softBusy = soft] : soft \in {{}, {First1}}}

(* A bracket that is held, or polled for evidence only; a station that      *)
(* serves one bracket.                                                     *)
Aside(w) ==
    {[w EXCEPT !.held = {2}, !.ceiling = ceiling] : ceiling \in {0, 14}}
    \cup {[w EXCEPT !.board = OnePc, !.pools[1] = over] : over \in {1, 2, AllowAny}}
    \cup {[w EXCEPT !.mode[2] = "ConflictOnly", !.tables[2][1].started = started] : started \in BOOLEAN}

(* A corrupted table: the second set waits for the final. *)
Looped(w) == {[w EXCEPT !.tables[1][2].slots[2] = [from |-> w.tables[1][3].id, place |-> 1, who |-> 0]]}

(* Options for a free station, with and without samples and noise. *)
Ranked(w) ==
    {[w EXCEPT !.use = "rollout", !.board = stations, !.station = st, !.samples = samples,
               !.epsilon = epsilon, !.estimates[1] = long, !.window = 2] :
        stations \in {OnePc, TwoPcs}, st \in {1, 2}, samples \in BOOLEAN,
        epsilon \in {0, 20}, long \in {2, 5}}

(* Recordings, and one of a table whose first set the site left out, its     *)
(* place filled up.                                                        *)
Rehearsed(w) ==
    {[w EXCEPT !.use = "rehearsal", !.speed = speed, !.absent = absent, !.board = stations] :
        speed \in {1, 3}, absent \in {{}, {<<1, 1>>}}, stations \in {OnePc, TwoPcs}}

DropIn == 6
Sparse(w) ==
    {[w EXCEPT !.use = "rehearsal", !.speed = 2, !.tables[1] = Filled(sparse, DropIn),
               !.absent = {<<1, p>> : p \in DroppedOut(sparse, DropIn)}] :
        sparse \in {SelectSeq(w.tables[1], LAMBDA set : set.key # First1[2])}}

(* The worlds of --synth: two events that share players, of the specs that  *)
(* are accepted and that can be built.                                     *)
Entry(kind, entrants, rounds) == [kind |-> kind, entrants |-> entrants, rounds |-> rounds, extra |-> FALSE]
Specs == {spec \in {<<Entry(kind, n, rounds), Entry("se", 2, NoRounds)>> :
                        kind \in {"de", "se", "rr", "swiss"}, n \in 1..4, rounds \in {NoRounds, 1, NotANumber}} :
            Builds(spec) /\ \A i \in DOMAIN spec : Accepted(spec[i])}
Specified(w) ==
    {[w EXCEPT !.use = "rehearsal", !.speed = 2, !.board = OnePc,
               !.tables = [b \in {1, 2} |-> made[b].sets], !.groups = [b \in {1, 2} |-> made[b].groups]] :
        made \in {SynthEvents(spec) : spec \in Specs}}

(* Replays. *)
Replayed(w) ==
    {[w EXCEPT !.use = "replay", !.absent = absent, !.board = stations, !.window = window] :
        absent \in {{}, {<<1, 1>>}, {<<1, 1>>, <<1, 4>>}}, stations \in {OnePc, TwoPcs}, window \in {0, 2}}

Families(f, w) ==
    Attended(w) \cup Timed(w) \cup Aside(w) \cup Ranked(w) \cup Rehearsed(w) \cup Replayed(w)
      \cup (IF f \in {"double", "swiss"} THEN UnderWay(w) ELSE {})
      \cup (IF f = "single" THEN Looped(w) ELSE {})
      \cup (IF f = "double" THEN Sparse(w) \cup Specified(w) ELSE {})

MCWorlds ==
    UNION {Families(x[1], x[2]) :
        x \in {<<m[1], Base(m[2], m[3])>> :
                 m \in {<<f, Format(f), OneSet>> : f \in {"double", "byes", "single", "pools", "swiss"}}}}
=============================================================================
