--------------------------------- MODULE Synth ---------------------------------
(***************************************************************************)
(* Brackets made up for tests, rehearsals and --synth worlds               *)
(* (tools/scheduler/core/src/synth.rs, and the spec parser of              *)
(* fixture_source.rs): single and double elimination with byes collapsed,  *)
(* round robin by the circle method, the first round of a swiss, and a     *)
(* pool of players that adjacent events share.                             *)
(*                                                                         *)
(* Tables are those of module BracketGraph.  A set's preview id is its     *)
(* group and its position in the order of construction; its identifier is  *)
(* that position, since letters() is one to one.                           *)
(***************************************************************************)
EXTENDS BracketGraph

PreviewId(pg, i) == 1000 * pg + i     \* Bound: fewer than 1000 sets in a group

MadeSet(pg, round, i, slots) ==
    [id |-> PreviewId(pg, i), key |-> <<pg, round, i>>, done |-> FALSE, started |-> FALSE,
     called |-> FALSE, placeholder |-> FALSE, winner |-> Nobody, slots |-> slots]

SeededSlot(p) == [from |-> 0, place |-> 1, who |-> p]
MadeGroup(pg, kind, rounds) == [id |-> pg, kind |-> kind, rounds |-> rounds, phase |-> 0, order |-> NoOrder]

-----------------------------------------------------------------------------
(* Elimination. *)

(* seeding_order: adjacent pairs meet first, the top seed the lowest one. *)
SeedingOrder(k) ==
    FoldLeft(LAMBDA order, r : FlattenSeq([i \in DOMAIN order |-> <<order[i], 2^r + 1 - order[i]>>]),
             <<1>>, [r \in 1..k |-> r])

(* Where the occupant of a slot comes from, and the edge as it was built. *)
Source(is, n, place) == [is |-> is, n |-> n, place |-> place]
Vacant == Source("vacant", 0, 0)
WinnerOf(i) == Source("set", i, 1)
LoserOf(i)  == Source("set", i, 2)

Rank(n) == CHOOSE k \in 0..n : 2^k >= n /\ \A j \in 0..(k - 1) : 2^j < n

(* The positions of the sets of a winners and of a losers round. *)
Won(k, r, i) == 2^k - 2^(k - r + 1) + i
InLosers(k, l) == 2^(k - 1 - ((l + 1) \div 2))
Lost(k, l, i) == 2^k - 1 + TotalOf([m \in 1..(l - 1) |-> InLosers(k, m)], 1..(l - 1)) + i

(* build_elimination, before the collapse. *)
Winners(k, r, seed) ==
    [i \in 1..(2^(k - r)) |->
        [round |-> r,
         slots |-> IF r = 1
                   THEN <<seed[SeedingOrder(k)[2 * i - 1]], seed[SeedingOrder(k)[2 * i]]>>
                   ELSE <<WinnerOf(Won(k, r - 1, 2 * i - 1)), WinnerOf(Won(k, r - 1, 2 * i))>>]]

Losers(k, l) ==
    [i \in 1..InLosers(k, l) |->
        [round |-> -l,
         slots |-> IF l = 1 THEN <<LoserOf(Won(k, 1, 2 * i - 1)), LoserOf(Won(k, 1, 2 * i))>>
                   ELSE IF l % 2 = 0
                   THEN <<LoserOf(Won(k, (l \div 2) + 1, i)), WinnerOf(Lost(k, l - 1, i))>>
                   ELSE <<WinnerOf(Lost(k, l - 1, 2 * i - 1)), WinnerOf(Lost(k, l - 1, 2 * i))>>]]

Finals(k) ==
    LET grand == Lost(k, 2 * k - 1, 1) IN
    <<[round |-> k + 1, slots |-> <<WinnerOf(Won(k, k, 1)), WinnerOf(Lost(k, 2 * k - 2, 1))>>],
      [round |-> k + 2, slots |-> <<WinnerOf(grand), LoserOf(grand)>>]>>

Built(k, double, seed) ==
    FlattenSeq([r \in 1..k |-> Winners(k, r, seed)])
      \o IF double THEN FlattenSeq([l \in 1..(2 * k - 2) |-> Losers(k, l)]) \o Finals(k) ELSE <<>>

(* is_live *)
Live(source, omitted) ==
    source.is \in {"entrant", "pending"} \/ (source.is = "set" /\ source.n \notin omitted)

(* The winner of a walked-over set is the one who came; its loser nobody. *)
Forwarded(source, i, replacement) ==
    IF source.is = "set" /\ source.n = i
    THEN IF source.place = 1 THEN replacement ELSE Vacant
    ELSE source

(* One pass of collapse over the sets in order, and collapse: until no set  *)
(* with a missing side is left.                                            *)
Collapsed(st, i) ==
    LET slots == st.sources[i]
        live  == SelectSeq(slots, LAMBDA s : Live(s, st.omitted))
        replacement == IF live = <<>> THEN Vacant ELSE live[1]
    IN  IF i \in st.omitted \/ Len(live) = Len(slots) THEN st
        ELSE [omitted |-> st.omitted \cup {i},
              sources |-> [j \in DOMAIN st.sources |->
                  <<Forwarded(st.sources[j][1], i, replacement), Forwarded(st.sources[j][2], i, replacement)>>]]

RECURSIVE Collapse(_)
Collapse(st) ==
    LET next == FoldLeftDomain(Collapsed, st, st.sources)
    IN  IF next.omitted = st.omitted THEN st ELSE Collapse(next)

(* emit: a pre-placed occupant keeps the edge its slot was built with. *)
Emitted(pg, built, st, players) ==
    LET slot(i, k) ==
            LET source == st.sources[i][k]
                edge   == IF source.is = "entrant" THEN built[i].slots[k] ELSE source
            IN  [from  |-> IF edge.is = "set" THEN PreviewId(pg, edge.n) ELSE 0,
                 place |-> IF edge.is = "set" THEN edge.place ELSE 1,
                 who   |-> IF source.is = "entrant" THEN players[source.n] ELSE Nobody]
        kept == SelectSeq([i \in DOMAIN built |-> i], LAMBDA i : i \notin st.omitted)
    IN  [x \in DOMAIN kept |-> MadeSet(pg, built[kept[x]].round, kept[x], <<slot(kept[x], 1), slot(kept[x], 2)>>)]

Elimination(pg, n, double, seed, players) ==
    LET built == Built(Rank(n), double, seed)
        st    == Collapse([omitted |-> {}, sources |-> [i \in DOMAIN built |-> built[i].slots]])
    IN  [sets |-> Emitted(pg, built, st, players), group |-> MadeGroup(pg, "elim", 0)]

(* make_de_bracket_with, make_se_bracket_with and make_unseeded_se. *)
Seeded(pg, players, double) ==
    LET n == Len(players) IN
    Elimination(pg, n, double,
                [s \in 1..(2^Rank(n)) |-> IF s <= n THEN Source("entrant", s, 0) ELSE Vacant], players)
Unseeded(pg, n) ==
    Elimination(pg, n, FALSE, [s \in 1..(2^Rank(n)) |-> Source("pending", 0, 0)], <<>>)

-----------------------------------------------------------------------------
(* make_rr_pool_with: the circle method, a bye for an odd pool. *)

Rotated(ring) == <<ring[1], ring[Len(ring)]>> \o SubSeq(ring, 2, Len(ring) - 1)

RoundRobin(pg, players) ==
    LET n      == Len(players)
        first  == [i \in 1..n |-> players[i]] \o (IF n % 2 = 1 THEN <<Nobody>> ELSE <<>>)
        ring(r) == FoldLeft(LAMBDA x, s : Rotated(x), first, [s \in 1..(r - 1) |-> s])
        size   == Len(first)
        pairs(r) == SelectSeq([i \in 1..(size \div 2) |-> <<r, ring(r)[i], ring(r)[size + 1 - i]>>],
                              LAMBDA x : x[2] # Nobody /\ x[3] # Nobody)
        all    == FlattenSeq([r \in 1..(size - 1) |-> pairs(r)])
    IN  [sets  |-> [i \in DOMAIN all |->
                      MadeSet(pg, all[i][1], i, <<SeededSlot(all[i][2]), SeededSlot(all[i][3])>>)],
         group |-> MadeGroup(pg, "rr", size - 1)]

(* make_swiss_with: the first round only. *)
Swiss(pg, players, rounds) ==
    [sets  |-> [i \in 1..(Len(players) \div 2) |->
                  MadeSet(pg, 1, i, <<SeededSlot(players[2 * i - 1]), SeededSlot(players[2 * i])>>)],
     group |-> MadeGroup(pg, "swiss", rounds)]

-----------------------------------------------------------------------------
(* materialize_ids: numeric ids from `first` on; the edges to sets that     *)
(* were omitted keep theirs.                                               *)
Materialized(sets, first) ==
    LET numeric(id) == LET at == Indices(sets, id)
                       IN  IF at = {} THEN id ELSE first + Greatest(at, 0) - 1
    IN  [i \in DOMAIN sets |->
            [sets[i] EXCEPT !.id = first + i - 1,
                            !.slots = [k \in DOMAIN sets[i].slots |->
                                [sets[i].slots[k] EXCEPT !.from = IF @ = 0 THEN 0 ELSE numeric(@)]]]]

-----------------------------------------------------------------------------
(* A --synth spec: entries [kind, entrants, rounds, extra], a number that   *)
(* does not parse as NotANumber, rounds left out as NoRounds.              *)

NotANumber == -1
NoRounds   == -2

(* parse_synth_entry *)
Accepted(entry) ==
    /\ entry.kind \in {"de", "se", "rr", "swiss"}
    /\ entry.entrants >= 2
    /\ entry.rounds # NoRounds => entry.kind = "swiss" /\ entry.rounds # NotANumber
    /\ ~entry.extra

(* default_swiss_rounds *)
SwissRounds(entry) == IF entry.rounds = NoRounds THEN Larger(Rank(entry.entrants), 1) ELSE entry.rounds

(* Each event starts half way into the players of the one before. *)
Starts(entries) ==
    [i \in DOMAIN entries |->
        TotalOf([j \in 1..(i - 1) |-> (entries[j].entrants + 1) \div 2], 1..(i - 1))]

(* from_synth_spec: refused, or the events in order. *)
SynthEvents(entries) ==
    LET starts == Starts(entries)
        event(i) ==
            LET e       == entries[i]
                players == [p \in 1..e.entrants |-> starts[i] + p]
                made    == CASE e.kind = "de"    -> Seeded(i, players, TRUE)
                             [] e.kind = "se"    -> Seeded(i, players, FALSE)
                             [] e.kind = "rr"    -> RoundRobin(i, players)
                             [] e.kind = "swiss" -> Swiss(i, players, SwissRounds(e))
            IN  [sets |-> Materialized(made.sets, 10000 * i), groups |-> <<made.group>>]
    IN  [i \in DOMAIN entries |-> event(i)]

(* build_elimination's second assertion fails: a double elimination of two  *)
(* passes the parser and has no losers bracket.                            *)
Builds(entries) == \A i \in DOMAIN entries : entries[i].kind = "de" => entries[i].entrants >= 3
=============================================================================
