--------------------------------- MODULE Config --------------------------------
(***************************************************************************)
(* core/src/config.rs and core/src/init.rs: station counts, the checks of  *)
(* a config file, the stations a config asks for, and the config that      *)
(* --init-tournament generates from a tournament's events.                 *)
(*                                                                         *)
(* A config is a record: the pinned tournament, the events in order, the   *)
(* setup types and game of each, the counts, the duration noise (percent), *)
(* whether it only advises, whether a CALLED int is pinned, the tournament *)
(* its state file is named after.  Events, games and types are strings;    *)
(* "" is the empty type name, "?" a count that is no number.               *)
(***************************************************************************)
EXTENDS Naturals, Sequences, FiniteSets, SequencesExt

CONSTANTS
    None,
    TypeNames,       \* every setup type, sorted
    HomeOf,          \* [events -> the tournament their slug names]
    GameOf,          \* [events -> the videogame start.gg gives, or None]
    KeysIn,          \* [games -> the mapping keys their name holds, longest first]
    Builtin          \* [keys -> setup types]: the built-in standards

ASSUME ConfigAssumption ==
    /\ DOMAIN GameOf = DOMAIN HomeOf
    /\ \A e \in DOMAIN GameOf : GameOf[e] \in DOMAIN KeysIn \union {None}

DefaultType   == "default"
FallbackCount == 4
MaxNoise      == 90

NoCounts   == [kind |-> "none", n |-> 0, table |-> <<>>]
Uniform(n) == [kind |-> "uniform", n |-> n, table |-> <<>>]
ByType(f)  == [kind |-> "types", n |-> 0, table |-> f]

\* SetupCounts::from_str: a bare number, or type=count parts without an
\* empty type, a bad count or a type given twice.
Parsed(raw) ==
    IF raw.bare # None THEN Uniform(raw.bare)
    ELSE IF \/ \E part \in ToSet(raw.parts) : part[1] = "" \/ part[2] = None
            \/ \E i, j \in DOMAIN raw.parts : i # j /\ raw.parts[i][1] = raw.parts[j][1]
    THEN None
    ELSE ByType([t \in {part[1] : part \in ToSet(raw.parts)} |->
                    (CHOOSE part \in ToSet(raw.parts) : part[1] = t)[2]])

\* SchedulerConfig::validate.
Valid(c) ==
    /\ c.events # <<>>
    /\ c.noise \in 0..MaxNoise
    /\ c.counts.kind = "types" => "" \notin DOMAIN c.counts.table
    /\ IsInjective(c.events)
    /\ \A e \in ToSet(c.events) :
           /\ "" \notin ToSet(c.types[e])
           /\ c.counts.kind = "uniform" => ToSet(c.types[e]) \subseteq {DefaultType}

\* referenced_types: every type an event names, in the order first named.
Distinct(s) == FoldLeft(LAMBDA got, t : IF t \in ToSet(got) THEN got ELSE Append(got, t), <<>>, s)
ReferencedTypes(c) == Distinct(FlattenSeq([i \in DOMAIN c.events |-> c.types[c.events[i]]]))

\* resolve_roster: the types in order, those only the count table names last.
OrderedTypes(c) ==
    LET named == ReferencedTypes(c) IN
    named \o SelectSeq(TypeNames, LAMBDA t : c.counts.kind = "types" /\ t \in DOMAIN c.counts.table \ ToSet(named))

CountOf(c, t) ==
    CASE c.counts.kind = "none"    -> FallbackCount
      [] c.counts.kind = "uniform" -> c.counts.n
      [] OTHER -> IF t \in DOMAIN c.counts.table THEN c.counts.table[t] ELSE 0

\* resolve_roster: station i has the type Roster(c)[i].
Roster(c) ==
    FlattenSeq([k \in DOMAIN OrderedTypes(c) |->
                    [i \in 1..CountOf(c, OrderedTypes(c)[k]) |-> OrderedTypes(c)[k]]])

\* counts_by_type: what the defaults file keeps of a board.
CountsByType(board) ==
    [t \in ToSet(board) |-> Cardinality({i \in DOMAIN board : board[i] = t})]

\* resolve_setup_counts_from: the flag, else the config's counts, else the
\* defaults file as far as the config's events name its types.
Counted(c, flag, file) ==
    LET kept == IF file = None THEN {} ELSE DOMAIN file \intersect ToSet(ReferencedTypes(c)) IN
    [c EXCEPT !.counts =
        IF flag # None THEN flag
        ELSE IF c.counts.kind # "none" \/ kept = {} THEN c.counts
        ELSE ByType([t \in kept |-> file[t]])]

\* GameSetups::match_game, match_game_or_builtin: the longest key that the
\* game's name holds, in the operator's file before the built-in standards.
Longest(keys, map) == SelectSeq(keys, LAMBDA k : k \in DOMAIN map)
TypesFor(game, map) ==
    LET keys == IF game = None THEN <<>> ELSE KeysIn[game]
        own == Longest(keys, map)
        std == Longest(keys, Builtin)
    IN  IF own # <<>> THEN map[own[1]] ELSE IF std # <<>> THEN Builtin[std[1]] ELSE <<>>

\* seeded_setup_type: no type is the shared default pool.
Seeded(types) == IF types = <<>> THEN <<DefaultType>> ELSE types

\* generate_config: the events, the pin and the state file; no counts.
Generated(t, events, map) ==
    [pin |-> t, events |-> events, types |-> [e \in ToSet(events) |-> Seeded(TypesFor(GameOf[e], map))],
     game |-> [e \in ToSet(events) |-> GameOf[e]], counts |-> NoCounts, noise |-> 0,
     advisor |-> FALSE, calledInt |-> TRUE, state |-> t]

\* SchedulerConfig::default over some events: a config derived or written by hand.
Plain(events) ==
    [Generated(None, events, <<>>) EXCEPT !.types = [e \in ToSet(events) |-> <<DefaultType>>],
                                          !.game = [e \in ToSet(events) |-> None], !.state = None]

\* STARTER_TEMPLATE: its one event is an example that does not exist.
Starter == [Plain(<<"your-main-event">>) EXCEPT !.advisor = TRUE, !.counts = Uniform(4)]

\* BracketConfig::roster_cache_key.
CacheKey(c, e) == IF c.game[e] # None THEN c.game[e] ELSE e
=============================================================================
