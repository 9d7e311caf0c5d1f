-------------------------------- MODULE Tables --------------------------------
(***************************************************************************)
(* What one event's polls become: the pages of a fetch (provider.rs        *)
(* fetch_event_sets), the live sets made of them (core/src/model.rs), the  *)
(* table they replace with its tearing guard (core/src/app.rs), the news   *)
(* in it (core/src/duration.rs diff_snapshots) and what is learned from    *)
(* the news: durations, rest windows, arrivals.  The site changes between  *)
(* two pages, the answers to the desk's own writes rewrite starts of the   *)
(* table between two polls, and the process may crash between two saves.   *)
(***************************************************************************)
EXTENDS Conversions, Integers

CONSTANTS
    FirstRows,     \* the site's sets, in its order
    Substitutes,   \* the id a set gets when its preview is replaced
    PhaseGroups,   \* the phase groups of the event, as the site lists them
    Links,         \* alias sets of player ids
    MinSample, MaxSample,
    MaxClock,      \* Bound: the clock
    MaxChanges,    \* Bound: changes at the site
    MaxCalls,      \* Bound: calls from the desk
    OurRounds      \* Bound: rounds whose sets the desk calls and writes

ASSUME TablesAssumption ==
    /\ MinSample \in Nat /\ MaxSample \in Nat /\ MinSample <= MaxSample
    /\ MaxClock \in Nat /\ MaxChanges \in Nat /\ MaxCalls \in Nat

(* live_set_from_schema takes a set that has all its ids.  Of those of an    *)
(* event its key names one, and so does its id, also when ids are replaced; *)
(* what is finished has a winner.                                          *)
RowFields    == {"id", "group", "round", "ident", "started", "done", "winner", "slots"}
Usable(row)  == Null \notin {row.id, row.group, row.round, row.ident}
Key(row)     == <<row.group, row.round, row.ident>>
Ids          == {row.id : row \in ToSet(FirstRows)} \cup DOMAIN Substitutes \cup ToSet(Substitutes)
Owns(owner)  ==
    /\ \A row \in ToSet(FirstRows) : Usable(row) => owner[row.id] = Key(row)
    /\ \A id \in DOMAIN Substitutes : owner[Substitutes[id]] = owner[id]
ASSUME RowsAssumption ==
    /\ FirstRows \in Seq(ToSet(FirstRows))
    /\ \A row \in ToSet(FirstRows) :
          /\ row = [f \in RowFields |-> row[f]]
          /\ row.started \in {Null, 0, 1} /\ (row.done # Null => row.winner # Null)
    /\ \A i, j \in DOMAIN FirstRows :
          Usable(FirstRows[i]) /\ Usable(FirstRows[j]) /\ Key(FirstRows[i]) = Key(FirstRows[j]) => i = j
    /\ Null \notin ToSet(Substitutes)
    /\ \E owner \in [Ids -> {Key(row) : row \in ToSet(FirstRows)} \cup {Null}] : Owns(owner)

VARIABLES
    clock,
    served,       \* the site
    changes,
    fetched,    \* the fetch under way: next page, pages, nodes so far, and
                \* whether it is the one a launch starts with
    table,      \* the last good snapshot
    suspects,   \* keys missing from it once
    overlay,    \* samples, rest windows, call times, and (ghost) arrivals
    disk,       \* the saved overlay and the saved table
    saving,     \* what remains to be saved
    answer,     \* the answer to a write of ours on its way to the desk, or Null
    found,      \* ghost: the sets a launch found finished at the site
    rewritten   \* ghost: the finished sets whose start an answer changed

ghosts    == <<found, rewritten>>
tableVars == <<clock, served, changes, fetched, table, suspects, overlay, disk, saving, answer, ghosts>>

NoFetch   == [page |-> 1, pages |-> 1, nodes |-> <<>>, launch |-> "no"]
Launching == [NoFetch EXCEPT !.launch = "yes"]
NoOverlay == [samples |-> <<>>, rest |-> <<>>, called |-> <<>>, arrived |-> {}]

TablesInit ==
    /\ clock = 1
    /\ served = FirstRows /\ changes = 0
    /\ fetched = Launching
    /\ table = <<>> /\ suspects = {}
    /\ overlay = NoOverlay
    /\ disk = [overlay |-> NoOverlay, table |-> <<>>]
    /\ saving = {} /\ answer = Null
    /\ found = {} /\ rewritten = {}

-----------------------------------------------------------------------------
(* phase_groups_from_schema: a group without an id is dropped, a swiss one   *)
(* without its number of rounds and a type the desk does not know are        *)
(* unsupported, and a round counts when its best-of is known, the last of    *)
(* several entries for one round.                                          *)
GroupKind(pg) ==
    CASE pg.type \in {"SINGLE_ELIMINATION", "DOUBLE_ELIMINATION"} -> "elim"
      [] pg.type = "ROUND_ROBIN"                -> "rr"
      [] pg.type = "SWISS" /\ pg.rounds # Null -> "swiss"
      [] OTHER                                  -> "other"

GroupInfo(pg) ==
    LET known   == Having(pg.bestOf, {"round", "games"})
        last(n) == known[Max({i \in DOMAIN known : known[i].round = n})]
    IN  [id |-> pg.id, kind |-> GroupKind(pg), start |-> Or(pg.start, pg.wave),
         bestOf |-> [n \in {known[i].round : i \in DOMAIN known} |-> last(n).games]]

GroupInfos == Each(Having(PhaseGroups, {"id"}), GroupInfo)

-----------------------------------------------------------------------------
(* live_set_from_schema. *)
(* convert_slot: only a set prerequisite that names its set is one. *)
Prereq(slot) ==
    IF slot.prereq = "set" /\ slot.from # Null THEN <<slot.from, slot.place>> ELSE <<>>

(* convert_occupant: without an id there is nobody in the slot, without     *)
(* players the identity is the entrant's.                                  *)
Occupant(slot) ==
    IF slot.entrant = Null THEN Null
    ELSE [entrant |-> slot.entrant, players |-> SelectSeq(slot.players, LAMBDA p : p # Null)]

LiveSet(row) ==
    [id |-> row.id, key |-> Key(row), started |-> row.started, done |-> row.done,
     winner |-> row.winner,
     slots |-> Each(row.slots, LAMBDA s : [prereq |-> Prereq(s), who |-> Occupant(s)])]

(* live_sets_from_schema: of two served with one key the last one read stays, *)
(* at the place of the first.                                              *)
UsableAt(nodes)     == {i \in DOMAIN nodes : Usable(nodes[i])}
ServedAt(nodes, row) == {i \in UsableAt(nodes) : Key(nodes[i]) = Key(row)}
LiveSets(nodes) ==
    LET firsts == {i \in UsableAt(nodes) : \A j \in ServedAt(nodes, nodes[i]) : i <= j}
    IN  Each(Only(nodes, firsts), LAMBDA row : LiveSet(nodes[Max(ServedAt(nodes, row))]))

Completed(set) == set.done # Null \/ set.winner # Null
KeysOf(sets)   == {sets[i].key : i \in DOMAIN sets}
SetOf(sets, key) == sets[CHOOSE i \in DOMAIN sets : sets[i].key = key]
Finishes(sets)   == {sets[i].key : i \in {j \in DOMAIN sets : Completed(sets[j])}}

-----------------------------------------------------------------------------
(* AliasMap::build: linked players are one, under the smallest id. *)

Linked(players) == players \cup UNION {A \in Links : A \cap players # {}}
Component(p) ==
    LET reach[n \in 0..Cardinality(Links)] == IF n = 0 THEN {p} ELSE Linked(reach[n - 1])
    IN  reach[Cardinality(Links)]
Canonical(p) == Min(Component(p))

(* occupant_keys *)
ConflictKeys(who) ==
    IF who.players = <<>> THEN {<<"entrant", who.entrant>>}
    ELSE {<<"player", Canonical(who.players[i])>> : i \in DOMAIN who.players}

KeysIn(set) ==
    UNION {ConflictKeys(set.slots[i].who) : i \in {j \in DOMAIN set.slots : set.slots[j].who # Null}}

-----------------------------------------------------------------------------
(* apply_tearing_guard: a set that is missing once is carried forward. *)

Retained(next) ==
    Only(table, {i \in DOMAIN table : table[i].key \notin KeysOf(next) \cup suspects})

(* diff_snapshots.  Newly: it was not complete in the table before. *)
Before(set) == IF set.key \in KeysOf(table) THEN {SetOf(table, set.key)} ELSE {}

(* Variant: a set that was not in the table before is not news. *)
NewlyKnown(set) == Completed(set) /\ \E b \in Before(set) : ~Completed(b)
Newly(set)      == Completed(set) /\ \A b \in Before(set) : ~Completed(b)
Revised(set)    == \E b \in Before(set) : <<b.started, b.done>> # <<set.started, set.done>>

IsNews(set)    == set.done # Null /\ (Newly(set) \/ Revised(set))
News(sets)     == Only(sets, {i \in DOMAIN sets : IsNews(sets[i])})
Arrivals(sets) == {sets[i].key : i \in {j \in DOMAIN sets : Newly(sets[j])}}

(* DurationModel::ingest.  The clamped seconds and the number of games they *)
(* are for; the fingerprint they came from.                                *)
Clamped(t) == IF t < MinSample THEN MinSample ELSE IF t > MaxSample THEN MaxSample ELSE t
GamesOf(set) ==
    LET group == SelectSeq(GroupInfos, LAMBDA g : g.id = set.key[1])
    IN  IF group # <<>> /\ set.key[2] \in DOMAIN group[1].bestOf THEN group[1].bestOf[set.key[2]] ELSE 3
CallOf(set)  == IF set.key \in DOMAIN overlay.called THEN overlay.called[set.key] ELSE Null
StartOf(set) == Or(set.started, CallOf(set))
PrintOf(set) == <<set.started, set.done, CallOf(set)>>
With(f, k, v) == [x \in DOMAIN f \cup {k} |-> IF x = k THEN v ELSE f[x]]

(* Variant: a set that was sampled is not sampled again. *)
UnchangedEver(samples, set) == set.id \in DOMAIN samples
Unchanged(samples, set) == set.id \in DOMAIN samples /\ samples[set.id].print = PrintOf(set)

Ingest(samples, set) ==
    IF Unchanged(samples, set) \/ StartOf(set) = Null THEN samples
    ELSE With(samples, set.id,
              [secs |-> Clamped(set.done - StartOf(set)), games |-> GamesOf(set), print |-> PrintOf(set)])

(* last_completed: folded with max. *)
Rested(rest, set) ==
    [k \in DOMAIN rest \cup KeysIn(set) |->
        IF k \notin KeysIn(set) THEN rest[k]
        ELSE IF k \in DOMAIN rest THEN Max({rest[k], set.done}) ELSE set.done]

(* apply_snapshot; what arrived loses its call time. *)
ApplySnapshot(nodes) ==
    LET live     == LiveSets(nodes)
        next     == live \o Retained(live)
        arrivals == Arrivals(next)
    IN
    /\ table' = next
    /\ suspects' = KeysOf(Retained(live))
    /\ overlay' =
        [samples |-> FoldLeft(Ingest, overlay.samples, News(next)),
         rest    |-> FoldLeft(Rested, overlay.rest,
                              Only(next, {i \in DOMAIN next : next[i].done # Null /\ Newly(next[i])})),
         called  |-> [k \in DOMAIN overlay.called \ arrivals |-> overlay.called[k]],
         arrived |-> overlay.arrived \cup arrivals]

-----------------------------------------------------------------------------
(* The site: other desks and players. *)

Change(i, row) ==
    /\ changes < MaxChanges /\ changes' = changes + 1
    /\ served' = [served EXCEPT ![i] = row]
    /\ UNCHANGED <<clock, fetched, table, suspects, overlay, disk, saving, answer, ghosts>>

SiteStarts(i)   == served[i].done = Null /\ Change(i, [served[i] EXCEPT !.started = clock])
SiteFinishes(i) ==
    \E done \in {clock, Null} :
        /\ served[i].done = Null
        /\ Change(i, [served[i] EXCEPT !.done = done, !.winner = 1])
(* startedAt is overwritten by every remote action. *)
SiteRevises(i) ==
    \E started \in {clock, Null} :
        /\ served[i].done # Null
        /\ served[i].started # started
        /\ Change(i, [served[i] EXCEPT !.started = started])
SiteReplaces(i) ==
    /\ served[i].winner = Null /\ served[i].id \in DOMAIN Substitutes
    /\ Change(i, [served[i] EXCEPT !.id = Substitutes[@]])
(* Rows move over the page boundaries. *)
SiteMoves(i) ==
    /\ changes < MaxChanges /\ changes' = changes + 1
    /\ i > 1
    /\ served' = <<served[i]>> \o RemoveAt(served, i)
    /\ UNCHANGED <<clock, fetched, table, suspects, overlay, disk, saving, answer, ghosts>>

-----------------------------------------------------------------------------
(* preflight's fetch at a launch: what it brings is opened as it is, compared *)
(* with nothing (AppState::new); a launch without it, or one that it brings *)
(* nothing, opens the saved table (seed_from_snapshot).                     *)
Opened(sets) ==
    IF sets = <<>> THEN table' = disk.table /\ UNCHANGED found
    ELSE /\ table' = sets
         /\ found' = found \cup Finishes(sets)

(* fetch_event_sets, then apply_snapshot on the answer of a poll. *)
FetchPage ==
    LET page  == PageOf(served, fetched.page, TRUE)
        pages == IF fetched.page = 1 THEN TotalPages(page) ELSE fetched.pages
        nodes == fetched.nodes \o page.nodes
    IN
    /\ IF fetched.page < pages
       THEN /\ fetched' = [fetched EXCEPT !.page = @ + 1, !.pages = pages, !.nodes = nodes]
            /\ UNCHANGED <<table, suspects, overlay, saving, found>>
       ELSE /\ fetched' = NoFetch
            /\ IF fetched.launch = "yes"
               THEN Opened(LiveSets(nodes)) /\ UNCHANGED <<suspects, overlay, saving>>
               ELSE ApplySnapshot(nodes) /\ saving' = {"overlay", "table"} /\ UNCHANGED found
    /\ UNCHANGED <<clock, served, changes, disk, answer, rewritten>>

(* A page that fails loses the whole fetch. *)
FetchFails ==
    /\ fetched.page > 1 \/ fetched.launch = "yes"
    /\ fetched' = NoFetch
    /\ IF fetched.launch = "yes" THEN Opened(<<>>) ELSE UNCHANGED <<table, found>>
    /\ UNCHANGED <<clock, served, changes, suspects, overlay, disk, saving, answer, rewritten>>

(* A set is called from the desk. *)
DeskCalls ==
    /\ Cardinality(DOMAIN overlay.called) < MaxCalls
    /\ \E i \in DOMAIN table :
         /\ ~Completed(table[i]) /\ table[i].key \notin DOMAIN overlay.called
         /\ table[i].key[2] \in OurRounds
         /\ overlay' = [overlay EXCEPT !.called = With(@, table[i].key, clock)]
    /\ saving' = saving \cup {"overlay"}
    /\ UNCHANGED <<clock, served, changes, fetched, table, suspects, disk, answer, ghosts>>

(* A write of ours reached the site, whose row it changed as any change      *)
(* does, and the answer has the row's start; one that has none changes no   *)
(* table.  The write is of a set of the desk's table.  The answer may be    *)
(* late, or lost, and another one take its place.                          *)
SiteAnswers(i) ==
    /\ fetched.launch = "no"
    /\ served[i].round \in OurRounds /\ served[i].started # Null
    /\ \E j \in DOMAIN table : table[j].key = Key(served[i]) /\ table[j].id = served[i].id
    /\ answer' = [key |-> Key(served[i]), started |-> served[i].started]
    /\ UNCHANGED <<clock, served, changes, fetched, table, suspects, overlay, disk, saving, ghosts>>

(* merge_remote_set: the start in the answer, never the completion, goes    *)
(* into the desk's table, also into a set that finished meanwhile.  Only    *)
(* the overlay is saved for it.                                            *)
Rewrites(set) == set.key = answer.key /\ answer.started # set.started
MergeAnswer ==
    /\ fetched.launch = "no" /\ answer # Null
    /\ table' = Each(table, LAMBDA set :
                        IF Rewrites(set) THEN [set EXCEPT !.started = answer.started] ELSE set)
    /\ rewritten' = rewritten \cup
           {table[i].key : i \in {j \in DOMAIN table : table[j].done # Null /\ Rewrites(table[j])}}
    /\ answer' = Null
    /\ saving' = saving \cup {"overlay"}
    /\ UNCHANGED <<clock, served, changes, fetched, suspects, overlay, disk, found>>

(* The flush saves the overlay, then the table. *)
SaveOverlay ==
    /\ "overlay" \in saving
    /\ disk' = [disk EXCEPT !.overlay = overlay]
    /\ saving' = saving \ {"overlay"}
    /\ UNCHANGED <<clock, served, changes, fetched, table, suspects, overlay, answer, ghosts>>

SaveTable ==
    /\ saving = {"table"}
    /\ disk' = [disk EXCEPT !.table = table]
    /\ saving' = {}
    /\ UNCHANGED <<clock, served, changes, fetched, table, suspects, overlay, answer, ghosts>>

(* A crash; the next launch restores the saved overlay and fetches. *)
Relaunch ==
    /\ fetched' = Launching
    /\ table' = <<>> /\ suspects' = {}
    /\ overlay' = disk.overlay
    /\ saving' = {} /\ answer' = Null
    /\ UNCHANGED <<clock, served, changes, disk, ghosts>>

TimePasses ==
    /\ clock < MaxClock /\ clock' = clock + 1
    /\ UNCHANGED <<served, changes, fetched, table, suspects, overlay, disk, saving, answer, ghosts>>

TablesNext ==
    \/ \E i \in {j \in DOMAIN served : Usable(served[j])} :
           SiteStarts(i) \/ SiteFinishes(i) \/ SiteRevises(i) \/ SiteReplaces(i) \/ SiteMoves(i)
           \/ SiteAnswers(i)
    \/ FetchPage \/ FetchFails \/ DeskCalls \/ MergeAnswer
    \/ SaveOverlay \/ SaveTable \/ Relaunch \/ TimePasses

TablesSpec == TablesInit /\ [][TablesNext]_tableVars

-----------------------------------------------------------------------------
(* Properties. *)

(* Every finish the table shows has arrived: its rest windows, its station   *)
(* and its notes were settled, also when its row was missed by an earlier    *)
(* fetch, came back under the tearing guard, or was saved before a crash     *)
(* (diff_snapshots, apply_snapshot, apply_tearing_guard).  Not those a       *)
(* launch found at the site: what it opens with is never news.              *)
EveryFinishArrives == Finishes(table) \subseteq overlay.arrived \cup found

(* A finished set that was ever started has one sample, made of the times    *)
(* the table shows: polls that repeat it change nothing and one that revises *)
(* it replaces the sample, across relaunches (ingest, restore).  Only a set  *)
(* of the saved table may have a sample of a later revision, whose table a   *)
(* crash kept from being saved; those a launch found finished are excepted. *)
(* So are those whose start an answer to a write of ours changed in the      *)
(* table: the next poll sees no change of it, and no new sample is taken.   *)
Sampled(set, sample) ==
    /\ sample.print[1] # Null /\ sample.print[2] = set.done
    /\ sample.secs = Clamped(set.done - sample.print[1])
    /\ \/ sample.print[1] = set.started
       \/ sample.print[1] > set.started /\ set \in ToSet(disk.table)
SamplesCurrent ==
    \A i \in DOMAIN table : LET s == table[i] IN
        s.done # Null /\ s.started # Null /\ s.key \notin found \cup rewritten =>
            s.id \in DOMAIN overlay.samples /\ Sampled(s, overlay.samples[s.id])
=============================================================================
