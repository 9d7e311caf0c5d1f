--------------------------------- MODULE Startup -------------------------------
(***************************************************************************)
(* The desk's launches (tui/src/main.rs, tui/src/cli.rs, core/src/         *)
(* preflight.rs, core/src/roster_cache.rs, core/src/fixture_source.rs,     *)
(* core/src/rehearsal.rs): --init-tournament, live sessions, rehearsals    *)
(* and offline worlds, one process after another over the same files.      *)
(* Every request of the preflight is a step with an answer of its own, and *)
(* a process may be killed between any two steps.                          *)
(***************************************************************************)
EXTENDS Config

CONSTANTS
    Placeholder,     \* the fixtures' stand-in cast
    Serves,          \* [tournaments -> its events on start.gg, in order]
    Captured,        \* the events of --simulate's capture directory, in slug order
    Synthetic,       \* the events of a --synth world
    Casts,           \* games that have characters
    FirstConfigs,    \* config files of earlier days: functions from slots to configs
    Additions,       \* events an editor may add to a config
    Mappings,        \* what an editor may leave in game-setups.toml
    Options,         \* command lines: what is given to --setups and --noise, and the switches
    Abbreviates,     \* [inputs of --tournament -> tournaments whose file name they begin]
    Answers,         \* what a live request may come to
    RateLimitWaits,
    MaxLaunches,     \* Bound: processes launched
    MaxEdits,        \* Bound: changes of config files by hand
    MaxChanges       \* Bound: changes of boards

ASSUME StartupAssumption ==
    /\ Answers \subseteq {"ok", "nameless", "empty", "slow", "down", "limited", "refused"}
    /\ Placeholder \notin Casts \union {None} /\ None \notin Casts
    /\ RateLimitWaits \in Nat /\ MaxLaunches \in Nat /\ MaxEdits \in Nat /\ MaxChanges \in Nat

Tournaments == DOMAIN Serves
Found       == "scheduler.toml"
Slots       == Tournaments \union {Found}
Events      == DOMAIN GameOf

\* A config as init_tournament leaves it, or as an operator writes one without
\* a state file: its games are start.gg's, its state file is its tournament's.
Fits(c) ==
    /\ {"pin", "state", "events", "types", "game", "counts", "noise"} \subseteq DOMAIN c
    /\ c.events \in Seq(Events)
    /\ \A e \in ToSet(c.events) : e \in DOMAIN c.game /\ c.game[e] \in {None, GameOf[e]}
    /\ c.pin # None => c.state \in {None, c.pin}

\* An event's slug and a game's name are never the same.
ASSUME NamesAssumption ==
    /\ Events \intersect (DOMAIN KeysIn \union Casts) = {}
    /\ "your-main-event" \in Events
    /\ Captured \in Seq(Events) /\ Synthetic \in Seq(Events) /\ Additions \subseteq Events
    /\ \A t \in Tournaments : Serves[t] \in Seq(Events)
    /\ \A via \in DOMAIN Abbreviates : Abbreviates[via] \subseteq Tournaments
    /\ \A files \in FirstConfigs : DOMAIN files = Slots /\ \A s \in Slots : files[s] # None => Fits(files[s])

VARIABLES
    mapping,      \* game-setups.toml, or None
    configs,      \* [Slots -> the config file there, or None]
    defaults,     \* setup-defaults.toml: stations per type, or None
    rosters,      \* the roster cache: [keys cached -> cast]
    overlays,     \* [state paths written -> board, and the ghost of who wrote it]
    desk,         \* the process
    launches, edits, changes

launchVars == <<mapping, configs, defaults, rosters, overlays, desk, launches, edits, changes>>

Off == [phase |-> "off"]
Put(f, k, v) == [x \in DOMAIN f \union {k} |-> IF x = k THEN v ELSE f[x]]
Lookup(f, k) == IF k \in DOMAIN f THEN f[k] ELSE None

StartupInit ==
    /\ mapping = None /\ defaults = None /\ desk = Off
    /\ configs \in FirstConfigs
    /\ rosters = <<>> /\ overlays = <<>>
    /\ launches = 0 /\ edits = 0 /\ changes = 0

-----------------------------------------------------------------------------
(* --init-tournament, and the operator's editor *)

\* init_tournament: the mapping file is written when there is none; the
\* config that was there becomes the backup, which nothing reads.
InitTournament(t) ==
    /\ desk = Off /\ launches < MaxLaunches /\ Serves[t] # <<>>
    /\ mapping' = IF mapping = None THEN Builtin ELSE mapping
    /\ configs' = [configs EXCEPT ![t] = None]
    /\ desk' = [phase |-> "generating", target |-> t]
    /\ launches' = launches + 1
    /\ UNCHANGED <<defaults, rosters, overlays, edits, changes>>

WriteConfig ==
    /\ desk.phase = "generating"
    /\ configs' = [configs EXCEPT ![desk.target] = Generated(desk.target, Serves[desk.target], mapping)]
    /\ desk' = Off
    /\ UNCHANGED <<mapping, defaults, rosters, overlays, launches, edits, changes>>

\* An editor: events deleted or added, counts set, the pin taken out.
Edited(c) ==
    {[c EXCEPT !.counts = ByType(DefaultType :> 1)], [c EXCEPT !.pin = None],
     [c EXCEPT !.calledInt = FALSE, !.advisor = TRUE]}
    \union (IF c.events = <<>> THEN {} ELSE {[c EXCEPT !.events = Tail(c.events)]})
    \union {[pin |-> c.pin, events |-> Append(c.events, e), types |-> Put(c.types, e, <<DefaultType>>),
             game |-> Put(c.game, e, None), counts |-> c.counts, noise |-> c.noise, advisor |-> c.advisor,
             calledInt |-> c.calledInt, state |-> c.state] : e \in Additions \ ToSet(c.events)}

HandEdit(s) ==
    /\ desk = Off /\ edits < MaxEdits /\ edits' = edits + 1
    /\ configs[s] # None
    /\ \E c \in Edited(configs[s]) : configs' = [configs EXCEPT ![s] = c]
    /\ UNCHANGED <<mapping, defaults, rosters, overlays, desk, launches, changes>>

HandMapping ==
    /\ desk = Off /\ edits < MaxEdits /\ edits' = edits + 1
    /\ \E file \in Mappings : mapping' = file
    /\ UNCHANGED <<configs, defaults, rosters, overlays, desk, launches, changes>>

-----------------------------------------------------------------------------
(* A launch *)

\* tournament_config_path, Cli::config_path: the file of that name, else
\* the only one whose name begins so.
SlotFor(via) ==
    LET begun == {t \in Abbreviates[via] : configs[t] # None} IN
    IF via = Found \/ (via \in Slots /\ configs[via] # None) THEN via
    ELSE IF Cardinality(begun) = 1 THEN CHOOSE t \in begun : TRUE ELSE None

\* derived_config: the events of the tournament with the most of them.
Largest(events) ==
    LET size(t) == Len(SelectSeq(events, LAMBDA e : HomeOf[e] = t))
        homes == [i \in DOMAIN events |-> HomeOf[events[i]]]
        best == {i \in DOMAIN homes : \A j \in DOMAIN homes : size(homes[i]) >= size(homes[j])}
    IN  homes[CHOOSE i \in best : \A j \in best : i <= j]
At(t, events) == FoldLeft(LAMBDA got, e : IF HomeOf[e] = t THEN Append(got, e) ELSE got, <<>>, events)
Derived(events) == [Plain(At(Largest(events), events)) EXCEPT !.counts = Uniform(2)]

World(kind) == IF kind = "simulate" THEN Captured ELSE Synthetic

\* offline_config: a config that was not asked for and names no event of
\* the world is passed over.
OfflineConfig(kind, c, explicit) ==
    IF c # None /\ (explicit \/ ToSet(c.events) \intersect ToSet(World(kind)) # {}) THEN c
    ELSE Derived(World(kind))

\* main, apply_noise_overrides, resolve_setup_counts: the config the session runs.
Session(c, cli) ==
    LET noisy == IF cli.noise = None THEN c ELSE [c EXCEPT !.noise = cli.noise]
    IN  Counted(noisy, IF cli.setups = None THEN None ELSE Parsed(cli.setups), defaults)

\* world_tag, persisted_path: offline runs keep to siblings of their own.
PersistedPath(kind, c) ==
    [tag |-> IF kind = "synth" /\ c.state = None THEN "synth"
             ELSE IF c.state # None THEN c.state
             ELSE IF c.pin # None THEN c.pin ELSE HomeOf[c.events[1]],
     named |-> c.state # None, sim |-> kind # "live"]
Begin(kind, c, cli) ==
    [phase |-> IF kind = "rehearse" THEN "seeding" ELSE "structure",
     kind |-> kind, conf |-> c, cli |-> cli, at |-> 1, seeded |-> <<>>,
     waits |-> IF kind = "live" THEN RateLimitWaits ELSE 0, got |-> <<>>, denied |-> FALSE,
     armed |-> FALSE, escalate |-> FALSE, board |-> <<>>, base |-> <<>>, from |-> None]

\* bootstrap_starter_config: live, and no config file.
Bootstrap ==
    /\ desk = Off /\ launches < MaxLaunches /\ configs[Found] = None
    /\ configs' = [configs EXCEPT ![Found] = Starter]
    /\ launches' = launches + 1
    /\ UNCHANGED <<mapping, defaults, rosters, overlays, desk, edits, changes>>

Launch(kind, via, cli) ==
    /\ desk = Off /\ launches < MaxLaunches
    /\ cli.setups # None => Parsed(cli.setups) # None
    /\ SlotFor(via) # None
    /\ kind \in {"simulate", "synth"} => via = Found
    /\ kind \in {"live", "rehearse"} => configs[SlotFor(via)] # None
    /\ LET file == configs[SlotFor(via)]
           c == Session(IF kind \in {"live", "rehearse"} THEN file ELSE OfflineConfig(kind, file, cli.explicit), cli)
       IN  Valid(c) /\ desk' = Begin(kind, c, cli)
    /\ launches' = launches + 1
    /\ UNCHANGED <<mapping, configs, defaults, rosters, overlays, edits, changes>>

\* seed_fixture_from_live: a rehearsal fetches every event once and gives up
\* when one is missing; its casts are real, and warm the cache.
Served(e) == e \in UNION {ToSet(Serves[t]) : t \in Tournaments}
CastOf(e) == IF GameOf[e] \in Casts THEN GameOf[e] ELSE None
Seed(fetched, characters) ==
    /\ desk.phase = "seeding"
    /\ LET e == desk.conf.events[desk.at]
           cast == IF characters = "ok" THEN CastOf(e) ELSE None
       IN  /\ Served(e) \/ fetched # "ok"
           /\ IF fetched # "ok"
              THEN desk' = Off /\ UNCHANGED rosters
              ELSE /\ rosters' = IF cast = None THEN rosters ELSE Put(rosters, CacheKey(desk.conf, e), cast)
                   /\ desk' = [desk EXCEPT !.seeded = IF cast = None THEN @ ELSE Put(@, e, cast),
                                           !.phase = IF desk.at = Len(desk.conf.events) THEN "structure" ELSE @,
                                           !.at = IF @ = Len(desk.conf.events) THEN 1 ELSE @ + 1]
    /\ UNCHANGED <<mapping, configs, defaults, overlays, launches, edits, changes>>

-----------------------------------------------------------------------------
(* Preflight *)

Event == desk.conf.events[desk.at]

\* What a request may come to: fixtures know their own events and no other.
May(answer) ==
    CASE desk.kind = "live"     -> answer \in Answers /\ (answer \in {"ok", "nameless", "empty"} => Served(Event))
      [] desk.kind = "rehearse" -> answer = "ok"
      [] OTHER -> answer = IF Event \in ToSet(World(desk.kind)) THEN "ok" ELSE "refused"

\* The next event's structure, or the verdict when this was the last one.
Report(got) ==
    [desk EXCEPT !.got = got, !.at = @ + 1,
                 !.phase = IF desk.at = Len(desk.conf.events) THEN "verdict" ELSE "structure"]
Outcome(how, named, cast) == [how |-> how, named |-> named, cast |-> cast]

\* rate_limit_pause: one budget for all events.
Paused == [desk EXCEPT !.waits = @ - 1]
Waits(answer) == answer = "limited" /\ desk.waits > 0

\* preflight_bracket: without a structure the cache is not asked for a cast.
AskStructure(answer) ==
    /\ desk.phase = "structure" /\ answer # "empty" /\ May(answer)
    /\ desk' = CASE Waits(answer) -> Paused
                 [] answer \in {"ok", "nameless"} ->
                        [desk EXCEPT !.phase = "sets", !.got = Append(@, Outcome("asked", answer = "ok", None))]
                 [] answer = "refused" -> Report(Append(desk.got, Outcome("failed", FALSE, None)))
                 [] OTHER              -> Report(Append(desk.got, Outcome("offline", FALSE, None)))
    /\ UNCHANGED <<mapping, configs, defaults, rosters, overlays, launches, edits, changes>>

\* resolve_roster: a cast that was fetched live wins and is saved; a
\* placeholder, or none, gives way to the cached one.
\* Variant: whatever was fetched is saved.
SavesAny(kind) == TRUE
Saves(kind) == kind = "live"
Settle(how, fetched) ==
    LET key == CacheKey(desk.conf, Event)
        cached == Lookup(rosters, key)
        saved == fetched # None /\ Saves(desk.kind)
        cast == IF saved \/ cached = None THEN fetched ELSE cached
    IN  /\ rosters' = IF saved THEN Put(rosters, key, fetched) ELSE rosters
        /\ desk' = Report([desk.got EXCEPT ![desk.at] = Outcome(how, @.named, cast)])

AskSets(answer) ==
    /\ desk.phase = "sets" /\ answer \notin {"nameless", "empty"} /\ May(answer)
    /\ CASE Waits(answer)    -> desk' = Paused /\ UNCHANGED rosters
         [] answer = "ok"      -> desk' = [desk EXCEPT !.phase = "characters"] /\ UNCHANGED rosters
         [] answer = "refused" -> Settle("failed", None)
         [] OTHER              -> Settle("offline", None)
    /\ UNCHANGED <<mapping, configs, defaults, overlays, launches, edits, changes>>

\* fetch_event_characters: a fixture answers the cast it was seeded with,
\* or the placeholder.
Characters(answer) ==
    CASE answer # "ok"      -> None
      [] desk.kind = "live" -> CastOf(Event)
      [] OTHER -> IF Event \in DOMAIN desk.seeded THEN desk.seeded[Event] ELSE Placeholder
AskCharacters(answer) ==
    /\ desk.phase = "characters" /\ answer # "nameless" /\ May(answer)
    /\ IF Waits(answer) THEN desk' = Paused /\ UNCHANGED rosters
       ELSE Settle("ready", Characters(answer))
    /\ UNCHANGED <<mapping, configs, defaults, overlays, launches, edits, changes>>

\* assert_tournament_identity: the events that named their tournament.
Named == {i \in DOMAIN desk.got : desk.got[i].named}
HomeAt(i) == HomeOf[desk.conf.events[i]]
Agreed == IF Named = {} THEN None ELSE HomeAt(CHOOSE i \in Named : \A j \in Named : i <= j)
Mismatch ==
    \/ \E i, j \in Named : HomeAt(i) # HomeAt(j)
    \/ desk.conf.pin # None /\ Named # {} /\ Agreed # desk.conf.pin
Ready == {i \in DOMAIN desk.got : desk.got[i].how = "ready"}
Fatal == Mismatch \/ Ready = {}

\* Variant: one event that answered is enough.
ProxyArmedAny == ~desk.cli.advisor /\ ~desk.conf.advisor /\ Ready # {}
\* preflight: writes may arm when they were asked for and every event answered.
ProxyArmed == ~desk.cli.advisor /\ ~desk.conf.advisor /\ Ready = DOMAIN desk.got

Decided(armed, denied) ==
    [desk EXCEPT !.phase = "opening", !.armed = armed, !.denied = denied, !.waits = 0,
                 !.escalate = ~armed /\ ~desk.conf.calledInt]
Verdict ==
    /\ desk.phase = "verdict"
    /\ desk' = CASE Fatal -> Off
                 [] ~Fatal /\ ProxyArmed /\ Agreed # None -> [desk EXCEPT !.phase = "probe"]
                 [] OTHER -> Decided(ProxyArmed, FALSE)
    /\ UNCHANGED <<mapping, configs, defaults, rosters, overlays, launches, edits, changes>>

\* resolve_admin_probe: only a definite no disarms.  Fixtures say yes.
Denials == {"refused", "stranger", "hidden", "nobody"}
ProbeAdmin(answer) ==
    /\ desk.phase = "probe"
    /\ desk.kind # "live" => answer = "admin"
    /\ desk' = Decided(answer \notin Denials, answer \in Denials)
    /\ UNCHANGED <<mapping, configs, defaults, rosters, overlays, launches, edits, changes>>

-----------------------------------------------------------------------------
(* The session *)

Path == PersistedPath(desk.kind, desk.conf)

\* Ghost: who writes a board.  A desk is sure of its tournament when start.gg
\* named that of its first event and the config pins it, or when the config
\* neither pins one nor names a state file.
Author ==
    [live |-> desk.kind = "live", home |-> HomeAt(1),
     sure |-> IF desk.conf.pin # None THEN desk.got[1].named ELSE desk.conf.state = None]

\* run, restore_overlay, apply_overlay: --setups pins the stations, else the
\* board saved last comes back.
OpenDesk ==
    /\ desk.phase = "opening"
    /\ LET saved == Lookup(overlays, Path)
           adopt == desk.cli.setups = None /\ saved # None /\ saved.board # <<>>
           board == IF adopt THEN saved.board ELSE Roster(desk.conf)
       IN  desk' = IF desk.cli.only THEN Off
                   ELSE [desk EXCEPT !.phase = "running", !.seeded = <<>>, !.at = 1, !.board = board, !.base = CountsByType(board),
                                     !.from = IF adopt THEN saved.by ELSE None]
    /\ UNCHANGED <<mapping, configs, defaults, rosters, overlays, launches, edits, changes>>

\* The setups modal, by what it leaves of the board.
ChangeStations ==
    /\ desk.phase = "running" /\ changes < MaxChanges /\ changes' = changes + 1
    /\ \/ \E t \in ToSet(ReferencedTypes(desk.conf)) : desk' = [desk EXCEPT !.board = Append(@, t)]
       \/ desk.board # <<>> /\ desk' = [desk EXCEPT !.board = Front(@)]
    /\ UNCHANGED <<mapping, configs, defaults, rosters, overlays, launches, edits>>

\* event_loop, persist_overlay: the overlay first,
SaveBoard ==
    /\ desk.phase = "running"
    /\ overlays' = Put(overlays, Path, [board |-> desk.board, by |-> Author])
    /\ desk' = [desk EXCEPT !.phase = "saving"]
    /\ UNCHANGED <<mapping, configs, defaults, rosters, launches, edits, changes>>

\* persist_setup_defaults: then the whole defaults file, when a live desk's
\* counts changed; the session goes on or has ended.
SaveDefaults(quits) ==
    /\ desk.phase = "saving"
    /\ LET counts == CountsByType(desk.board) IN
       /\ defaults' = IF desk.kind = "live" /\ counts # desk.base THEN counts ELSE defaults
       /\ desk' = IF quits THEN Off ELSE [desk EXCEPT !.phase = "running", !.base = counts]
    /\ UNCHANGED <<mapping, configs, rosters, overlays, launches, edits, changes>>

\* The process is killed; the lock goes with it.
Killed ==
    /\ desk # Off /\ desk' = Off
    /\ UNCHANGED <<mapping, configs, defaults, rosters, overlays, launches, edits, changes>>

StartupNext ==
    \/ \E t \in Tournaments : InitTournament(t)
    \/ WriteConfig \/ HandMapping \/ Bootstrap
    \/ \E s \in Slots : HandEdit(s)
    \/ \E kind \in {"live", "simulate", "synth", "rehearse"}, via \in DOMAIN Abbreviates \union {Found}, cli \in Options :
           Launch(kind, via, cli)
    \/ \E fetched, characters \in {"ok", "down"} : Seed(fetched, characters)
    \/ \E answer \in Answers : AskStructure(answer) \/ AskSets(answer) \/ AskCharacters(answer)
    \/ Verdict
    \/ \E answer \in {"admin", "slow", "down", "limited"} \union Denials : ProbeAdmin(answer)
    \/ OpenDesk \/ ChangeStations \/ SaveBoard \/ Killed
    \/ \E quits \in BOOLEAN : SaveDefaults(quits)

-----------------------------------------------------------------------------
InSession == desk.phase \in {"running", "saving"}

\* A desk whose writes are armed was asked to write, heard every one of its
\* events in full, is at one tournament and at the pinned one as far as the
\* events say, and was not told that its token may not write.
ArmedOnlyAnswered ==
    InSession /\ desk.armed =>
        /\ ~desk.cli.advisor /\ ~desk.conf.advisor
        /\ Len(desk.got) = Len(desk.conf.events)
        /\ \A i \in DOMAIN desk.got : desk.got[i].how = "ready"
        /\ \A i, j \in Named : HomeAt(i) = HomeAt(j)
        /\ desk.conf.pin # None => \A i \in Named : HomeAt(i) = desk.conf.pin
        /\ ~desk.denied

\* Launches stay apart in what they leave behind.  No launch of any kind puts
\* the fixtures' placeholder into the roster cache, and no desk shows the
\* placeholder, or the cast of another game, where a real cast is cached.  The
\* board a live desk opens with was left by a live desk, never by a rehearsal or
\* an offline world, and by one of the same tournament when both are sure of
\* theirs: whatever was edited in the config files in between.
CacheIsReal == \A key \in DOMAIN rosters : rosters[key] # Placeholder
CastsAreReal ==
    /\ CacheIsReal
    /\ InSession => \A i \in DOMAIN desk.got :
           /\ desk.got[i].cast \in {None, Placeholder, CastOf(desk.conf.events[i])}
           /\ desk.got[i].cast = Placeholder => CacheKey(desk.conf, desk.conf.events[i]) \notin DOMAIN rosters
BoardsApart ==
    InSession /\ desk.kind = "live" /\ desk.from # None =>
        /\ desk.from.live
        /\ desk.from.sure /\ Author.sure => desk.from.home = Author.home
LaunchesApart == CastsAreReal /\ BoardsApart
=============================================================================
