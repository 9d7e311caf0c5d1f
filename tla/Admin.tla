--------------------------------- MODULE Admin ---------------------------------
(***************************************************************************)
(* gg-admin (tools/admin/src): commands that read a tournament page by     *)
(* page, plan, ask, write and read again, while other organisers change    *)
(* the site between any two requests, and that share a pool file and a     *)
(* roster cache with every other gg-admin process.                         *)
(*                                                                         *)
(* Each process runs one command.  Tags, names and needles are sequences   *)
(* of letters; tournaments, events, phases, seeds, accounts are numbers.   *)
(***************************************************************************)
EXTENDS Conversions, TLC

CONSTANTS
    Processes,
    Commands,    \* [Processes -> sets of commands]
    Live,        \* the tournament that is being run
    Starts,      \* start_at of each tournament, 0 without one
    Past,        \* Bound: tournaments that are over by two days, and stay so
    Owned,       \* the listing `pool scan` reads
    Events,      \* [id, text] of the live tournament, in order
    Rosters, Unpaid, FirstEntrants, FirstPhases, FirstSeeds, Standings,
    Me,          \* the token's own account, or Null
    ResultCap,
    Strict,      \* update_phase_seeding's strict mode
    Reorders,    \* other organisers' seedings
    Newcomers,   \* entrants who register themselves
    MaxOthers    \* Bound: changes by others

ASSUME AdminAssumption ==
    /\ Live \in DOMAIN Starts /\ Past \subseteq DOMAIN Starts
    /\ \A t \in DOMAIN Starts : Starts[t] \in Nat
    /\ ResultCap \in Nat /\ MaxOthers \in Nat

ASSUME RostersAssumption ==
    /\ Rosters = [t \in DOMAIN Starts |-> Rosters[t]]
    /\ \A t \in DOMAIN Starts : Rosters[t] \in Seq(ToSet(Rosters[t]))

(* A phase numbers its seeds from the start, and a seeding names none twice. *)
IsSeed(s) == s = [id |-> s.id, num |-> s.num, entrant |-> s.entrant] /\ s.num \in Nat
ASSUME SeedsAssumption ==
    /\ \A ph \in DOMAIN FirstSeeds :
          /\ FirstSeeds[ph] \in Seq(ToSet(FirstSeeds[ph]))
          /\ \A s \in ToSet(FirstSeeds[ph]) : IsSeed(s)
          /\ \A i, j \in DOMAIN FirstSeeds[ph] :
                FirstSeeds[ph][i].id = FirstSeeds[ph][j].id \/ FirstSeeds[ph][i].num = FirstSeeds[ph][j].num
                => i = j
    /\ \A order \in Reorders : order \in Seq(ToSet(order)) /\ IsInjective(order)
    /\ \A p \in Processes : \A c \in Commands[p] : c.do = "seed" => c.order \in Seq(ToSet(c.order))

Tournaments == DOMAIN Starts
EventIds    == {Events[i].id : i \in DOMAIN Events}

VARIABLES
    roster,     \* the site: participants of each tournament
    entrants,   \* entrants of each event
    phases,     \* phases of each event
    seeds,      \* seeds of each phase
    others,     \* changes made by others so far
    pool,       \* find-pool.toml: readable or not, the tournaments it lists
    cache,      \* the cached rosters
    pc, job,
    read,       \* the list being read: which, next page, pages, got so far
    work,       \* what the command has resolved and planned
    landed      \* ghost: <<account, event>> ever entered

site  == <<roster, entrants, phases, seeds, others>>
files == <<pool, cache>>
run   == <<pc, job, read, work>>
vars  == <<site, files, run, landed>>

NoRead == [what |-> <<"none", 0>>, page |-> 1, pages |-> 1, got |-> <<>>, then |-> "done"]
NoWork == [event |-> 0, phase |-> 0, targets |-> <<>>, candidates |-> <<>>, entered |-> <<>>,
           plan |-> <<>>, next |-> 1, failures |-> 0, order |-> <<>>, ids |-> <<>>,
           phases |-> <<>>, file |-> <<>>, then |-> "done", slugs |-> <<>>, rows |-> <<>>,
           shown |-> <<>>, wrote |-> "no", said |-> "nothing"]

UsersIn(list) == UNION {ToSet(n.users) : n \in ToSet(list)}

Init ==
    /\ roster = Rosters /\ entrants = FirstEntrants
    /\ phases = FirstPhases /\ seeds = FirstSeeds
    /\ others = 0
    /\ pool = [readable |-> "yes", list |-> <<Live>>]
    /\ cache = [t \in Tournaments |-> Null]
    /\ pc = [p \in Processes |-> "idle"]
    /\ job \in [Processes -> UNION {Commands[p] : p \in Processes}]
    /\ \A p \in Processes : job[p] \in Commands[p]
    /\ read = [p \in Processes |-> NoRead]
    /\ work = [p \in Processes |-> NoWork]
    /\ landed = UNION {{<<u, e>> : u \in UsersIn(FirstEntrants[e])} : e \in EventIds}

-----------------------------------------------------------------------------
(* Names: fuzzy.rs, and the resolvers built on it. *)

IsWithin(q, t) == \E i \in 0..(Len(t) - Len(q)) : SubSeq(t, i + 1, i + Len(q)) = q
IsSubsequence(q, t) ==
    \E f \in [DOMAIN q -> DOMAIN t] :
        /\ \A i \in DOMAIN q : t[f[i]] = q[i]
        /\ \A i, j \in DOMAIN q : i < j => f[i] < f[j]

(* match_tier: exact 4, prefix 3, substring 2, subsequence 1, none 0. *)
MatchTier(q, t) ==
    CASE q = <<>> \/ t = <<>> -> 0
      [] t = q                -> 4
      [] IsPrefix(q, t)       -> 3
      [] IsWithin(q, t)       -> 2
      [] IsSubsequence(q, t)  -> 1
      [] OTHER                -> 0

BestTier(q, surfaces) == Max({MatchTier(q, t) : t \in surfaces} \cup {0})

(* resolve_event and resolve_phase: by id, else the only name that holds    *)
(* the needle, else the only one that is it.                               *)
PickNamed(items, needle) ==
    LET byId    == SelectSeq(items, LAMBDA x : x.id = needle.id)
        matches == SelectSeq(items, LAMBDA x : IsWithin(needle.text, x.text))
        exact   == SelectSeq(items, LAMBDA x : x.text = needle.text)
    IN  CASE byId # <<>>        -> byId[1]
          [] Len(matches) = 1   -> matches[1]
          [] Len(exact) = 1     -> exact[1]
          [] OTHER              -> Null

(* resolve_participant and resolve_seed: by id, else the only one at the    *)
(* best tier.                                                              *)
PickFuzzy(items, needle, ids, tags) ==
    LET byId == {i \in DOMAIN items : needle.id \in ids[i]}
        tier == [i \in DOMAIN items |-> BestTier(needle.text, tags[i])]
        top  == {i \in DOMAIN items : tier[i] > 0 /\ \A j \in DOMAIN items : tier[j] <= tier[i]}
    IN  CASE byId # {}            -> items[Min(byId)]
          [] Cardinality(top) = 1 -> items[Max(top)]
          [] OTHER                -> Null

PickParticipant(items, needle) ==
    PickFuzzy(items, needle, Each(items, LAMBDA x : {x.user, x.id} \ {Null}),
              Each(items, LAMBDA x : {x.tag}))

SeedIds(x)  == {x.id} \cup (IF x.entrant = Null THEN {} ELSE {x.entrant.id} \cup ToSet(x.entrant.users))
SeedTags(x) == IF x.entrant = Null THEN {} ELSE {x.entrant.tag}
PickSeed(items, needle) == PickFuzzy(items, needle, Each(items, SeedIds), Each(items, SeedTags))

(* resolve_seed_order: each item picks one seed, none twice; the others     *)
(* follow in their order.                                                  *)
SeedOrder(items, order) ==
    LET picked == [i \in DOMAIN order |-> PickSeed(items, order[i])] IN
    IF \/ \E i \in DOMAIN order : picked[i] = Null
       \/ \E i, j \in DOMAIN order : i < j /\ picked[i].id = picked[j].id
    THEN Null
    ELSE picked \o Only(items, {i \in DOMAIN items : \A y \in ToSet(picked) : y.id # items[i].id})

(* sorted_seeds: a stable sort by number, those without one last. *)
NumOf(x) == Or(x.num, 99)
SortedSeeds(items) ==
    LET Index(i) == Cardinality({j \in DOMAIN items :
                        \/ NumOf(items[j]) < NumOf(items[i])
                        \/ NumOf(items[j]) = NumOf(items[i]) /\ j <= i})
    IN  [k \in DOMAIN items |-> items[CHOOSE i \in DOMAIN items : Index(i) = k]]

-----------------------------------------------------------------------------
(* Other organisers and players: any of this between two requests. *)

Another == others < MaxOthers /\ others' = others + 1

Reseed(ph, order) ==
    /\ Another
    /\ {seeds[ph][i].id : i \in DOMAIN seeds[ph]} = ToSet(order)
    /\ seeds' = [seeds EXCEPT ![ph] =
                    [k \in DOMAIN order |->
                        [(CHOOSE x \in ToSet(seeds[ph]) : x.id = order[k]) EXCEPT !.num = k]]]
    /\ UNCHANGED <<roster, entrants, phases, files, run, landed>>

Join(n, e) ==
    /\ Another
    /\ ToSet(n.users) \cap UsersIn(entrants[e]) = {}
    /\ entrants' = [entrants EXCEPT ![e] = Append(@, n)]
    /\ landed' = landed \cup {<<u, e>> : u \in ToSet(n.users)}
    /\ UNCHANGED <<roster, phases, seeds, files, run>>

(* The participant index lags behind the entrants. *)
Indexed(n) ==
    /\ Another
    /\ \A i \in DOMAIN roster[Live] : roster[Live][i].id # n.id
    /\ roster' = [roster EXCEPT ![Live] =
                    Append(@, [id |-> n.id, tag |-> n.tag, user |-> n.users[1]])]
    /\ UNCHANGED <<entrants, phases, seeds, files, run, landed>>

Withdraw(e, ph) ==
    /\ Another
    /\ entrants[e] # <<>>
    /\ entrants' = [entrants EXCEPT ![e] = Tail(@)]
    /\ seeds' = [seeds EXCEPT ![ph] = Only(@, {i \in DOMAIN @ :
                    @[i].entrant = Null \/ @[i].entrant.id # Head(entrants[e]).id})]
    /\ UNCHANGED <<roster, phases, files, run, landed>>

HandEdit ==
    /\ Another
    /\ pool' = [pool EXCEPT !.readable = "no"]
    /\ UNCHANGED <<roster, entrants, phases, seeds, cache, run, landed>>

-----------------------------------------------------------------------------
(* fetch_all_pages: the number of pages is the one the first page gave. *)

Nodes(what) ==
    CASE what[1] = "roster"    -> roster[what[2]]
      [] what[1] = "unpaid"    -> SelectSeq(roster[what[2]], LAMBDA n : n.id \in Unpaid)
      [] what[1] = "entrants"  -> entrants[what[2]]
      [] what[1] = "standings" -> Standings[what[2]]
      [] what[1] = "seeds"     -> seeds[what[2]]
      [] OTHER                 -> Owned

Converted(what, nodes) ==
    CASE what[1] \in {"roster", "unpaid"} -> Participants(nodes)
      [] what[1] = "entrants"             -> Entrants(nodes)
      [] what[1] = "standings"            -> EventStandings(nodes)
      [] what[1] = "seeds"                -> PhaseSeeds(nodes)
      [] OTHER                            -> Summaries(nodes)

(* A phase, or a tournament, that is there. *)
Known(what) ==
    /\ what[1] = "seeds"  => what[2] \in DOMAIN seeds
    /\ what[1] = "roster" => what[2] \in Tournaments

At(p, label)    == pc[p] = label
Goto(p, label)  == pc' = [pc EXCEPT ![p] = label]
Fail(p)         == Goto(p, "failed")
Ask(p, what, then) ==
    /\ read' = [read EXCEPT ![p] = [NoRead EXCEPT !.what = what, !.then = then]]
    /\ Goto(p, "reading")

ReadPage(p) ==
    LET r     == read[p]
        page  == PageOf(Nodes(r.what), r.page, r.what[1] # "owned")
        pages == IF r.page = 1 THEN TotalPages(page) ELSE r.pages
    IN
    /\ At(p, "reading") /\ Known(r.what)
    /\ read' = [read EXCEPT ![p] =
                [r EXCEPT !.got = @ \o Converted(r.what, page.nodes),
                          !.page = @ + 1, !.pages = pages]]
    /\ Goto(p, IF r.page >= pages THEN r.then ELSE "reading")
    /\ UNCHANGED <<site, files, job, work, landed>>

(* A request fails, and the command with it; `find` skips the tournament. *)
ReadFails(p) ==
    /\ At(p, "reading")
    /\ IF job[p].do = "find"
       THEN /\ work' = [work EXCEPT ![p].next = @ + 1]
            /\ Goto(p, "finding")
       ELSE /\ Fail(p)
            /\ UNCHANGED work
    /\ UNCHANGED <<site, files, job, read, landed>>

-----------------------------------------------------------------------------
(* The pool file: load, change, then truncate and write. *)

(* Pool::add *)
Added(list, t) == IF Contains(list, t) THEN list ELSE Append(list, t)
AddedAll(list, ts) == FoldLeft(LAMBDA l, t : Added(l, t), list, ts)

Save(p, file, then) ==
    /\ work' = [work EXCEPT ![p].file = file, ![p].then = then]
    /\ Goto(p, "saving")

(* remember_in_pool: best effort. *)
Remember(p, t, then) ==
    IF pool.readable = "yes" /\ ~Contains(pool.list, t)
    THEN Save(p, Append(pool.list, t), then)
    ELSE Goto(p, then) /\ UNCHANGED work

Truncate(p) ==
    /\ At(p, "saving")
    /\ pool' = [readable |-> "yes", list |-> <<>>]
    /\ Goto(p, "rewriting")
    /\ UNCHANGED <<site, cache, job, read, work, landed>>

Rewrite(p) ==
    /\ At(p, "rewriting")
    /\ pool' = [readable |-> "yes", list |-> work[p].file]
    /\ Goto(p, work[p].then)
    /\ UNCHANGED <<site, cache, job, read, work, landed>>

Interrupted(p) ==
    /\ At(p, "rewriting")
    /\ Fail(p)
    /\ UNCHANGED <<site, files, job, read, work, landed>>

SaveFails(p) ==
    /\ At(p, "saving")
    /\ IF job[p].do = "pool" THEN Fail(p) ELSE Goto(p, work[p].then)
    /\ UNCHANGED <<site, files, job, read, work, landed>>

(* run_pool_add, run_pool_remove, run_pool_scan after its listing. *)
Edited(c, found, list) ==
    CASE c.how = "add"    -> AddedAll(list, <<c.t>>)
      [] c.how = "remove" -> SelectSeq(list, LAMBDA t : t # c.t)
      [] OTHER            -> AddedAll(list, [i \in DOMAIN found |-> found[i].id])

(* The tournaments of the seed's series, or all of the owner's; newest      *)
(* first.                                                                  *)
Series(c, found) ==
    SortSeq(SelectSeq(found, LAMBDA s : c.how = "series" =>
                \E o \in ToSet(Owned) : o.id = c.t /\ o.slug = s.slug),
            LAMBDA x, y : Starts[x.id] > Starts[y.id])

PoolCommand(p) ==
    LET c     == job[p]
        found == Series(c, read[p].got)
    IN
    /\ At(p, "pool")
    /\ IF c.how \in {"series", "owned", "mine"} /\ found = <<>>
       THEN Goto(p, "done") /\ UNCHANGED work
       ELSE IF pool.readable = "no" THEN Fail(p) /\ UNCHANGED work
       ELSE Save(p, Edited(c, found, pool.list), "done")
    /\ UNCHANGED <<site, files, job, read, landed>>

-----------------------------------------------------------------------------
(* Commands begin; those that ask for nothing are refused. *)

Refused(c) ==
    \/ c.do = "add" /\ c.queries = <<>> /\ c.accounts = <<>>
    \/ c.do = "seed" /\ c.order = <<>>
    \/ c.do = "set" /\ c.text = Null

Begin(p) ==
    LET c == job[p] IN
    /\ At(p, "idle")
    /\ CASE Refused(c) -> Fail(p) /\ UNCHANGED <<read, work>>
         [] c.do = "find" ->
              /\ IF pool.readable = "no" THEN Fail(p) /\ UNCHANGED work
                 ELSE /\ work' = [work EXCEPT ![p].slugs =
                                    AddedAll(pool.list, c.extra)]
                      /\ Goto(p, IF c.extra = <<>> THEN "finding" ELSE "extra")
              /\ UNCHANGED read
         [] c.do = "pool" /\ c.how \in {"add", "remove"} ->
              Goto(p, "pool") /\ UNCHANGED <<read, work>>
         [] c.do = "pool" /\ c.how \notin {"add", "remove"} ->
              Ask(p, <<"owned", 0>>, "pool") /\ UNCHANGED work
         [] OTHER ->
              Ask(p, <<IF c.do = "roster" /\ c.unpaid THEN "unpaid" ELSE "roster", Live>>, "fetched")
              /\ UNCHANGED work
    /\ UNCHANGED <<site, files, job, landed>>

(* fetch_tournament: the pool remembers it and the cache takes the roster.  *)
Fetched(p) ==
    /\ At(p, "fetched")
    /\ Remember(p, Live, "caching")
    /\ UNCHANGED <<site, files, job, read, landed>>

(* run_roster: a filtered roster is never cached. *)
CachesWhole(p) == read[p].what[1] # "unpaid"

(* The events and players the command names are looked up. *)
AfterCaching(p) ==
    LET c       == job[p]
        targets == [i \in DOMAIN c.events |-> PickNamed(Events, c.events[i])]
        found   == [i \in DOMAIN c.queries |-> PickParticipant(read[p].got, c.queries[i])]
        named   == [i \in DOMAIN found |-> found[i].user]
        event   == targets[1].id
    IN
    IF \E i \in DOMAIN targets : targets[i] = Null THEN Fail(p) /\ UNCHANGED <<read, work>>
    ELSE CASE c.do = "roster" -> Goto(p, "done") /\ UNCHANGED <<read, work>>
           [] c.do = "add" ->
                IF \E i \in DOMAIN found : found[i] = Null \/ (found[i] # Null /\ found[i].user = Null)
                THEN Fail(p) /\ UNCHANGED <<read, work>>
                ELSE /\ work' = [work EXCEPT ![p].targets = Each(targets, LAMBDA e : e.id),
                                             ![p].candidates = c.accounts \o named]
                     /\ Ask(p, <<"entrants", event>>, "entered")
           [] c.do = "standings" ->
                Ask(p, <<"standings", event>>, "done") /\ UNCHANGED work
           [] c.do = "redemption" ->
                IF targets[2].id = event THEN Fail(p) /\ UNCHANGED <<read, work>>
                ELSE /\ work' = [work EXCEPT ![p].targets = <<targets[2].id>>]
                     /\ Ask(p, <<"standings", event>>, "placed")
           [] OTHER ->
                /\ work' = [work EXCEPT ![p].event = event]
                /\ Goto(p, IF c.do = "create" THEN "create" ELSE "structure")
                /\ UNCHANGED read

CacheRoster(p) ==
    /\ At(p, "caching")
    /\ cache' = IF CachesWhole(p) THEN [cache EXCEPT ![Live] = read[p].got] ELSE cache
    /\ AfterCaching(p)
    /\ UNCHANGED <<site, pool, job, landed>>

-----------------------------------------------------------------------------
(* Phases: create, set, delete; and seeding. *)

Create(p) ==
    LET e  == work[p].event
        id == Max({ph.id : ph \in UNION {ToSet(phases[f]) : f \in EventIds}} \cup {0}) + 1
    IN
    /\ At(p, "create")
    /\ phases' = [phases EXCEPT ![e] = Append(@, [id |-> id, text |-> job[p].text, order |-> id])]
    /\ seeds' = [ph \in DOMAIN seeds \cup {id} |-> IF ph = id THEN <<>> ELSE seeds[ph]]
    /\ Goto(p, "structure")
    /\ UNCHANGED <<roster, entrants, others, files, job, read, work, landed>>

(* resolve_phase: without a needle, the first in play order. *)
PickPhase(list, needle) ==
    IF needle = Null THEN (IF list = <<>> THEN Null ELSE list[1]) ELSE PickNamed(list, needle)

(* fetch_event_bracket, and what each command does with it. *)
Structure(p) ==
    LET c      == job[p]
        list   == EventPhases(phases[work[p].event])
        target == PickPhase(list, c.phase)
    IN
    /\ At(p, "structure")
    /\ CASE c.do \in {"phases", "create"} \/ work[p].wrote = "yes" ->
              Goto(p, "done") /\ UNCHANGED <<read, work>>
         [] c.do \notin {"phases", "create"} /\ work[p].wrote = "no" ->
              IF target = Null THEN Fail(p) /\ UNCHANGED <<read, work>>
              ELSE /\ work' = [work EXCEPT ![p].phase = target.id]
                   /\ IF c.do = "seed" THEN Ask(p, <<"seeds", target.id>>, "order")
                      ELSE Goto(p, "confirm") /\ UNCHANGED read
    /\ UNCHANGED <<site, files, job, landed>>

(* run_seed: the plan the operator is shown. *)
Order(p) ==
    LET list  == SortedSeeds(read[p].got)
        order == SeedOrder(list, job[p].order)
    IN
    /\ At(p, "order") /\ job[p].do = "seed"
    /\ IF list = <<>> \/ order = Null
       THEN Fail(p) /\ UNCHANGED work
       ELSE /\ work' = [work EXCEPT ![p].ids = Each(order, LAMBDA x : x.id)]
            /\ Goto(p, "confirm")
    /\ UNCHANGED <<site, files, job, read, landed>>

(* --dry-run stops, --yes goes on, and otherwise the operator decides. *)
Confirm(p) ==
    /\ At(p, "confirm")
    /\ \E answer \in (IF job[p].mode = "dry" THEN {"done"}
                      ELSE IF job[p].mode = "yes" THEN {"write"} ELSE {"done", "write"}) :
         Goto(p, IF answer = "write" /\ work[p].plan # <<>> THEN "generate" ELSE answer)
    /\ work' = [work EXCEPT ![p].next = 1]
    /\ UNCHANGED <<site, files, job, read, landed>>

LastIndex(ids, id) == Max({i \in DOMAIN ids : ids[i] = id})

(* update_phase_seeding: in strict mode a list that misses a seed is        *)
(* refused; the others keep the number they had.                           *)
(* Variant: the seeding is not strict. *)
CoversAny(ph, ids) == TRUE
Covers(ph, ids) == \A i \in DOMAIN seeds[ph] : seeds[ph][i].id \in ToSet(ids)
Renumbered(list, ids) ==
    SortedSeeds([i \in DOMAIN list |->
        IF list[i].id \in ToSet(ids) THEN [list[i] EXCEPT !.num = LastIndex(ids, list[i].id)]
        ELSE list[i]])

WriteSeeding(p) ==
    LET ph == work[p].phase IN
    /\ At(p, "write") /\ job[p].do = "seed"
    /\ IF ph \in DOMAIN seeds /\ (Strict => Covers(ph, work[p].ids))
       THEN /\ seeds' = [seeds EXCEPT ![ph] = Renumbered(@, work[p].ids)]
            /\ Ask(p, <<"seeds", ph>>, "compare")
       ELSE Fail(p) /\ UNCHANGED <<seeds, read>>
    /\ UNCHANGED <<roster, entrants, phases, others, files, job, work, landed>>

Compare(p) ==
    /\ At(p, "compare")
    /\ work' = [work EXCEPT ![p].said =
                    IF Each(SortedSeeds(read[p].got), LAMBDA x : x.id) = work[p].ids
                    THEN "confirmed" ELSE "differs"]
    /\ Goto(p, "done")
    /\ UNCHANGED <<site, files, job, read, landed>>

(* update_phase and delete_phase; a phase another organiser has deleted is   *)
(* an error to the first and "not deleted" to the second.                  *)
WritePhase(p) ==
    LET e       == work[p].event
        Is(x)   == x.id = work[p].phase
        present == \E x \in ToSet(phases[e]) : Is(x)
    IN
    /\ At(p, "write") /\ job[p].do \in {"set", "delete"}
    /\ IF job[p].do = "set"
       THEN /\ phases' = [phases EXCEPT ![e] = Each(@, LAMBDA x :
                            IF Is(x) THEN [x EXCEPT !.text = job[p].text] ELSE x)]
            /\ IF present THEN Goto(p, "structure") ELSE Fail(p)
            /\ UNCHANGED <<seeds>>
       ELSE /\ phases' = [phases EXCEPT ![e] = SelectSeq(@, LAMBDA x : ~Is(x))]
            /\ seeds' = [ph \in DOMAIN seeds \ {work[p].phase} |-> seeds[ph]]
            /\ Goto(p, "structure")
    /\ work' = [work EXCEPT ![p].wrote = "yes",
                            ![p].said = IF Deleted(IF present THEN "yes" ELSE Null)
                                        THEN "deleted" ELSE "not deleted"]
    /\ UNCHANGED <<roster, entrants, others, files, job, read, landed>>

-----------------------------------------------------------------------------
(* Registration: add and redemption. *)

(* run_redemption: one account per entrant, from the cutoff down. *)
Eligible(list, cutoff) ==
    SelectSeq(list, LAMBDA s : s.place >= cutoff /\ Len(s.entrant.users) = 1)

Placed(p) ==
    /\ At(p, "placed")
    /\ IF read[p].got = <<>> THEN Fail(p) /\ UNCHANGED <<read, work>>
       ELSE /\ work' = [work EXCEPT ![p].candidates =
                            Each(Eligible(read[p].got, job[p].place), LAMBDA s : s.entrant.users[1])]
            /\ Ask(p, <<"entrants", work[p].targets[1]>>, "entered")
    /\ UNCHANGED <<site, files, job, landed>>

(* entered_user_ids: one event after the other; then the plan: the events   *)
(* each candidate is not in yet, of the token's own account.               *)
Missing(targets, entered, u) ==
    SelectSeq(targets, LAMBDA e : u \notin entered[e])

Planned(targets, entered, candidates) ==
    LET lacks(u) == Missing(targets, entered, u)
        due      == {i \in DOMAIN candidates : candidates[i] = Me /\ lacks(candidates[i]) # <<>>}
        users    == Only(candidates, due)
    IN  [k \in DOMAIN users |-> [user |-> users[k], events |-> lacks(users[k])]]

Entered(p) ==
    LET w       == work[p]
        users   == UNION {ToSet(x.users) : x \in ToSet(read[p].got)}
        entered == Append(w.entered, users)
        byEvent == [e \in ToSet(w.targets) |->
                        entered[Max({i \in DOMAIN w.targets : w.targets[i] = e})]]
        plan    == Planned(w.targets, byEvent, w.candidates)
    IN
    /\ At(p, "entered")
    /\ IF Len(entered) < Len(w.targets)
       THEN /\ work' = [work EXCEPT ![p].entered = entered]
            /\ Ask(p, <<"entrants", w.targets[Len(entered) + 1]>>, "entered")
       ELSE /\ work' = [work EXCEPT ![p].entered = entered, ![p].plan = plan]
            /\ Goto(p, IF plan = <<>> THEN "done" ELSE "confirm")
            /\ UNCHANGED read
    /\ UNCHANGED <<site, files, job, landed>>

(* admin_register_user: a token for the account, then its redemption.  A    *)
(* failure is counted and the next candidate is tried.                     *)
Generate(p) ==
    /\ At(p, "generate")
    /\ Goto(p, "redeem")
    /\ UNCHANGED <<site, files, job, read, work, landed>>

PlannedEvents(w) ==
    SelectSeq(w.targets, LAMBDA e : \E i \in DOMAIN w.plan : e \in ToSet(w.plan[i].events))

NextCandidate(p, work1) ==
    IF \E i \in DOMAIN work1.plan : i > work1.next
    THEN /\ work' = [work EXCEPT ![p] = [work1 EXCEPT !.next = @ + 1]]
         /\ Goto(p, "generate")
         /\ UNCHANGED read
    ELSE /\ work' = [work EXCEPT ![p] = [work1 EXCEPT !.entered = <<>>]]
         /\ Ask(p, <<"entrants", PlannedEvents(work1)[1]>>, "verify")

(* Variant: a failure is only printed. *)
FailedQuietly(w) == w
Failed(w) == [w EXCEPT !.failures = @ + 1]

RegistrationFails(p) ==
    /\ pc[p] \in {"generate", "redeem"}
    /\ NextCandidate(p, Failed(work[p]))
    /\ UNCHANGED <<site, files, job, landed>>

(* The site enters the account in the events of the token it is not in;     *)
(* the answer may be lost.                                                 *)
Redeem(p) ==
    LET r == work[p].plan[work[p].next] IN
    /\ At(p, "redeem")
    /\ entrants' = [e \in EventIds |->
                        IF e \in ToSet(r.events) /\ r.user \notin UsersIn(entrants[e])
                        THEN Append(entrants[e], [id |-> 90 + r.user, tag |-> <<>>, users |-> <<r.user>>])
                        ELSE entrants[e]]
    /\ landed' = landed \cup {<<r.user, e>> : e \in ToSet(r.events)}
    /\ \E answer \in {"ok", "lost"} :
         NextCandidate(p, IF answer = "ok" THEN work[p] ELSE Failed(work[p]))
    /\ UNCHANGED <<roster, phases, seeds, others, files, job>>

(* verify_registrations reads the planned events again and warns of those    *)
(* an account is not in; the command fails when a registration did.        *)
Verify(p) ==
    LET w       == work[p]
        entered == Append(w.entered, UNION {ToSet(x.users) : x \in ToSet(read[p].got)})
    IN
    /\ At(p, "verify")
    /\ IF Len(entered) < Len(PlannedEvents(w))
       THEN /\ work' = [work EXCEPT ![p].entered = entered]
            /\ Ask(p, <<"entrants", PlannedEvents(w)[Len(entered) + 1]>>, "verify")
       ELSE /\ work' = [work EXCEPT ![p].entered = entered, ![p].wrote = "yes"]
            /\ Goto(p, IF w.failures > 0 THEN "failed" ELSE "done")
            /\ UNCHANGED read
    /\ UNCHANGED <<site, files, job, landed>>

-----------------------------------------------------------------------------
(* find: every tournament of the pool, cached or live; people are merged by *)
(* account, or by tag when they have none.                                 *)

Extra(p) ==
    /\ At(p, "extra")
    /\ Remember(p, job[p].extra[1], "finding")
    /\ UNCHANGED <<site, files, job, read, landed>>

CacheUsable(p, t) == ~job[p].refresh /\ cache[t] # Null /\ t \in Past

RowsOf(t, list) == Each(list, LAMBDA x : [at |-> t, who |-> x])

FindNext(p) ==
    LET w == work[p] IN
    /\ At(p, "finding")
    /\ IF w.next > Len(w.slugs)
       THEN Goto(p, IF w.slugs = <<>> THEN "failed" ELSE "rank") /\ UNCHANGED <<read, work>>
       ELSE LET t == w.slugs[w.next] IN
            IF CacheUsable(p, t)
            THEN /\ work' = [work EXCEPT ![p].rows = @ \o RowsOf(t, cache[t]), ![p].next = @ + 1]
                 /\ UNCHANGED <<pc, read>>
            ELSE Ask(p, <<"roster", t>>, "found") /\ UNCHANGED work
    /\ UNCHANGED <<site, files, job, landed>>

Found(p) ==
    LET t == read[p].what[2] IN
    /\ At(p, "found")
    /\ cache' = [cache EXCEPT ![t] = read[p].got]
    /\ work' = [work EXCEPT ![p].rows = @ \o RowsOf(t, read[p].got), ![p].next = @ + 1]
    /\ Goto(p, "finding")
    /\ UNCHANGED <<site, pool, job, read, landed>>

KeyOf(x) == IF x.user # Null THEN <<"user", <<x.user>>>> ELSE <<"tag", x.tag>>

NoEntry == [tags |-> {}, display |-> <<>>, user |-> Null, seen |-> 0, last |-> Null]

(* Variant: the first of several appearances at one time is shown, and an   *)
(* older one replaces it.                                                  *)
AbsorbOlder(entry, row) ==
    LET newer == entry.last = Null \/ (entry.last # Null /\ Starts[row.at] <= entry.last) IN
    [tags    |-> entry.tags \cup {row.who.tag},
     display |-> IF newer THEN row.who.tag ELSE entry.display,
     user    |-> Or(entry.user, row.who.user),
     seen    |-> entry.seen + 1,
     last    |-> IF newer THEN Starts[row.at] ELSE entry.last]

(* PoolEntry::absorb *)
Absorb(entry, row) ==
    LET newer == entry.last = Null \/ (entry.last # Null /\ Starts[row.at] >= entry.last) IN
    [tags    |-> entry.tags \cup {row.who.tag},
     display |-> IF newer THEN row.who.tag ELSE entry.display,
     user    |-> Or(entry.user, row.who.user),
     seen    |-> entry.seen + 1,
     last    |-> IF newer THEN Starts[row.at] ELSE entry.last]

EntryOf(rows, key) ==
    FoldLeft(LAMBDA entry, row : IF KeyOf(row.who) = key THEN Absorb(entry, row) ELSE entry, NoEntry, rows)

(* Quality, then recency, then attendance; the best ResultCap are shown.    *)
TierOf(query, entry) ==
    IF query.id # 0 /\ query.id = entry.user THEN 4 ELSE BestTier(query.text, entry.tags)

Better(query, x, y) ==
    \/ TierOf(query, x) > TierOf(query, y)
    \/ /\ TierOf(query, x) = TierOf(query, y)
       /\ \/ x.last > y.last
          \/ x.last = y.last /\ x.seen > y.seen

Rank(p) ==
    LET rows    == work[p].rows
        query   == job[p].query
        entries == {EntryOf(rows, KeyOf(rows[i].who)) : i \in DOMAIN rows}
        matches == {x \in entries : TierOf(query, x) > 0}
        shown   == {x \in matches :
                        Cardinality({y \in matches : Better(query, y, x)}) < ResultCap}
    IN
    /\ At(p, "rank")
    /\ work' = [work EXCEPT ![p].shown = SetToSeq(shown)]
    /\ Goto(p, "done")
    /\ UNCHANGED <<site, files, job, read, landed>>

-----------------------------------------------------------------------------
Site ==
    \/ \E ph \in DOMAIN seeds : \E order \in Reorders : Reseed(ph, order)
    \/ \E n \in Newcomers : Indexed(n) \/ (\E e \in EventIds : Join(n, e))
    \/ \E e \in EventIds, ph \in DOMAIN seeds : Withdraw(e, ph)
    \/ HandEdit

Step(p) ==
    \/ Begin(p) \/ ReadPage(p) \/ ReadFails(p)
    \/ Truncate(p) \/ Rewrite(p) \/ Interrupted(p) \/ SaveFails(p) \/ PoolCommand(p)
    \/ Fetched(p) \/ CacheRoster(p)
    \/ Create(p) \/ Structure(p) \/ Order(p) \/ Confirm(p)
    \/ WriteSeeding(p) \/ Compare(p) \/ WritePhase(p)
    \/ Placed(p) \/ Entered(p) \/ Generate(p) \/ RegistrationFails(p) \/ Redeem(p) \/ Verify(p)
    \/ Extra(p) \/ FindNext(p) \/ Found(p) \/ Rank(p)

Next == Site \/ \E p \in Processes : Step(p)

Spec == Init /\ [][Next]_vars

-----------------------------------------------------------------------------
(* Properties. *)

(* The seeds of a phase are read page by page, listed, and written back in   *)
(* one list; whatever others did in between, no two of them end with one     *)
(* number (run_seed, in strict mode).                                      *)
NumbersDistinct ==
    \A ph \in DOMAIN seeds : \A i, j \in DOMAIN seeds[ph] :
        seeds[ph][i].num = seeds[ph][j].num => i = j

(* A registration that ends well has entered every account it planned in     *)
(* every event it planned: one that failed, or whose answer was lost, makes  *)
(* the command fail (register_candidates).                                 *)
LandedOrReported ==
    \A p \in Processes :
        At(p, "done") /\ work[p].plan # <<>> /\ work[p].wrote = "yes" =>
            \A i \in DOMAIN work[p].plan : \A e \in ToSet(work[p].plan[i].events) :
                <<work[p].plan[i].user, e>> \in landed

(* A cached roster holds everyone who was there from the start: no           *)
(* unpaid filter, page or interrupted command leaves a part of it behind to  *)
(* be served later (cache_roster, roster_cached_or_live).                  *)
CacheIsWhole ==
    \A t \in Tournaments : cache[t] # Null =>
        ToSet(Participants(Rosters[t])) \subseteq ToSet(cache[t])

(* find shows one line per account, with every appearance counted and the    *)
(* tag of the latest, in whatever order the tournaments were read, from the  *)
(* cache or live (PoolEntry::absorb).                                      *)
Merged(x, rows) ==
    LET mine == {k \in DOMAIN rows : rows[k].who.user = x.user} IN
    /\ x.seen = Cardinality(mine)
    /\ \E k \in mine :
         /\ rows[k].who.tag = x.display
         /\ \A l \in mine : Starts[rows[l].at] <= Starts[rows[k].at]
PeopleMerged ==
    \A p \in Processes : At(p, "done") /\ job[p].do = "find" =>
        LET shown == work[p].shown IN
        \A i \in DOMAIN shown : shown[i].user # Null =>
            /\ Merged(shown[i], work[p].rows)
            /\ \A j \in DOMAIN shown : shown[j].user = shown[i].user => i = j

(* What find answers from, and answers with, is the whole of the rosters.    *)
RostersTrue == CacheIsWhole /\ PeopleMerged
=============================================================================
