# bracket-tools: a TLA+ model of the tournament scheduler

bracket-tools is a set of Rust tools around start.gg.  Its heart is the
*scheduler*: the program a tournament organiser (TO) keeps open during an event
to decide which sets are played on which stations.  Beside it stand *gg-admin*,
a command line for rosters, phases and seeds, and the start.gg client both use.
This directory models their logic, checks it with TLC on small instances and
proves the most important results with TLAPS for every number of brackets, sets,
players, stations and launches.

Paths below are relative to `src/`; `core/` stands for
`tools/scheduler/core/src/`, `tui/` for `tools/scheduler/tui/src/`, `web/` for
`tools/scheduler/web/src/`, `startgg/` for `crates/bracket-tools-startgg/src/`,
`admin/` for `tools/admin/src/`.

## Inventory

| Component | State it keeps | Operations | How it interacts | Module |
|---|---|---|---|---|
| Desk (`core/app.rs`) | board, player flags, tombstones, pool overrides, snoozes, call stamps, one undo snapshot, last-good set tables, tearing suspects, soft-busy list | one handler per key or web action, poll results, write results, ticks | single-threaded `update(state, msg)`; messages come from the shell, the poller, the writer and the evaluator; effects (writes, forced polls, evaluations) go back to them | `Desk`, `Stations` |
| Conflict index (`core/conflict.rs`) | none (rebuilt from the desk) | busy index, pools, `callable` | called by the desk at commit time, by the recompute and by the simulation | `Conflict` |
| Write queue (`core/app.rs`, `core/writer.rs`) | pending writes, held writes; the writer's FIFO | enqueue, retry, discard, release on poll, results; attempts with retry and timeout | desk -> writer by an unbounded channel, results back as messages; start.gg behind it | `Writes` |
| Poller and supervisor (`core/poller.rs`, `tui/main.rs`) | sequence counter, missing structures; task handles | poll cycle, forced poll, restart of a dead task | start.gg -> desk by the message queue | `Polling` |
| Tables and durations (`core/model.rs`, `core/duration.rs`, `core/app.rs`) | the last-good table, samples, rest stamps | pages to rows, rows to sets, tearing guard, diff, ingest | what a poll's answer becomes | `Tables` |
| Persistence (`tui/persist.rs`, `core/state_doc.rs`, `tui/main.rs`) | overlay and snapshot files, lock file | debounced save, load, `apply_overlay`, `acquire` | survives a crash; the next run starts from it | `StateFile` |
| Launch (`tui/main.rs`, `core/preflight.rs`, `core/roster_cache.rs`) | report of the preflight, arming, roster cache, defaults file | live, rehearsal and offline launches, admin probe | before a desk opens | `Startup` |
| Configuration (`core/config.rs`, `core/init.rs`) | config files | counts, validation, `--init-tournament`, derived configs | read by every launch | `Config` |
| Dependency graph (`core/graph.rs`) | none | depths, stages, resets, unblocks, rollups | read by ranking and display | `BracketGraph` |
| Simulator, ranker, rollout, recompute (`core/simulator.rs`, `ranker.rs`, `rollout.rs`, `world.rs`) | an event queue per run | forward simulation, candidate ranking, call sheet, block reasons, summaries | rank what the operator is offered | `Simulation`, `Projections`, `Recompute` |
| Rollout evaluator and picker (`tui/main.rs`, `core/app.rs`) | dispatch variables, rankings held back | debounce, single flight, timeout, rest | evaluator task beside the loop | `Ranking` |
| Rehearsal, synthetic worlds, replay (`core/rehearsal.rs`, `synth.rs`, `fixture_source.rs`, `tui/replay.rs`) | recorded frames, event log | build brackets, record, pace, tell | a source of sets in place of start.gg | `Synth`, `Projections` |
| Console (`core/keymap.rs`, `core/app.rs`, `web/views.rs`) | modal, digits, report draft, remembered characters | keys, clicks, digits, finder, report dialog | turns input into the desk's handlers | `Console` |
| Browser desk (`web/live.rs`, `bridge.rs`, `persist.rs`, `demo.rs`) | page stage, documents in IndexedDB | look up, open, set aside, discard, save | runs the desk in a page | `WebDesk` |
| start.gg provider (`startgg/provider.rs`, `limit_journal.rs`) | response cache, rate-limit journal | cached fetch, mutations, gate and hold | network client of poller, writer and admin tools | `Provider` |
| Conversions (`startgg/conversions.rs`) | none | answers with missing fields to values | between provider and everything | `Conversions` |
| Admin CLI (`admin/`) | pool file, roster cache files | roster, add, find, phases, seed, standings, redemption | provider; other organisers edit the same site | `Admin` |
| Reporter, daemon, app, schema, cache crates | mostly skeletons, generated code, interfaces | | | |

What is hard in this system:

- **Stale decisions.** The TO acts on a ranking computed before the last poll, a
  report is drafted from a table that polls replace, and undo restores a board
  saved before several polls.
- **Two sources of truth.** What the desk believes (board, tombstones) and what
  start.gg says (tables) move independently; results release stations, writes
  change the site, other TOs act on it too.
- **Unreliable answers.** Paginated fetches tear, polls fail or are refused by
  the sequence gate, a timed-out mutation may have been applied, a page that is
  read while entrants come and go shows them twice or not at all.
- **Ordering.** Writes are retried, held across an outage and released by a
  poll; rankings are debounced, time out and are held back by an open picker.
- **Restart.** The overlay and the snapshot files are saved at different times,
  launches of different kinds share a directory, a browser page may close
  between two requests to its store.
- **Projections.** The simulation runs only at events, so a wake that nobody
  set loses a set; depths, walkovers, swiss rounds and progressions must agree
  with the bracket they stand for.

What makes each component correct is said property by property in the modules;
`PROJECT.json` lists the hazards, each at its line, with the properties that
would catch it going wrong.

## Modules

| Module | What it is |
|---|---|
| `Conflict` | the busy index, pools and the callable predicate, as operators on board, flags, tombstones and tables |
| `Desk` | the overlay and its handlers, the tables and polls, the clock, and the site behind them |
| `Stations` | the abstract specification of the desk: stations seat one set at a time, no player is needed twice |
| `Writes` | the desk's pending and held lists, the writer task, the polls that release held writes, crash and restart |
| `Polling` | the pollers, the supervisor that spawns them again, forced polls, and the desk's sequence gate |
| `StateFile` | the lock file and the two documents, through any crash between two system calls |
| `Provider` | concurrent calls of the start.gg client: journal, hold, cache, mutations |
| `BracketGraph` | one bracket's structure as operators on a table |
| `Simulation` | the greedy forward simulation as a state machine, instantiating `Conflict` and extending `BracketGraph` |
| `Projections` | what the simulation is run for: summaries, rollout rankings, rehearsals, replays |
| `Recompute` | the call sheet, block reasons, rollups and exhausted stations of a world |
| `Synth` | the synthetic bracket builders and the `--synth` parser |
| `Conversions` | what an answer of start.gg becomes |
| `Tables` | an event's polls, from pages to news, samples and rest windows |
| `Admin` | gg-admin's commands against a site that others change |
| `Config`, `Startup` | config files, and every kind of launch over them |
| `Ranking` | the rollout evaluator and the picker |
| `Console` | keys, digits, finder and the report dialog |
| `WebDesk` | the browser's page, its store and its saves |
| `MC*` | the instances for TLC |
| `DeskProofs`, `WritesProofs` | the theorems about `Desk`, `Writes` |
| `TrafficProofs` | the theorems about `Polling` and `Provider` |
| `SimulationProofs` | the theorems about `Simulation` and `Projections` |
| `TerminalProofs` | the theorems about `StateFile` and `Ranking` |
| `SessionProofs` | the theorems about `Startup`, `Console` and `WebDesk` |
| `ReadsProofs` | the theorems about `Tables` and `Admin` |
| `Inductions` | what the proofs need of numbers, lists and folds |

The desk's modules look at the same program from several sides.  Where one
needs another it states what it assumes: `Desk` takes the effect of a confirmed
write as one action (`MergeWrite`) and polls as arriving in order (`Polling`
says when they do); `Writes` keeps of a set only whether it is open, completed
or gone; `Polling` and `StateFile` keep of a table only the moment of the site
it shows; `Simulation` starts from the worlds that `IsWorld` describes (below).

### Desk, Conflict, Stations

State: `board`, `tomb`, `flags`, `pools`, `snoozes`, `calledAt` are the fields
of `AppState` that `UndoSnapshot` saves; `undo` is that snapshot; `alerted`,
`resting` (last completions still inside the rest window), `softBusy` and
`draft` (the open report modal) are the fields it does not save; `table` and
`suspects` are the per-bracket set tables and tearing suspects; `site`,
`fetched` and `inFlight` are start.gg and the snapshots on their way.

A set stands for a `(bracket, SetKey)` pair and a player for a canonical
conflict key.  A table says of a set one of eight *views*: combinations of the
state int, `startedAt` and completion that the code tells apart.

Each handler is one action: `Call` (`commit_entry`, reached from the picker,
the quick call and the web actions), `Progress`, `Free`, `Requeue`,
`OpenReport`/`CloseReport`/`SubmitReport`, `Snooze`, `CycleFlag`, `Reassign`,
`Retire`, `AddStation`, `SetCount`, `Undo`; `ApplySnapshot` is the whole of
`apply_snapshot` with the tearing guard, the diff, the wedge guard and the
deviations; `MergeWrite` is what a confirmed write does to the table; `NoShow`,
`SnoozeExpires`, `RestExpires` are the clock.  Times are abstracted to the
comparisons the code makes of them: a snooze or a rest window is open until it
expires, at any moment.  `SiteStep` (external) is the site: the bracket
advances and other TOs act on it.

An open report keeps nothing else of the desk out.  The terminal's keys go to
the modal, but `apply_action` asks for no modal, and the buttons behind the
browser's dialog can be reached by keyboard: every handler may run under a draft,
except `cycle_flag`, which only the flags modal reaches, and there is one modal.
`reassign_setup` closes whatever modal is open.  `crossed` is history: the sets
that were reported from a station that had lost them to another one.

Calls are modelled for any set and station, not only those of the current
ranking: the code re-verifies, and that is what is being checked.  `Stations`
is what the desk promises; `SeatsOneAtATime` is the refinement, with the
stations' live seats as the mapping.

### Writes

    desk --channel--> writer --mutation--> site
      ^------mailbox------/     polls (mailbox) release the held writes

`pending` is `pending_writes` (the status of every intent on the list) and
`held` is `held_writes`; `channel`, `writing` and `attempts` are the writer task
(`run_writer`); `mailbox` is the message queue of the update loop; `saved` is
the list in the overlay file.  An intent is what `WriteIntent` equality
compares: set, kind and creation time, where time counts the intents created.

`Enqueue`, `Retry`, `Discard` are `enqueue_write`, `retry_parked` and
`discard_pending`; `HandleResult` and `HandlePoll` are the message handlers,
the latter with the whole of `release_held_writes` (take, partition, drop the
moot, send the rest again in order).  A writer's attempt succeeds, fails for
good, is worth another attempt, or is handed back because the connection is
lost or the request timed out; in the last two the site may have performed it.
`Save` and `Restart` are the overlay file: what was queued or held at a crash
comes back parked.  `WriterPanics`: a task that panics cannot be named, so the
writer is not spawned again.

### Polling

A poller is one run of `run_poller`, with its own stamps (`seq`), force channel
(`forced`) and list of missing structures (`wanted`); `current` is the poller
that holds the other end of `force_tx`.  `FullCycle` and `ForcedCycle` begin a
cycle, `Fetch` and `FetchFails` collect the result of one event, `Publish` sends
the results and strikes the structures that came, `End` is the return of a
poller whose force channel was replaced.  `PollerPanics`, `OtherPanics` (the
writer), `RestartEnded` and `RestartPanicked` are the supervisor's
`restart_dead_task`.  `HandlePoll` installs a structure and then applies the
sequence gate, in that order, as `handle_poll` does.

### StateFile

One process per launch.  `fd`, `path`, `holder` are the lock file: opening,
locking, unlocking and removing are four steps, as in `acquire` and `Drop`.
`disk` and `temp` are the overlay and the snapshot with their `.tmp` siblings
(`write_then_rename` is `BeginSave` and `CommitSave`), `backup` the `.bak`
renames.  `memory` keeps which of the operator's changes the state holds, which
tables it shows and which its board has seen.  `Start` is `load_versioned`,
`seed_from_snapshot_file` and `restore_overlay`, online or offline, with an
overlay file that may be unreadable; `Change`, `Poll`, `PollRefused` mark the
documents dirty, `SaveWindow` and `Quit` save them, overlay first.  `Crash` may
fall between any two steps.

### Provider

Workers are concurrent calls of one client.  A call passes the gate
(`Passes`: capacity in a sliding window, or the hold after a 429), waits,
loads, appends and saves the journal, sends, and records a refusal by the same
load and save; a read then fills the cache and a mutation deletes from it.
Every one of these is a step of its own, since the journal's lock covers each
but not the sequence.  The journal is a set of times, requests of the same time
being told apart by a number; how long a call must wait is left out, that it
does wait until the gate lets it pass is not.

### BracketGraph, Simulation, Projections, Recompute, Synth

`BracketGraph` is `BracketGraph::build` on a sequence of sets: dependents and
dangling ids, grand-final resets, the depth-first search with its memo and its
cut cycles, stages, group rollups, remaining counts, unblocks.

A behaviour of `Simulation` is one run of `simulate_inner`: `Assign` is the
assignment phase (score, callable, seat), `Pop` the pop of the earliest
event and what follows from it, with walkovers, swiss rounds, progressions
between stages, forced calls and holds.  The initial states are the worlds.
`Projections` runs it for the four uses of a projection: a summary, the options
of a free station (`RankedRows`), a recording played back under a clock
(`served` against `frames`), and a replay log.  `Recompute` computes at every
state of a projection the call sheet a desk would show there.  `Synth` builds
the worlds: single and double elimination with byes collapsed, round robin by
the circle method, swiss first rounds, unseeded cuts, drop-ins, and the events
of a `--synth` spec.

### Tables, Conversions

A poll reads an event page by page while rows move at the site; rows become
live sets (`LiveSet` with missing fields and substituted entrants), are
deduplicated, guarded against tearing, diffed against the table, and the news
becomes rest windows, samples and arrivals; overlay and table are saved apart
(`saving` is what remains of the two) and the process may crash in between.
Between polls the answer to a write of the desk may come, late or never, with the
start the site had when it answered (`SiteAnswers`), and `MergeAnswer`, which is
`merge_remote_set`, puts it into the table over whatever start is there, also of
a set that has finished; only the overlay is saved for it.  `found` and
`rewritten` are ghosts: what a launch found finished, and the finished sets whose
start an answer changed.  `PhaseGroups` are classified as the code
does, for the best-of that a row lacks.

### Admin

Each process runs one command, step by step: resolve, read pages, plan, ask,
write, read again.  Between any two requests others may register, unregister,
reseed or rename.  The pool file is read, changed and rewritten without a lock
(`Truncate`, `Rewrite`), the roster cache fills as rosters are read.

### Config, Startup

`Config` holds counts, validation, the stations a config asks for and the config
that `--init-tournament` generates.  `Startup` launches one process after
another over shared files: `Launch` picks the kind, `AskStructure`, `AskSets`,
`AskCharacters` and `ProbeAdmin` are the preflight's requests with all their
answers, `Verdict` is identity and arming, `OpenDesk` restores the board, and
`SaveBoard`, `SaveDefaults` and `Killed` end a session anywhere.

### Ranking

`loop` holds the event loop's variables; `EndTurn` is the dispatch decision at
the end of a turn (`Noted`, `MaySend`, `GivenUp`), `Take`, `Publish` and
`EvaluatorPanics` the evaluator, `TakeResult` the one-refresh policy of an open
picker, and `OpenPicker`, `Closes`, `OpenOther`, `ApplyReassign` the ways into
and out of it.

### Console, WebDesk

`Console` is the keymap's contexts, digits with their grace tick, the finder and
the report dialog with its games, targets, remembered and filtered characters;
polls rearrange a set's sides and release stations under the open dialog.
`WebDesk` is the page: look-up, peek of stored documents, setting unreadable
ones aside (copy, then remove), discard, open, the debounced saves that run on
by themselves, and the demo with its reset.  IndexedDB serves one request at a
time; closing the page drops the requests not yet served.

## Runs

| Run | Question | Bounds |
|---|---|---|
| `desk_core` | Is any player needed on two stations, or a set on two? Does the desk implement `Stations`? | 2 brackets, 2 sets sharing a player, 2 stations, torn fetches of one set |
| `desk_notes` | Do tombstones, stamps, suppressions and pool overrides follow the board, and is a set that is freed offered again? | calls summon players, CALLED evidence on the site, 3 stations, one of which comes and goes and may be of another type, buttons pressed under an open report, one set that may be reset |
| `desk_release` | Is a finished station freed in the end? | one set, 2 stations, flags, snoozes, rest windows, torn fetches, fairness |
| `writes_trip` | Does an intent make one trip at a time? | 2 sets of 2 brackets, 2 kinds, 2 intents, 2 attempts, the writer may panic |
| `writes_settle` | Is a queued intent always on its way, and does every intent settle? | one set, 2 intents, 2 attempts, one restart, the set may vanish or be reported by others, fairness |
| `polling_panics` | What survives the death of tasks? | one event launched without structure, 3 pollers of 2 cycles, 2 panics, one change of the site, 2 results in the mailbox |
| `launches` | Does one process own the files, and does a crash lose or mix anything? | 2 launches, one change by the operator, one move of the site, an overlay of another version |
| `provider` | Is the shared limit kept, is a hold heeded, does a read see our own mutation? | 2 concurrent calls of one process, 2 requests in a window of 3, hold and time to live of 2, 5 ticks |
| `simulation` | Is a projection a schedule, and do the summaries, rankings, call sheets, rehearsals and replays say what it had? | over 400 worlds of two brackets (5 formats and the `--synth` specs of up to 4 entrants), 2 stations of up to 2 types |
| `reads` | Do gg-admin's commands tell and do the truth while others change the site? Do the polls of an event miss, repeat or mis-time a finish? | 2 processes, a search only beside another search, `roster` and the pool's commands; one change by others, pages of 2; polls: 3 rows, one of them under way, 2 changes of the site, 2 ticks, crashes, answers to the desk's writes of one round |
| `session` | Do launches stay apart and unarmed without an answer? Is one evaluation under way, and is each request met? Does a report say what was keyed? Does the browser keep every change? | 2 launches and one edit; 4 ticks, 4 requests, a panic; 2 dialogs, one report, 2 polls; 2 seconds, 2 changes, one fault, 2 desks |
| `ranking_freshest` | finding, below | 5 ticks, 4 requests |

`reads` and `session` hold several components that share nothing modelled: a
behaviour picks one (`client`, `part`) and the others stand still, so their
states add up and do not multiply.

Every bound is a constant of the component's module or of its MC module.  Two
sets that share a player, on two stations, are the smallest instance in which a
double booking, a double seat, a masked claim or a stale undo can occur; three
stations of two types are the smallest in which a count changes two stations.
`ReportedSets` bounds the sets reported from the desk: one suffices for its draft
to be overtaken by a re-queue and a call on the other station.  `desk_core` looks at
states through `VIEW AlikeStations`, which leaves out `crossed` (no guard and no
property of that run reads it) and the call stamps (read of called sets only, and
there a set is in progress as soon as it is called), and takes for one two states
that differ only in which of the two stations is which: they have one type, no
roster changes there, and no action of the model prefers a station.  In `reads` a
search shares the pool and the cache with the other process, which every command
that reads a tournament treats as `roster` does.  `OurRounds` bounds the rounds whose sets the desk calls and writes,
so that some of the polled sets never meet an answer.
Two intents are enough for one to be held, parked or retried while another of
the same set and kind is in flight, and two brackets for a poll to release some
held writes and not others.  Two pollers can run side by side, and the third is
the one spawned for the poller whose force channel that closed.  Two launches
contend for the lock file in every order of their system calls; once a launch
has removed a file that another had just opened (`torn`), nothing is claimed and
the run stops there (`NotTorn`): that window is a hazard without a property.
Two calls of one client are enough for the gate of one to be decided before the
record of the other; five ticks let a window and a hold pass and open again.  In
the simulation `MaxTime` is never reached, so no event is cut off; brackets of
three and four entrants are the smallest with byes, a losers bracket, a reset, a
cut fed by pools, and a player of the other bracket.  Two pages of two rows are
enough for an entrant to move from one page to the other while they are read.
One set of the polled event is under way from the start, so that two changes are
enough to report it and to overwrite its start: a crash between the saves of
the overlay and of the table then leaves the sample ahead of the table, which is
the case `Sampled` excepts.

Deadlock is checked in `writes_trip`, `writes_settle`, `polling_panics` and
`provider`.  The others may stop: an idle desk on a finished tournament, a
simulation that ended, a command that printed its answer, launches, reports and
seconds that are used up.

Fairness is only what the code's loops give.

- `PollFairness` of the desk: the poller fetches every event again after each
  cycle (weak fairness of `Fetch`), and a poll that keeps being made is applied in
  the end, since not every cycle of an event fails (strong fairness of
  `ApplySnapshot`).
- `Fairness` of the write queue: the update loop drains its mailbox, the writer
  its channel, every attempt ends because of `request_timeout` (weak fairness of
  `Handle`, `Receive`, `Attempt`), fetches go on and not every one of an event
  fails.
- `SaveFairness` of the files: polls end, the save window comes round, a save
  that was begun ends, and the disk does not fail for ever (strong fairness of
  the overlay's commit).
- `Keeps` of the simulation: a sequential function that takes a step whenever it
  has one (and hence ends).

The operator is never fair: nobody has to press a key.

Every property has a variant of the code that breaks it; the variants stand next
to the definitions they change, marked "variant" in the modules.

### Finding

`ranking_freshest`: "A fresh modal session starts on the freshest ranking"
(`core/app.rs:1376`).  A picker that was open when results came keeps one of them
aside and shows it at its close; when a newer one had been taken meanwhile for
another station's picker, the older comes back over it.

### Further divergences

Found while modelling; each was run once or follows from the definitions, and no
run keeps it.

Desk.
- Undo restores the overlay but not `no_show_alerted`: a set alerted, undone and
  called again never alerts, although a call "Arms the no-show timer"
  (`core/config.rs:515`, `core/app.rs:1658`).  Nor does it restore
  `last_completed`, so the rest window of an undone finish keeps players off.
- An escalated state holds its players for one poll: the list is rebuilt from
  transitions (`core/app.rs:2662`).
- The index keeps one busy source per player, and `callable` skips it when it
  names the set itself (`core/conflict.rs:456`, "all retained, never just the
  first").
- A report submitted after the poll that brought its result leaves an awaiting
  tombstone on a finished set; a report draft is not revalidated against polls.
- A report opened on one station is submitted after its set was re-queued there and
  called on another: `submit_report` (`core/app.rs:2232`) frees the draft's station
  alone, and the set awaits its result on the other one, without a call stamp.  A
  re-queue then adds suppressions but leaves the tombstone, so the set is not
  offered again before its result is in, although it suppresses "both so the
  set ranks again" (`core/app.rs:1627`).  The properties of `desk_notes` hold of every set
  but these (`crossed`), and are violated without the exception.
- A station whose set is gone from the tables is freed by its own event only.
- A finish during downtime opens with the bootstrap table and never arrives: no
  rest window, no sample, no tombstone cleared.  A set missed by two polls that
  comes back fires its results again.
- An answer to a write that comes after the finish was polled gives the set of the
  table another start (`merge_remote_set`, `core/app.rs:2787`).  The next poll shows
  that start too, so nothing is revised and the sample keeps the old one.
  `SamplesCurrent` holds of every set but these (`rewritten`), and is violated
  without the exception.
- Without `Steady` (below) the desk can double book: undo re-seats a finished
  set, another set of its player is called, and the first is reset on the site
  before the next poll.

Writes and polling.
- `retry_parked` does not look for the twin that `enqueue_write` refuses
  (`core/app.rs:1686`, "re-keys never double-queue"): two mutations of a set race.
- `captured_at` is the end of the fetch, so a held intent may be revalidated
  against data read before it was created.
- The intents in the hands of a writer that panics stay queued until the program
  is restarted.
- A writer's panic spawns a second poller beside the running one
  (`core/poller.rs:4`, "Cycles are strictly sequential"), and a respawned poller
  stamps from zero, so that fresh snapshots are refused (`core/app.rs:79`).
- A structure that comes without phase groups is struck from the poller's list
  although `install_structure` discards it.

Files, launches, browser.
- A failed save clears the dirty flag: nothing retries it until the next change or
  poll marks the document again, and the final flush skips it (`tui/main.rs`,
  "Final flush so a clean quit never loses the debounce window").
- The lock file is unlocked before it is removed: a second launch may lock a file
  that a third no longer sees.
- `preflight.rs:281` returns no characters without asking the roster cache when
  the structure fails, while `roster_cache.rs:4` says "a rate-limited relaunch
  keeps its character picker".
- `--setups` "for this run" (`cli.rs:92`) is saved into the overlay and adopted
  by the next run; the defaults file keeps only this session's types.
- A second `--init-tournament` overwrites the `.bak` of the first.
- In the browser, the forgetting of a discarded tournament races the next desk;
  a demo's reset may be followed by a save of the old demo; two tabs share the
  store without a lock; a transient read error reports that nothing will be saved
  while saves go on; `arm_writes` carries over to another tournament.

Ranking, projections.
- A request is lost when the evaluator dies; an outlived simulation's answer
  clears the in-flight mark of the newer one (`tui/main.rs:625`).
- The simulator ranks a set that the board holds as called while the site shows
  no evidence, so it is seated twice (`core/world.rs:173`, "Exclude
  board-assigned sets here instead").
- A replay says that winner and loser of the grand final go on to a reset that is
  not played; a swiss bracket between rounds reads as exhausted; a reset that is
  not needed keeps a pool from being exhausted.
- `--synth de:2` passes the parser and `build_elimination` asserts three.

Console, clients.
- Remembered characters are keyed by the player alone, so a pick of one game's
  event is attached to another game's report; digits left in the buffer commit on
  the grace tick over an open dialog, where they replace a report's draft.
- `fetched_at` of a cached roster is never read; the pool file is read, changed
  and rewritten without a lock although `store.rs` says never to clobber; the
  same person named by tag and by account is registered twice; a page that shifts
  while it is read hides an entrant or shows one twice.
- Processes that share the rate-limit journal may lose a hold
  (`limit_journal.rs:13` and 98), and read-your-writes fails for a fetch that
  straddles a mutation.  `ReadYourWrites` and `HoldHeeded` claim what remains.

## Proofs

Every theorem holds for all values of the constants that satisfy the modules'
assumptions, hence for all bounds.

`DeskProofs`:

- `TypeCorrect`, by one step per action.
- `OneStation`, `FinishedOffBoard`, `Requeues`.  The first two are not inductive:
  undo restores a board, so the saved overlay must satisfy it too (`StationInv`),
  and a report frees only the station it was opened on: a set that another
  station holds by then is `crossed`, the one way to await a result on a station
  (`CrossedGrows`: and it stays so).  `Steps` classifies the actions once: apart
  from calls and undo, boards only lose sets.
- `PoolsOnBoard`, `StampsKept`, from `NotesInv`, again for both overlays;
  `NotesFollow` puts them together with `FinishedOffBoard` for the property that
  `desk_notes` checks.
- `NoDoubles` and `Refinement`, under `Steady`: no set is missed by two fetches
  in a row and none is reset after its result.  `CalledPlayersIdle` shows why
  the index's one-claim-per-player folding is safe for our own stations: they
  outrank everything.  `WorldInv` relates table, snapshot and site, so that a
  seated set never comes back to life; `BookingInv` and `NearInv` (undo gives
  back one seat at most) carry it through undo.

`WritesProofs`:

- `TypeCorrect`.
- `Trips`: `OneTrip` is inductive together with the types.  Most of the proof is
  about queues: what a filtered, appended or shortened queue of distinct intents
  contains.
- `NoStrays`: while the writer lives every queued intent is on its way.  It
  rests on `OneTrip`: a result takes away the one trip of its intent and the
  intent's status with it.

`TrafficProofs`, polling:

- `TypeCorrect`; `PollerKept` from `SupervisorInv` (the current poller never
  returns, the later ones are as they were at the start).
- `Sequential` and `NeverBack` hold while the writer runs.  `Alone`: only the
  current poller runs, and its death is the only one to join.  `OrderInv`: the
  mailbox followed by the results of the current cycle shows each event later and
  later, between the desk's table and the site.  A writer that is gone stays
  gone, so both may be assumed before and after a step.
- `StructuresLand`, from `AskedInv`: what a running poller no longer asks for is
  installed or in the mailbox.

`TerminalProofs`, the files:

- `TypeCorrect`.
- `Guarded`: one process owns the files.  `LockInv` follows the lock through open,
  lock, unlock and remove: as long as no file was removed under a launch, the
  path leads to the inode that the owner holds.
- `DocumentsSound`, from `SaveInv` (a save under way writes what is dirty, and
  only an owner saves), `WholeInv` (the temporary file is the one this launch
  filled, so no rename puts a partial document in place), and `PastInv` and
  `SeenInv` (no table shows more than the site, and the saved board has seen
  whatever the saved tables show: this is where the overlay going first counts).
- `ChangesStay`, from `KeptInv`: a change that reached the disk is in the memory
  of every later owner that could read the file.

`TerminalProofs`, the ranking:

- `RankingTypes`.
- `SingleFlight`, from `FlightInv`: until a simulation outlives its timeout, what
  is queued, run or unread is exactly what the loop has in flight.
- `RequestsAnswered`, from `WishInv` (a wish no dispatch covers is with the turn or
  the loop) and `LastInv` (the last dispatch is the last of everything between the
  loop and the desk, so the result that meets a wish is never overtaken).

`TrafficProofs`, the client, the first two under `OneClient` (all calls belong to one
process, so they share a mutex; across processes the journal's file lock does
not cover the read-modify-write):

- `HoldsHeeded`, from `HoldInv`: whoever is between load and save of the journal
  holds the mutex, so the copy written back still carries the hold.
- `WindowKept`, from `WindowInv`: journal and requests sent agree inside the
  window, and a call that passed the gate without being recorded counts as one
  that is.  The bound is reached when the gate opens on less than the capacity
  while all the other calls are past it.
- `OwnWritesRead`, from `ReadInv`: no answer on its way to the cache is older than
  what was confirmed.

`SessionProofs` (launches and browser desk; assumed of the constants: a marker
such as `Missing`, `None` or `Placeholder` is not also a document or a cast):

- `ArmedIsAnswered`, from `StartInv`: a launch that still asks is unarmed, and
  what its probe waits for (`Clear`) is known by then.  `NoMismatch` is the
  argument for identity: the code compares every event with the first one that
  named its tournament, hence all with each other.  `CacheStaysReal` comes from
  the same invariant.
- `LaunchesStayApart`, from `ApartInv`: every config file is one that
  `--init-tournament` or an operator leaves (`Fits`), every cast is filed under
  its own game (`Filed`), and every board lies under a path that says whether its
  desk was live and, if the desk was sure, of which tournament (`WroteAt`).  A
  desk is sure when start.gg named the tournament of its first event and the
  config pins it, or when the config has neither pin nor state file: without
  that, a file whose events were all exchanged under an old pin does lead to the
  other tournament's board.  `NamesAssumption`: no event has the name of a game.
- `ReportsStaySound`, from `ConsoleInv`: a draft is between two different players,
  each character in it is none or one picked for the player on that side, and
  what is remembered of a player was picked for that player.  A poll may
  rearrange the set under the dialog, since the draft keeps the players it was
  opened with.  A report's winner is ahead on games because sides and players
  correspond one to one, which `SlotsAssumption` says of the sets' slots: nobody
  is in both.
- `WebTypes`; `NothingUnreadLost`, from `RequestInv`: what a request in the store's
  queue was issued for ties it to the stage the page is in, and a removal follows
  its copy.
- `NoChangeLost`: `DueInv` (a dirty document is written before the debounce is
  over), `ForgetInv` (no removal is queued behind the save of a later desk),
  `SettledInv` (of a document that is not dirty, the last save under way, or else
  the store, holds the last change).

`ReadsProofs` (polls of an event; registrations, seedings and rosters of
`gg-admin`):

- `FinishesArrive`, from `ArrivalInv`: a finished set that is not news to the diff
  was finished in the table before, also when the tearing guard kept it there;
  the saved overlay knows every finish the saved table shows, since the overlay
  goes to disk first; and a launch that is still fetching has no table.
- `NobodyReportedMissing`, from `RegisterInv`: as long as no registration failed
  everyone before the next account is entered, and what others change never
  takes back an answer the site gave.
- `NumbersStayDistinct`, under `Strict`, which is what `gg-admin` passes: without it
  a seeding that leaves people out may give two people one number.  `SeedsInv`:
  on the site the seeds of a phase have distinct ids and numbers
  (`SeedsAssumption`: they do at first, and a seeding file names nobody twice).
  A strict plan covers every seed and numbers each by its last place in the
  list, so the plan is a permutation (`Ranks`, `Places`); what was read from the
  site is a list (`GotInv`), hence the ids it covers are finitely many.
- `RostersStayTrue`, in two halves.  `CachedRostersWhole` states `CacheIsWhole`, from
  `CacheInv`: the pages read so far cover the first places of the tournament's
  list, as it was at the start, and the page count the first page gave reaches
  that list's end, since the site's rosters only grow at the end; a roster filtered by event is never
  cached as a whole one.  No page leaves anybody out (`PageHolds`).  Assumed are
  `RostersAssumption` (the rosters are lists) and `PageAssumption` (pages have
  places, and `Null` is not a page number).  `PeopleMerged`, from `FindInv`: what find shows was made of the rows it has
  read.  A line is a fold of `Absorb` over those rows; `EntryMerged` follows it
  row by row: so far the line counts the rows of its key and has the name and the
  start of a latest one (`Absorbed`).  Two lines of one account would be of one
  key.
- `SamplesStayCurrent`, from `RowsInv`, `OrderedInv` and `SampleInv` on top of
  `ArrivalInv`.  `RowsInv` follows the identity of a set: its key names one row
  of the site, and its id one set, also after a replacement, so a table has one
  set per key and a sample belongs to one of them.  `OrderedInv` says that the
  saved table, the table, the pages read and the site are in this order: what is
  finished stays finished, at the same time (`Since`), and its start only moves
  forward; the tearing guard and a page read twice keep the order.  An answer to a
  write of the desk may set a start back, in the table alone: the order of the starts
  is claimed of finished sets that no answer changed (`Restarted`, `MergeFollows`).  `SampleInv`
  says that every finished set of the two tables has a sample of its finish, in
  the memory and, of the saved table, on the disk (`Kept`); in the table its start
  is the one of the sample, unless the saved table still shows the set the same,
  which is when a crash came between the two saves (`Exact`); and only what is
  unfinished has a call time (`Held`), so a call can not pass for a start.  Assumed
  of the site's first rows is `RowsAssumption`: keys are distinct, a finished row
  has a winner, no row starts after the clock does, and every id, replaced or
  not, has one owner.  TLC evaluates it on the rows of `MCReads`, and checked the
  three invariants on the polls of that instance before they were proved.

`SimulationProofs` (one run of the projection from any snapshot, then the runs of
`Projections`):

- `PlayersStayApart`, from `ApartInv`: whatever is under way has its players and no
  two such sets share one.  A call keeps this because the index lets nobody
  through whom a set under way claims (`CandidatesApart`: a player keeps one
  claim, of the highest level, so a claim that is not the player's own set
  refuses the candidate).  A completion keeps it because nothing it does puts a
  set under way or takes players from one: slots are only filled where they
  were empty, a set that has its players is left alone, and what a new swiss
  round adds has keys of its own (`Grown`, `Added`), so every name goes on
  leading to the same set.
- `NothingWaitsUnseen`, from `WakeInv`: every opening, horizon and end of a rest that
  lies ahead is in the queue (`Woken`), and the phases leave nothing to call
  and no walkover behind (what is seated is no walkover and makes none).  Until
  the earliest event nothing the predicates read changes (`UntilWoken`).
- Assumed of the snapshots is `WorldsAssumption`: the tables, boards and times have
  their types, and (`IsWorld`) what the snapshot itself shows under way has its
  players and is apart; a first call that is forced is one the ranker offers.  A
  projection can not repair a snapshot that has one player in two places, so
  the property is that it adds none.  TLC evaluates the assumption on all the
  worlds of `MCSimulation`.
- `RolloutsStayApart` and `NothingWaitsInRollouts` say the same of the specification
  the run checks, in which a rollout forces one option after another on the
  snapshot and a recording goes on to its fetches.  `RunInv` adds to the two
  invariants `TodoInv`: every call still to be tried may be forced (`MayForce`),
  because the ranker lists only candidates of the snapshot that sit on no
  station.  So each evaluation begins where a projection may begin
  (`AgainBegins`), and what the first two theorems need of a start is `Begun`
  only.
- `RehearsalIsTrue`, from `FramesInv`: what was recorded of a bracket is in the order of
  the clock and none of it lies ahead, and what is paced is the script made of it.
  `Merged` follows `coalesce` over the frames: of each instant the last frame is
  left, and they stay in order.  As `wall_offset` only grows with the time
  (`OffsetGrows`), the last frame due at a fetch is the last one played by then,
  at any positive speed (`install_rehearsal` refuses the others).
- `SheetIsFollowed`: a set of the snapshot with no reason against it is what the index
  lets through (`NoReason`), so the sets the sheet queues, the ones it gives a
  reason for and the ones on a station are all there are (`SheetAccounts`).  What a
  projection takes first is the first of the ranker's order (`QueueIs`) that the
  station's pool admits (`SheetTaken`); the scores that order rests on exist because
  the recursions under them end (`SearchEnds`: a visit opens a place that was new).
- `DepthsAreTrue`: the depth-first search, with its memo and its cut cycles, counts what
  the declarative `Longest` counts, in any table whatever.  `SearchVisits` says
  what one visit does (`Visited`): without a cycle it leaves the set finished with
  all that waits for it, each at the depth of its deepest dependent and its own
  weight (`Settled`), and every part of what is finished has a last set (`Sinks`:
  the set itself is finished after its dependents, `FinishedLast`); a cycle it
  reports is one, because each set on the path leads to where the search is.  The
  reference reaches exactly what lies behind a set (`BehindFound`), so a table with
  last sets everywhere has nothing behind itself (`SinksApart`), and there what a
  chain has seen never hinders the next step (`LongestIs`).  Both recursions exist
  because each call has one place less to go (`SearchExists`, `LongestExists`).
- The proof found that the guards of `View` overlapped for a set that is both done
  and started; TLC took the first, as the code does, and now the model says so.

Only model-checked:

- liveness (`IntentsSettle`, `FinishedStationsFree`, `ChangesSaved`, `Ends`), which is
  out of the prover's reach;
- what a whole projection comes to (`PlayedOut`, `PathsAreFloors`) and the replay made
  of it (`ReplayTrue`): they compare its end with its start, and rest on how a
  bracket of each format is laid out.

## Not modelled

The components listed as not modelled in `PROJECT.json`: the terminal's and the
browser's rendering, the start.gg schema (queries for a code generator), the
cache, core and query crates (interfaces and back ends), the reporter, the daemon
and the app (skeletons).  Of the modelled ones: notices, cursors and other view
state, texts and dates, names of files, the sanitising of names, the mean over
samples, `--autoplay`, and the test doubles of the site, which imitate.

## Plan

1. (done) `Conflict`, `Desk`, `Stations`, `Writes`, `Polling` and their proofs.
2. (done) `StateFile` and its proofs; `Provider`; the algorithms (`BracketGraph`,
   `Simulation`, `Projections`, `Recompute`, `Synth`); `Conversions`, `Tables`,
   `Admin`; `Config`, `Startup`, `Ranking`, `Console`, `WebDesk`.
3. (done) Proofs of `Ranking`, `Provider`, `Console`, `WebDesk`, `Admin`, `Startup`
   and `Tables`.
4. (done) `BracketGraph` with recursive functions in the place of its recursive
   operators, and the proofs of `Simulation` and `Projections`.
5. `Desk` and `Writes` composed.

