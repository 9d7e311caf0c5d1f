------------------------------ MODULE Projections ------------------------------
(***************************************************************************)
(* What the simulation is run for: the summaries of a recompute            *)
(* (core/src/world.rs), the ranking of a free station's options by         *)
(* projected finish (core/src/rollout.rs, world.rs rollout_rankings), and  *)
(* the paced rehearsal, which plays a recorded projection back as what the *)
(* site would show (core/src/rehearsal.rs, core/src/fixture_source.rs),    *)
(* and the replay, which tells it call by call (tui/src/replay.rs).        *)
(*                                                                         *)
(* A world's `use` says which: "summary" for one projection, "rollout" for *)
(* one projection per option of station `station`, "rehearsal" for a       *)
(* recording, "replay" for a log.                                          *)
(***************************************************************************)
EXTENDS Simulation

CONSTANTS
    TopK,       \* ROLLOUT_TOP_K
    MaxElapsed  \* Bound: the clock of a rehearsal

ASSUME ProjectionsAssumption == TopK \in Nat /\ MaxElapsed \in Nat

VARIABLES
    todo,      \* the actions still to be evaluated
    tried,     \* [action, finish] of those evaluated
    rows,      \* the ranked options
    frames,    \* of each bracket: the recorded completions
    timeline,  \* of each bracket: what is released when
    elapsed,   \* the shared clock, -1 until the first fetch
    served,    \* of each bracket: the last fetch
    log,       \* the replay events
    stage

rolloutVars   == <<todo, tried, rows>>
rehearsalVars == <<frames, timeline, elapsed, served>>
allVars       == <<vars, rolloutVars, rehearsalVars, log, stage>>
Plain == [do |-> "none", st |-> 0, set |-> NoSet]

PInit ==
    /\ Init
    /\ todo = <<>> /\ tried = <<>> /\ rows = <<>>
    /\ frames = [b \in Brackets |-> <<>>] /\ timeline = [b \in Brackets |-> <<>>]
    /\ elapsed = -1 /\ served = [b \in Brackets |-> <<>>]
    /\ log = <<>>
    /\ stage = IF world.use = "rollout" THEN "options" ELSE "run"

-----------------------------------------------------------------------------
(* rollout_rankings. *)

(* The greedy order of what may be called there and is not on a station. *)
CallableNow == Candidates(clock) \ C!Assigned(board)
Options(st) == Greedy(On(st, CallableNow))

(* The rankings of candidates, of which there is one.                       *)
Rankings(scored) == {s \in SetToSeqs(scored) : \A k \in 2..Len(s) : Before(s[k - 1], s[k])}

(* The plain projection of the summaries comes first; HOLD is an option    *)
(* once some duration was observed.                                        *)
ListOptions ==
    /\ stage = "options"
    /\ \E options \in {[k \in DOMAIN s |-> s[k].n] : s \in Rankings(Scored(On(world.station, CallableNow)))} :
          todo' = [k \in 1..(IF Len(options) < TopK THEN Len(options) ELSE TopK) |->
                      [do |-> "call", st |-> world.station, set |-> options[k]]]
                    \o (IF world.samples /\ options # <<>>
                        THEN <<[do |-> "hold", st |-> world.station, set |-> NoSet]>> ELSE <<>>)
    /\ stage' = "run"
    /\ UNCHANGED <<vars, tried, rows, rehearsalVars, log>>

(* RolloutRanker::rank: within the noise band of the best projection the   *)
(* greedy order decides, beyond it the projection; HOLD leads only when it *)
(* beats the best call by more than the noise.                             *)
RankedRows(done) ==
    LET calls  == SelectSeq(done, LAMBDA x : x.action.do = "call")
        holds  == SelectSeq(done, LAMBDA x : x.action.do = "hold")
        best   == CHOOSE m \in {calls[i].finish : i \in DOMAIN calls} :
                      \A i \in DOMAIN calls : m <= calls[i].finish
        band   == (Larger(best - world.now, 0) * world.epsilon) \div 100
        near   == SelectSeq(calls, LAMBDA x : x.finish <= best + band)
        far    == SelectSeq(calls, LAMBDA x : x.finish > best + band)
        after(i) == Cardinality({j \in DOMAIN far : \/ far[j].finish < far[i].finish
                                                    \/ far[j].finish = far[i].finish /\ j < i})
        ranked == near \o [k \in DOMAIN far |-> far[CHOOSE i \in DOMAIN far : after(i) = k - 1]]
    IN  IF calls = <<>> THEN <<>>
        ELSE IF holds # <<>> /\ holds[1].finish < best - band THEN holds \o ranked
        ELSE ranked \o holds

Evaluated ==
    /\ stage = "run" /\ world.use = "rollout" /\ phase = "ended"
    /\ LET done == Append(tried, [action |-> world.action, finish |-> OverallFinish]) IN
       /\ tried' = done
       /\ IF todo # <<>>
          THEN /\ Again(Head(todo))
               /\ todo' = Tail(todo)
               /\ UNCHANGED <<rows, stage>>
          ELSE /\ rows' = RankedRows(done)
               /\ stage' = "ranked"
               /\ UNCHANGED <<vars, todo>>
    /\ UNCHANGED <<rehearsalVars, log>>

-----------------------------------------------------------------------------
(* The replay: every call and every completion of a projection.  A set is   *)
(* known by its key. *)

(* set_context: who came from where (<<>> from a seed), and the sets still   *)
(* to be played that wait for this one; the last that does wins.            *)
(* Variant: the winner's and the loser's change places. *)
LeadsSwapped(sets, i, lost) ==
    LET waiting == {j \in OpenSets(sets) : \E k \in DOMAIN sets[j].slots :
                        sets[j].slots[k].from = sets[i].id /\ (sets[j].slots[k].place = 2) # lost}
    IN  IF waiting = {} THEN <<>> ELSE sets[Greatest(waiting, 0)].key
Leads(sets, i, lost) ==
    LET waiting == {j \in OpenSets(sets) : \E k \in DOMAIN sets[j].slots :
                        sets[j].slots[k].from = sets[i].id /\ (sets[j].slots[k].place = 2) = lost}
    IN  IF waiting = {} THEN <<>> ELSE sets[Greatest(waiting, 0)].key
Context(sets, i) ==
    [sources  |-> {[who |-> slot.who, lost |-> slot.place = 2,
                    from |-> {sets[j].key : j \in Indices(sets, slot.from)}] :
                      slot \in {s \in ToSet(sets[i].slots) : s.who # Nobody}},
     winnerTo |-> Leads(sets, i, FALSE), loserTo |-> Leads(sets, i, TRUE)]

(* record_call, with the candidate that came second for the station. *)
CallEvent(st, n) ==
    LET ranked == Greedy(On(st, Candidates(clock)))
    IN  [do |-> "call", at |-> clock, set |-> n, station |-> st,
         runnerUp |-> IF Len(ranked) > 1 THEN ranked[2] ELSE NoSet,
         context |-> Context(tables[n[1]], Position(n)), finish |-> clock + Estimate(n)]

(* apply_completion's event, of the table after the result went on. *)
CompleteEvent(b, i) ==
    LET sets == tables'[b] IN
    [do |-> "complete", at |-> clock', set |-> <<b, sets[i].key>>,
     players |-> Occupants(sets[i]), winner |-> sets[i].winner,
     context |-> Context(sets, i), remaining |-> Cardinality(OpenSets(sets))]

Told ==
    LET calls == {st \in Setups : phase = "calls" /\ board'[st].set \notin {NoSet, board[st].set}}
        done  == {x \in UNION {{b} \X OpenSets(tables[b]) : b \in Brackets} : tables'[x[1]][x[2]].done}
    IN  SetToSeq({CallEvent(st, board'[st].set) : st \in calls})
          \o SetToSeq({CompleteEvent(x[1], x[2]) : x \in done})

(* Tracker: the stations and the progress of each bracket, as the replay     *)
(* draws them, made of the events so far.                                  *)
Tracked(t, e) ==
    IF e.do = "call" THEN [t EXCEPT !.seats[e.station] = e.set]
    ELSE [seats    |-> [st \in Setups |-> IF t.seats[st] = e.set THEN NoSet ELSE t.seats[st]],
          progress |-> [t.progress EXCEPT ![e.set[1]] = [done |-> @.done + 1, left |-> e.remaining]]]

Opening == [seats    |-> [st \in Setups |-> NoSet],
            progress |-> [b \in Brackets |-> [done |-> 0, left |-> Cardinality(OpenSets(world.tables[b]))]]]

Shown == FoldLeft(Tracked, Opening, log)

-----------------------------------------------------------------------------
(* One step of the simulation; a recording gets a frame per completion. *)

DoneIn(sets) == {i \in DOMAIN sets : sets[i].done}

Step ==
    /\ stage = "run" /\ Next
    /\ frames' = IF world.use # "rehearsal" THEN frames
                 ELSE [b \in Brackets |->
                        IF DoneIn(tables'[b]) = DoneIn(tables[b]) THEN frames[b]
                        ELSE Append(frames[b], [at |-> clock', sets |-> tables'[b]])]
    /\ log' = IF world.use = "replay" THEN log \o Told ELSE log
    /\ UNCHANGED <<rolloutVars, timeline, elapsed, served, stage>>

(* coalesce: of the frames of one instant the last counts. *)
(* Variant: the first does. *)
CoalescedFirst(list) ==
    FoldLeft(LAMBDA out, f : IF out # <<>> /\ out[Len(out)].at = f.at THEN out ELSE Append(out, f), <<>>, list)
Coalesced(list) ==
    FoldLeft(LAMBDA out, f : IF out # <<>> /\ out[Len(out)].at = f.at
                             THEN [out EXCEPT ![Len(out)] = f] ELSE Append(out, f), <<>>, list)

(* to_schema: completions only, nothing is ever under way. *)
Scripted(sets) == [i \in DOMAIN sets |-> IF sets[i].done THEN sets[i] ELSE [sets[i] EXCEPT !.started = FALSE]]

(* wall_offset *)
Offset(at) == (at - world.now) \div world.speed

(* install_rehearsal: the table as it was, then a frame for each instant.    *)
Script(b) ==
    LET kept == Coalesced(frames[b])
    IN  <<[offset |-> 0, sets |-> Scripted(world.tables[b])]>>
          \o [k \in DOMAIN kept |-> [offset |-> Offset(kept[k].at), sets |-> Scripted(kept[k].sets)]]

(* set_timeline: every bracket gets its script. *)
Install ==
    /\ stage = "run" /\ world.use = "rehearsal" /\ phase = "ended"
    /\ timeline' = [b \in Brackets |-> Script(b)]
    /\ stage' = "paced"
    /\ UNCHANGED <<vars, rolloutVars, frames, elapsed, served, log>>

(* fetch_event_sets, paced: the last frame that is due. *)
Due(b, t) == timeline[b][Greatest({k \in DOMAIN timeline[b] : timeline[b][k].offset <= t}, 1)].sets

Fetch(b) ==
    /\ stage = "paced"
    /\ elapsed' = Larger(elapsed, 0)
    /\ served' = [served EXCEPT ![b] = Due(b, elapsed')]
    /\ UNCHANGED <<vars, rolloutVars, frames, timeline, log, stage>>

TimePasses ==
    /\ stage = "paced" /\ elapsed \in 0..(MaxElapsed - 1)
    /\ elapsed' = elapsed + 1
    /\ UNCHANGED <<vars, rolloutVars, frames, timeline, served, log, stage>>

PNext ==
    \/ ListOptions \/ Step \/ Evaluated
    \/ Install \/ (\E b \in Brackets : Fetch(b)) \/ TimePasses

Over == phase = "ended" /\ (stage \in {"ranked", "paced"} \/ world.use \in {"summary", "replay"})

PSpec == PInit /\ [][PNext]_allVars /\ (<>Over \/ []<><<PNext>>_allVars)

-----------------------------------------------------------------------------
(* Making a recordable world (load_world). *)

(* ensure_numeric_ids: see Synth!Materialized.  fill_dangling_slots: an     *)
(* empty slot that waits for a set the bracket left out gets a drop-in; the *)
(* loser of such a set is nobody, so its drop-in is disqualified.          *)
DanglingSlots(sets) ==
    {x \in (DOMAIN sets) \X {1, 2} :
        LET slots == sets[x[1]].slots IN
        x[2] \in DOMAIN slots /\ slots[x[2]].who = Nobody /\ slots[x[2]].from \in Dangling(sets)}

Filled(sets, firstDropIn) ==
    LET holes == DanglingSlots(sets)
        earlier(i, k) == Cardinality({h \in holes : h[1] < i \/ (h[1] = i /\ h[2] < k)})
    IN  [i \in DOMAIN sets |->
            LET seated == [sets[i] EXCEPT !.slots = [k \in DOMAIN sets[i].slots |->
                            IF <<i, k>> \in holes
                            THEN [sets[i].slots[k] EXCEPT !.who = firstDropIn + earlier(i, k)]
                            ELSE sets[i].slots[k]]]
            IN  IF \E k \in DOMAIN sets[i].slots : <<i, k>> \in holes THEN Resolved(seated) ELSE seated]

DroppedOut(sets, firstDropIn) ==
    {Filled(sets, firstDropIn)[h[1]].slots[h[2]].who :
        h \in {x \in DanglingSlots(sets) : sets[x[1]].slots[x[2]].place = 2}}

-----------------------------------------------------------------------------
(* Properties. *)

(* A fetch of the rehearsal shows a bracket as the projection had it when   *)
(* its clock was that far: every completion of that moment with all that    *)
(* followed from it, and none of a later one.                              *)
Played(b, t) ==
    LET reached == {k \in DOMAIN frames[b] : Offset(frames[b][k].at) <= t}
    IN  IF reached = {} THEN world.tables[b] ELSE frames[b][Greatest(reached, 0)].sets
ServedAsPlayed ==
    [][\A b \in Brackets : stage = "paced" /\ served'[b] # served[b] =>
          served'[b] = Scripted(Played(b, elapsed'))]_allVars

(* The replay tells what happens.  Its board and its bars, which it makes of *)
(* the events alone, are those of the projection.  A call is followed by    *)
(* the completion of its set at the time it announced.  Where a completion  *)
(* says that its winner goes, the winner sits from then on, unless it is a  *)
(* reset; and a loser it sends nowhere plays no set of that group again    *)
(* ("None once they're eliminated").                                       *)
CallsEnd ==
    \A i \in DOMAIN log : log[i].do = "call" =>
        \E j \in i..Len(log) : log[j].do = "complete" /\ log[j].set = log[i].set /\ log[j].at = log[i].finish
LandsThere(e) ==
    LET to == <<e.set[1], e.context.winnerTo>> IN
    e.context.winnerTo # <<>> =>
        ResetShaped(Named(to)) \/ e.winner \in PlayersIn(to)
NeverAgain(e, later) ==
    \/ e.context.loserTo # <<>>
    \/ later.do # "complete" \/ later.set[1] # e.set[1] \/ later.set[2][1] # e.set[2][1]
    \/ (e.players \ {e.winner}) \cap later.players = {}
ShowsBoard ==
    /\ \A st \in Setups : Shown.seats[st] = board[st].set
    /\ \A b \in Brackets :
          Shown.progress[b] = [done |-> Cardinality(DoneIn(tables[b])), left |-> Cardinality(OpenSets(tables[b]))]
ReplayTrue ==
    /\ world.use = "replay" => ShowsBoard
    /\ phase = "ended" /\ world.use = "replay" =>
        /\ CallsEnd
        /\ \A i \in DOMAIN log : log[i].do = "complete" =>
              /\ LandsThere(log[i])
              /\ KindOf(world.groups[log[i].set[1]], Named(log[i].set)) = "elim" =>
                    \A j \in (i + 1)..Len(log) : NeverAgain(log[i], log[j])

(* Every simulation ends, whatever the world and the first decision ("the   *)
(* no-progress guard marks starved brackets blocked instead of looping").   *)
Ends == <>Over
=============================================================================
