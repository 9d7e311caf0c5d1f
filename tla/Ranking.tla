-------------------------------- MODULE Ranking --------------------------------
(***************************************************************************)
(* The rollout ranking of the terminal desk (tui/src/main.rs: event_loop,  *)
(* spawn_simulator; core/src/app.rs: update, apply_sim_result,             *)
(* select_setup, close_modal): who asks for an evaluation, when one is     *)
(* sent, the evaluator, and what the call picker is given.  A ranking is   *)
(* known by the number of its dispatch.                                    *)
(***************************************************************************)
EXTENDS Integers, Sequences

CONSTANTS
    Debounce,        \* SIM_DEBOUNCE_MS, in ticks
    IdleGap,         \* MAX_SIM_IDLE_GAP_MS
    Timeout,         \* SIM_INFLIGHT_TIMEOUT_MS
    MaxClock,        \* Bound: ticks
    MaxAsks,         \* Bound: updates that ask for an evaluation
    MaxPanics        \* Bound: evaluations that panic

ASSUME RankingAssumption ==
    /\ Debounce \in Nat /\ IdleGap \in Nat /\ Timeout \in Nat
    /\ MaxClock \in Nat /\ MaxAsks \in Nat /\ MaxPanics \in Nat

\* SimUrgency, in its order.
Routine   == 1
Immediate == 2

VARIABLES
    modal,       \* "none", "picker", "refreshed" (a picker that took its refresh) or "other"
    rollout,     \* the ranking pickers show, 0 for none
    held,        \* rollout_pending, 0 for none
    turn,        \* what the messages of the loop's turn asked for
    loop,        \* the loop's variables
    jobs,        \* snapshots sent to the evaluator
    evaluator,   \* the dispatch it works on, 0 for none; -1: the task ended
    results,     \* the SimResults in the mailbox
    clock,
    panics,
    history      \* what was asked, dispatched and delivered

rankVars == <<modal, rollout, held, turn, loop, jobs, evaluator, results, clock, panics, history>>
deskSide == <<modal, rollout, held>>
evaluatorSide == <<jobs, evaluator, results>>

Waiting == [open |-> FALSE, effect |-> 0, done |-> FALSE]
LongAgo == 0 - (Timeout + IdleGap)

RankingInit ==
    /\ modal = "none" /\ rollout = 0 /\ held = 0
    /\ turn = Waiting
    /\ loop = [pending |-> FALSE, urgent |-> FALSE, inflight |-> FALSE,
               dispatched |-> LongAgo, done |-> LongAgo, cost |-> 0]
    /\ jobs = <<>> /\ evaluator = 0 /\ results = <<>>
    /\ clock = 0 /\ panics = 0
    /\ history = [asked |-> 0, sent |-> 0, covered |-> 0, saw |-> <<>>, newest |-> 0,
                  over |-> FALSE, outlived |-> FALSE, lost |-> FALSE]

-----------------------------------------------------------------------------
(* The desk: messages of a turn *)

\* UpdateEffects::merge: the greater urgency.
Asks(effect) ==
    /\ effect > 0 => history.asked < MaxAsks
    /\ turn' = [turn EXCEPT !.open = TRUE, !.effect = IF effect > @ THEN effect ELSE @]
    /\ history' = [history EXCEPT !.asked = IF effect > 0 THEN @ + 1 ELSE @]
    /\ UNCHANGED <<loop, evaluatorSide, clock, panics>>

\* A tick, a poll, a write's result, a station freed: the modal stays.
Message(effect) == Asks(effect) /\ UNCHANGED deskSide

Release == rollout' = IF held = 0 THEN rollout ELSE held
\* select_setup, on a free station; the grace tick may run it over any modal.
OpenPicker ==
    /\ modal' = "picker" /\ Release /\ held' = 0
    /\ Asks(Routine)

\* open_reassign from the picker, or any other modal.
OpenOther ==
    /\ modal \in {"none", "picker", "refreshed"} /\ modal' = "other"
    /\ UNCHANGED <<rollout, held>>
    /\ Asks(0)

\* close_modal; commit_call and call_set run it before they look at the row.
Closes(effect) ==
    /\ modal # "none" /\ modal' = "none"
    /\ Release /\ held' = 0
    /\ effect > 0 => modal \in {"picker", "refreshed"}
    /\ Asks(effect)

\* reassign_setup closes its modal by itself.
ApplyReassign ==
    /\ modal = "other" /\ modal' = "none"
    /\ UNCHANGED <<rollout, held>>
    /\ Asks(Routine)

\* apply_sim_result: an open picker takes one, and marks it.
TakeResult ==
    /\ results # <<>> /\ results' = Tail(results)
    /\ LET n == Head(results) IN
       /\ IF modal = "refreshed" THEN held' = n /\ rollout' = rollout
          ELSE rollout' = n /\ held' = held
       /\ history' = [history EXCEPT !.newest = n]
    /\ modal' = IF modal = "picker" THEN "refreshed" ELSE modal
    /\ turn' = [turn EXCEPT !.open = TRUE, !.done = TRUE]
    /\ UNCHANGED <<loop, jobs, evaluator, clock, panics>>

-----------------------------------------------------------------------------
(* The end of a turn *)

\* event_loop: a result ends the evaluation, and its cost is the time since
\* the last dispatch.
Answered ==
    IF turn.done
    THEN [loop EXCEPT !.inflight = FALSE, !.done = clock, !.cost = clock - loop.dispatched]
    ELSE loop
\* Variant: only this turn's wishes count.
NotedAfresh ==
    [Answered EXCEPT !.pending = turn.effect = Routine, !.urgent = turn.effect = Immediate]
Noted ==
    [Answered EXCEPT !.pending = @ \/ turn.effect = Routine, !.urgent = @ \/ turn.effect = Immediate]
GivenUp(l) == l.inflight /\ clock - l.dispatched >= Timeout

Gap(l)  == IF 2 * l.cost < IdleGap THEN 2 * l.cost ELSE IdleGap
Due(l)  == l.urgent \/ (l.pending /\ clock - l.dispatched >= Debounce)
\* Variant: urgency bypasses more than the debounce.
MaySendUrgent(l) == l.urgent \/ (Due(l) /\ (~l.inflight \/ GivenUp(l)) /\ clock - l.done >= Gap(l))
MaySend(l) == Due(l) /\ (~l.inflight \/ GivenUp(l)) /\ clock - l.done >= Gap(l)
Cleared(l) == [l EXCEPT !.pending = FALSE, !.urgent = FALSE]

\* A send to a task that has ended is lost, and nobody notices.
Dispatch(l) ==
    /\ loop' = [Cleared(l) EXCEPT !.inflight = TRUE, !.dispatched = clock]
    /\ jobs' = IF evaluator = -1 THEN jobs ELSE Append(jobs, history.sent + 1)
    /\ history' = [history EXCEPT !.sent = @ + 1, !.covered = history.asked,
                                  !.saw = Append(@, history.asked), !.over = FALSE,
                                  !.lost = @ \/ evaluator = -1,
                                  !.outlived = @ \/ GivenUp(l)]
\* snapshot_within_sim_ceiling.
TooBig(l) ==
    /\ loop' = [Cleared(l) EXCEPT !.inflight = FALSE]
    /\ jobs' = jobs
    /\ history' = [history EXCEPT !.covered = history.asked, !.over = TRUE, !.outlived = @ \/ GivenUp(l)]

EndTurn ==
    /\ turn.open /\ turn' = Waiting
    /\ IF MaySend(Noted) THEN Dispatch(Noted) \/ TooBig(Noted)
       ELSE /\ loop' = [Noted EXCEPT !.inflight = @ /\ ~GivenUp(Noted)]
            /\ jobs' = jobs
            /\ history' = [history EXCEPT !.outlived = @ \/ GivenUp(Noted)]
    /\ UNCHANGED <<deskSide, evaluator, results, clock, panics>>

-----------------------------------------------------------------------------
(* The evaluator *)

\* spawn_simulator drains to the newest snapshot.
Take ==
    /\ evaluator = 0 /\ jobs # <<>>
    /\ evaluator' = jobs[Len(jobs)] /\ jobs' = <<>>
    /\ UNCHANGED <<deskSide, turn, loop, results, clock, panics, history>>

Publish ==
    /\ evaluator > 0
    /\ results' = Append(results, evaluator) /\ evaluator' = 0
    /\ UNCHANGED <<deskSide, turn, loop, jobs, clock, panics, history>>

\* The blocking task panics: the task ends, and its channel with it.
EvaluatorPanics ==
    /\ evaluator > 0 /\ panics < MaxPanics /\ panics' = panics + 1
    /\ evaluator' = -1 /\ jobs' = <<>>
    /\ history' = [history EXCEPT !.lost = TRUE]
    /\ UNCHANGED <<deskSide, turn, loop, results, clock>>

\* restart_dead_task, a turn of its own.
RestartEvaluator ==
    /\ evaluator = -1 /\ ~turn.open
    /\ evaluator' = 0
    /\ loop' = [loop EXCEPT !.inflight = FALSE]
    /\ turn' = [turn EXCEPT !.open = TRUE]
    /\ UNCHANGED <<deskSide, jobs, results, clock, panics, history>>

Passes ==
    /\ clock < MaxClock /\ clock' = clock + 1
    /\ UNCHANGED <<deskSide, turn, loop, evaluatorSide, panics, history>>

RankingNext ==
    \/ \E effect \in {0, Routine, Immediate} : Message(effect)
    \/ \E effect \in {0, Routine} : Closes(effect)
    \/ OpenPicker \/ OpenOther \/ ApplyReassign \/ TakeResult \/ EndTurn
    \/ Take \/ Publish \/ EvaluatorPanics \/ RestartEvaluator \/ Passes

-----------------------------------------------------------------------------
\* main.rs: "the evaluator is single-flight".  As long as no evaluation
\* outlives the timeout, one at most is queued, running or unread.
OneEvaluation ==
    ~history.outlived =>
        Len(jobs) + (IF evaluator > 0 THEN 1 ELSE 0) + Len(results) <= 1

\* Nothing asked for is forgotten: between turns every request is covered by
\* a dispatch or by the size of the world, or is still to be met; and once
\* nothing is under way, a ranking that saw them all has arrived, unless the
\* world was too big or an evaluation was lost.
RequestsMet ==
    ~turn.open =>
        /\ history.asked > history.covered => loop.pending \/ loop.urgent
        /\ ~loop.pending /\ ~loop.urgent /\ jobs = <<>> /\ evaluator = 0 /\ results = <<>>
               /\ history.asked > 0 /\ ~history.over /\ ~history.lost
           => history.newest > 0 /\ history.saw[history.newest] = history.asked

\* app.rs: "A fresh modal session starts on the freshest ranking."
FreshestRanking ==
    modal = "picker" => rollout = history.newest
=============================================================================
