-------------------------------- MODULE Console --------------------------------
(***************************************************************************)
(* The operator's side of the desk: what a key means (core/src/keymap.rs), *)
(* station numbers typed digit by digit, the finder and the report dialog  *)
(* (core/src/app.rs), and the clicks of the web shell (web/src/views.rs,   *)
(* web/src/modals.rs).  Polls go on under an open dialog.  A character's   *)
(* name is the sequence of its letters, and its id.                        *)
(***************************************************************************)
EXTENDS Integers, Sequences, FiniteSets, SequencesExt

CONSTANTS
    Nil,             \* no station, set, character, digits
    Numbers,         \* the stations on the board
    Bouts,           \* the sets
    BoutEvent,       \* [Bouts -> events]
    Cast,            \* [events -> their characters, a sequence]
    BestOf,          \* [Bouts -> games of the format, or Nil]
    FirstSides,      \* [Bouts -> the players in their slots]
    Rearranged,      \* [Bouts -> what a poll may find in the slots later]
    MaxGames,        \* Bound: games of a draft
    MaxOpened,       \* Bound: dialogs opened
    MaxReports,      \* Bound: reports enqueued
    MaxPolled       \* Bound: changes the polls bring

ASSUME ConsoleAssumption ==
    /\ Numbers \subseteq Nat \ {0} /\ MaxGames \in Nat /\ MaxOpened \in Nat /\ MaxReports \in Nat /\ MaxPolled \in Nat

(* The slots of a set list its players, and no player is in both. *)
ASSUME SlotsAssumption ==
    \A b \in Bouts : \A who \in {FirstSides[b], Rearranged[b]} :
        who \in Seq(ToSet(who)) /\ (Len(who) = 2 => who[1] # who[2])

Sides == {1, 2}
Other(side) == 3 - side

VARIABLES
    seats,       \* [Numbers -> the set called there, or Nil]
    table,       \* [Bouts -> [who |-> players in the slots, done, real |-> the id is no preview]]
    armed,
    dialog,      \* ui.modal
    selected,    \* ui.selected_setup
    entry,       \* ui.setup_entry: [n, keys] or Nil
    sticky,      \* last_characters: [players -> character or Nil]
    sent,        \* the reports enqueued
    picks,       \* ghost: who was given which character by the operator
    opened

consoleVars == <<seats, table, armed, dialog, selected, entry, sticky, sent, picks, opened>>

Closed == [at |-> "none"]
Persons == UNION {ToSet(FirstSides[b]) \union ToSet(Rearranged[b]) : b \in Bouts}

ConsoleInit ==
    /\ seats = [n \in Numbers |-> Nil]
    /\ table = [b \in Bouts |-> [who |-> FirstSides[b], done |-> FALSE, real |-> FALSE]]
    /\ armed \in BOOLEAN
    /\ dialog = Closed /\ selected = Nil /\ entry = Nil
    /\ sticky = [x \in Persons |-> Nil]
    /\ sent = {} /\ picks = {} /\ opened = 0

-----------------------------------------------------------------------------
(* The report draft *)

Wins(draft, side) == Cardinality({i \in DOMAIN draft.games : draft.games[i].winner = side})
\* Variant: a tie goes to the left.
LeaderOrLeft(draft) ==
    IF Wins(draft, 1) >= Wins(draft, 2) THEN 1 ELSE 2
\* ReportDraft::leader.
Leader(draft) ==
    IF Wins(draft, 1) > Wins(draft, 2) THEN 1 ELSE IF Wins(draft, 2) > Wins(draft, 1) THEN 2 ELSE Nil
\* ReportDraft::clinched.
Clinched(draft) ==
    BestOf[draft.bout] # Nil /\ \E side \in Sides : Wins(draft, side) >= BestOf[draft.bout] \div 2 + 1

Min2(a, b) == IF a < b THEN a ELSE b
\* step_cursor, a row at a time; cursors count from 1, 1 in an empty list.
Step(cursor, count, move) ==
    IF move = "Up" THEN (IF cursor > 1 THEN cursor - 1 ELSE 1)
    ELSE Min2(cursor + 1, IF count = 0 THEN 1 ELSE count)

\* filtered_roster: what begins so first.
Filtered(roster, letter) ==
    IF letter = Nil THEN roster
    ELSE SelectSeq(roster, LAMBDA c : c[1] = letter)
         \o SelectSeq(roster, LAMBDA c : letter \in ToSet(c) /\ c[1] # letter)
ReportRoster(draft) == Cast[BoutEvent[draft.bout]]
Shown(draft) == IF draft.games = <<>> THEN draft.chars ELSE draft.games[draft.cursor].chars

\* character_cursor: where the side's character stands in the whole roster.
CharacterCursor(draft, side) ==
    LET at == {i \in DOMAIN ReportRoster(draft) : ReportRoster(draft)[i] = Shown(draft)[side]} IN
    IF at = {} THEN 1 ELSE CHOOSE i \in at : \A j \in at : i <= j
PickStage(draft, side) == [at |-> "pick", side |-> side, letter |-> Nil, cursor |-> CharacterCursor(draft, side)]
Games == [at |-> "games"]
Confirm(dq) == [at |-> "confirm", dq |-> dq]

\* open_report.
Reportable(s) == s \in Numbers /\ armed /\ seats[s] # Nil /\ table[seats[s]].real /\ Len(table[seats[s]].who) = 2
Draft(s) ==
    LET who == table[seats[s]].who IN
    [at |-> "report", station |-> s, bout |-> seats[s], who |-> who, games |-> <<>>,
     chars |-> <<sticky[who[1]], sticky[who[2]]>>, cursor |-> 1, stage |-> Games]

\* record_game: characters carry over; reaching the clinch jumps to the summary.
Recorded(draft, winner) ==
    LET chars == IF draft.games = <<>> THEN draft.chars ELSE Last(draft.games).chars
        next == [draft EXCEPT !.games = Append(@, [winner |-> winner, chars |-> chars]),
                              !.cursor = Len(draft.games) + 1]
    IN  IF Clinched(next) /\ ~Clinched(draft) THEN [next EXCEPT !.stage = Confirm(Nil)] ELSE next
Unrecorded(draft) ==
    LET left == [i \in 1..(Len(draft.games) - 1) |-> draft.games[i]] IN
    [draft EXCEPT !.games = left, !.cursor = IF left = <<>> THEN 1 ELSE Min2(@, Len(left))]

\* advance_character_stage.
Advanced(draft, side) == [draft EXCEPT !.stage = IF side = 1 THEN PickStage(draft, 2) ELSE Games]
\* character_action: the pick holds from the targeted game onward.
Picked(draft, side, choice) ==
    Advanced([draft EXCEPT !.chars[side] = choice,
                           !.games = [i \in DOMAIN @ |-> IF i >= draft.cursor THEN [@[i] EXCEPT !.chars[side] = choice] ELSE @[i]]],
             side)

\* game_selections, submit_report.
Selections(draft, game) == {<<draft.who[side], game.chars[side]>> : side \in {s \in Sides : game.chars[s] # Nil}}
Payload(draft, dq) ==
    [bout |-> draft.bout, dq |-> dq # Nil,
     winner |-> draft.who[IF dq # Nil THEN Other(dq) ELSE Leader(draft)],
     loser |-> draft.who[IF dq # Nil THEN dq ELSE Other(Leader(draft))],
     games |-> IF dq # Nil THEN <<>>
               ELSE [i \in DOMAIN draft.games |-> [winner |-> draft.who[draft.games[i].winner],
                                                   selections |-> Selections(draft, draft.games[i])]]]

-----------------------------------------------------------------------------
(* The meaning of a key *)

Digits == [k \in {"0", "1", "2"} |-> CASE k = "0" -> 0 [] k = "1" -> 1 [] OTHER -> 2]
Letters == {"a", "c", "d"}
Keys == DOMAIN Digits \union Letters \union {"f", "g", "/", "s", "y", "Enter", "Esc", "Tab", "Up", "Down", "Backspace"}
Moves == {"Up", "Down"}

Do(what, with) == [do |-> what, with |-> with]
Ignore == Do("nothing", Nil)

\* setup_digit: the digit completes a number unless another could follow.
Highest == CHOOSE n \in Numbers : \A other \in Numbers : n >= other
Number(e) == IF e.n = 0 /\ e.keys = 1 THEN 10 ELSE e.n
SetupDigit(k) ==
    LET e == IF entry = Nil THEN [n |-> Digits[k], keys |-> 1] ELSE [n |-> 10 * entry.n + Digits[k], keys |-> entry.keys + 1] IN
    IF Highest > 10 /\ Number(e) # 10 /\ 10 * Number(e) <= Highest THEN Do("buffer", e) ELSE Do("select", Number(e))

\* on_selected_setup.
OnSelected(what) == IF selected \in Numbers THEN Do(what, selected) ELSE Ignore

\* resolve_main.
MainKey(k) ==
    CASE k \in DOMAIN Digits -> SetupDigit(k)
      [] k = "Enter" -> IF entry # Nil THEN Do("select", Number(entry)) ELSE Do("quickCall", Nil)
      [] k = "Esc" -> Do("clear", Nil)
      [] k = "f" -> OnSelected("free")
      [] k = "g" -> OnSelected("report")
      [] k = "/" -> Do("find", Nil)
      [] k = "s" -> Do("list", Nil)
      [] OTHER -> Ignore

\* list_key.
ListKey(k) == IF k \in Moves THEN Do("move", k) ELSE Do("close", Nil)

\* report_key.
ReportKey(stage, k) ==
    CASE stage.at = "games" ->
           (CASE k \in {"1", "2"} -> Do("record", Digits[k]) [] k = "Backspace" -> Do("unrecord", Nil)
              [] k \in Moves -> Do("target", k) [] k = "c" -> Do("characters", Nil)
              [] k = "d" -> Do("dq", Nil) [] k = "Enter" -> Do("finish", Nil) [] OTHER -> Ignore)
      [] stage.at = "pick" ->
           (CASE k = "Enter" -> Do("pick", dialog.stage.cursor) [] k = "Tab" -> Do("pick", 0)
              [] k \in Moves -> Do("scroll", k) [] k = "Backspace" -> Do("filter", Nil)
              [] k \in Letters -> Do("filter", k) [] OTHER -> Ignore)
      [] stage.at = "dq" -> IF k \in {"1", "2"} THEN Do("pickDq", Digits[k]) ELSE Ignore
      [] stage.at = "confirm" -> IF k \in {"y", "Enter"} THEN Do("submit", Nil) ELSE Ignore

\* resolve_modal: Esc steps back in a report, and closes anything else.
ModalKey(k) ==
    CASE k = "Esc" -> IF dialog.at = "report" /\ dialog.stage # Games THEN Do("back", Nil) ELSE Do("close", Nil)
      [] k # "Esc" /\ dialog.at = "picker" ->
           (CASE k = "Enter" -> Do("call", dialog.station) [] k = "a" -> Do("list", Nil) [] OTHER -> Ignore)
      [] k # "Esc" /\ dialog.at = "find" -> IF k = "Enter" THEN Do("found", Nil) ELSE ListKey(k)
      [] k # "Esc" /\ dialog.at = "list" -> ListKey(k)
      [] k # "Esc" /\ dialog.at = "report" -> ReportKey(dialog.stage, k)
Meaning(k) == IF dialog = Closed THEN MainKey(k) ELSE ModalKey(k)

-----------------------------------------------------------------------------
(* What an intent does: apply_action *)

Board == <<seats, table, armed>>
Memory == <<sticky, sent, picks>>
Opens == opened < MaxOpened /\ opened' = opened + 1

\* select_setup: a free station opens its picker, over whatever is open.
Select(n) ==
    /\ IF n \in Numbers
       THEN /\ selected' = n
            /\ IF seats[n] = Nil THEN dialog' = [at |-> "picker", station |-> n] /\ Opens
               ELSE UNCHANGED <<dialog, opened>>
       ELSE UNCHANGED <<selected, dialog, opened>>
    /\ entry' = Nil
    /\ UNCHANGED <<Board, Memory>>

Buffer(e) ==
    /\ entry' = e
    /\ UNCHANGED <<Board, dialog, selected, Memory, opened>>

\* commit_call, which closes the picker, and quick_call, which closes nothing:
\* any waiting set; module Desk has the re-verification.
Callable == {b \in Bouts : ~table[b].done /\ \A n \in Numbers : seats[n] # b}
Commit(n, after) ==
    /\ \/ /\ n \in Numbers /\ seats[n] = Nil /\ selected' = n
          /\ \E b \in Callable : seats' = [seats EXCEPT ![n] = b]
       \/ UNCHANGED <<seats, selected>>
    /\ dialog' = after
    /\ UNCHANGED <<table, armed, entry, Memory, opened>>
LowestFree == IF \A n \in Numbers : seats[n] # Nil THEN Nil
              ELSE CHOOSE n \in Numbers : seats[n] = Nil /\ \A m \in Numbers : seats[m] = Nil => n <= m

\* free.
FreeSeat(n) ==
    /\ seats' = [seats EXCEPT ![n] = Nil]
    /\ UNCHANGED <<table, armed, dialog, selected, entry, Memory, opened>>

Open(d) ==
    /\ Opens /\ dialog' = d
    /\ UNCHANGED <<Board, selected, entry, Memory>>
Opened(s) == IF Reportable(s) THEN Open(Draft(s)) ELSE UNCHANGED consoleVars

\* find_set_rows, open_found_set: the finder closes before the report opens.
FoundRows == SetToSortSeq({n \in Numbers : seats[n] # Nil}, <)
OpenFound(row) ==
    IF row \notin DOMAIN FoundRows THEN UNCHANGED consoleVars
    ELSE LET n == FoundRows[row] IN
         /\ selected' = n
         /\ IF Reportable(n) THEN Opens /\ dialog' = Draft(n) ELSE dialog' = Closed /\ UNCHANGED opened
         /\ UNCHANGED <<Board, entry, Memory>>

Show(d) ==
    /\ dialog' = d
    /\ UNCHANGED <<Board, selected, entry, Memory, opened>>
Stage(stage) == Show([dialog EXCEPT !.stage = stage])

Give(draft, side, choice) ==
    /\ dialog' = Picked(draft, side, choice)
    /\ sticky' = [sticky EXCEPT ![draft.who[side]] = choice]
    /\ picks' = picks \union {<<draft.who[side], choice>>}
    /\ UNCHANGED <<Board, selected, entry, sent, opened>>

StillHolds(draft) == seats[draft.station] = draft.bout
Submit(draft, dq) ==
    /\ Cardinality(sent) < MaxReports
    /\ sent' = sent \union {Payload(draft, dq)}
    /\ seats' = IF StillHolds(draft) THEN [seats EXCEPT ![draft.station] = Nil] ELSE seats
    /\ dialog' = Closed
    /\ UNCHANGED <<table, armed, selected, entry, sticky, picks, opened>>

\* report_action, character_action.
ReportAction(act) ==
    LET draft == dialog  stage == dialog.stage
        listed == Filtered(ReportRoster(draft), stage.letter)
    IN
    CASE act.do = "back" -> Stage(Games)
      [] act.do = "record" -> Len(draft.games) < MaxGames /\ Show(Recorded(draft, act.with))
      [] act.do = "unrecord" -> Show(Unrecorded(draft))
      [] act.do = "target" -> Show([draft EXCEPT !.cursor = Step(@, Len(draft.games), act.with)])
      [] act.do = "characters" -> IF ReportRoster(draft) = <<>> THEN Show(draft) ELSE Stage(PickStage(draft, 1))
      [] act.do = "dq" -> Stage([at |-> "dq"])
      [] act.do = "finish" -> IF Leader(draft) = Nil THEN Show(draft) ELSE Stage(Confirm(Nil))
      [] act.do = "pick" -> IF act.with \in DOMAIN listed THEN Give(draft, stage.side, listed[act.with])
                            ELSE Show(Advanced(draft, stage.side))
      [] act.do = "scroll" -> Stage([stage EXCEPT !.cursor = Step(@, Len(listed), act.with)])
      [] act.do = "filter" -> Stage([stage EXCEPT !.letter = act.with, !.cursor = 1])
      [] act.do = "pickDq" -> Stage(Confirm(act.with))
      [] act.do = "submit" -> IF stage.dq = Nil /\ Leader(draft) = Nil THEN Stage(Games) ELSE Submit(draft, stage.dq)

Apply(act) ==
    CASE act.do = "select" -> Select(act.with)
      [] act.do = "buffer" -> Buffer(act.with)
      [] act.do = "clear" -> Buffer(Nil)
      [] act.do = "quickCall" -> Commit(LowestFree, dialog)
      [] act.do = "call" -> Commit(act.with, Closed)
      [] act.do = "free" -> FreeSeat(act.with)
      [] act.do = "report" -> Opened(act.with)
      [] act.do = "find" -> Open([at |-> "find", row |-> 1])
      [] act.do = "found" -> OpenFound(dialog.row)
      [] act.do = "list" -> Open([at |-> "list"])
      [] act.do = "move" -> Show(IF dialog.at # "find" THEN dialog
                                 ELSE [dialog EXCEPT !.row = Step(@, Len(FoundRows), act.with)])
      [] act.do = "close" -> Show(Closed)
      [] act.do = "nothing" -> UNCHANGED consoleVars
      [] OTHER -> ReportAction(act)

-----------------------------------------------------------------------------
(* What happens at the desk *)

Press(k) == Apply(Meaning(k))

\* A web button: those behind a dialog keep the focus, and Enter is a click.
Click ==
    \/ Commit(LowestFree, dialog)
    \/ \E n \in Numbers : Select(n) \/ Opened(n) \/ (seats[n] # Nil /\ FreeSeat(n))

\* update, Tick: digits left alone for the grace time are a number.
GraceTick == entry # Nil /\ Select(Number(entry))

Changes == Cardinality({b \in Bouts : table[b].done}) + Cardinality({b \in Bouts : table[b].real})
           + Cardinality({b \in Bouts : table[b].who # FirstSides[b]})
\* handle_poll: a set finished elsewhere leaves its station; slots and
\* preview ids change until then.
PollFinishes(b) ==
    /\ table[b].real /\ ~table[b].done
    /\ table' = [table EXCEPT ![b].done = TRUE]
    /\ seats' = [n \in Numbers |-> IF seats[n] = b THEN Nil ELSE seats[n]]
    /\ UNCHANGED <<armed, dialog, selected, entry, Memory, opened>>
PollStarts(b) ==
    /\ ~table[b].real
    /\ table' = [table EXCEPT ![b].real = TRUE]
    /\ UNCHANGED <<seats, armed, dialog, selected, entry, Memory, opened>>
PollRearranges(b) ==
    /\ ~table[b].done /\ table[b].who # Rearranged[b]
    /\ table' = [table EXCEPT ![b].who = Rearranged[b]]
    /\ UNCHANGED <<seats, armed, dialog, selected, entry, Memory, opened>>

ConsoleNext ==
    \/ \E k \in Keys : Press(k)
    \/ Click \/ GraceTick
    \/ Changes < MaxPolled /\ \E b \in Bouts : PollFinishes(b) \/ PollStarts(b) \/ PollRearranges(b)

-----------------------------------------------------------------------------
\* A report names as winner the player who won more of its games, or whose
\* opponent is disqualified; one of a disqualification carries no games.
WinnersLead ==
    \A report \in sent :
        LET won(x) == Cardinality({i \in DOMAIN report.games : report.games[i].winner = x}) IN
        /\ report.winner # report.loser
        /\ IF report.dq THEN report.games = <<>> ELSE won(report.winner) > won(report.loser)
        /\ \A i \in DOMAIN report.games : report.games[i].winner \in {report.winner, report.loser}

\* Whatever was carried over, remembered or filtered, a report gives a
\* player a character the operator once picked for that player.
PicksOfPlayer ==
    \A report \in sent : \A i \in DOMAIN report.games : report.games[i].selections \subseteq picks

\* What a report sends is the outcome the operator entered, with the
\* characters picked for the players who played.
ReportsSound == WinnersLead /\ PicksOfPlayer
=============================================================================
