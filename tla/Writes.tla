-------------------------------- MODULE Writes --------------------------------
(***************************************************************************)
(* The write queue: the mutations the desk wants performed on the site.    *)
(*                                                                         *)
(*   desk --channel--> writer --mutation--> site                           *)
(*     ^------mailbox------/     polls (mailbox) release the held writes   *)
(*                                                                         *)
(* The desk's half is in tools/scheduler/core/src/app.rs (enqueue_write,   *)
(* handle_write_result, release_held_writes, retry, discard), the writer   *)
(* task is writer.rs, the supervisor and the overlay file are in           *)
(* tools/scheduler/tui/src/main.rs.  Only sets with a numeric id and armed *)
(* writes reach the queue, so all the sets here have one.                  *)
(***************************************************************************)
EXTENDS Integers, Sequences, FiniteSets, Functions

CONSTANTS
    Sets, Brackets, BracketOf,
    Kinds,          \* WriteKind
    MaxAttempts,    \* WriterConfig max_attempts
    NoIntent, NoPoll,
    \* Bounds.
    MaxIntents,     \* intents created
    MaxPolls,       \* polls of a bracket waiting in the mailbox
    MaxRestarts,    \* crashes of the program
    VanishingSets,  \* sets that may leave the tables
    OthersReport,   \* sets that other TOs may report
    Panics          \* whether the writer task may panic

ASSUME WritesAssumption ==
    /\ BracketOf \in [Sets -> Brackets]
    /\ MaxAttempts \in Nat \ {0} /\ MaxIntents \in Nat /\ MaxRestarts \in Nat
    /\ MaxPolls \in Nat
    /\ NoIntent \notin [set : Sets, kind : Kinds, at : 0 .. MaxIntents - 1]
    /\ NoPoll \notin [Sets -> {"Open", "Completed", "Gone"}]
    /\ VanishingSets \subseteq Sets /\ OthersReport \subseteq Sets /\ Panics \in BOOLEAN

(* An intent is what WriteIntent equality compares: its set, its kind and  *)
(* its creation time.  Time is the number of intents created so far.       *)
Intents == [set : Sets, kind : Kinds, at : 0 .. MaxIntents - 1]

Statuses == {"None", "Queued", "AwaitingReconnect", "Parked"}
Views    == {"Open", "Completed", "Gone"}
Tables   == [Sets -> Views]

(* The messages of the desk's mailbox: the final result of an intent, or a *)
(* poll of a bracket.  A poll's captured_at is the time its fetch ended.   *)
Results == [type : {"Result"}, intent : Intents,
            outcome : {"Success", "AwaitReconnect", "Terminal"}]
Polls   == [type : {"Poll"}, bracket : Brackets, view : Tables,
            captured : 0 .. MaxIntents]

VARIABLES
    pending,    \* pending_writes: the status of every intent on the list
    held,       \* held_writes
    table,      \* the desk's set tables, as far as release_held_writes looks
    saved,      \* pending_writes in the overlay file
    channel,    \* the writer's channel
    writing,    \* the intent the writer is performing, or NoIntent
    attempts,   \* its failed attempts
    alive,      \* the writer task runs
    mailbox,    \* the messages to the desk
    site,       \* the sets on the site
    polling,    \* per bracket, the snapshot being fetched, or NoPoll
    created,    \* the number of intents created
    restarts

desk   == <<pending, held, table>>
writer == <<channel, writing, attempts, alive>>
world  == <<site, polling>>
vars   == <<desk, saved, writer, mailbox, world, created, restarts>>

TypeOK ==
    /\ pending \in [Intents -> Statuses]
    /\ held \in Seq(Intents)
    /\ table \in Tables
    /\ saved \in [Intents -> Statuses]
    /\ channel \in Seq(Intents)
    /\ writing \in Intents \cup {NoIntent}
    /\ attempts \in 0 .. MaxAttempts - 1
    /\ alive \in BOOLEAN
    /\ mailbox \in Seq(Results \cup Polls)
    /\ site \in Tables
    /\ polling \in [Brackets -> Tables \cup {NoPoll}]
    /\ created \in 0 .. MaxIntents
    /\ restarts \in 0 .. MaxRestarts

NonePending == [i \in Intents |-> "None"]

Init ==
    /\ pending = NonePending
    /\ held = <<>>
    /\ table = [s \in Sets |-> "Open"]
    /\ saved = NonePending
    /\ channel = <<>>
    /\ writing = NoIntent
    /\ attempts = 0
    /\ alive = TRUE
    /\ mailbox = <<>>
    /\ site = [s \in Sets |-> "Open"]
    /\ polling = [b \in Brackets |-> NoPoll]
    /\ created = 0
    /\ restarts = 0

------------------------------------------------------------------------------
(* The desk.                                                               *)

(* Intents sent to the writer; a send to a dead writer is lost.            *)
Sent(intents) == IF alive THEN channel \o intents ELSE channel

(* An intent of the same set and kind that is queued or held.              *)
Twin(s, k) == \E i \in Intents : /\ i.set = s /\ i.kind = k
                                 /\ pending[i] \in {"Queued", "AwaitingReconnect"}

(* enqueue_write.                                                          *)
Enqueue(s, k) ==
    LET intent == [set |-> s, kind |-> k, at |-> created] IN
    /\ created < MaxIntents
    /\ ~Twin(s, k)
    /\ pending' = [pending EXCEPT ![intent] = "Queued"]
    /\ channel' = Sent(<<intent>>)
    /\ created' = created + 1
    /\ UNCHANGED <<held, table, saved, writing, attempts, alive, mailbox, world, restarts>>

(* retry_parked.                                                           *)
Retry(i) ==
    /\ pending[i] = "Parked"
    /\ pending' = [pending EXCEPT ![i] = "Queued"]
    /\ channel' = Sent(<<i>>)
    /\ UNCHANGED <<held, table, saved, writing, attempts, alive, mailbox, world, created, restarts>>

(* kept is h without the elements outside keep.  (h has no duplicates.)    *)
IsFiltered(kept, h, keep) ==
    /\ Range(kept) = Range(h) \cap keep
    /\ \A m, n \in DOMAIN kept : m < n =>
          \E j, k \in DOMAIN h : j < k /\ h[j] = kept[m] /\ h[k] = kept[n]

Arrangements(S) == UNION {[1 .. n -> S] : n \in 0 .. Cardinality(S)}

(* discard_pending.                                                        *)
Discard(i) ==
    /\ pending[i] = "Parked"
    /\ pending' = [pending EXCEPT ![i] = "None"]
    /\ \E kept \in Arrangements(Range(held)) :
          /\ IsFiltered(kept, held, Intents \ {i})
          /\ held' = kept
    /\ UNCHANGED <<table, saved, writer, mailbox, world, created, restarts>>

(* handle_write_result: the final result of an intent.  The transient      *)
(* reports in between only change what the pending view shows.             *)
OnList(i, status) == [pending EXCEPT ![i] = IF @ = "None" THEN "None" ELSE status]

Confirm(i) ==
    /\ pending' = [pending EXCEPT ![i] = "None"]
    /\ UNCHANGED held

Park(i) ==
    /\ pending' = OnList(i, "Parked")
    /\ UNCHANGED held

(* variant: a reconnect-held intent is only marked                         *)
HoldMarking(i) ==
    /\ pending' = OnList(i, "AwaitingReconnect")
    /\ UNCHANGED held

Hold(i) ==
    /\ pending' = OnList(i, "AwaitingReconnect")
    /\ held' = IF i \in Range(held) THEN held ELSE Append(held, i)

HandleResult ==
    /\ mailbox # <<>> /\ Head(mailbox).type = "Result"
    /\ mailbox' = Tail(mailbox)
    /\ LET result == Head(mailbox) IN
       \/ result.outcome = "Success" /\ Confirm(result.intent)
       \/ result.outcome = "AwaitReconnect" /\ Hold(result.intent)
       \/ result.outcome = "Terminal" /\ Park(result.intent)
    /\ UNCHANGED <<table, saved, writer, world, created, restarts>>

(* release_held_writes: the held intents of the bracket that are older     *)
(* than the poll are dropped if their set vanished or completed, and sent  *)
(* again otherwise.                                                        *)
Released(b, captured) == {i \in Range(held) : BracketOf[i.set] = b /\ captured > i.at}

Moot(released, tbl) == {i \in released : tbl[i.set] # "Open"}

(* variant: mem::take is forgotten                                         *)
ReleaseKeepingHeld(released, tbl) ==
    LET moot == Moot(released, tbl) IN
    /\ pending' = [i \in Intents |->
                     IF i \in moot THEN "None"
                     ELSE IF i \in released /\ pending[i] # "None" THEN "Queued"
                     ELSE pending[i]]
    /\ \E resent \in Arrangements(Range(held)) :
          /\ IsFiltered(resent, held, released \ moot)
          /\ channel' = Sent(resent)
    /\ UNCHANGED held

Release(released, tbl) ==
    LET moot == Moot(released, tbl) IN
    /\ pending' = [i \in Intents |->
                     IF i \in moot THEN "None"
                     ELSE IF i \in released /\ pending[i] # "None" THEN "Queued"
                     ELSE pending[i]]
    /\ \E kept, resent \in Arrangements(Range(held)) :
          /\ IsFiltered(kept, held, Intents \ released)
          /\ IsFiltered(resent, held, released \ moot)
          /\ held' = kept
          /\ channel' = Sent(resent)

(* A snapshot is applied: the bracket's table is replaced, then its held   *)
(* writes are released.  (Snapshots arrive in order here; the sequence  *)
(* gate is part of module Polling, the tearing guard of module Desk.)      *)
HandlePoll ==
    /\ mailbox # <<>> /\ Head(mailbox).type = "Poll"
    /\ mailbox' = Tail(mailbox)
    /\ LET poll == Head(mailbox) IN
       /\ table' = [s \in Sets |-> IF BracketOf[s] = poll.bracket THEN poll.view[s] ELSE table[s]]
       /\ Release(Released(poll.bracket, poll.captured), table')
    /\ UNCHANGED <<saved, writing, attempts, alive, world, created, restarts>>

(* persist_overlay: at any moment the file is due.                         *)
Save ==
    /\ restarts < MaxRestarts
    /\ saved' = pending
    /\ UNCHANGED <<desk, writer, mailbox, world, created, restarts>>

(* variant: the list is restored as it was saved                           *)
RestoredAsSaved(file) == file

(* apply_overlay: what was queued or held when the program crashed is      *)
(* parked.                                                                 *)
Restored(file) == [i \in Intents |-> IF file[i] = "None" THEN "None" ELSE "Parked"]

(* The program crashes and is started again.                               *)
Restart ==
    /\ restarts < MaxRestarts
    /\ pending' = Restored(saved)
    /\ held' = <<>>
    /\ channel' = <<>> /\ writing' = NoIntent /\ attempts' = 0 /\ alive' = TRUE
    /\ mailbox' = <<>>
    /\ polling' = [b \in Brackets |-> NoPoll]
    /\ restarts' = restarts + 1
    /\ UNCHANGED <<table, saved, site, created>>

------------------------------------------------------------------------------
(* The writer task: run_writer, one intent at a time.                      *)

Receive ==
    /\ alive /\ writing = NoIntent /\ channel # <<>>
    /\ writing' = Head(channel)
    /\ channel' = Tail(channel)
    /\ attempts' = 0
    /\ UNCHANGED <<desk, saved, alive, mailbox, world, created, restarts>>

Finish(outcome) ==
    /\ mailbox' = Append(mailbox, [type |-> "Result", intent |-> writing, outcome |-> outcome])
    /\ writing' = NoIntent
    /\ attempts' = 0

(* What the mutation leaves on the site.                                   *)
Performed == [site EXCEPT ![writing.set] = IF writing.kind = "Report" THEN "Completed" ELSE @]

Succeed ==
    /\ writing # NoIntent
    /\ site' = Performed
    /\ Finish("Success")
    /\ UNCHANGED <<desk, saved, channel, alive, polling, created, restarts>>

(* A definitive failure parks the intent.                                  *)
FailForGood ==
    /\ writing # NoIntent
    /\ Finish("Terminal")
    /\ UNCHANGED <<desk, saved, channel, alive, world, created, restarts>>

(* Offline, or timed out: the site may have performed it all the same.     *)
LoseConnection ==
    /\ writing # NoIntent
    /\ site' \in {site, Performed}
    /\ Finish("AwaitReconnect")
    /\ UNCHANGED <<desk, saved, channel, alive, polling, created, restarts>>

(* Server trouble: another attempt, or the intent is given up.             *)
FailAttempt ==
    /\ writing # NoIntent
    /\ site' \in {site, Performed}
    /\ IF attempts + 1 >= MaxAttempts
       THEN Finish("Terminal")
       ELSE attempts' = attempts + 1 /\ UNCHANGED <<writing, mailbox>>
    /\ UNCHANGED <<desk, saved, channel, alive, polling, created, restarts>>

(* The writer panics.  restart_dead_task cannot tell which task panicked   *)
(* and respawns the poller; the intents in the writer's hands are lost.    *)
WriterPanics ==
    /\ Panics /\ alive
    /\ alive' = FALSE
    /\ channel' = <<>> /\ writing' = NoIntent /\ attempts' = 0
    /\ UNCHANGED <<desk, saved, mailbox, world, created, restarts>>

------------------------------------------------------------------------------
(* The poller and the site.                                                *)

(* The pages of a bracket are read; a set may have left the tables.        *)
Fetch(b) ==
    /\ polling[b] = NoPoll
    /\ \E gone \in SUBSET VanishingSets :
          polling' = [polling EXCEPT ![b] =
                        [s \in Sets |-> IF s \in gone \/ BracketOf[s] # b THEN "Gone" ELSE site[s]]]
    /\ UNCHANGED <<desk, saved, writer, mailbox, site, created, restarts>>

(* The fetch ends: captured_at is stamped now.                             *)
Deliver(b) ==
    /\ polling[b] # NoPoll
    /\ Cardinality({n \in DOMAIN mailbox : mailbox[n].type = "Poll" /\ mailbox[n].bracket = b})
          < MaxPolls
    /\ mailbox' = Append(mailbox, [type |-> "Poll", bracket |-> b, view |-> polling[b],
                                   captured |-> created])
    /\ polling' = [polling EXCEPT ![b] = NoPoll]
    /\ UNCHANGED <<desk, saved, writer, site, created, restarts>>

(* The fetch fails: the failed poll changes no write.                      *)
FailPoll(b) ==
    /\ polling[b] # NoPoll
    /\ polling' = [polling EXCEPT ![b] = NoPoll]
    /\ UNCHANGED <<desk, saved, writer, mailbox, site, created, restarts>>

(* Another TO reports a set.                                               *)
SiteStep ==
    /\ \E s \in OthersReport : site[s] = "Open" /\ site' = [site EXCEPT ![s] = "Completed"]
    /\ UNCHANGED <<desk, saved, writer, mailbox, polling, created, restarts>>

------------------------------------------------------------------------------
Operator ==
    \/ \E s \in Sets, k \in Kinds : Enqueue(s, k)
    \/ \E i \in Intents : Retry(i) \/ Discard(i)

Handle == HandleResult \/ HandlePoll

Attempt == Succeed \/ FailForGood \/ LoseConnection \/ FailAttempt

Environment ==
    \/ \E b \in Brackets : Fetch(b) \/ Deliver(b) \/ FailPoll(b)
    \/ SiteStep \/ Save \/ Restart \/ WriterPanics

Next == Operator \/ Handle \/ Receive \/ Attempt \/ Environment

Spec == Init /\ [][Next]_vars

(* The update loop drains its mailbox, the writer its channel and every    *)
(* attempt ends (request_timeout); the poller goes on, and not every fetch *)
(* of a bracket fails.  The operator is not fair.                          *)
Fairness ==
    /\ WF_vars(Handle) /\ WF_vars(Receive) /\ WF_vars(Attempt)
    /\ \A b \in Brackets : WF_vars(Fetch(b)) /\ SF_vars(Deliver(b))

FairSpec == Spec /\ Fairness

------------------------------------------------------------------------------
(* What is on its way to the site, or its answer on the way back.          *)
Answers(mail)     == {n \in DOMAIN mail : mail[n].type = "Result"}
Answered(mail, i) == \E n \in Answers(mail) : mail[n].intent = i
AnsweredOnce(mail) ==
    \A m, n \in Answers(mail) : mail[m].intent = mail[n].intent => m = n

OnItsWay(i) == i \in Range(channel) \/ i = writing \/ Answered(mailbox, i)

Once ==
    /\ IsInjective(channel) /\ IsInjective(held) /\ AnsweredOnce(mailbox)
    /\ writing \notin Range(channel) /\ ~Answered(mailbox, writing)
    /\ \A i \in Range(channel) : ~Answered(mailbox, i)

(* An intent makes one trip at a time, and only a queued one makes it: what*)
(* the pending view lets the operator retry or discard is never performed  *)
(* behind their back, and what is held is held once.  (writer.rs: "Every   *)
(* intent ends in exactly one Success/Terminal/AwaitReconnect result",     *)
(* through retries, releases, moot drops, panics and restarts.)            *)
OneTrip ==
    /\ Once
    /\ \A i \in Intents : OnItsWay(i) => pending[i] = "Queued"
    /\ \A i \in Intents : i \in Range(held) <=> pending[i] = "AwaitingReconnect"

QueuedOnTheirWay == \A i \in Intents : pending[i] = "Queued" => OnItsWay(i)

(* While the writer lives every queued intent is on its way, through       *)
(* retries, releases, crashes and restarts, and none is left on the list   *)
(* to suppress a fresh enqueue (apply_overlay).                            *)
NoneStranded == alive => QueuedOnTheirWay

(* Every queued write is confirmed, held or parked in the end, and one held *)
(* for reconnect does not stay held: a later poll of its event sends it     *)
(* again or drops it.                                                      *)
IntentsSettle ==
    /\ \A i \in Intents : pending[i] = "Queued" ~> pending[i] # "Queued"
    /\ \A i \in Intents : pending[i] = "AwaitingReconnect" ~> pending[i] # "AwaitingReconnect"
=============================================================================
