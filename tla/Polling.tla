-------------------------------- MODULE Polling --------------------------------
(***************************************************************************)
(* The poller and its supervisor, up to the desk's sequence gate.          *)
(*                                                                         *)
(*   site --fetch--> poller p --mailbox--> desk --forced polls--> poller p *)
(*                        supervisor: a dead task is spawned again         *)
(*                                                                         *)
(* A poller is one run of run_poller (tools/scheduler/core/src/poller.rs)  *)
(* and has its own stamps, its own force channel and its own list of       *)
(* events whose structure is missing.  The supervisor is Tasks in          *)
(* tools/scheduler/tui/src/main.rs, the gate is handle_poll in             *)
(* tools/scheduler/core/src/app.rs.  What a snapshot does to the desk's    *)
(* tables is module Desk; here a table is the moment of the site it shows. *)
(***************************************************************************)
EXTENDS Integers, Sequences, FiniteSets, Functions

CONSTANTS
    Brackets,
    Unstructured,   \* events launched without phase groups
    EmptyEvents,    \* events whose structure may have no phase group
    PollersPanic,   \* whether a poller may panic
    WriterPanics,   \* whether the writer may panic
    \* Bounds.
    MaxPollers,     \* pollers spawned
    MaxSeq,         \* cycles of a poller
    MaxMoment,      \* changes of the site
    MaxPanics,      \* panics
    MaxMail         \* poll results waiting for the desk

ASSUME PollingAssumption ==
    /\ Unstructured \subseteq Brackets /\ EmptyEvents \subseteq Brackets
    /\ PollersPanic \in BOOLEAN /\ WriterPanics \in BOOLEAN
    /\ MaxPollers \in Nat \ {0} /\ MaxSeq \in Nat \ {0}
    /\ MaxMoment \in Nat /\ MaxPanics \in Nat /\ MaxMail \in Nat

Pollers == 1 .. MaxPollers
Phases  == {"Unborn", "Fetching", "Waiting", "Ended", "Gone"}

(* The result of polling an event: a snapshot, with the event's structure  *)
(* if the poller asked for it and got it, or a failure.                    *)
Snapshots == [type : {"Snapshot"}, bracket : Brackets, seq : 1 .. MaxSeq,
              view : 0 .. MaxMoment, structure : {"None", "Empty", "Groups"}]
Failures  == [type : {"Failed"}, bracket : Brackets, seq : 1 .. MaxSeq]
PollResults == Snapshots \cup Failures

VARIABLES
    phase,      \* per poller
    seq,        \* per poller, the stamp of its last cycle
    targets,    \* per poller, the events its cycle has yet to fetch
    results,    \* per poller, the results its cycle has collected
    wanted,     \* per poller, needs_structure
    forced,     \* per poller, the events queued in its force channel
    current,    \* the poller that holds the other end of force_tx
    panics,     \* the panics so far
    unjoined,   \* the panicked tasks that the event loop has yet to join
    writer,     \* whether the writer task still runs
    mailbox,    \* the poll results on their way to the desk
    applied,    \* the desk's applied_seq
    shown,      \* the moment the desk's table shows
    structured, \* the events of which the desk has phase groups
    moment      \* the moments of the site, per event

pollers    == <<phase, seq, targets, results, wanted, forced>>
supervisor == <<current, panics, unjoined, writer>>
desk       == <<applied, shown, structured>>
vars       == <<pollers, supervisor, mailbox, desk, moment>>

TypeOK ==
    /\ phase \in [Pollers -> Phases]
    /\ seq \in [Pollers -> 0 .. MaxSeq]
    /\ \A p \in Pollers : phase[p] \in {"Fetching", "Waiting"} => seq[p] # 0
    /\ targets \in [Pollers -> SUBSET Brackets]
    /\ results \in [Pollers -> Seq(PollResults)]
    /\ wanted \in [Pollers -> SUBSET Unstructured]
    /\ forced \in [Pollers -> SUBSET Brackets]
    /\ current \in Pollers
    /\ panics \in 0 .. MaxPanics
    /\ unjoined \in 0 .. panics
    /\ writer \in {"Running", "Gone"}
    /\ mailbox \in Seq(PollResults)
    /\ applied \in [Brackets -> 0 .. MaxSeq]
    /\ shown \in [Brackets -> 0 .. MaxMoment]
    /\ structured \in SUBSET Brackets
    /\ moment \in [Brackets -> 0 .. MaxMoment]

(* The program starts the first poller, which starts its first cycle.      *)
Init ==
    /\ phase = [p \in Pollers |-> IF p = 1 THEN "Fetching" ELSE "Unborn"]
    /\ seq = [p \in Pollers |-> IF p = 1 THEN 1 ELSE 0]
    /\ targets = [p \in Pollers |-> IF p = 1 THEN Brackets ELSE {}]
    /\ results = [p \in Pollers |-> <<>>]
    /\ wanted = [p \in Pollers |-> Unstructured]
    /\ forced = [p \in Pollers |-> {}]
    /\ current = 1
    /\ panics = 0
    /\ unjoined = 0
    /\ writer = "Running"
    /\ mailbox = <<>>
    /\ applied = [b \in Brackets |-> 0]
    /\ shown = [b \in Brackets |-> 0]
    /\ structured = Brackets \ Unstructured
    /\ moment = [b \in Brackets |-> 0]

------------------------------------------------------------------------------
(* A poller.                                                               *)

Running(p) == phase[p] \in {"Fetching", "Waiting"}

(* poll_cycle: a cycle over some events begins.                            *)
Begin(p, events) ==
    /\ phase[p] = "Waiting" /\ seq[p] < MaxSeq
    /\ phase' = [phase EXCEPT ![p] = "Fetching"]
    /\ seq' = [seq EXCEPT ![p] = @ + 1]
    /\ targets' = [targets EXCEPT ![p] = events]
    /\ UNCHANGED <<results, wanted, supervisor, mailbox, desk, moment>>

(* The interval is over.                                                   *)
FullCycle(p) == Begin(p, Brackets) /\ UNCHANGED forced

(* The queued force polls are served in one targeted pass.                 *)
ForcedCycle(p) ==
    /\ forced[p] # {}
    /\ Begin(p, forced[p])
    /\ forced' = [forced EXCEPT ![p] = {}]

Collect(p, result) ==
    /\ results' = [results EXCEPT ![p] = Append(@, result)]
    /\ targets' = [targets EXCEPT ![p] = @ \ {result.bracket}]
    /\ UNCHANGED <<phase, seq, wanted, forced, supervisor, mailbox, desk, moment>>

(* The structure of an event is fetched with its sets until one came.      *)
Structures(p, b) ==
    IF b \notin wanted[p] THEN {"None"}
    ELSE {"None", "Groups"} \cup IF b \in EmptyEvents THEN {"Empty"} ELSE {}

Fetch(p, b) ==
    /\ phase[p] = "Fetching" /\ b \in targets[p]
    /\ \E structure \in Structures(p, b) :
          Collect(p, [type |-> "Snapshot", bracket |-> b, seq |-> seq[p],
                      view |-> moment[b], structure |-> structure])

FetchFails(p, b) ==
    /\ phase[p] = "Fetching" /\ b \in targets[p]
    /\ Collect(p, [type |-> "Failed", bracket |-> b, seq |-> seq[p]])

(* The events whose structure is among some results.                       *)
Carries(r, b, kinds) == r.type = "Snapshot" /\ r.bracket = b /\ r.structure \in kinds

Brought(mail, kinds) == {b \in Brackets : \E n \in DOMAIN mail : Carries(mail[n], b, kinds)}

(* The cycle ends: its results are sent, and the structures it brought are *)
(* not asked for again.                                                    *)
Publish(p) ==
    /\ phase[p] = "Fetching" /\ targets[p] = {}
    /\ Len(mailbox) + Len(results[p]) <= MaxMail
    /\ mailbox' = mailbox \o results[p]
    /\ wanted' = [wanted EXCEPT ![p] = @ \ Brought(results[p], {"Empty", "Groups"})]
    /\ results' = [results EXCEPT ![p] = <<>>]
    /\ phase' = [phase EXCEPT ![p] = "Waiting"]
    /\ UNCHANGED <<seq, targets, forced, supervisor, desk, moment>>

(* The poller's force channel is closed and empty: it returns.             *)
End(p) ==
    /\ phase[p] = "Waiting" /\ forced[p] = {} /\ p # current
    /\ phase' = [phase EXCEPT ![p] = "Ended"]
    /\ UNCHANGED <<seq, targets, results, wanted, forced, supervisor, mailbox, desk, moment>>

------------------------------------------------------------------------------
(* Panics and the supervisor.                                              *)

Panicked ==
    /\ panics < MaxPanics
    /\ panics' = panics + 1
    /\ unjoined' = unjoined + 1
    /\ UNCHANGED <<seq, wanted, forced, current, mailbox, desk, moment>>

(* A poller panics; what its cycle collected is lost.                      *)
PollerPanics(p) ==
    /\ PollersPanic /\ Running(p)
    /\ phase' = [phase EXCEPT ![p] = "Gone"]
    /\ targets' = [targets EXCEPT ![p] = {}]
    /\ results' = [results EXCEPT ![p] = <<>>]
    /\ Panicked
    /\ UNCHANGED writer

(* The writer panics.  (The ticker cannot, and the simulator evaluates on  *)
(* a blocking thread of its own, whose panics it catches.)                 *)
OtherPanics ==
    /\ WriterPanics /\ writer = "Running"
    /\ writer' = "Gone"
    /\ Panicked
    /\ UNCHANGED <<phase, targets, results>>

(* spawn_poller: the next poller, with the list of missing structures of   *)
(* the program's start.  Its force channel replaces the current one.       *)
Spawn(phases) ==
    /\ current < MaxPollers
    /\ current' = current + 1
    /\ phase' = [phases EXCEPT ![current + 1] = "Fetching"]
    /\ seq' = [seq EXCEPT ![current + 1] = 1]
    /\ targets' = [targets EXCEPT ![current + 1] = Brackets]
    /\ UNCHANGED <<results, wanted, forced, panics, writer, mailbox, desk, moment>>

(* restart_dead_task: a task that returned is spawned again.               *)
RestartEnded(p) ==
    /\ phase[p] = "Ended"
    /\ Spawn([phase EXCEPT ![p] = "Gone"])
    /\ UNCHANGED unjoined

(* variant: a poller is spawned before the last one is joined              *)
RestartEarly == Spawn(phase) /\ UNCHANGED unjoined

(* variant: a task that cannot be named is not spawned again               *)
RestartNamed ==
    /\ unjoined > 0
    /\ unjoined' = unjoined - 1
    /\ UNCHANGED <<pollers, current, panics, writer, mailbox, desk, moment>>

(* A task that panicked cannot be named: whichever it was, the poller is   *)
(* spawned again, and a writer that panicked never is.                     *)
RestartPanicked ==
    /\ unjoined > 0
    /\ unjoined' = unjoined - 1
    /\ Spawn(phase)

------------------------------------------------------------------------------
(* The desk.                                                               *)

(* A station of the event is freed, or a report submitted.  The request of *)
(* a poller that is gone is lost.                                          *)
ForcePoll(b) ==
    /\ forced' = [forced EXCEPT ![current] = IF Running(current) THEN @ \cup {b} ELSE @]
    /\ UNCHANGED <<phase, seq, targets, results, wanted, supervisor, mailbox, desk, moment>>

Apply(result) ==
    /\ applied' = [applied EXCEPT ![result.bracket] = result.seq]
    /\ shown' = [shown EXCEPT ![result.bracket] = result.view]

Refuse == UNCHANGED <<applied, shown>>

(* variant: the structure of a refused snapshot is refused with it         *)
AcceptWhole(result) ==
    IF result.seq > applied[result.bracket]
    THEN /\ structured' = structured \cup {b \in Brackets : Carries(result, b, {"Groups"})}
         /\ Apply(result)
    ELSE UNCHANGED structured /\ Refuse

(* install_structure, also of a refused snapshot, then the sequence gate.  *)
Accept(result) ==
    /\ structured' = structured \cup {b \in Brackets : Carries(result, b, {"Groups"})}
    /\ IF result.seq > applied[result.bracket] THEN Apply(result) ELSE Refuse

(* handle_poll.  A failure only shows in the event's health.               *)
HandlePoll ==
    /\ mailbox # <<>>
    /\ mailbox' = Tail(mailbox)
    /\ LET result == Head(mailbox) IN
       \/ result.type = "Snapshot" /\ Accept(result)
       \/ result.type = "Failed" /\ UNCHANGED desk
    /\ UNCHANGED <<pollers, supervisor, moment>>

------------------------------------------------------------------------------
(* An event of the site changes.                                           *)
SiteStep(b) ==
    /\ moment[b] < MaxMoment
    /\ moment' = [moment EXCEPT ![b] = @ + 1]
    /\ UNCHANGED <<pollers, supervisor, mailbox, desk>>

Poll(p) ==
    \/ FullCycle(p) \/ ForcedCycle(p) \/ Publish(p) \/ End(p)
    \/ \E b \in Brackets : Fetch(p, b) \/ FetchFails(p, b)

Supervise ==
    \/ \E p \in Pollers : PollerPanics(p) \/ RestartEnded(p)
    \/ OtherPanics \/ RestartPanicked

Next ==
    \/ \E p \in Pollers : Poll(p)
    \/ Supervise
    \/ HandlePoll
    \/ \E b \in Brackets : ForcePoll(b) \/ SiteStep(b)

Spec == Init /\ [][Next]_vars

------------------------------------------------------------------------------
(* poller.rs: "Cycles are strictly sequential - one task runs them, so a   *)
(* slow cycle delays rather than overlaps the next."  Violated once the    *)
(* writer panicked.                                                        *)
CyclesSequential ==
    \A p, q \in Pollers : phase[p] = "Fetching" /\ phase[q] = "Fetching" => p = q

(* While the writer runs, cycles are sequential, whatever pollers die.     *)
SequentialUntilPanic == writer = "Running" => CyclesSequential

(* While the writer runs, a table never goes back in time, whichever       *)
(* poller brought it (PollResult.seq: "snapshots apply only in order").    *)
InOrder ==
    [][writer' = "Running" => \A b \in Brackets : shown'[b] >= shown[b]]_vars

(* Some poller runs and can be reached by a forced poll, or the event loop *)
(* has yet to join a task, whichever tasks panic (restart_dead_task).      *)
PollingGoesOn == Running(current) \/ unjoined > 0

(* The structure of an event that launched without it is not forgotten: it *)
(* is installed, on its way, or still asked for (run_poller: "each keeps   *)
(* re-fetching it alongside its sets until one lands").  This is not so of *)
(* an event whose structure came without phase groups.                     *)
StructureLands ==
    \A b \in Brackets \ EmptyEvents :
        \/ b \in structured
        \/ b \in Brought(mailbox, {"Groups"})
        \/ unjoined > 0
        \/ \E p \in Pollers : Running(p) /\ b \in wanted[p]
=============================================================================
