-------------------------------- MODULE WebDesk --------------------------------
(***************************************************************************)
(* The browser's desk: the page from look-up to a running desk             *)
(* (web/src/live.rs), the demo (web/src/demo.rs), the documents in         *)
(* IndexedDB (web/src/persist.rs) and the saves of the running desk        *)
(* (web/src/bridge.rs, web/src/page.rs).                                   *)
(*                                                                         *)
(* IndexedDB serves one request at a time, in the order they were made; a  *)
(* task that waits for an answer goes on when it comes.  A page that is    *)
(* closed leaves the requests not yet served undone.                       *)
(***************************************************************************)
EXTENDS Integers, Sequences, FiniteSets

CONSTANTS
    Missing,        \* no document, no desk
    Worlds,         \* the tournaments that are looked up
    Demo,           \* the demo's world
    SaveDebounce,       \* SAVE_DEBOUNCE_MS, in seconds
    MaxSeconds,     \* Bound: the clock
    MaxRevisions,       \* Bound: changes
    MaxFaults,      \* Bound: requests that fail
    MaxDesks,       \* Bound: pages loaded and desks opened
    MaxRequests     \* Bound: requests under way

Kinds == {"overlay", "snapshot"}
AllWorlds == Worlds \union {Demo}
DocKeys == AllWorlds \X Kinds
\* What a key may hold, and the running desk as far as its saves go.
Documents == [good : BOOLEAN, rev : Nat]
Told == {"asked", "none", "found", "corrupt", "unavailable"}
Pages ==
    [world : AllWorlds, stored : BOOLEAN, told : Told, dirty : SUBSET Kinds, since : Nat, last : Int,
     rev : [Kinds -> Nat], failed : SUBSET Kinds, badge : BOOLEAN]

ASSUME WebDeskAssumption ==
    /\ Demo \notin Worlds /\ Missing \notin Documents /\ Missing \notin Pages
    /\ {SaveDebounce, MaxSeconds, MaxRevisions, MaxFaults, MaxDesks, MaxRequests} \subseteq Nat

VARIABLES
    docs,       \* [DocKeys -> [good |-> readable, rev |-> the change it holds] or Missing]
    bak,        \* [DocKeys -> the document under "<key>.bak"]
    requests,   \* what IndexedDB has yet to serve
    stage,      \* Stage, and for the demo "booting"
    page,       \* the running desk, or Missing
    second,     \* the clock
    revisions, faults, desks

webVars == <<docs, bak, requests, stage, page, second, revisions, faults, desks>>

AtLookup == [at |-> "lookup"]
OldDoc == [good |-> TRUE, rev |-> 0]
BadDoc == [good |-> FALSE, rev |-> 0]

WebInit ==
    /\ docs \in [DocKeys -> {Missing, OldDoc, BadDoc}]
    /\ Cardinality({k \in DocKeys : docs[k] = BadDoc}) <= 1     \* Bound: one unreadable, the demo left nothing else
    /\ \A k \in DocKeys : k[1] = Demo => docs[k] # OldDoc
    /\ bak = [k \in DocKeys |-> Missing]
    /\ requests = <<>> /\ stage = AtLookup /\ page = Missing
    /\ second = 0 /\ revisions = 0 /\ faults = 0 /\ desks = 1

Ask(op, w, kind, why) == [op |-> op, key |-> <<w, kind>>, why |-> why, doc |-> Missing, by |-> desks]
Issues(more) == requests' = requests \o more
Counts == <<second, revisions, faults, desks>>

-----------------------------------------------------------------------------
(* The page *)

\* on_look_up, look_up.
LookUp ==
    /\ stage = AtLookup
    /\ \E w \in Worlds : stage' = [at |-> "looking", world |-> w]
    /\ UNCHANGED <<docs, bak, requests, page, Counts>>
LookedUp ==
    /\ stage.at = "looking"
    /\ stage' \in {[at |-> "picking", world |-> stage.world], [at |-> "failed"]}
    /\ UNCHANGED <<docs, bak, requests, page, Counts>>

\* on_check: the stage is taken out, so that a second click finds no picker;
\* peek_saved, and then the preflight.
Check ==
    /\ stage.at = "picking" /\ Len(requests) < MaxRequests
    /\ \/ /\ stage' = [at |-> "checking", world |-> stage.world, saved |-> "asked", stored |-> TRUE]
          /\ Issues(<<Ask("load", stage.world, "overlay", "peek")>>)
       \/ \* the store could not be opened
          /\ stage' = [at |-> "checking", world |-> stage.world, saved |-> "unavailable", stored |-> FALSE]
          /\ UNCHANGED requests
       \/ \* live_config refuses the picks
          UNCHANGED <<stage, requests>>
    /\ UNCHANGED <<docs, bak, page, Counts>>
Preflighted ==
    /\ stage.at = "checking" /\ stage.saved # "asked"
    /\ \E blocked \in BOOLEAN :
          stage' = [at |-> "checked", world |-> stage.world, saved |-> stage.saved,
                    stored |-> stage.stored, blocked |-> blocked]
    /\ UNCHANGED <<docs, bak, requests, page, Counts>>

\* on_discard: the stage stays; whatever is checked by then learns of it.
Discard ==
    /\ stage.at = "checked" /\ stage.saved = "found" /\ Len(requests) < MaxRequests
    /\ Issues(<<Ask("remove", stage.world, "overlay", "forget")>>)
    /\ UNCHANGED <<docs, bak, stage, page, Counts>>

\* on_back_to_picker, on_back_to_lookup.
Back ==
    /\ stage.at \in {"checked", "picking", "failed"}
    /\ stage' = IF stage.at = "checked" THEN [at |-> "picking", world |-> stage.world] ELSE AtLookup
    /\ UNCHANGED <<docs, bak, requests, page, Counts>>

\* open_desk's end, start: last_save is long ago.
Desk(w, stored, told) ==
    [world |-> w, stored |-> stored, told |-> told, dirty |-> {}, since |-> 0, last |-> -SaveDebounce,
     rev |-> [k \in Kinds |-> 0], failed |-> {}, badge |-> told = "unavailable"]
Runs(w, stored, told) ==
    /\ page' = Desk(w, stored, told)
    /\ stage' = [at |-> "running", world |-> w]

\* on_open: the snapshot seeds what the preflight could not fetch.
OpensDesk ==
    /\ stage.at = "checked" /\ ~stage.blocked /\ Len(requests) < MaxRequests
    /\ IF stage.stored
       THEN /\ stage' = [at |-> "opening", world |-> stage.world, saved |-> stage.saved]
            /\ Issues(<<Ask("load", stage.world, "snapshot", "seed")>>)
            /\ UNCHANGED page
       ELSE Runs(stage.world, FALSE, stage.saved) /\ UNCHANGED requests
    /\ UNCHANGED <<docs, bak, Counts>>

\* boot_demo; its reset forgets the documents and then mounts a new desk.
Boots == stage' = [at |-> "booting"] /\ page' = Missing
BootDemo ==
    /\ stage = AtLookup /\ Boots
    /\ Issues(<<Ask("load", Demo, "overlay", "boot")>>)
    /\ UNCHANGED <<docs, bak, Counts>>
ResetDemo ==
    /\ page # Missing /\ page.world = Demo /\ Len(requests) < MaxRequests
    /\ Issues(<<Ask("remove", Demo, "overlay", "reset")>>)
    /\ UNCHANGED <<docs, bak, stage, page, Counts>>

\* The page is closed, or reloaded.
ClosePage ==
    /\ desks < MaxDesks /\ desks' = desks + 1
    /\ requests' = <<>> /\ stage' = AtLookup /\ page' = Missing
    /\ UNCHANGED <<docs, bak, second, revisions, faults>>

-----------------------------------------------------------------------------
(* Cleaned *)

\* save_dirty: a document is the state of this moment, and no longer dirty.
Cleaned(d) == [d EXCEPT !.dirty = {}]
PutDoc(d, k) == [op |-> "put", key |-> <<d.world, k>>, why |-> "save",
              doc |-> [good |-> TRUE, rev |-> d.rev[k]], by |-> desks]
Puts(d) ==
    (IF "overlay" \in d.dirty THEN <<PutDoc(d, "overlay")>> ELSE <<>>)
    \o (IF "snapshot" \in d.dirty THEN <<PutDoc(d, "snapshot")>> ELSE <<>>)

\* save_if_due.
SaveDue(d, now) == now - d.last >= SaveDebounce
Drained(d, now) ==
    IF d.stored /\ d.dirty # {} /\ SaveDue(d, now)
    THEN page' = [Cleaned(d) EXCEPT !.last = now] /\ Issues(Puts(d))
    ELSE page' = d /\ UNCHANGED requests

\* The drain task on a message that changes something: an input or a write's
\* answer the overlay, a poll the snapshot too.
Edit ==
    /\ page # Missing /\ revisions < MaxRevisions /\ revisions' = revisions + 1 /\ Len(requests) < MaxRequests
    /\ \E what \in {{"overlay"}, Kinds} :
          Drained([page EXCEPT !.dirty = @ \union what,
                               !.since = IF page.dirty = {} THEN second ELSE @,
                               !.rev = [k \in Kinds |-> IF k \in what THEN revisions + 1 ELSE @[k]]],
                  second)
    /\ UNCHANGED <<docs, bak, stage, second, faults, desks>>

\* The tick of every second.
Second ==
    /\ second < MaxSeconds /\ second' = second + 1
    /\ page # Missing /\ Drained(page, second + 1)
    /\ UNCHANGED <<docs, bak, stage, revisions, faults, desks>>

\* Session::flush, when the page hides.
Flush ==
    /\ page # Missing /\ page.stored /\ page.dirty # {}
    /\ page' = Cleaned(page) /\ Issues(Puts(page))
    /\ UNCHANGED <<docs, bak, stage, Counts>>

\* record_persist_outcome.
\* Variant: the document is clean once it is stored.
PersistOutcomeClears(d, k, ok) ==
    [d EXCEPT !.badge = ~ok, !.failed = IF ok THEN @ \ {k} ELSE @ \union {k}, !.dirty = @ \ {k}]
PersistOutcome(d, k, ok) ==
    [d EXCEPT !.badge = ~ok, !.failed = IF ok THEN @ \ {k} ELSE @ \union {k}]

-----------------------------------------------------------------------------
(* What IndexedDB answers *)

Pending == Tail(requests)

\* peek_saved, load_snapshot: what the waiting task does with the outcome.
Learns(q, outcome) ==
    /\ requests' = Pending
    /\ CASE q.why = "peek" -> stage' = [stage EXCEPT !.saved = outcome] /\ UNCHANGED page
         [] q.why = "seed" -> Runs(stage.world, TRUE, stage.saved)
         [] q.why = "boot" -> Runs(Demo, TRUE, outcome)

\* load_versioned: an unreadable document moves to its .bak key.
\* Variant: the document is removed first.
AsideRemoves(q) ==
    [q EXCEPT !.op = IF q.op = "load" THEN "drop" ELSE "aside", !.doc = IF q.op = "load" THEN docs[q.key] ELSE @]
Aside(q) ==
    [q EXCEPT !.op = IF q.op = "load" THEN "aside" ELSE "drop", !.doc = IF q.op = "load" THEN docs[q.key] ELSE @]
AsideDone(q) == Aside([q EXCEPT !.op = "load"]).op # q.op

ServesLoad(q) ==
    /\ IF docs[q.key] = Missing THEN Learns(q, "none")
       ELSE IF docs[q.key].good THEN Learns(q, "found")
       ELSE requests' = Append(Pending, Aside(q)) /\ UNCHANGED <<stage, page>>
    /\ UNCHANGED <<docs, bak>>
ServesAside(q) ==
    /\ IF q.op = "aside" THEN bak' = [bak EXCEPT ![q.key] = q.doc] /\ UNCHANGED docs
       ELSE docs' = [docs EXCEPT ![q.key] = Missing] /\ UNCHANGED bak
    /\ IF AsideDone(q) THEN Learns(q, "corrupt")
       ELSE requests' = Append(Pending, Aside(q)) /\ UNCHANGED <<stage, page>>

\* on_discard's end; the demo's remount, whatever became of the removals.
Forgotten(q, outcome) ==
    IF q.why = "reset"
    THEN requests' = Append(Pending, Ask("load", Demo, "overlay", "boot")) /\ Boots
    ELSE /\ requests' = Pending
         /\ stage' = IF stage.at = "checked" THEN [stage EXCEPT !.saved = outcome] ELSE stage
         /\ UNCHANGED page
\* forget: the overlay, then the snapshot.
ServesRemove(q) ==
    /\ docs' = [docs EXCEPT ![q.key] = Missing]
    /\ IF q.key[2] = "overlay"
       THEN requests' = Append(Pending, [q EXCEPT !.key = <<@[1], "snapshot">>]) /\ UNCHANGED <<stage, page>>
       ELSE Forgotten(q, "none")
    /\ UNCHANGED bak

Reports(q, ok) == page' = IF page = Missing \/ q.by # desks THEN page ELSE PersistOutcome(page, q.key[2], ok)
ServesPut(q) ==
    /\ docs' = [docs EXCEPT ![q.key] = q.doc]
    /\ requests' = Pending
    /\ Reports(q, TRUE)
    /\ UNCHANGED <<bak, stage>>

StoreAnswers ==
    /\ requests # <<>>
    /\ LET q == Head(requests) IN
       CASE q.op = "load" -> ServesLoad(q)
         [] q.op \in {"aside", "drop"} -> ServesAside(q)
         [] q.op = "remove" -> ServesRemove(q)
         [] q.op = "put" -> ServesPut(q)
    /\ UNCHANGED Counts
StoreFails ==
    /\ requests # <<>> /\ faults < MaxFaults /\ faults' = faults + 1
    /\ LET q == Head(requests) IN
       CASE q.op \in {"load", "aside", "drop"} -> Learns(q, "unavailable")
         [] q.op = "remove" -> Forgotten(q, "unavailable")
         [] q.op = "put" -> requests' = Pending /\ Reports(q, FALSE) /\ UNCHANGED stage
    /\ UNCHANGED <<docs, bak, second, revisions, desks>>

WebNext ==
    \/ LookUp \/ LookedUp \/ Check \/ Preflighted \/ Discard \/ Back \/ OpensDesk
    \/ BootDemo \/ ResetDemo \/ ClosePage
    \/ Edit \/ Second \/ Flush \/ StoreAnswers \/ StoreFails

-----------------------------------------------------------------------------
\* A change waits for its save no longer than the debounce, whatever else
\* arrives meanwhile.
SavesSoon ==
    page # Missing /\ page.stored /\ page.dirty # {} => second - page.since < SaveDebounce

\* When a desk has nothing to save, no save under way and none that failed,
\* the store holds the last change of each document: none is lost because it
\* was made while an earlier one was being written.
SavedAsShown ==
    page # Missing /\ page.stored /\ (\A i \in DOMAIN requests : requests[i].why # "reset") =>
        \A k \in Kinds \ (page.dirty \union page.failed) :
            LET key == <<page.world, k>> IN
            \/ page.rev[k] = 0
            \/ \E i \in DOMAIN requests : requests[i].op = "put" /\ requests[i].key = key
            \/ docs[key] # Missing /\ docs[key].rev = page.rev[k]

\* A page closed at any moment loses no document it could not read: one
\* leaves its key when the operator discards it or the demo, or once its copy
\* is under ".bak".
SetAside ==
    [][\A key \in DocKeys :
           docs[key] # Missing /\ ~docs[key].good /\ docs'[key] = Missing =>
               bak[key] = docs[key] \/ Head(requests).why \in {"forget", "reset"}]_webVars

\* No change is lost or left waiting on the way from the desk to the store.
ChangesStored == SavesSoon /\ SavedAsShown
=============================================================================
