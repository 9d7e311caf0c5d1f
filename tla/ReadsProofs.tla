---------------------------- MODULE ReadsProofs ------------------------------
(***************************************************************************)
(* Proofs about what is read from a site that changes meanwhile: the polls *)
(* of one event (Tables), the registrations, the seedings and the rosters  *)
(* of gg-admin (Admin).                                                    *)
(***************************************************************************)
EXTENDS Admin, Tables, Inductions

-----------------------------------------------------------------------------
(* The table of an event. *)

(* What a set of the table was before is a set of the table, with its key.  *)
LEMMA BeforeIsKnown ==
    ASSUME NEW set, NEW b \in Before(set)
    PROVE  \E i \in DOMAIN table : table[i] = b /\ b.key = set.key
<1>1. set.key \in KeysOf(table) /\ b = SetOf(table, set.key)
  BY DEF Before
<1>2. PICK i \in DOMAIN table : table[i].key = set.key
  BY <1>1 DEF KeysOf
<1> DEFINE j == CHOOSE i2 \in DOMAIN table : table[i2].key = set.key
<1>3. j \in DOMAIN table /\ table[j].key = set.key
  BY <1>2
<1>4. b = table[j]
  BY <1>1 DEF SetOf
<1> QED
  BY <1>3, <1>4

(* A finished set of the new table is news, or it was finished in the table  *)
(* before.                                                                 *)
LEMMA NewsOrOld ==
    ASSUME NEW sets
    PROVE  Finishes(sets) \subseteq Arrivals(sets) \cup Finishes(table)
<1> SUFFICES ASSUME NEW i \in DOMAIN sets, Completed(sets[i]), sets[i].key \notin Arrivals(sets)
             PROVE  sets[i].key \in Finishes(table)
  BY DEF Finishes
<1>1. ~Newly(sets[i])
  BY DEF Arrivals
<1>2. PICK b \in Before(sets[i]) : Completed(b)
  BY <1>1 DEF Newly
<1>3. PICK k \in DOMAIN table : table[k] = b /\ b.key = sets[i].key
  BY BeforeIsKnown
<1> QED
  BY <1>2, <1>3 DEF Finishes

(* What an overlay and a store look like. *)
IsOverlay(o) ==
    o = [samples |-> o.samples, rest |-> o.rest, called |-> o.called, arrived |-> o.arrived]
ShapeInv ==
    /\ IsOverlay(overlay) /\ IsOverlay(disk.overlay)
    /\ disk = [overlay |-> disk.overlay, table |-> disk.table]
    /\ fetched = [page |-> fetched.page, pages |-> fetched.pages,
                  nodes |-> fetched.nodes, launch |-> fetched.launch]

(* The finishes the saved table shows have arrived in the saved overlay, and *)
(* so have those of a table about to be saved: the overlay goes first.     *)
SavedInv ==
    /\ Finishes(disk.table) \subseteq disk.overlay.arrived \cup found
    /\ disk.overlay.arrived \subseteq overlay.arrived
    /\ saving = {"table"} => Finishes(table) \subseteq disk.overlay.arrived \cup found

(* A launch that is still fetching has no table and nothing to save. *)
LaunchInv == fetched.launch = "yes" => table = <<>> /\ saving = {}

ArrivalInv == ShapeInv /\ SavedInv /\ LaunchInv /\ EveryFinishArrives

(* A crash leaves the last fetch, table and overlay behind. *)
LEMMA ArrivalInit == TablesInit => ArrivalInv
<1> SUFFICES ASSUME TablesInit PROVE ArrivalInv
  OBVIOUS
<1> USE DEF TablesInit
<1>1. ShapeInv
  BY DEF ShapeInv, IsOverlay, NoOverlay, Launching, NoFetch
<1>2. Finishes(<<>>) = {}
  BY DEF Finishes
<1>3. SavedInv /\ LaunchInv /\ EveryFinishArrives
  BY <1>2 DEF SavedInv, LaunchInv, EveryFinishArrives
<1> QED
  BY <1>1, <1>3 DEF ArrivalInv

(* A launch opens what it fetched, which is found, or the saved table. *)
LEMMA OpenedKeeps ==
    ASSUME ArrivalInv, NEW sets, Opened(sets), fetched.launch = "yes", fetched' = NoFetch,
           UNCHANGED <<overlay, disk, saving>>
    PROVE  ArrivalInv'
<1>1. ShapeInv'
  BY DEF ArrivalInv, ShapeInv, IsOverlay, NoFetch
<1>2. LaunchInv'
  BY DEF LaunchInv, NoFetch
<1>3. saving = {}
  BY DEF ArrivalInv, LaunchInv
<1>4. found \subseteq found'
  BY DEF Opened
<1>5. SavedInv'
  BY <1>3, <1>4 DEF ArrivalInv, SavedInv, Finishes, Completed
<1>6. Finishes(table') \subseteq overlay.arrived \cup found'
  BY DEF Opened, ArrivalInv, SavedInv
<1>7. EveryFinishArrives'
  BY <1>6 DEF EveryFinishArrives, Finishes, Completed
<1> QED
  BY <1>1, <1>2, <1>5, <1>7 DEF ArrivalInv

(* A poll: what is new in its table arrives. *)
LEMMA PollKeeps ==
    ASSUME ArrivalInv, NEW nodes, ApplySnapshot(nodes), saving' = {"overlay", "table"}, fetched' = NoFetch,
           UNCHANGED <<disk, found>>
    PROVE  ArrivalInv'
<1> DEFINE live == LiveSets(nodes)
           next == live \o Retained(live)
<1>1. table' = next /\ overlay'.arrived = overlay.arrived \cup Arrivals(next)
  BY Zenon DEF ApplySnapshot
<1>2. IsOverlay(overlay')
  BY DEF ApplySnapshot, IsOverlay
<1> HIDE DEF next
<1>3. ShapeInv'
  BY <1>2 DEF ArrivalInv, ShapeInv, IsOverlay, NoFetch
<1>4. SavedInv'
  BY <1>1 DEF ArrivalInv, SavedInv, Finishes, Completed
<1>5. LaunchInv'
  BY DEF LaunchInv, NoFetch
<1>6. Finishes(next) \subseteq Arrivals(next) \cup Finishes(table)
  BY NewsOrOld
<1>7. Finishes(table') \subseteq overlay'.arrived \cup found'
  BY <1>1, <1>6 DEF ArrivalInv, EveryFinishArrives
<1>8. EveryFinishArrives'
  BY <1>7 DEF EveryFinishArrives, Finishes, Completed
<1> QED
  BY <1>3, <1>4, <1>5, <1>8 DEF ArrivalInv

(* A step that reads no page and saves nothing leaves the finishes alone, one *)
(* of a launched desk also when it changes times of its table.             *)
LEMMA QuietKeeps ==
    ASSUME ArrivalInv, UNCHANGED <<fetched, disk, found>>, Finishes(table') = Finishes(table),
           IsOverlay(overlay'), overlay'.arrived = overlay.arrived,
           \/ UNCHANGED <<table, saving>>
           \/ saving' = saving \cup {"overlay"} /\ fetched.launch # "yes"
    PROVE  ArrivalInv'
<1>1. ShapeInv'
  BY DEF ArrivalInv, ShapeInv, IsOverlay
<1>2. Finishes(table)' = Finishes(table) /\ Finishes(disk.table)' = Finishes(disk.table)
  BY DEF Finishes, Completed
<1>3. SavedInv'
  BY <1>2 DEF ArrivalInv, SavedInv
<1>4. LaunchInv'
  BY DEF ArrivalInv, LaunchInv
<1>5. EveryFinishArrives'
  BY <1>2 DEF ArrivalInv, EveryFinishArrives
<1> QED
  BY <1>1, <1>3, <1>4, <1>5 DEF ArrivalInv

(* An answer to a write of ours changes starts of the table, no finish. *)
LEMMA MergeFinishes ==
    ASSUME MergeAnswer
    PROVE  Finishes(table') = Finishes(table)
<1> DEFINE merged(set) == IF Rewrites(set) THEN [set EXCEPT !.started = answer.started] ELSE set
<1>1. table' = [i \in DOMAIN table |-> merged(table[i])]
  BY DEF MergeAnswer, Each
<1>2. ASSUME NEW set PROVE merged(set).key = set.key /\ (Completed(merged(set)) <=> Completed(set))
  BY DEF Completed
<1> HIDE DEF merged
<1>3. /\ DOMAIN table' = DOMAIN table
      /\ \A i \in DOMAIN table :
            table'[i].key = table[i].key /\ (Completed(table'[i]) <=> Completed(table[i]))
  BY <1>1, <1>2
<1> QED
  BY <1>3 DEF Finishes

LEMMA ArrivalStep == ArrivalInv /\ [TablesNext]_tableVars => ArrivalInv'
<1> SUFFICES ASSUME ArrivalInv, [TablesNext]_tableVars PROVE ArrivalInv'
  OBVIOUS
<1>1. IsOverlay(overlay)
  BY DEF ArrivalInv, ShapeInv
<1>2. ASSUME UNCHANGED <<fetched, table, overlay, disk, saving, found>> PROVE ArrivalInv'
  BY <1>1, <1>2, QuietKeeps DEF IsOverlay
<1>3. ASSUME NEW i, SiteStarts(i) \/ SiteFinishes(i) \/ SiteRevises(i) \/ SiteReplaces(i) \/ SiteMoves(i)
      PROVE  ArrivalInv'
  BY <1>2, <1>3 DEF SiteStarts, SiteFinishes, SiteRevises, SiteReplaces, SiteMoves, Change, ghosts
<1>4. CASE FetchPage
  <2> DEFINE page  == PageOf(served, fetched.page, TRUE)
             pages == IF fetched.page = 1 THEN TotalPages(page) ELSE fetched.pages
             nodes == fetched.nodes \o page.nodes
  <2>1. UNCHANGED disk
    BY <1>4 DEF FetchPage
  <2>2. ASSUME fetched.page < pages PROVE ArrivalInv'
    <3>1. /\ fetched' = [fetched EXCEPT !.page = @ + 1, !.pages = pages, !.nodes = nodes]
          /\ UNCHANGED <<table, overlay, saving, found>>
      BY <1>4, <2>2 DEF FetchPage
    <3> HIDE DEF pages, nodes
    <3>2. /\ fetched'.launch = fetched.launch
          /\ fetched' = [page |-> fetched'.page, pages |-> fetched'.pages,
                         nodes |-> fetched'.nodes, launch |-> fetched'.launch]
      BY <3>1 DEF ArrivalInv, ShapeInv
    <3>3. ShapeInv' /\ LaunchInv'
      BY <2>1, <3>1, <3>2 DEF ArrivalInv, ShapeInv, IsOverlay, LaunchInv
    <3>4. SavedInv' /\ EveryFinishArrives'
      BY <2>1, <3>1 DEF ArrivalInv, SavedInv, EveryFinishArrives, Finishes, Completed
    <3> QED
      BY <3>3, <3>4 DEF ArrivalInv
  <2>3. ASSUME ~(fetched.page < pages), fetched.launch = "yes" PROVE ArrivalInv'
    <3>1. fetched' = NoFetch /\ Opened(LiveSets(nodes)) /\ UNCHANGED <<overlay, saving>>
      BY <1>4, <2>3 DEF FetchPage
    <3> QED
      BY <2>1, <2>3, <3>1, OpenedKeeps
  <2>4. ASSUME ~(fetched.page < pages), fetched.launch # "yes" PROVE ArrivalInv'
    <3>1. fetched' = NoFetch /\ ApplySnapshot(nodes) /\ saving' = {"overlay", "table"} /\ UNCHANGED found
      BY <1>4, <2>4 DEF FetchPage
    <3> QED
      BY <2>1, <3>1, PollKeeps
  <2> QED
    BY <2>2, <2>3, <2>4
<1>5. CASE FetchFails
  <2>1. CASE fetched.launch = "yes"
    BY <1>5, <2>1, OpenedKeeps DEF FetchFails
  <2>2. CASE fetched.launch # "yes"
    <3>1. fetched' = NoFetch /\ UNCHANGED <<table, found, overlay, disk, saving>>
      BY <1>5, <2>2 DEF FetchFails
    <3>2. ShapeInv' /\ LaunchInv'
      BY <3>1 DEF ArrivalInv, ShapeInv, IsOverlay, LaunchInv, NoFetch
    <3>3. SavedInv' /\ EveryFinishArrives'
      BY <3>1 DEF ArrivalInv, SavedInv, EveryFinishArrives, Finishes, Completed
    <3> QED
      BY <3>2, <3>3 DEF ArrivalInv
  <2> QED
    BY <2>1, <2>2
<1>6. CASE DeskCalls
  <2>1. PICK i \in DOMAIN table :
            overlay' = [overlay EXCEPT !.called = With(@, table[i].key, clock)]
    BY <1>6 DEF DeskCalls
  <2>2. overlay' = [overlay EXCEPT !.called = With(overlay.called, table[i].key, clock)]
    BY <2>1
  <2>3. IsOverlay(overlay') /\ overlay'.arrived = overlay.arrived
    BY <1>1, <2>2 DEF IsOverlay
  <2>4. fetched.launch # "yes"
    BY <2>1 DEF ArrivalInv, LaunchInv
  <2> QED
    BY <1>6, <2>3, <2>4, QuietKeeps DEF DeskCalls, ghosts
<1>7. CASE SaveOverlay
  <2>1. /\ "overlay" \in saving /\ fetched.launch # "yes"
        /\ disk' = [disk EXCEPT !.overlay = overlay]
        /\ UNCHANGED <<fetched, table, overlay, found>>
    BY <1>7 DEF SaveOverlay, ArrivalInv, LaunchInv, ghosts
  <2>2. disk' = [overlay |-> overlay, table |-> disk.table]
    BY <2>1 DEF ArrivalInv, ShapeInv
  <2>3. ShapeInv' /\ LaunchInv'
    BY <2>1, <2>2 DEF ArrivalInv, ShapeInv, IsOverlay, LaunchInv
  <2>4. SavedInv' /\ EveryFinishArrives'
    BY <2>1, <2>2 DEF ArrivalInv, SavedInv, EveryFinishArrives, Finishes, Completed
  <2> QED
    BY <2>3, <2>4 DEF ArrivalInv
<1>8. CASE SaveTable
  <2>1. /\ saving = {"table"} /\ saving' = {}
        /\ disk' = [disk EXCEPT !.table = table]
        /\ UNCHANGED <<fetched, table, overlay, found>>
    BY <1>8 DEF SaveTable, ghosts
  <2>2. disk' = [overlay |-> disk.overlay, table |-> table]
    BY <2>1 DEF ArrivalInv, ShapeInv
  <2>3. ShapeInv' /\ LaunchInv'
    BY <2>1, <2>2 DEF ArrivalInv, ShapeInv, IsOverlay, LaunchInv
  <2>4. SavedInv' /\ EveryFinishArrives'
    BY <2>1, <2>2 DEF ArrivalInv, SavedInv, EveryFinishArrives, Finishes, Completed
  <2> QED
    BY <2>3, <2>4 DEF ArrivalInv
<1>9. CASE Relaunch
  <2>1. /\ fetched' = Launching /\ table' = <<>> /\ overlay' = disk.overlay
        /\ saving' = {} /\ UNCHANGED <<disk, found>>
    BY <1>9 DEF Relaunch, ghosts
  <2>2. ShapeInv' /\ LaunchInv'
    BY <2>1 DEF ArrivalInv, ShapeInv, IsOverlay, LaunchInv, Launching, NoFetch
  <2>3. Finishes(table') = {}
    BY <2>1 DEF Finishes
  <2>4. SavedInv' /\ EveryFinishArrives'
    BY <2>1, <2>3 DEF ArrivalInv, SavedInv, EveryFinishArrives, Finishes, Completed
  <2> QED
    BY <2>2, <2>4 DEF ArrivalInv
<1>10. CASE TimePasses
  BY <1>2, <1>10 DEF TimePasses, ghosts
<1>11. ASSUME NEW i, SiteAnswers(i) PROVE ArrivalInv'
  BY <1>2, <1>11 DEF SiteAnswers, ghosts
<1>12. CASE MergeAnswer
  BY <1>1, <1>12, MergeFinishes, QuietKeeps DEF MergeAnswer, IsOverlay
<1>13. CASE UNCHANGED tableVars
  BY <1>2, <1>13 DEF tableVars, ghosts
<1> QED
  BY <1>3, <1>4, <1>5, <1>6, <1>7, <1>8, <1>9, <1>10, <1>11, <1>12, <1>13 DEF TablesNext

(* Every finish the table shows has arrived, for every site, every order of  *)
(* its changes and the polls, every page size and every crash.             *)
THEOREM FinishesArrive == TablesSpec => []EveryFinishArrives
<1>1. ArrivalInv => EveryFinishArrives
  BY DEF ArrivalInv
<1> QED
  BY ArrivalInit, ArrivalStep, <1>1, PTL DEF TablesSpec
-----------------------------------------------------------------------------
(* A registration of gg-admin. *)

(* Account i of the plan is entered in every event planned for it. *)
LandedAt(w, i, l) == \A e \in ToSet(w.plan[i].events) : <<w.plan[i].user, e>> \in l
AllLanded(w, l)   == \A i \in DOMAIN w.plan : LandedAt(w, i, l)

(* Where a command may go after a read, and after the pool file is saved. *)
AfterRead == {"pool", "fetched", "done", "entered", "placed", "order", "compare", "verify", "found"}
AfterSave == {"done", "caching", "finding"}

(* The fields of a command's records. *)
FieldsInv(w, r) ==
    /\ DOMAIN w = DOMAIN NoWork /\ DOMAIN r = DOMAIN NoRead
    /\ w.next \in Nat /\ w.failures \in Nat /\ w.wrote \in {"yes", "no"}
    /\ \A i \in DOMAIN w.plan : i \in Nat \ {0}
    /\ r.then \in AfterRead /\ w.then \in AfterSave

(* While it registers and no registration has failed, the accounts before    *)
(* the next one are entered; while it reads the events again, all are.     *)
PlanInv(at, w, r, l) ==
    /\ at = "write" => w.plan = <<>>
    /\ at \in {"generate", "redeem"} /\ w.failures = 0 =>
         \A i \in DOMAIN w.plan : i < w.next => LandedAt(w, i, l)
    /\ (at = "verify" \/ (at = "reading" /\ r.then = "verify")) /\ w.failures = 0 => AllLanded(w, l)

(* What has been written: a phase, without a plan, or a plan that landed. *)
WroteInv(at, w, l) ==
    w.wrote = "yes" =>
        /\ at \in {"structure", "done", "failed"}
        /\ at = "structure" => w.plan = <<>>
        /\ at = "done" /\ w.plan # <<>> => AllLanded(w, l)

CommandInv(at, w, r, l) == FieldsInv(w, r) /\ PlanInv(at, w, r, l) /\ WroteInv(at, w, l)

RegisterInv ==
    /\ pc = [p \in Processes |-> pc[p]]
    /\ work = [p \in Processes |-> work[p]] /\ read = [p \in Processes |-> read[p]]
    /\ \A p \in Processes : CommandInv(pc[p], work[p], read[p], landed)

LEMMA RegisterInit == Init => RegisterInv
<1> SUFFICES ASSUME Init PROVE RegisterInv
  OBVIOUS
<1>1. /\ pc = [p \in Processes |-> "idle"] /\ work = [p \in Processes |-> NoWork]
      /\ read = [p \in Processes |-> NoRead]
  BY DEF Init
<1>2. FieldsInv(NoWork, NoRead)
  BY DEF FieldsInv, NoWork, NoRead, AfterRead, AfterSave
<1>3. PlanInv("idle", NoWork, NoRead, landed) /\ WroteInv("idle", NoWork, landed)
  BY DEF PlanInv, WroteInv, NoWork, NoRead
<1> QED
  BY <1>1, <1>2, <1>3 DEF RegisterInv, CommandInv

(* What is entered stays entered. *)
LEMMA MoreLanded ==
    ASSUME NEW at, NEW w, NEW r, NEW l, NEW l2, l \subseteq l2, CommandInv(at, w, r, l)
    PROVE  CommandInv(at, w, r, l2)
<1>1. \A i : LandedAt(w, i, l) => LandedAt(w, i, l2)
  BY DEF LandedAt
<1>2. AllLanded(w, l) => AllLanded(w, l2)
  BY <1>1 DEF AllLanded
<1> QED
  BY <1>1, <1>2 DEF CommandInv, PlanInv, WroteInv

(* Places where nothing is being registered. *)
Plain(at, r) ==
    /\ at \notin {"write", "generate", "redeem", "verify"}
    /\ at = "reading" => r.then # "verify"

(* A command that has written nothing moves on, its plan as it was or new. *)
LEMMA MovesOn ==
    ASSUME NEW at, NEW w, NEW r, NEW l, NEW w2, FieldsInv(w2, r),
           w2.wrote = "no", Plain(at, r)
    PROVE  CommandInv(at, w2, r, l)
BY DEF CommandInv, PlanInv, WroteInv, Plain

(* Only structure, done and failed know of anything written. *)
LEMMA NotYetWritten ==
    ASSUME NEW at, NEW w, NEW r, NEW l, CommandInv(at, w, r, l),
           at \notin {"structure", "done", "failed"}
    PROVE  w.wrote = "no"
BY DEF CommandInv, WroteInv, FieldsInv

(* A step of one process disturbs no other. *)
LEMMA OneMoves ==
    ASSUME RegisterInv, NEW p \in Processes, NEW at, NEW w, NEW r,
           pc' = [pc EXCEPT ![p] = at], work' = [work EXCEPT ![p] = w],
           read' = [read EXCEPT ![p] = r], landed \subseteq landed',
           CommandInv(at, w, r, landed')
    PROVE  RegisterInv'
<1>1. /\ pc' = [q \in Processes |-> pc'[q]]
      /\ work' = [q \in Processes |-> work'[q]] /\ read' = [q \in Processes |-> read'[q]]
  BY DEF RegisterInv
<1>2. pc'[p] = at /\ work'[p] = w /\ read'[p] = r
  BY DEF RegisterInv
<1>3. ASSUME NEW q \in Processes, q # p
      PROVE  CommandInv(pc'[q], work'[q], read'[q], landed')
  <2>1. pc'[q] = pc[q] /\ work'[q] = work[q] /\ read'[q] = read[q]
    BY <1>3 DEF RegisterInv
  <2>2. CommandInv(pc[q], work[q], read[q], landed)
    BY DEF RegisterInv
  <2>3. CommandInv(pc[q], work[q], read[q], landed')
    BY <2>2, MoreLanded
  <2> QED
    BY <2>1, <2>3
<1>4. \A q \in Processes : CommandInv(pc'[q], work'[q], read'[q], landed')
  BY <1>2, <1>3
<1> QED
  BY <1>1, <1>4 DEF RegisterInv

(* A step that plans nothing, registers nothing and writes nothing. *)
LEMMA QuietStep ==
    ASSUME RegisterInv, NEW p \in Processes, NEW at, NEW w, NEW r,
           pc' = [pc EXCEPT ![p] = at], work' = [work EXCEPT ![p] = w],
           read' = [read EXCEPT ![p] = r], landed \subseteq landed',
           pc[p] \notin {"structure", "done", "failed"}, Plain(at, r),
           DOMAIN w = DOMAIN work[p], w.next \in Nat, w.then \in AfterSave,
           w.failures = work[p].failures, w.wrote = work[p].wrote, w.plan = work[p].plan,
           DOMAIN r = DOMAIN read[p], r.then \in AfterRead
    PROVE  RegisterInv'
<1>1. CommandInv(pc[p], work[p], read[p], landed)
  BY DEF RegisterInv
<1>2. w.wrote = "no"
  BY <1>1, NotYetWritten
<1>3. FieldsInv(w, r)
  BY <1>1 DEF CommandInv, FieldsInv
<1>4. CommandInv(at, w, r, landed')
  BY <1>2, <1>3, MovesOn
<1> QED
  BY <1>4, OneMoves

(* The fields of a process, and what leaving them alone comes to. *)
LEMMA FieldsHold ==
    ASSUME RegisterInv, NEW p \in Processes
    PROVE  /\ DOMAIN work[p] = DOMAIN NoWork /\ DOMAIN read[p] = DOMAIN NoRead
           /\ work[p].next \in Nat /\ work[p].failures \in Nat
           /\ work[p].wrote \in {"yes", "no"}
           /\ work[p].then \in AfterSave /\ read[p].then \in AfterRead
           /\ \A i \in DOMAIN work[p].plan : i \in Nat \ {0}
           /\ work = [work EXCEPT ![p] = work[p]] /\ read = [read EXCEPT ![p] = read[p]]
<1>1. CommandInv(pc[p], work[p], read[p], landed)
  BY DEF RegisterInv
<1>2. work = [work EXCEPT ![p] = work[p]] /\ read = [read EXCEPT ![p] = read[p]]
  BY DEF RegisterInv
<1> QED
  BY <1>1, <1>2 DEF CommandInv, FieldsInv

(* A command goes on, ends or fails with nothing changed. *)
LEMMA Walks ==
    ASSUME RegisterInv, NEW p \in Processes, NEW at, Goto(p, at),
           UNCHANGED <<work, read>>, landed \subseteq landed',
           pc[p] \notin {"structure", "done", "failed"},
           at \notin {"write", "generate", "redeem", "verify", "reading"}
    PROVE  RegisterInv'
<1>1. work' = [work EXCEPT ![p] = work[p]] /\ read' = [read EXCEPT ![p] = read[p]]
  BY FieldsHold
<1>2. Plain(at, read[p])
  BY DEF Plain
<1>3. pc' = [pc EXCEPT ![p] = at]
  BY DEF Goto
<1> QED
  BY <1>1, <1>2, <1>3, FieldsHold, QuietStep

(* It goes on with something noted that is not the plan. *)
LEMMA Notes ==
    ASSUME RegisterInv, NEW p \in Processes, NEW at, Goto(p, at),
           NEW w, work' = [work EXCEPT ![p] = w], UNCHANGED read, landed \subseteq landed',
           pc[p] \notin {"structure", "done", "failed"},
           at \notin {"write", "generate", "redeem", "verify", "reading"},
           DOMAIN w = DOMAIN work[p], w.next \in Nat, w.then \in AfterSave,
           w.failures = work[p].failures, w.wrote = work[p].wrote, w.plan = work[p].plan
    PROVE  RegisterInv'
<1>1. read' = [read EXCEPT ![p] = read[p]]
  BY FieldsHold
<1>2. Plain(at, read[p])
  BY DEF Plain
<1>3. pc' = [pc EXCEPT ![p] = at]
  BY DEF Goto
<1> QED
  BY <1>1, <1>2, <1>3, FieldsHold, QuietStep

(* It asks for a list, with something noted. *)
LEMMA Asks ==
    ASSUME RegisterInv, NEW p \in Processes, NEW what, NEW then \in AfterRead \ {"verify"},
           Ask(p, what, then), NEW w, work' = [work EXCEPT ![p] = w], landed \subseteq landed',
           pc[p] \notin {"structure", "done", "failed"},
           DOMAIN w = DOMAIN work[p], w.next \in Nat, w.then \in AfterSave,
           w.failures = work[p].failures, w.wrote = work[p].wrote, w.plan = work[p].plan
    PROVE  RegisterInv'
<1> DEFINE r == [NoRead EXCEPT !.what = what, !.then = then]
<1>1. read' = [read EXCEPT ![p] = r] /\ pc' = [pc EXCEPT ![p] = "reading"]
  BY DEF Ask, Goto
<1>2. DOMAIN r = DOMAIN NoRead /\ r.then = then
  BY DEF NoRead
<1> HIDE DEF r
<1>3. Plain("reading", r)
  BY <1>2 DEF Plain
<1> QED
  BY <1>1, <1>2, <1>3, FieldsHold, QuietStep

(* ... and with nothing noted. *)
LEMMA AsksOnly ==
    ASSUME RegisterInv, NEW p \in Processes, NEW what, NEW then \in AfterRead \ {"verify"},
           Ask(p, what, then), UNCHANGED work, landed \subseteq landed',
           pc[p] \notin {"structure", "done", "failed"}
    PROVE  RegisterInv'
<1>1. work' = [work EXCEPT ![p] = work[p]]
  BY FieldsHold
<1> QED
  BY <1>1, FieldsHold, Asks

(* The pool file is about to be saved. *)
LEMMA Saves ==
    ASSUME RegisterInv, NEW p \in Processes, NEW file, NEW then \in AfterSave,
           Save(p, file, then), UNCHANGED read, landed \subseteq landed',
           pc[p] \notin {"structure", "done", "failed"}
    PROVE  RegisterInv'
<1> DEFINE w == [work[p] EXCEPT !.file = file, !.then = then]
<1>1. work' = [work EXCEPT ![p] = w] /\ Goto(p, "saving")
  BY DEF Save
<1>2. /\ DOMAIN w = DOMAIN work[p] /\ w.next = work[p].next /\ w.then = then
      /\ w.failures = work[p].failures /\ w.wrote = work[p].wrote /\ w.plan = work[p].plan
  BY FieldsHold DEF NoWork
<1>3. w.next \in Nat
  BY <1>2, FieldsHold
<1>4. "saving" \notin {"write", "generate", "redeem", "verify", "reading"}
  OBVIOUS
<1> HIDE DEF w
<1> QED
  BY <1>1, <1>2, <1>3, <1>4, Notes

LEMMA Remembers ==
    ASSUME RegisterInv, NEW p \in Processes, NEW t, NEW then \in AfterSave,
           Remember(p, t, then), UNCHANGED read, landed \subseteq landed',
           pc[p] \notin {"structure", "done", "failed"}
    PROVE  RegisterInv'
<1>1. CASE \E file : Save(p, file, then)
  BY <1>1, Saves
<1>2. CASE Goto(p, then) /\ UNCHANGED work
  BY <1>2, Walks DEF AfterSave
<1> QED
  BY <1>1, <1>2 DEF Remember

(* Changing a field the invariant does not speak of. *)
Untold == {"event", "phase", "targets", "candidates", "entered", "order", "ids", "phases",
           "file", "slugs", "rows", "shown", "said"}
LEMMA Notable ==
    ASSUME RegisterInv, NEW p \in Processes, NEW w,
           DOMAIN w = DOMAIN work[p],
           \A f \in DOMAIN w \ Untold : w[f] = work[p][f]
    PROVE  /\ w.next \in Nat /\ w.then \in AfterSave
           /\ w.failures = work[p].failures /\ w.wrote = work[p].wrote /\ w.plan = work[p].plan
BY FieldsHold DEF NoWork, Untold

-----------------------------------------------------------------------------
(* The steps of a command that registers nothing. *)

LEMMA BeginKeeps == ASSUME RegisterInv, NEW p \in Processes, Begin(p) PROVE RegisterInv'
<1> DEFINE c == job[p]
<1>1. UNCHANGED landed /\ pc[p] \notin {"structure", "done", "failed"}
  BY DEF Begin, At
<1>2. \/ \E at \in {"failed", "pool"} : Goto(p, at) /\ UNCHANGED <<read, work>>
      \/ /\ work' = [work EXCEPT ![p].slugs = AddedAll(pool.list, c.extra)]
         /\ Goto(p, IF c.extra = <<>> THEN "finding" ELSE "extra") /\ UNCHANGED read
      \/ \E what : \E then \in {"pool", "fetched"} : Ask(p, what, then) /\ UNCHANGED work
  BY DEF Begin, Fail
<1>3. ASSUME NEW at \in {"failed", "pool"}, Goto(p, at), UNCHANGED <<read, work>>
      PROVE  RegisterInv'
  BY <1>1, <1>3, Walks
<1>4. ASSUME NEW list, work' = [work EXCEPT ![p].slugs = list],
             NEW at \in {"finding", "extra"}, Goto(p, at), UNCHANGED read
      PROVE  RegisterInv'
  <2> DEFINE w == [work[p] EXCEPT !.slugs = list]
  <2>1. work' = [work EXCEPT ![p] = w]
    BY <1>4
  <2>2. DOMAIN w = DOMAIN work[p] /\ \A f \in DOMAIN w \ Untold : w[f] = work[p][f]
    BY FieldsHold DEF NoWork, Untold
  <2> HIDE DEF w
  <2>3. /\ w.next \in Nat /\ w.then \in AfterSave
        /\ w.failures = work[p].failures /\ w.wrote = work[p].wrote /\ w.plan = work[p].plan
    BY <2>2, Notable
  <2>4. at \notin {"write", "generate", "redeem", "verify", "reading"}
    OBVIOUS
  <2> QED
    BY <1>1, <1>4, <2>1, <2>2, <2>3, <2>4, Notes
<1>5. ASSUME NEW what, NEW then \in {"pool", "fetched"}, Ask(p, what, then), UNCHANGED work
      PROVE  RegisterInv'
  <2>1. then \in AfterRead \ {"verify"}
    BY DEF AfterRead
  <2> QED
    BY <1>1, <1>5, <2>1, AsksOnly
<1> QED
  BY <1>2, <1>3, <1>4, <1>5

(* Whatever is read is kept for what asked for it. *)
LEMMA ReadPageKeeps == ASSUME RegisterInv, NEW p \in Processes, ReadPage(p) PROVE RegisterInv'
<1> DEFINE r     == read[p]
           page  == PageOf(Nodes(r.what), r.page, r.what[1] # "owned")
           pages == IF r.page = 1 THEN TotalPages(page) ELSE r.pages
           more  == r.got \o Converted(r.what, page.nodes)
           r2    == [r EXCEPT !.got = more, !.page = r.page + 1, !.pages = pages]
           at    == IF r.page >= pages THEN r.then ELSE "reading"
<1>1. /\ read' = [read EXCEPT ![p] = r2] /\ pc' = [pc EXCEPT ![p] = at]
      /\ UNCHANGED <<work, landed>> /\ pc[p] = "reading"
  BY DEF ReadPage, At, Goto
<1>2. CommandInv("reading", work[p], r, landed)
  BY <1>1 DEF RegisterInv
<1>3. at \in {r.then, "reading"}
  OBVIOUS
<1>4. DOMAIN r2 = DOMAIN NoRead /\ r2.then = r.then
  BY FieldsHold DEF NoRead
<1> HIDE DEF at, r2, pages, page, more
<1>5. FieldsInv(work[p], r2) /\ r.then \in AfterRead
  BY <1>2, <1>4 DEF CommandInv, FieldsInv
<1>6. PlanInv(at, work[p], r2, landed)
  BY <1>2, <1>3, <1>4, <1>5 DEF CommandInv, PlanInv, AfterRead
<1>7. work[p].wrote = "no"
  BY <1>2, NotYetWritten
<1>8. CommandInv(at, work[p], r2, landed')
  BY <1>1, <1>5, <1>6, <1>7 DEF CommandInv, WroteInv
<1>9. work' = [work EXCEPT ![p] = work[p]]
  BY <1>1, FieldsHold
<1> QED
  BY <1>1, <1>8, <1>9, OneMoves

LEMMA ReadFailsKeeps == ASSUME RegisterInv, NEW p \in Processes, ReadFails(p) PROVE RegisterInv'
<1>1. UNCHANGED <<read, landed>> /\ pc[p] \notin {"structure", "done", "failed"}
  BY DEF ReadFails, At
<1>2. CASE job[p].do = "find"
  <2> DEFINE w == [work[p] EXCEPT !.next = work[p].next + 1]
  <2>1. work' = [work EXCEPT ![p] = w] /\ Goto(p, "finding")
    BY <1>2 DEF ReadFails
  <2>2. /\ DOMAIN w = DOMAIN work[p] /\ w.next = work[p].next + 1 /\ w.then = work[p].then
        /\ w.failures = work[p].failures /\ w.wrote = work[p].wrote /\ w.plan = work[p].plan
    BY FieldsHold DEF NoWork
  <2> HIDE DEF w
  <2>3. w.next \in Nat /\ w.then \in AfterSave
    BY <2>2, FieldsHold
  <2>4. "finding" \notin {"write", "generate", "redeem", "verify", "reading"}
    OBVIOUS
  <2> QED
    BY <1>1, <2>1, <2>2, <2>3, <2>4, Notes
<1>3. CASE job[p].do # "find"
  BY <1>1, <1>3, Walks DEF ReadFails, Fail
<1> QED
  BY <1>2, <1>3

(* The pool file. *)
LEMMA FileKeeps ==
    ASSUME RegisterInv, NEW p \in Processes,
           Truncate(p) \/ Rewrite(p) \/ Interrupted(p) \/ SaveFails(p)
    PROVE  RegisterInv'
<1>1. /\ UNCHANGED <<read, work, landed>> /\ pc[p] \notin {"structure", "done", "failed"}
      /\ \E at \in {"rewriting", "failed", work[p].then} : Goto(p, at)
  BY DEF Truncate, Rewrite, Interrupted, SaveFails, At, Fail
<1>2. \A at \in {"rewriting", "failed", work[p].then} :
          at \notin {"write", "generate", "redeem", "verify", "reading"}
  BY FieldsHold DEF AfterSave
<1> QED
  BY <1>1, <1>2, Walks

LEMMA PoolCommandKeeps == ASSUME RegisterInv, NEW p \in Processes, PoolCommand(p) PROVE RegisterInv'
<1>1. UNCHANGED <<read, landed>> /\ pc[p] \notin {"structure", "done", "failed"}
  BY DEF PoolCommand, At
<1>2. \/ \E at \in {"failed", "done"} : Goto(p, at) /\ UNCHANGED work
      \/ \E file : Save(p, file, "done")
  BY DEF PoolCommand, Fail
<1>3. ASSUME NEW at \in {"failed", "done"}, Goto(p, at), UNCHANGED work PROVE RegisterInv'
  BY <1>1, <1>3, Walks
<1>4. ASSUME NEW file, Save(p, file, "done") PROVE RegisterInv'
  BY <1>1, <1>4, Saves DEF AfterSave
<1> QED
  BY <1>2, <1>3, <1>4

LEMMA RememberKeeps ==
    ASSUME RegisterInv, NEW p \in Processes, Fetched(p) \/ Extra(p)
    PROVE  RegisterInv'
<1>1. UNCHANGED <<read, landed>> /\ pc[p] \notin {"structure", "done", "failed"}
  BY DEF Fetched, Extra, At
<1>2. \E t : Remember(p, t, "caching") \/ Remember(p, t, "finding")
  BY DEF Fetched, Extra
<1>3. {"caching", "finding"} \subseteq AfterSave
  BY DEF AfterSave
<1> QED
  BY <1>1, <1>2, <1>3, Remembers

LEMMA Marks ==
    ASSUME RegisterInv, NEW p \in Processes, NEW at, Goto(p, at),
           NEW w, work' = [work EXCEPT ![p] = w], UNCHANGED read, landed \subseteq landed',
           pc[p] \notin {"structure", "done", "failed"},
           at \notin {"write", "generate", "redeem", "verify", "reading"},
           DOMAIN w = DOMAIN work[p],
           \A f \in DOMAIN w \ Untold : w[f] = work[p][f]
    PROVE  RegisterInv'
BY Notable, Notes

LEMMA AsksMarked ==
    ASSUME RegisterInv, NEW p \in Processes, NEW what, NEW then \in AfterRead \ {"verify"},
           Ask(p, what, then), NEW w, work' = [work EXCEPT ![p] = w], landed \subseteq landed',
           pc[p] \notin {"structure", "done", "failed"},
           DOMAIN w = DOMAIN work[p],
           \A f \in DOMAIN w \ Untold : w[f] = work[p][f]
    PROVE  RegisterInv'
BY Notable, Asks

(* Where a command goes with its roster. *)
GoesOn(p) ==
    \/ \E at \in {"failed", "done"} : Goto(p, at) /\ UNCHANGED <<read, work>>
    \/ \E x, y, what : /\ work' = [work EXCEPT ![p].targets = x, ![p].candidates = y]
                       /\ Ask(p, what, "entered")
    \/ \E what : Ask(p, what, "done") /\ UNCHANGED work
    \/ \E x, what : work' = [work EXCEPT ![p].targets = x] /\ Ask(p, what, "placed")
    \/ \E x : /\ work' = [work EXCEPT ![p].event = x]
              /\ \E at \in {"create", "structure"} : Goto(p, at)
              /\ UNCHANGED read

LEMMA CachingGoesOn == ASSUME NEW p \in Processes, AfterCaching(p) PROVE GoesOn(p)
<1> DEFINE c       == job[p]
           targets == [i \in DOMAIN c.events |-> PickNamed(Events, c.events[i])]
           found1  == [i \in DOMAIN c.queries |-> PickParticipant(read[p].got, c.queries[i])]
           named   == [i \in DOMAIN found1 |-> found1[i].user]
           event   == targets[1].id
           Unknown == \E i \in DOMAIN targets : targets[i] = Null
           Nobody  == \E i \in DOMAIN found1 :
                          found1[i] = Null \/ (found1[i] # Null /\ found1[i].user = Null)
           ids     == Each(targets, LAMBDA e : e.id)
<1>1. IF Unknown THEN Fail(p) /\ UNCHANGED <<read, work>>
      ELSE CASE c.do = "roster" -> Goto(p, "done") /\ UNCHANGED <<read, work>>
             [] c.do = "add" ->
                  IF Nobody THEN Fail(p) /\ UNCHANGED <<read, work>>
                  ELSE /\ work' = [work EXCEPT ![p].targets = ids,
                                               ![p].candidates = c.accounts \o named]
                       /\ Ask(p, <<"entrants", event>>, "entered")
             [] c.do = "standings" ->
                  Ask(p, <<"standings", event>>, "done") /\ UNCHANGED work
             [] c.do = "redemption" ->
                  IF targets[2].id = event THEN Fail(p) /\ UNCHANGED <<read, work>>
                  ELSE /\ work' = [work EXCEPT ![p].targets = <<targets[2].id>>]
                       /\ Ask(p, <<"standings", event>>, "placed")
             [] OTHER ->
                  /\ work' = [work EXCEPT ![p].event = event]
                  /\ Goto(p, IF c.do = "create" THEN "create" ELSE "structure")
                  /\ UNCHANGED read
  BY Zenon DEF AfterCaching
<1> HIDE DEF targets, named, event, Unknown, Nobody, ids
<1>2. CASE Unknown
  BY <1>1, <1>2 DEF GoesOn, Fail
<1>3. CASE ~Unknown /\ c.do = "roster"
  BY <1>1, <1>3 DEF GoesOn
<1>4. CASE ~Unknown /\ c.do = "add"
  <2>1. IF Nobody THEN Fail(p) /\ UNCHANGED <<read, work>>
        ELSE /\ work' = [work EXCEPT ![p].targets = ids, ![p].candidates = c.accounts \o named]
             /\ Ask(p, <<"entrants", event>>, "entered")
    BY <1>1, <1>4
  <2> QED
    BY <2>1, Zenon DEF GoesOn, Fail
<1>5. CASE ~Unknown /\ c.do = "standings"
  BY <1>1, <1>5 DEF GoesOn
<1>6. CASE ~Unknown /\ c.do = "redemption"
  BY <1>1, <1>6 DEF GoesOn, Fail
<1>7. CASE ~Unknown /\ c.do \notin {"roster", "add", "standings", "redemption"}
  BY <1>1, <1>7 DEF GoesOn
<1> QED
  BY <1>2, <1>3, <1>4, <1>5, <1>6, <1>7

LEMMA CacheRosterKeeps == ASSUME RegisterInv, NEW p \in Processes, CacheRoster(p) PROVE RegisterInv'
<1>1. UNCHANGED landed /\ pc[p] \notin {"structure", "done", "failed"} /\ AfterCaching(p)
  BY DEF CacheRoster, At
<1>2. GoesOn(p)
  BY <1>1, CachingGoesOn
<1>3. ASSUME NEW at \in {"failed", "done"}, Goto(p, at), UNCHANGED <<read, work>>
      PROVE  RegisterInv'
  BY <1>1, <1>3, Walks
<1>4. ASSUME NEW x, NEW y, NEW what, Ask(p, what, "entered"),
             work' = [work EXCEPT ![p].targets = x, ![p].candidates = y]
      PROVE  RegisterInv'
  <2> DEFINE w == [work[p] EXCEPT !.targets = x, !.candidates = y]
  <2>1. work' = [work EXCEPT ![p] = w]
    BY <1>4
  <2>2. DOMAIN w = DOMAIN work[p] /\ \A f \in DOMAIN w \ Untold : w[f] = work[p][f]
    BY FieldsHold DEF NoWork, Untold
  <2> HIDE DEF w
  <2>3. "entered" \in AfterRead \ {"verify"}
    BY DEF AfterRead
  <2> QED
    BY <1>1, <1>4, <2>1, <2>2, <2>3, AsksMarked
<1>5. ASSUME NEW what, Ask(p, what, "done"), UNCHANGED work PROVE RegisterInv'
  <2>1. "done" \in AfterRead \ {"verify"}
    BY DEF AfterRead
  <2> QED
    BY <1>1, <1>5, <2>1, AsksOnly
<1>6. ASSUME NEW x, NEW what, Ask(p, what, "placed"), work' = [work EXCEPT ![p].targets = x]
      PROVE  RegisterInv'
  <2> DEFINE w == [work[p] EXCEPT !.targets = x]
  <2>1. work' = [work EXCEPT ![p] = w]
    BY <1>6
  <2>2. DOMAIN w = DOMAIN work[p] /\ \A f \in DOMAIN w \ Untold : w[f] = work[p][f]
    BY FieldsHold DEF NoWork, Untold
  <2> HIDE DEF w
  <2>3. "placed" \in AfterRead \ {"verify"}
    BY DEF AfterRead
  <2> QED
    BY <1>1, <1>6, <2>1, <2>2, <2>3, AsksMarked
<1>7. ASSUME NEW x, work' = [work EXCEPT ![p].event = x],
             NEW at \in {"create", "structure"}, Goto(p, at), UNCHANGED read
      PROVE  RegisterInv'
  <2> DEFINE w == [work[p] EXCEPT !.event = x]
  <2>1. work' = [work EXCEPT ![p] = w]
    BY <1>7
  <2>2. DOMAIN w = DOMAIN work[p] /\ \A f \in DOMAIN w \ Untold : w[f] = work[p][f]
    BY FieldsHold DEF NoWork, Untold
  <2> HIDE DEF w
  <2>3. at \notin {"write", "generate", "redeem", "verify", "reading"}
    OBVIOUS
  <2>4. Goto(p, at) /\ UNCHANGED read /\ landed \subseteq landed'
    BY <1>1, <1>7
  <2>5. pc[p] \notin {"structure", "done", "failed"}
    BY <1>1
  <2> HIDE DEF RegisterInv, Goto
  <2> QED
    BY <2>1, <2>2, <2>3, <2>4, <2>5, Marks
<1> QED
  BY <1>2, <1>3, <1>4, <1>5, <1>6, <1>7 DEF GoesOn

LEMMA CreateKeeps == ASSUME RegisterInv, NEW p \in Processes, Create(p) PROVE RegisterInv'
<1>1. /\ UNCHANGED <<read, work, landed>> /\ pc[p] \notin {"structure", "done", "failed"}
      /\ Goto(p, "structure")
  BY DEF Create, At
<1> QED
  BY <1>1, Walks

LEMMA OrderKeeps == ASSUME RegisterInv, NEW p \in Processes, Order(p) PROVE RegisterInv'
<1>1. UNCHANGED <<read, landed>> /\ pc[p] \notin {"structure", "done", "failed"}
  BY DEF Order, At
<1>2. \/ Goto(p, "failed") /\ UNCHANGED work
      \/ (\E x : work' = [work EXCEPT ![p].ids = x]) /\ Goto(p, "confirm")
  BY DEF Order, Fail
<1>3. CASE Goto(p, "failed") /\ UNCHANGED work
  BY <1>1, <1>3, Walks
<1>4. ASSUME NEW x, work' = [work EXCEPT ![p].ids = x], Goto(p, "confirm") PROVE RegisterInv'
  <2> DEFINE w == [work[p] EXCEPT !.ids = x]
  <2>1. work' = [work EXCEPT ![p] = w]
    BY <1>4
  <2>2. DOMAIN w = DOMAIN work[p] /\ \A f \in DOMAIN w \ Untold : w[f] = work[p][f]
    BY FieldsHold DEF NoWork, Untold
  <2> HIDE DEF w
  <2>3. "confirm" \notin {"write", "generate", "redeem", "verify", "reading"}
    OBVIOUS
  <2> QED
    BY <1>1, <1>4, <2>1, <2>2, <2>3, Marks
<1> QED
  BY <1>2, <1>3, <1>4

LEMMA CompareKeeps == ASSUME RegisterInv, NEW p \in Processes, Compare(p) PROVE RegisterInv'
<1>1. /\ UNCHANGED <<read, landed>> /\ pc[p] \notin {"structure", "done", "failed"}
      /\ Goto(p, "done") /\ \E x : work' = [work EXCEPT ![p].said = x]
  BY DEF Compare, At
<1>2. PICK x : work' = [work EXCEPT ![p].said = x]
  BY <1>1
<1> DEFINE w == [work[p] EXCEPT !.said = x]
<1>3. work' = [work EXCEPT ![p] = w]
  BY <1>2
<1>4. DOMAIN w = DOMAIN work[p] /\ \A f \in DOMAIN w \ Untold : w[f] = work[p][f]
  BY FieldsHold DEF NoWork, Untold
<1> HIDE DEF w
<1>5. "done" \notin {"write", "generate", "redeem", "verify", "reading"}
  OBVIOUS
<1>6. Goto(p, "done") /\ UNCHANGED read /\ landed \subseteq landed'
  BY <1>1
<1>7. pc[p] \notin {"structure", "done", "failed"}
  BY <1>1
<1> QED
  BY <1>3, <1>4, <1>5, <1>6, <1>7, Marks

LEMMA WriteSeedingKeeps == ASSUME RegisterInv, NEW p \in Processes, WriteSeeding(p) PROVE RegisterInv'
<1>1. UNCHANGED <<work, landed>> /\ pc[p] \notin {"structure", "done", "failed"}
  BY DEF WriteSeeding, At
<1>2. \/ \E what : Ask(p, what, "compare")
      \/ Goto(p, "failed") /\ UNCHANGED read
  BY DEF WriteSeeding, Fail
<1>3. ASSUME NEW what, Ask(p, what, "compare") PROVE RegisterInv'
  <2>1. "compare" \in AfterRead \ {"verify"}
    BY DEF AfterRead
  <2> QED
    BY <1>1, <1>3, <2>1, AsksOnly
<1>4. CASE Goto(p, "failed") /\ UNCHANGED read
  BY <1>1, <1>4, Walks
<1> QED
  BY <1>2, <1>3, <1>4

LEMMA PlacedKeeps == ASSUME RegisterInv, NEW p \in Processes, Placed(p) PROVE RegisterInv'
<1>1. UNCHANGED landed /\ pc[p] \notin {"structure", "done", "failed"}
  BY DEF Placed, At
<1>2. \/ Goto(p, "failed") /\ UNCHANGED <<read, work>>
      \/ \E x, what : work' = [work EXCEPT ![p].candidates = x] /\ Ask(p, what, "entered")
  BY DEF Placed, Fail
<1>3. CASE Goto(p, "failed") /\ UNCHANGED <<read, work>>
  BY <1>1, <1>3, Walks
<1>4. ASSUME NEW x, NEW what, work' = [work EXCEPT ![p].candidates = x], Ask(p, what, "entered")
      PROVE  RegisterInv'
  <2> DEFINE w == [work[p] EXCEPT !.candidates = x]
  <2>1. work' = [work EXCEPT ![p] = w]
    BY <1>4
  <2>2. DOMAIN w = DOMAIN work[p] /\ \A f \in DOMAIN w \ Untold : w[f] = work[p][f]
    BY FieldsHold DEF NoWork, Untold
  <2> HIDE DEF w
  <2>3. "entered" \in AfterRead \ {"verify"}
    BY DEF AfterRead
  <2> QED
    BY <1>1, <1>4, <2>1, <2>2, <2>3, AsksMarked
<1> QED
  BY <1>2, <1>3, <1>4

LEMMA FindNextKeeps == ASSUME RegisterInv, NEW p \in Processes, FindNext(p) PROVE RegisterInv'
<1>1. UNCHANGED landed /\ pc[p] = "finding"
  BY DEF FindNext, At
<1>2. \/ \E at \in {"failed", "rank"} : Goto(p, at) /\ UNCHANGED <<read, work>>
      \/ /\ \E x : work' = [work EXCEPT ![p].rows = x, ![p].next = work[p].next + 1]
         /\ UNCHANGED <<pc, read>>
      \/ \E what : Ask(p, what, "found") /\ UNCHANGED work
  BY DEF FindNext
<1>3. ASSUME NEW at \in {"failed", "rank"}, Goto(p, at), UNCHANGED <<read, work>>
      PROVE  RegisterInv'
  BY <1>1, <1>3, Walks
<1>4. ASSUME NEW x, work' = [work EXCEPT ![p].rows = x, ![p].next = work[p].next + 1],
             UNCHANGED <<pc, read>>
      PROVE  RegisterInv'
  <2> DEFINE w == [work[p] EXCEPT !.rows = x, !.next = work[p].next + 1]
  <2>1. work' = [work EXCEPT ![p] = w]
    BY <1>4
  <2>2. /\ DOMAIN w = DOMAIN work[p] /\ w.next = work[p].next + 1 /\ w.then = work[p].then
        /\ w.failures = work[p].failures /\ w.wrote = work[p].wrote /\ w.plan = work[p].plan
    BY FieldsHold DEF NoWork
  <2> HIDE DEF w
  <2>3. w.next \in Nat /\ w.then \in AfterSave
    BY <2>2, FieldsHold
  <2>4. Goto(p, "finding")
    BY <1>1, <1>4 DEF Goto, RegisterInv
  <2>5. "finding" \notin {"write", "generate", "redeem", "verify", "reading", "structure", "done", "failed"}
    OBVIOUS
  <2> QED
    BY <1>1, <1>4, <2>1, <2>2, <2>3, <2>4, <2>5, Notes
<1>5. ASSUME NEW what, Ask(p, what, "found"), UNCHANGED work PROVE RegisterInv'
  <2>1. "found" \in AfterRead \ {"verify"}
    BY DEF AfterRead
  <2> QED
    BY <1>1, <1>5, <2>1, AsksOnly
<1> QED
  BY <1>2, <1>3, <1>4, <1>5

LEMMA FoundKeeps == ASSUME RegisterInv, NEW p \in Processes, Found(p) PROVE RegisterInv'
<1>1. /\ UNCHANGED <<read, landed>> /\ pc[p] \notin {"structure", "done", "failed"}
      /\ Goto(p, "finding")
      /\ \E x : work' = [work EXCEPT ![p].rows = x, ![p].next = work[p].next + 1]
  BY DEF Found, At
<1>2. PICK x : work' = [work EXCEPT ![p].rows = x, ![p].next = work[p].next + 1]
  BY <1>1
<1> DEFINE w == [work[p] EXCEPT !.rows = x, !.next = work[p].next + 1]
<1>3. work' = [work EXCEPT ![p] = w]
  BY <1>2
<1>4. /\ DOMAIN w = DOMAIN work[p] /\ w.next = work[p].next + 1 /\ w.then = work[p].then
      /\ w.failures = work[p].failures /\ w.wrote = work[p].wrote /\ w.plan = work[p].plan
  BY FieldsHold DEF NoWork
<1> HIDE DEF w
<1>5. w.next \in Nat /\ w.then \in AfterSave
  BY <1>4, FieldsHold
<1>6. "finding" \notin {"write", "generate", "redeem", "verify", "reading"}
  OBVIOUS
<1> QED
  BY <1>1, <1>3, <1>4, <1>5, <1>6, Notes

LEMMA RankKeeps == ASSUME RegisterInv, NEW p \in Processes, Rank(p) PROVE RegisterInv'
<1>1. /\ UNCHANGED <<read, landed>> /\ pc[p] \notin {"structure", "done", "failed"}
      /\ Goto(p, "done") /\ \E x : work' = [work EXCEPT ![p].shown = x]
  BY DEF Rank, At
<1>2. PICK x : work' = [work EXCEPT ![p].shown = x]
  BY <1>1
<1> DEFINE w == [work[p] EXCEPT !.shown = x]
<1>3. work' = [work EXCEPT ![p] = w]
  BY <1>2
<1>4. DOMAIN w = DOMAIN work[p] /\ \A f \in DOMAIN w \ Untold : w[f] = work[p][f]
  BY FieldsHold DEF NoWork, Untold
<1> HIDE DEF w
<1>5. "done" \notin {"write", "generate", "redeem", "verify", "reading"}
  OBVIOUS
<1>6. Goto(p, "done") /\ UNCHANGED read /\ landed \subseteq landed'
  BY <1>1
<1>7. pc[p] \notin {"structure", "done", "failed"}
  BY <1>1
<1> QED
  BY <1>3, <1>4, <1>5, <1>6, <1>7, Marks

-----------------------------------------------------------------------------
(* The steps of a registration, and of a write. *)

(* After a write the structure is only shown. *)
LEMMA StructureKeeps == ASSUME RegisterInv, NEW p \in Processes, Structure(p) PROVE RegisterInv'
<1> DEFINE c    == job[p]
           list == EventPhases(phases[work[p].event])
<1>1. UNCHANGED landed /\ pc[p] = "structure"
  BY DEF Structure, At
<1>2. CommandInv("structure", work[p], read[p], landed)
  BY <1>1 DEF RegisterInv
<1>3. /\ pc' = [pc EXCEPT ![p] = pc'[p]]
      /\ work = [work EXCEPT ![p] = work[p]] /\ read = [read EXCEPT ![p] = read[p]]
  BY FieldsHold DEF Structure, Goto, Fail, Ask, RegisterInv
<1>4. CASE c.do \in {"phases", "create"} \/ work[p].wrote = "yes"
  <2>1. Goto(p, "done") /\ UNCHANGED <<read, work>>
    BY <1>4 DEF Structure
  <2>2. FieldsInv(work[p], read[p])
    BY <1>2 DEF CommandInv
  <2>3. PlanInv("done", work[p], read[p], landed)
    BY DEF PlanInv
  <2>4. WroteInv("done", work[p], landed)
    BY <1>2 DEF CommandInv, WroteInv
  <2>5. CommandInv("done", work[p], read[p], landed')
    BY <1>1, <2>2, <2>3, <2>4 DEF CommandInv
  <2> QED
    BY <1>1, <1>3, <2>1, <2>5, OneMoves DEF Goto
<1>5. CASE c.do \notin {"phases", "create"} /\ work[p].wrote = "no"
  <2>1. \/ Goto(p, "failed") /\ UNCHANGED <<read, work>>
        \/ \E x : /\ work' = [work EXCEPT ![p].phase = x]
                  /\ \/ \E what : Ask(p, what, "order")
                     \/ Goto(p, "confirm") /\ UNCHANGED read
    BY <1>5, Zenon DEF Structure, Fail
  <2>2. CASE Goto(p, "failed") /\ UNCHANGED <<read, work>>
    <3>1. FieldsInv(work[p], read[p])
      BY <1>2 DEF CommandInv
    <3>2. Plain("failed", read[p])
      BY DEF Plain
    <3>3. CommandInv("failed", work[p], read[p], landed')
      BY <1>5, <3>1, <3>2, MovesOn
    <3> QED
      BY <1>1, <1>3, <2>2, <3>3, OneMoves DEF Goto
  <2>3. ASSUME NEW x, work' = [work EXCEPT ![p].phase = x],
               NEW r, read' = [read EXCEPT ![p] = r], NEW at, Goto(p, at),
               DOMAIN r = DOMAIN NoRead, r.then \in AfterRead, Plain(at, r)
        PROVE  RegisterInv'
    <3> DEFINE w == [work[p] EXCEPT !.phase = x]
    <3>1. work' = [work EXCEPT ![p] = w]
      BY <2>3
    <3>2. DOMAIN w = DOMAIN work[p] /\ \A f \in DOMAIN w \ Untold : w[f] = work[p][f]
      BY FieldsHold DEF NoWork, Untold
    <3> HIDE DEF w
    <3>3. /\ w.next \in Nat /\ w.then \in AfterSave
          /\ w.failures = work[p].failures /\ w.wrote = work[p].wrote /\ w.plan = work[p].plan
      BY <3>2, Notable
    <3>4. FieldsInv(w, r)
      BY <2>3, <3>2, <3>3, FieldsHold DEF FieldsInv
    <3>5. w.wrote = "no"
      BY <1>5, <3>3
    <3>6. CommandInv(at, w, r, landed')
      BY <2>3, <3>4, <3>5, MovesOn
    <3> QED
      BY <1>1, <2>3, <3>1, <3>6, OneMoves DEF Goto
  <2>4. ASSUME NEW x, NEW what, work' = [work EXCEPT ![p].phase = x], Ask(p, what, "order")
        PROVE  RegisterInv'
    <3> DEFINE r == [NoRead EXCEPT !.what = what, !.then = "order"]
    <3>1. read' = [read EXCEPT ![p] = r] /\ Goto(p, "reading")
      BY <2>4 DEF Ask
    <3>2. DOMAIN r = DOMAIN NoRead /\ r.then = "order"
      BY DEF NoRead
    <3> HIDE DEF r
    <3>3. r.then \in AfterRead /\ Plain("reading", r)
      BY <3>2 DEF AfterRead, Plain
    <3> QED
      BY <2>3, <2>4, <3>1, <3>2, <3>3
  <2>5. ASSUME NEW x, work' = [work EXCEPT ![p].phase = x], Goto(p, "confirm"), UNCHANGED read
        PROVE  RegisterInv'
    <3>1. Plain("confirm", read[p])
      BY DEF Plain
    <3>2. DOMAIN read[p] = DOMAIN NoRead /\ read[p].then \in AfterRead
      BY FieldsHold
    <3>3. read' = [read EXCEPT ![p] = read[p]]
      BY <1>3, <2>5
    <3> QED
      BY <2>3, <2>5, <3>1, <3>2, <3>3
  <2> QED
    BY <2>1, <2>2, <2>4, <2>5
<1>6. work[p].wrote \in {"yes", "no"}
  BY FieldsHold
<1> QED
  BY <1>4, <1>5, <1>6

(* A plan is carried out from its first account; without one it is a phase   *)
(* or a seeding that is written.                                           *)
LEMMA ConfirmKeeps == ASSUME RegisterInv, NEW p \in Processes, Confirm(p) PROVE RegisterInv'
<1> DEFINE w == [work[p] EXCEPT !.next = 1]
<1>1. /\ UNCHANGED <<read, landed>> /\ pc[p] = "confirm" /\ work' = [work EXCEPT ![p] = w]
  BY DEF Confirm, At
<1>2. \E at \in {"done", "generate", "write"} : Goto(p, at) /\ (at = "write" => work[p].plan = <<>>)
  BY DEF Confirm
<1>3. PICK at \in {"done", "generate", "write"} : Goto(p, at) /\ (at = "write" => work[p].plan = <<>>)
  BY <1>2
<1>4. /\ DOMAIN w = DOMAIN work[p] /\ w.next = 1 /\ w.then = work[p].then
      /\ w.failures = work[p].failures /\ w.wrote = work[p].wrote /\ w.plan = work[p].plan
  BY FieldsHold DEF NoWork
<1> HIDE DEF w
<1>5. CommandInv("confirm", work[p], read[p], landed)
  BY <1>1 DEF RegisterInv
<1>6. w.wrote = "no"
  BY <1>4, <1>5, NotYetWritten
<1>7. FieldsInv(w, read[p])
  BY <1>4, FieldsHold DEF FieldsInv
<1>8. \A i \in DOMAIN w.plan : ~(i < w.next)
  BY <1>4, FieldsHold
<1>9. PlanInv(at, w, read[p], landed)
  BY <1>3, <1>4, <1>8 DEF PlanInv
<1>10. CommandInv(at, w, read[p], landed')
  BY <1>1, <1>6, <1>7, <1>9 DEF CommandInv, WroteInv
<1>11. read' = [read EXCEPT ![p] = read[p]]
  BY <1>1, FieldsHold
<1> QED
  BY <1>1, <1>3, <1>10, <1>11, OneMoves DEF Goto

(* What writes a phase has no plan. *)
LEMMA WritePhaseKeeps == ASSUME RegisterInv, NEW p \in Processes, WritePhase(p) PROVE RegisterInv'
<1>1. /\ UNCHANGED <<read, landed>> /\ pc[p] = "write"
      /\ \E at \in {"structure", "failed"} : Goto(p, at)
      /\ \E x : work' = [work EXCEPT ![p].wrote = "yes", ![p].said = x]
  BY Zenon DEF WritePhase, At, Fail
<1>2. PICK at \in {"structure", "failed"} : Goto(p, at)
  BY <1>1
<1>3. PICK x : work' = [work EXCEPT ![p].wrote = "yes", ![p].said = x]
  BY <1>1
<1> DEFINE w == [work[p] EXCEPT !.wrote = "yes", !.said = x]
<1>4. work' = [work EXCEPT ![p] = w]
  BY <1>3
<1>5. /\ DOMAIN w = DOMAIN work[p] /\ w.next = work[p].next /\ w.then = work[p].then
      /\ w.failures = work[p].failures /\ w.wrote = "yes" /\ w.plan = work[p].plan
  BY FieldsHold DEF NoWork
<1> HIDE DEF w
<1>6. w.plan = <<>>
  BY <1>1, <1>5 DEF RegisterInv, CommandInv, PlanInv
<1>7. FieldsInv(w, read[p])
  BY <1>5, FieldsHold DEF FieldsInv
<1>8. PlanInv(at, w, read[p], landed) /\ WroteInv(at, w, landed)
  BY <1>6 DEF PlanInv, WroteInv
<1>9. CommandInv(at, w, read[p], landed')
  BY <1>1, <1>7, <1>8 DEF CommandInv
<1>10. read' = [read EXCEPT ![p] = read[p]]
  BY <1>1, FieldsHold
<1> QED
  BY <1>1, <1>2, <1>4, <1>9, <1>10, OneMoves DEF Goto

(* The accounts of a plan are numbered from 1. *)
LEMMA PlanNumbers ==
    ASSUME NEW targets, NEW entered, NEW candidates
    PROVE  \A i \in DOMAIN Planned(targets, entered, candidates) : i \in Nat \ {0}
<1> DEFINE due == {i \in DOMAIN candidates :
                      /\ candidates[i] = Me
                      /\ Missing(targets, entered, candidates[i]) # <<>>}
<1>1. DOMAIN Planned(targets, entered, candidates) = DOMAIN Only(candidates, due)
  BY Zenon DEF Planned
<1> HIDE DEF due
<1>2. DOMAIN Only(candidates, due) = 1..Cardinality(due)
  BY DEF Only
<1> QED
  BY <1>1, <1>2

(* Where it goes with what has been entered: to the next event, or to its   *)
(* plan.                                                                   *)
PlansOn(p) ==
    \/ \E x, what : work' = [work EXCEPT ![p].entered = x] /\ Ask(p, what, "entered")
    \/ \E x, plan : /\ work' = [work EXCEPT ![p].entered = x, ![p].plan = plan]
                    /\ \A i \in DOMAIN plan : i \in Nat \ {0}
                    /\ \E at \in {"done", "confirm"} : Goto(p, at)
                    /\ UNCHANGED read

LEMMA EnteredPlansOn == ASSUME NEW p \in Processes, Entered(p) PROVE PlansOn(p)
<1> DEFINE w0       == work[p]
           users    == UNION {ToSet(x.users) : x \in ToSet(read[p].got)}
           entered1 == Append(w0.entered, users)
           byEvent  == [e \in ToSet(w0.targets) |->
                          entered1[Max({i \in DOMAIN w0.targets : w0.targets[i] = e})]]
           plan     == Planned(w0.targets, byEvent, w0.candidates)
<1>1. IF Len(entered1) < Len(w0.targets)
      THEN /\ work' = [work EXCEPT ![p].entered = entered1]
           /\ Ask(p, <<"entrants", w0.targets[Len(entered1) + 1]>>, "entered")
      ELSE /\ work' = [work EXCEPT ![p].entered = entered1, ![p].plan = plan]
           /\ Goto(p, IF plan = <<>> THEN "done" ELSE "confirm")
           /\ UNCHANGED read
  BY Zenon DEF Entered
<1>2. \A i \in DOMAIN plan : i \in Nat \ {0}
  BY PlanNumbers
<1> HIDE DEF plan, entered1
<1> QED
  BY <1>1, <1>2 DEF PlansOn

LEMMA EnteredKeeps == ASSUME RegisterInv, NEW p \in Processes, Entered(p) PROVE RegisterInv'
<1>1. UNCHANGED landed /\ pc[p] = "entered"
  BY DEF Entered, At
<1>2. PlansOn(p)
  BY EnteredPlansOn
<1>3. ASSUME NEW x, NEW what, work' = [work EXCEPT ![p].entered = x], Ask(p, what, "entered")
      PROVE  RegisterInv'
  <2> DEFINE w == [work[p] EXCEPT !.entered = x]
  <2>1. work' = [work EXCEPT ![p] = w]
    BY <1>3
  <2>2. DOMAIN w = DOMAIN work[p] /\ \A f \in DOMAIN w \ Untold : w[f] = work[p][f]
    BY FieldsHold DEF NoWork, Untold
  <2> HIDE DEF w
  <2>3. "entered" \in AfterRead \ {"verify"}
    BY DEF AfterRead
  <2> QED
    BY <1>1, <1>3, <2>1, <2>2, <2>3, AsksMarked
<1>4. ASSUME NEW x, NEW plan, work' = [work EXCEPT ![p].entered = x, ![p].plan = plan],
             \A i \in DOMAIN plan : i \in Nat \ {0},
             NEW at \in {"done", "confirm"}, Goto(p, at), UNCHANGED read
      PROVE  RegisterInv'
  <2> DEFINE w == [work[p] EXCEPT !.entered = x, !.plan = plan]
  <2>1. work' = [work EXCEPT ![p] = w]
    BY <1>4
  <2>2. /\ DOMAIN w = DOMAIN work[p] /\ w.next = work[p].next /\ w.then = work[p].then
        /\ w.failures = work[p].failures /\ w.wrote = work[p].wrote /\ w.plan = plan
    BY FieldsHold DEF NoWork
  <2> HIDE DEF w
  <2>3. CommandInv("entered", work[p], read[p], landed)
    BY <1>1 DEF RegisterInv
  <2>4. w.wrote = "no"
    BY <2>2, <2>3, NotYetWritten
  <2>5. FieldsInv(w, read[p])
    BY <1>4, <2>2, FieldsHold DEF FieldsInv
  <2>6. Plain(at, read[p])
    BY DEF Plain
  <2>7. CommandInv(at, w, read[p], landed')
    BY <2>4, <2>5, <2>6, MovesOn
  <2>8. read' = [read EXCEPT ![p] = read[p]]
    BY <1>4, FieldsHold
  <2> QED
    BY <1>1, <1>4, <2>1, <2>7, <2>8, OneMoves DEF Goto
<1> QED
  BY <1>2, <1>3, <1>4 DEF PlansOn

(* The next account of the plan, or, after the last, the events again: as    *)
(* long as nothing failed, everyone up to here is entered.                 *)
LEMMA NextKeeps ==
    ASSUME RegisterInv, NEW p \in Processes, NEW w1, NextCandidate(p, w1), landed \subseteq landed',
           FieldsInv(w1, read[p]), w1.wrote = "no",
           w1.failures = 0 => \A i \in DOMAIN w1.plan : i <= w1.next => LandedAt(w1, i, landed')
    PROVE  RegisterInv'
<1>1. CASE \E i \in DOMAIN w1.plan : i > w1.next
  <2> DEFINE w == [w1 EXCEPT !.next = w1.next + 1]
  <2>1. work' = [work EXCEPT ![p] = w] /\ Goto(p, "generate") /\ UNCHANGED read
    BY <1>1 DEF NextCandidate
  <2>2. /\ DOMAIN w = DOMAIN w1 /\ w.next = w1.next + 1 /\ w.then = w1.then
        /\ w.failures = w1.failures /\ w.wrote = w1.wrote /\ w.plan = w1.plan
    BY DEF NoWork, FieldsInv
  <2> HIDE DEF w
  <2>3. FieldsInv(w, read[p])
    BY <2>2 DEF FieldsInv
  <2>4. ASSUME w.failures = 0, NEW i \in DOMAIN w.plan, i < w.next
        PROVE  LandedAt(w, i, landed')
    <3>1. i <= w1.next
      BY <2>2, <2>4 DEF FieldsInv
    <3> QED
      BY <2>2, <2>4, <3>1 DEF LandedAt
  <2>5. PlanInv("generate", w, read[p], landed') /\ WroteInv("generate", w, landed')
    BY <2>2, <2>4 DEF PlanInv, WroteInv
  <2>6. CommandInv("generate", w, read[p], landed')
    BY <2>3, <2>5 DEF CommandInv
  <2>7. read' = [read EXCEPT ![p] = read[p]]
    BY <2>1, FieldsHold
  <2> QED
    BY <2>1, <2>6, <2>7, OneMoves DEF Goto
<1>2. CASE ~(\E i \in DOMAIN w1.plan : i > w1.next)
  <2> DEFINE w    == [w1 EXCEPT !.entered = <<>>]
             what == <<"entrants", PlannedEvents(w1)[1]>>
             r    == [NoRead EXCEPT !.what = what, !.then = "verify"]
  <2>1. work' = [work EXCEPT ![p] = w] /\ Ask(p, what, "verify")
    BY <1>2, Zenon DEF NextCandidate
  <2>2. /\ DOMAIN w = DOMAIN w1 /\ w.next = w1.next /\ w.then = w1.then
        /\ w.failures = w1.failures /\ w.wrote = w1.wrote /\ w.plan = w1.plan
    BY DEF NoWork, FieldsInv
  <2> HIDE DEF w, what
  <2>3. read' = [read EXCEPT ![p] = r] /\ pc' = [pc EXCEPT ![p] = "reading"]
    BY <2>1 DEF Ask, Goto
  <2>4. DOMAIN r = DOMAIN NoRead /\ r.then = "verify"
    BY DEF NoRead
  <2> HIDE DEF r
  <2>5. FieldsInv(w, r)
    BY <2>2, <2>4 DEF FieldsInv, AfterRead
  <2>6. ASSUME w.failures = 0 PROVE AllLanded(w, landed')
    <3>1. \A i \in DOMAIN w1.plan : i <= w1.next
      BY <1>2 DEF FieldsInv
    <3> QED
      BY <2>2, <2>6, <3>1 DEF AllLanded, LandedAt
  <2>7. PlanInv("reading", w, r, landed') /\ WroteInv("reading", w, landed')
    BY <2>2, <2>6 DEF PlanInv, WroteInv
  <2>8. CommandInv("reading", w, r, landed')
    BY <2>5, <2>7 DEF CommandInv
  <2> QED
    BY <2>1, <2>3, <2>8, OneMoves
<1> QED
  BY <1>1, <1>2

(* A failure is on the count when the command ends. *)
LEMMA FailedFields ==
    ASSUME NEW w, NEW r, FieldsInv(w, r)
    PROVE  /\ FieldsInv(Failed(w), r) /\ Failed(w).failures # 0
           /\ Failed(w).wrote = w.wrote /\ Failed(w).plan = w.plan
<1>1. /\ DOMAIN Failed(w) = DOMAIN w /\ Failed(w).next = w.next /\ Failed(w).then = w.then
      /\ Failed(w).failures = w.failures + 1 /\ Failed(w).wrote = w.wrote /\ Failed(w).plan = w.plan
  BY DEF Failed, FieldsInv, NoWork
<1> QED
  BY <1>1 DEF FieldsInv

LEMMA GenerateKeeps == ASSUME RegisterInv, NEW p \in Processes, Generate(p) PROVE RegisterInv'
<1>1. /\ UNCHANGED <<read, work, landed>> /\ pc[p] = "generate" /\ Goto(p, "redeem")
  BY DEF Generate, At
<1>2. CommandInv("generate", work[p], read[p], landed)
  BY <1>1 DEF RegisterInv
<1>3. work[p].wrote = "no"
  BY <1>2, NotYetWritten
<1>4. PlanInv("redeem", work[p], read[p], landed) /\ WroteInv("redeem", work[p], landed)
  BY <1>2, <1>3 DEF CommandInv, PlanInv, WroteInv
<1>5. CommandInv("redeem", work[p], read[p], landed')
  BY <1>1, <1>2, <1>4 DEF CommandInv
<1>6. work' = [work EXCEPT ![p] = work[p]] /\ read' = [read EXCEPT ![p] = read[p]]
  BY <1>1, FieldsHold
<1> QED
  BY <1>1, <1>5, <1>6, OneMoves DEF Goto

LEMMA RegistrationFailsKeeps ==
    ASSUME RegisterInv, NEW p \in Processes, RegistrationFails(p) PROVE RegisterInv'
<1>1. /\ UNCHANGED landed /\ pc[p] \in {"generate", "redeem"}
      /\ NextCandidate(p, Failed(work[p]))
  BY DEF RegistrationFails
<1>2. CommandInv(pc[p], work[p], read[p], landed)
  BY DEF RegisterInv
<1>3. work[p].wrote = "no"
  BY <1>1, <1>2, NotYetWritten
<1>4. FieldsInv(work[p], read[p])
  BY <1>2 DEF CommandInv
<1>5. /\ FieldsInv(Failed(work[p]), read[p]) /\ Failed(work[p]).failures # 0
      /\ Failed(work[p]).wrote = "no"
  BY <1>3, <1>4, FailedFields
<1> QED
  BY <1>1, <1>5, NextKeeps

(* An account that is redeemed is in the events of its token; an answer that *)
(* is lost counts as a failure all the same.                               *)
LEMMA RedeemKeeps == ASSUME RegisterInv, NEW p \in Processes, Redeem(p) PROVE RegisterInv'
<1> DEFINE r == work[p].plan[work[p].next]
<1>1. /\ pc[p] = "redeem"
      /\ landed' = landed \cup {<<r.user, e>> : e \in ToSet(r.events)}
      /\ NextCandidate(p, work[p]) \/ NextCandidate(p, Failed(work[p]))
  BY Zenon DEF Redeem, At
<1>2. landed \subseteq landed'
  BY <1>1
<1>3. CommandInv("redeem", work[p], read[p], landed)
  BY <1>1 DEF RegisterInv
<1>4. work[p].wrote = "no" /\ FieldsInv(work[p], read[p])
  BY <1>3, NotYetWritten DEF CommandInv
<1>5. ASSUME work[p].failures = 0, NEW i \in DOMAIN work[p].plan, i <= work[p].next
      PROVE  LandedAt(work[p], i, landed')
  <2>1. CASE i < work[p].next
    <3>1. LandedAt(work[p], i, landed)
      BY <1>3, <1>5, <2>1 DEF CommandInv, PlanInv
    <3> QED
      BY <1>2, <3>1 DEF LandedAt
  <2>2. CASE i = work[p].next
    BY <1>1, <2>2 DEF LandedAt
  <2> QED
    BY <1>4, <1>5, <2>1, <2>2 DEF FieldsInv
<1>6. CASE NextCandidate(p, work[p])
  BY <1>2, <1>4, <1>5, <1>6, NextKeeps
<1>7. CASE NextCandidate(p, Failed(work[p]))
  <2>1. /\ FieldsInv(Failed(work[p]), read[p]) /\ Failed(work[p]).failures # 0
        /\ Failed(work[p]).wrote = "no"
    BY <1>4, FailedFields
  <2> QED
    BY <1>2, <1>7, <2>1, NextKeeps
<1> QED
  BY <1>1, <1>6, <1>7

(* A registration that ends well had no failure. *)
LEMMA VerifyKeeps == ASSUME RegisterInv, NEW p \in Processes, Verify(p) PROVE RegisterInv'
<1> DEFINE w0 == work[p]
           entered1 == Append(w0.entered, UNION {ToSet(x.users) : x \in ToSet(read[p].got)})
<1>1. UNCHANGED landed /\ pc[p] = "verify"
  BY DEF Verify, At
<1>2. CommandInv("verify", w0, read[p], landed)
  BY <1>1 DEF RegisterInv
<1>3. w0.wrote = "no" /\ FieldsInv(w0, read[p])
  BY <1>2, NotYetWritten DEF CommandInv
<1>4. w0.failures = 0 => AllLanded(w0, landed)
  BY <1>2 DEF CommandInv, PlanInv
<1>5. \/ \E what : work' = [work EXCEPT ![p].entered = entered1] /\ Ask(p, what, "verify")
      \/ /\ work' = [work EXCEPT ![p].entered = entered1, ![p].wrote = "yes"]
         /\ Goto(p, IF w0.failures > 0 THEN "failed" ELSE "done")
         /\ UNCHANGED read
  BY Zenon DEF Verify
<1> HIDE DEF entered1
<1>6. ASSUME NEW what, work' = [work EXCEPT ![p].entered = entered1], Ask(p, what, "verify")
      PROVE  RegisterInv'
  <2> DEFINE w == [w0 EXCEPT !.entered = entered1]
             r == [NoRead EXCEPT !.what = what, !.then = "verify"]
  <2>1. work' = [work EXCEPT ![p] = w]
    BY <1>6
  <2>2. /\ DOMAIN w = DOMAIN w0 /\ w.next = w0.next /\ w.then = w0.then
        /\ w.failures = w0.failures /\ w.wrote = w0.wrote /\ w.plan = w0.plan
    BY FieldsHold DEF NoWork
  <2>3. read' = [read EXCEPT ![p] = r] /\ pc' = [pc EXCEPT ![p] = "reading"]
    BY <1>6 DEF Ask, Goto
  <2>4. DOMAIN r = DOMAIN NoRead /\ r.then = "verify"
    BY DEF NoRead
  <2> HIDE DEF w, r
  <2>5. FieldsInv(w, r)
    BY <1>3, <2>2, <2>4 DEF FieldsInv, AfterRead
  <2>6. w.failures = 0 => AllLanded(w, landed)
    BY <1>4, <2>2 DEF AllLanded, LandedAt
  <2>7. PlanInv("reading", w, r, landed) /\ WroteInv("reading", w, landed)
    BY <1>3, <2>2, <2>6 DEF PlanInv, WroteInv
  <2>8. CommandInv("reading", w, r, landed')
    BY <1>1, <2>5, <2>7 DEF CommandInv
  <2> QED
    BY <1>1, <2>1, <2>3, <2>8, OneMoves
<1>7. ASSUME work' = [work EXCEPT ![p].entered = entered1, ![p].wrote = "yes"],
             Goto(p, IF w0.failures > 0 THEN "failed" ELSE "done"), UNCHANGED read
      PROVE  RegisterInv'
  <2> DEFINE w  == [w0 EXCEPT !.entered = entered1, !.wrote = "yes"]
             at == IF w0.failures > 0 THEN "failed" ELSE "done"
  <2>1. work' = [work EXCEPT ![p] = w]
    BY <1>7
  <2>2. /\ DOMAIN w = DOMAIN w0 /\ w.next = w0.next /\ w.then = w0.then
        /\ w.failures = w0.failures /\ w.wrote = "yes" /\ w.plan = w0.plan
    BY FieldsHold DEF NoWork
  <2> HIDE DEF w
  <2>3. FieldsInv(w, read[p])
    BY <1>3, <2>2 DEF FieldsInv
  <2>4. w.failures = 0 => AllLanded(w, landed)
    BY <1>4, <2>2 DEF AllLanded, LandedAt
  <2>5. at \in {"failed", "done"} /\ (at = "done" => w.failures = 0)
    BY <1>3, <2>2 DEF FieldsInv
  <2>6. pc' = [pc EXCEPT ![p] = at]
    BY <1>7 DEF Goto
  <2> HIDE DEF at
  <2>7. PlanInv(at, w, read[p], landed) /\ WroteInv(at, w, landed)
    BY <2>4, <2>5 DEF PlanInv, WroteInv
  <2>8. CommandInv(at, w, read[p], landed')
    BY <1>1, <2>3, <2>7 DEF CommandInv
  <2>9. read' = [read EXCEPT ![p] = read[p]]
    BY <1>7, FieldsHold
  <2> QED
    BY <1>1, <2>1, <2>6, <2>8, <2>9, OneMoves
<1> QED
  BY <1>5, <1>6, <1>7

-----------------------------------------------------------------------------
(* Others change the site and the files, not what a command has in hand. *)
LEMMA SiteKeeps == RegisterInv /\ Site => RegisterInv'
<1> SUFFICES ASSUME RegisterInv, Site PROVE RegisterInv'
  OBVIOUS
<1>1. UNCHANGED <<pc, read, work>> /\ landed \subseteq landed'
  BY DEF Site, Reseed, Indexed, Join, Withdraw, HandEdit, run
<1>2. \A p \in Processes : CommandInv(pc[p], work[p], read[p], landed')
  BY <1>1, MoreLanded DEF RegisterInv
<1> QED
  BY <1>1, <1>2 DEF RegisterInv

LEMMA RegisterStep == RegisterInv /\ [Next]_vars => RegisterInv'
<1> SUFFICES ASSUME RegisterInv, [Next]_vars PROVE RegisterInv'
  OBVIOUS
<1>1. CASE Site
  BY <1>1, SiteKeeps
<1>2. ASSUME NEW p \in Processes, Step(p) PROVE RegisterInv'
  <2>1. CASE \/ Begin(p) \/ ReadPage(p) \/ ReadFails(p)
             \/ Truncate(p) \/ Rewrite(p) \/ Interrupted(p) \/ SaveFails(p) \/ PoolCommand(p)
             \/ Fetched(p) \/ CacheRoster(p)
    BY <2>1, BeginKeeps, ReadPageKeeps, ReadFailsKeeps, FileKeeps, PoolCommandKeeps,
       RememberKeeps, CacheRosterKeeps
  <2>2. CASE \/ Create(p) \/ Structure(p) \/ Order(p) \/ Confirm(p)
             \/ WriteSeeding(p) \/ Compare(p) \/ WritePhase(p)
    BY <2>2, CreateKeeps, StructureKeeps, OrderKeeps, ConfirmKeeps, WriteSeedingKeeps,
       CompareKeeps, WritePhaseKeeps
  <2>3. CASE \/ Placed(p) \/ Entered(p) \/ Generate(p) \/ RegistrationFails(p) \/ Redeem(p)
             \/ Verify(p) \/ Extra(p) \/ FindNext(p) \/ Found(p) \/ Rank(p)
    BY <2>3, PlacedKeeps, EnteredKeeps, GenerateKeeps, RegistrationFailsKeeps, RedeemKeeps,
       VerifyKeeps, RememberKeeps, FindNextKeeps, FoundKeeps, RankKeeps
  <2> QED
    BY <1>2, <2>1, <2>2, <2>3 DEF Step
<1>3. CASE UNCHANGED vars
  BY <1>3 DEF vars, run, RegisterInv
<1> QED
  BY <1>1, <1>2, <1>3 DEF Next

(* Nobody is reported as entered who is not: for every plan, every place at  *)
(* which a registration fails or its answer is lost, and whatever the other  *)
(* processes and organisers do.                                            *)
THEOREM NobodyReportedMissing == Spec => []LandedOrReported
<1>1. RegisterInv => LandedOrReported
  <2> SUFFICES ASSUME RegisterInv, NEW p \in Processes, pc[p] = "done",
                      work[p].plan # <<>>, work[p].wrote = "yes"
               PROVE  AllLanded(work[p], landed)
    BY DEF LandedOrReported, AllLanded, LandedAt, At
  <2>1. WroteInv(pc[p], work[p], landed)
    BY DEF RegisterInv, CommandInv
  <2> QED
    BY <2>1 DEF WroteInv
<1> QED
  BY RegisterInit, RegisterStep, <1>1, PTL DEF Spec

-----------------------------------------------------------------------------
(* Numbers. *)

(* A choice of elements of s, none of them twice. *)
Picks(t, s, D) ==
    \E n \in Nat : \E f \in [1..n -> D] : IsInjective(f) /\ t = [k \in 1..n |-> s[f[k]]]

LEMMA OnlyPicks ==
    ASSUME NEW s, NEW S, \A i \in S : i \in Nat, IsFiniteSet(S)
    PROVE  Picks(Only(s, S), s, S)
<1> DEFINE n == Cardinality(S)
           Nth(k) == CHOOSE i \in S : Cardinality({j \in S : j <= i}) = k
           f == [k \in 1..n |-> Nth(k)]
<1>1. n \in Nat
  BY FS_CardinalityType
<1>2. \A k \in 1..n : Nth(k) \in S /\ Cardinality({j \in S : j <= Nth(k)}) = k
  <2> TAKE k \in 1..n
  <2>1. \E i \in S : Cardinality({j \in S : j <= i}) = k
    BY Places
  <2> QED
    BY <2>1
<1>3. Only(s, S) = [k \in 1..n |-> s[f[k]]]
  BY DEF Only
<1> HIDE DEF Nth
<1>4. f \in [1..n -> S] /\ \A k \in 1..n : f[k] = Nth(k)
  BY <1>2
<1>5. \A a, b \in 1..n : f[a] = f[b] => a = b
  BY <1>2, <1>4
<1>6. IsInjective(f)
  BY <1>4, <1>5 DEF IsInjective
<1> HIDE DEF f
<1> QED
  BY <1>1, <1>3, <1>4, <1>6 DEF Picks

LEMMA SortedPicks ==
    ASSUME NEW items, NEW n \in Nat, DOMAIN items = 1..n, \A i \in 1..n : items[i].num \in Nat
    PROVE  Picks(SortedSeeds(items), items, 1..n)
<1> DEFINE Upto(i) == {j \in 1..n : \/ NumOf(items[j]) < NumOf(items[i])
                                    \/ NumOf(items[j]) = NumOf(items[i]) /\ j <= i}
           upto == [i \in 1..n |-> Upto(i)]
           Nth(k) == CHOOSE i \in 1..n : Cardinality(Upto(i)) = k
           f == [k \in 1..n |-> Nth(k)]
<1>1. \A i \in 1..n : NumOf(items[i]) \in Nat
  BY DEF NumOf, Or
<1>2. IsFiniteSet(1..n) /\ Cardinality(1..n) = n
  BY FS_Interval
<1>3. \A i \in 1..n : Cardinality(Upto(i)) = Cardinality(upto[i])
  OBVIOUS
<1>4. upto \in [1..n -> SUBSET (1..n)]
  OBVIOUS
<1>5. \A i \in 1..n : i \in upto[i]
  BY <1>1
<1>6. \A i, j \in 1..n : i # j => \/ upto[i] \subseteq upto[j] /\ j \notin upto[i]
                                  \/ upto[j] \subseteq upto[i] /\ i \notin upto[j]
  <2> DEFINE num(i) == NumOf(items[i])
  <2>1. \A i \in 1..n : num(i) \in Nat
    BY <1>1
  <2>2. \A i \in 1..n : upto[i] = {j \in 1..n : num(j) < num(i) \/ (num(j) = num(i) /\ j <= i)}
    OBVIOUS
  <2> HIDE DEF num, upto
  <2>3. ASSUME NEW i \in 1..n, NEW j \in 1..n, num(i) < num(j) \/ (num(i) = num(j) /\ i < j)
        PROVE  upto[i] \subseteq upto[j] /\ j \notin upto[i]
    <3>1. num(i) \in Nat /\ num(j) \in Nat
      BY <2>1
    <3>2. ASSUME NEW x \in 1..n, num(x) < num(i) \/ (num(x) = num(i) /\ x <= i)
          PROVE  num(x) < num(j) \/ (num(x) = num(j) /\ x <= j)
      <4>1. num(x) \in Nat
        BY <2>1
      <4> QED
        BY <2>3, <3>1, <3>2, <4>1
    <3>3. ~(num(j) < num(i) \/ (num(j) = num(i) /\ j <= i))
      BY <2>3, <3>1
    <3> QED
      BY <2>2, <3>2, <3>3
  <2>4. ASSUME NEW i \in 1..n, NEW j \in 1..n, i # j
        PROVE  \/ num(i) < num(j) \/ (num(i) = num(j) /\ i < j)
               \/ num(j) < num(i) \/ (num(j) = num(i) /\ j < i)
    BY <2>1, <2>4
  <2> QED
    BY <2>3, <2>4
<1>7. \A k \in 1..n : \E i \in 1..n : Cardinality(Upto(i)) = k
  <2> HIDE DEF upto, Upto
  <2>1. \A k \in 1..Cardinality(1..n) : \E i \in 1..n : Cardinality(upto[i]) = k
    BY <1>2, <1>4, <1>5, <1>6, Ranks
  <2> QED
    BY <1>2, <1>3, <2>1
<1>8. \A k \in 1..n : Nth(k) \in 1..n /\ Cardinality(Upto(Nth(k))) = k
  <2> HIDE DEF Upto
  <2> QED
    BY <1>7
<1>9. SortedSeeds(items) = [k \in 1..n |-> items[f[k]]]
  BY DEF SortedSeeds
<1> HIDE DEF Upto, Nth
<1>10. f \in [1..n -> 1..n] /\ IsInjective(f)
  BY <1>8 DEF IsInjective
<1> HIDE DEF f
<1> QED
  BY <1>9, <1>10 DEF Picks

-----------------------------------------------------------------------------
(* The seeds of a phase. *)

(* A list of seeds of which no two have one id, or one number. *)
SeedList(l) ==
    /\ \E n \in Nat : DOMAIN l = 1..n
    /\ \A i \in DOMAIN l : IsSeed(l[i])
    /\ \A i, j \in DOMAIN l : l[i].id = l[j].id \/ l[i].num = l[j].num => i = j

LEMMA PickedSeeds ==
    ASSUME NEW l, SeedList(l), NEW D, D \subseteq DOMAIN l, NEW t, Picks(t, l, D)
    PROVE  SeedList(t)
<1>1. PICK n \in Nat : \E f \in [1..n -> D] : IsInjective(f) /\ t = [k \in 1..n |-> l[f[k]]]
  BY DEF Picks
<1>2. PICK f \in [1..n -> D] : IsInjective(f) /\ t = [k \in 1..n |-> l[f[k]]]
  BY <1>1
<1>3. \A a, b \in 1..n : f[a] = f[b] => a = b
  BY <1>2 DEF IsInjective
<1>4. DOMAIN t = 1..n /\ \A k \in 1..n : f[k] \in DOMAIN l /\ t[k] = l[f[k]]
  BY <1>2
<1> QED
  BY <1>3, <1>4 DEF SeedList

(* Given new numbers that are all different. *)
LEMMA Numbered ==
    ASSUME NEW l, SeedList(l), NEW num, \A i \in DOMAIN l : num[i] \in Nat,
           \A i, j \in DOMAIN l : num[i] = num[j] => i = j
    PROVE  SeedList([i \in DOMAIN l |-> [l[i] EXCEPT !.num = num[i]]])
<1> DEFINE t == [i \in DOMAIN l |-> [l[i] EXCEPT !.num = num[i]]]
<1>1. DOMAIN t = DOMAIN l
  OBVIOUS
<1>2. ASSUME NEW i \in DOMAIN l
      PROVE  IsSeed(t[i]) /\ t[i].id = l[i].id /\ t[i].num = num[i]
  <2>1. l[i] = [id |-> l[i].id, num |-> l[i].num, entrant |-> l[i].entrant]
    BY DEF SeedList, IsSeed
  <2>2. t[i] = [id |-> l[i].id, num |-> num[i], entrant |-> l[i].entrant]
    BY <2>1
  <2> QED
    BY <2>2 DEF IsSeed
<1> HIDE DEF t
<1>3. SeedList(t)
  BY <1>1, <1>2 DEF SeedList
<1> QED
  BY <1>3 DEF t

LEMMA SortedList == ASSUME NEW l, SeedList(l) PROVE SeedList(SortedSeeds(l))
<1>1. PICK n \in Nat : DOMAIN l = 1..n
  BY DEF SeedList
<1>2. \A i \in 1..n : l[i].num \in Nat
  BY <1>1 DEF SeedList, IsSeed
<1>3. Picks(SortedSeeds(l), l, 1..n)
  BY <1>1, <1>2, SortedPicks
<1> QED
  BY <1>1, <1>3, PickedSeeds

(* A strict seeding numbers every seed by its last place in the list.       *)
LEMMA RenumberedList ==
    ASSUME NEW l, SeedList(l), NEW ids, NEW n \in Nat, DOMAIN ids = 1..n,
           \A i \in DOMAIN l : l[i].id \in ToSet(ids)
    PROVE  SeedList(Renumbered(l, ids))
<1> DEFINE num == [i \in DOMAIN l |-> LastIndex(ids, l[i].id)]
           t   == [i \in DOMAIN l |-> [l[i] EXCEPT !.num = num[i]]]
<1>1. ASSUME NEW i \in DOMAIN l
      PROVE  num[i] \in Nat /\ ids[num[i]] = l[i].id
  <2> DEFINE S == {k \in DOMAIN ids : ids[k] = l[i].id}
  <2>1. S # {} /\ \A k \in S : k \in Nat
    BY DEF ToSet
  <2>2. IsFiniteSet(S)
    <3>1. IsFiniteSet(1..n) /\ S \in SUBSET (1..n)
      BY FS_Interval
    <3> QED
      BY <3>1, FS_Subset
  <2>3. Max(S) \in S
    <3> HIDE DEF S
    <3> QED
      BY <2>1, <2>2, LastOf
  <2>4. num[i] = Max(S)
    BY DEF LastIndex
  <2> QED
    BY <2>3, <2>4
<1>2. \A i, j \in DOMAIN l : num[i] = num[j] => i = j
  <2> HIDE DEF num
  <2> QED
    BY <1>1 DEF SeedList
<1>3. Renumbered(l, ids) = SortedSeeds(t)
  <2>1. [i \in DOMAIN l |->
            IF l[i].id \in ToSet(ids) THEN [l[i] EXCEPT !.num = LastIndex(ids, l[i].id)] ELSE l[i]]
        = t
    OBVIOUS
  <2> QED
    BY <2>1, Zenon DEF Renumbered
<1>4. SeedList(t)
  <2> HIDE DEF num
  <2> QED
    BY <1>1, <1>2, Numbered
<1> QED
  BY <1>3, <1>4, SortedList

-----------------------------------------------------------------------------
(* The seeds of every phase, through what others do and what gg-admin does. *)

SeedsInv ==
    /\ \A p \in Processes : job[p] \in Commands[p]
    /\ \A p \in Processes : \E n \in Nat : DOMAIN work[p].ids = 1..n
    /\ \A ph \in DOMAIN seeds : SeedList(seeds[ph])

LEMMA SeedsInit == Init => SeedsInv
<1> SUFFICES ASSUME Init PROVE SeedsInv
  OBVIOUS
<1>1. \A p \in Processes : job[p] \in Commands[p]
  BY DEF Init
<1>2. ASSUME NEW p \in Processes PROVE DOMAIN work[p].ids = 1..0
  BY DEF Init, NoWork
<1>3. ASSUME NEW ph \in DOMAIN seeds PROVE SeedList(seeds[ph])
  <2>1. seeds = FirstSeeds
    BY DEF Init
  <2> DEFINE l == FirstSeeds[ph]
  <2>2. /\ l \in Seq(ToSet(l)) /\ \A s \in ToSet(l) : IsSeed(s)
        /\ \A i, j \in DOMAIN l : l[i].id = l[j].id \/ l[i].num = l[j].num => i = j
    BY <1>3, <2>1, SeedsAssumption
  <2> HIDE DEF l
  <2>3. DOMAIN l = 1..Len(l) /\ Len(l) \in Nat /\ \A i \in DOMAIN l : l[i] \in ToSet(l)
    BY <2>2 DEF ToSet
  <2>4. SeedList(l)
    BY <2>2, <2>3 DEF SeedList
  <2> QED
    BY <2>1, <2>4 DEF l
<1> QED
  BY <1>1, <1>2, <1>3 DEF SeedsInv

LEMMA OneList ==
    ASSUME \A ph \in DOMAIN seeds : SeedList(seeds[ph]), NEW ph, NEW l, SeedList(l),
           seeds' = [seeds EXCEPT ![ph] = l]
    PROVE  \A q \in DOMAIN seeds' : SeedList(seeds'[q])
<1> SUFFICES ASSUME NEW q \in DOMAIN seeds' PROVE SeedList(seeds'[q])
  OBVIOUS
<1>1. q \in DOMAIN seeds /\ seeds'[q] = (IF q = ph THEN l ELSE seeds[q])
  OBVIOUS
<1> QED
  BY <1>1

(* Another organiser's seeding counts them anew. *)
LEMMA ReseedKeeps ==
    ASSUME SeedsInv, NEW ph \in DOMAIN seeds, NEW order \in Reorders, Reseed(ph, order)
    PROVE  \A q \in DOMAIN seeds' : SeedList(seeds'[q])
<1> DEFINE l    == seeds[ph]
           x(k) == CHOOSE x1 \in ToSet(l) : x1.id = order[k]
           t    == [k \in DOMAIN order |-> [x(k) EXCEPT !.num = k]]
<1>1. seeds' = [seeds EXCEPT ![ph] = t] /\ {l[i].id : i \in DOMAIN l} = ToSet(order)
  BY DEF Reseed
<1>2. order \in Seq(ToSet(order)) /\ IsInjective(order)
  BY SeedsAssumption
<1>3. DOMAIN order = 1..Len(order) /\ Len(order) \in Nat
  BY <1>2
<1>4. ASSUME NEW k \in DOMAIN order
      PROVE  IsSeed(t[k]) /\ t[k].id = order[k] /\ t[k].num = k
  <2>1. \E x1 \in ToSet(l) : x1.id = order[k]
    BY <1>1 DEF ToSet
  <2>2. x(k) \in ToSet(l) /\ x(k).id = order[k]
    BY <2>1
  <2>3. IsSeed(x(k))
    <3>1. SeedList(l)
      BY DEF SeedsInv
    <3> HIDE DEF x, l
    <3>2. PICK i \in DOMAIN l : l[i] = x(k)
      BY <2>2 DEF ToSet
    <3> QED
      BY <3>1, <3>2 DEF SeedList
  <2>4. t[k] = [x(k) EXCEPT !.num = k] /\ k \in Nat
    BY <1>3
  <2> HIDE DEF x, t
  <2>5. t[k] = [id |-> x(k).id, num |-> k, entrant |-> x(k).entrant]
    BY <2>3, <2>4 DEF IsSeed
  <2> QED
    BY <2>2, <2>4, <2>5 DEF IsSeed
<1>5. DOMAIN t = DOMAIN order
  OBVIOUS
<1> HIDE DEF t
<1>6. ASSUME NEW i \in DOMAIN t, NEW j \in DOMAIN t, t[i].id = t[j].id \/ t[i].num = t[j].num
      PROVE  i = j
  BY <1>2, <1>4, <1>5, <1>6 DEF IsInjective
<1>7. SeedList(t)
  BY <1>3, <1>4, <1>5, <1>6 DEF SeedList
<1> QED
  BY <1>1, <1>7, OneList DEF SeedsInv

LEMMA WithdrawKeeps ==
    ASSUME SeedsInv, NEW e, NEW ph \in DOMAIN seeds, Withdraw(e, ph)
    PROVE  \A q \in DOMAIN seeds' : SeedList(seeds'[q])
<1> DEFINE l == seeds[ph]
           S == {i \in DOMAIN l : l[i].entrant = Null \/ l[i].entrant.id # Head(entrants[e]).id}
<1>1. seeds' = [seeds EXCEPT ![ph] = Only(l, S)]
  BY DEF Withdraw
<1>2. SeedList(l)
  BY DEF SeedsInv
<1>3. PICK n \in Nat : DOMAIN l = 1..n
  BY <1>2 DEF SeedList
<1>4. S \in SUBSET (1..n)
  BY <1>3
<1> HIDE DEF S, l
<1>5. IsFiniteSet(1..n)
  BY FS_Interval
<1>8. IsFiniteSet(S)
  BY <1>4, <1>5, FS_Subset
<1>6. IsFiniteSet(S) /\ (\A i \in S : i \in Nat) /\ S \subseteq 1..n
  BY <1>4, <1>8
<1>7. SeedList(Only(l, S))
  BY <1>2, <1>3, <1>6, OnlyPicks, PickedSeeds
<1> QED
  BY <1>1, <1>7, OneList DEF SeedsInv

LEMMA SiteSeeds == ASSUME SeedsInv, Site PROVE SeedsInv'
<1>1. UNCHANGED <<job, work>>
  BY DEF Site, Reseed, Indexed, Join, Withdraw, HandEdit, run
<1>2. \A q \in DOMAIN seeds' : SeedList(seeds'[q])
  <2>1. CASE \E ph \in DOMAIN seeds : \E order \in Reorders : Reseed(ph, order)
    BY <2>1, ReseedKeeps
  <2>2. CASE \E e \in EventIds, ph \in DOMAIN seeds : Withdraw(e, ph)
    BY <2>2, WithdrawKeeps
  <2>3. CASE UNCHANGED seeds
    BY <2>3 DEF SeedsInv
  <2> QED
    BY <2>1, <2>2, <2>3 DEF Site, Indexed, Join, HandEdit
<1> QED
  BY <1>1, <1>2 DEF SeedsInv

(* A command's list of ids. *)
IdsOK(w) == \E n \in Nat : DOMAIN w.ids = 1..n

-----------------------------------------------------------------------------
(* What is read from the site is a list, whatever the pages hold. *)
IsList(s) == \E n \in Nat : DOMAIN s = 1..n /\ s = [i \in 1..n |-> s[i]]

(* What is put together of two lists. *)
LEMMA Joined ==
    ASSUME NEW s, NEW m \in Nat, s = [i \in 1..m |-> s[i]],
           NEW t, NEW n \in Nat, t = [i \in 1..n |-> t[i]]
    PROVE  /\ DOMAIN (s \o t) = 1..(m + n) /\ s \o t = [i \in 1..(m + n) |-> (s \o t)[i]]
           /\ \A i \in 1..m : (s \o t)[i] = s[i]
           /\ \A i \in 1..n : (s \o t)[m + i] = t[i]
<1> DEFINE X == {s[i] : i \in 1..m} \union {t[i] : i \in 1..n}
           u == s \o t
<1>1. (\A i \in 1..m : s[i] \in X) /\ (\A i \in 1..n : t[i] \in X)
  OBVIOUS
<1> HIDE DEF X
<1>2. s \in Seq(X) /\ Len(s) = m /\ t \in Seq(X) /\ Len(t) = n
  BY <1>1, ListIn
<1>3. u \in Seq(X) /\ Len(u) = m + n
  BY <1>2
<1>4. \A i \in 1..m : u[i] = s[i]
  BY <1>2
<1>5. \A i \in 1..n : u[m + i] = t[i]
  BY <1>2
<1> HIDE DEF u
<1>6. DOMAIN u = 1..(m + n) /\ u = [i \in 1..(m + n) |-> u[i]]
  BY <1>3
<1> QED
  BY <1>4, <1>5, <1>6 DEF u

LEMMA Together == ASSUME NEW s, NEW t, IsList(s), IsList(t) PROVE IsList(s \o t)
<1>1. PICK m \in Nat : DOMAIN s = 1..m /\ s = [i \in 1..m |-> s[i]]
  BY DEF IsList
<1>2. PICK n \in Nat : DOMAIN t = 1..n /\ t = [i \in 1..n |-> t[i]]
  BY DEF IsList
<1> DEFINE u == s \o t
<1>3. DOMAIN u = 1..(m + n) /\ u = [i \in 1..(m + n) |-> u[i]]
  BY <1>1, <1>2, Joined
<1>4. m + n \in Nat
  OBVIOUS
<1> HIDE DEF u
<1>5. IsList(u)
  BY <1>3, <1>4 DEF IsList
<1> QED
  BY <1>5 DEF u

LEMMA Selected == ASSUME NEW s, NEW S, IsFiniteSet(S) PROVE IsList(Only(s, S))
<1>1. Cardinality(S) \in Nat
  BY FS_CardinalityType
<1> DEFINE t == Only(s, S)
<1>2. DOMAIN t = 1..Cardinality(S) /\ t = [k \in 1..Cardinality(S) |-> t[k]]
  BY DEF Only
<1> HIDE DEF t
<1>3. IsList(t)
  BY <1>1, <1>2 DEF IsList
<1> QED
  BY <1>3 DEF t

LEMMA PageIsList == ASSUME NEW list, NEW k \in Nat PROVE IsList(PageNodes(list, k))
<1> DEFINE S == {i \in (PageSize * (k - 1) + 1)..(PageSize * k) : i \in DOMAIN list}
<1>1. PageSize * (k - 1) + 1 \in Int /\ PageSize * k \in Int
  BY PageAssumption
<1>2. IsFiniteSet((PageSize * (k - 1) + 1)..(PageSize * k))
  BY <1>1, FS_Interval
<1>3. IsFiniteSet(S)
  <2>1. S \in SUBSET ((PageSize * (k - 1) + 1)..(PageSize * k))
    OBVIOUS
  <2> HIDE DEF S
  <2> QED
    BY <1>2, <2>1, FS_Subset
<1> QED
  BY <1>3, Selected DEF PageNodes

(* A part of a list. *)
LEMMA PartIsList ==
    ASSUME NEW nodes, IsList(nodes), NEW S, S \subseteq DOMAIN nodes
    PROVE  IsList(Only(nodes, S))
<1>1. PICK n \in Nat : DOMAIN nodes = 1..n
  BY DEF IsList
<1>2. IsFiniteSet(1..n) /\ S \in SUBSET (1..n)
  BY <1>1, FS_Interval
<1>3. IsFiniteSet(S)
  BY <1>2, FS_Subset
<1> QED
  BY <1>3, Selected

LEMMA HavingIsList == ASSUME NEW nodes, IsList(nodes), NEW fields PROVE IsList(Having(nodes, fields))
<1> DEFINE S == {i \in DOMAIN nodes : nodes[i] # Null /\ \A f \in fields : nodes[i][f] # Null}
<1>1. S \subseteq DOMAIN nodes
  OBVIOUS
<1> HIDE DEF S
<1>2. IsList(Only(nodes, S))
  BY <1>1, PartIsList
<1> QED
  BY <1>2, Zenon DEF Having, S

(* A list with every element replaced. *)
LEMMA Mapped ==
    ASSUME NEW nodes, IsList(nodes), NEW t, DOMAIN t = DOMAIN nodes, t = [i \in DOMAIN t |-> t[i]]
    PROVE  IsList(t)
BY DEF IsList

LEMMA ConvertedIsList ==
    ASSUME NEW what, NEW nodes, IsList(nodes)
    PROVE  IsList(Converted(what, nodes))
<1>1. IsList(Participants(nodes))
  <2> DEFINE l == Having(nodes, {"tag"})
             t == [i \in DOMAIN l |-> Participant(l[i])]
  <2>1. IsList(l)
    BY HavingIsList
  <2> HIDE DEF l
  <2>2. IsList(t)
    BY <2>1, Mapped
  <2> QED
    BY <2>2, Zenon DEF Participants, Each, l
<1>2. IsList(Entrants(nodes))
  <2> DEFINE l == Having(nodes, {"id", "tag"})
             t == [i \in DOMAIN l |-> EntrantRef(l[i])]
  <2>1. IsList(l)
    BY HavingIsList
  <2> HIDE DEF l
  <2>2. IsList(t)
    BY <2>1, Mapped
  <2> QED
    BY <2>2, Zenon DEF Entrants, Each, l
<1>3. IsList(EventStandings(nodes))
  <2> DEFINE placed == Having(nodes, {"place", "entrant"})
             l == Only(placed, {i \in DOMAIN placed : IsEntrant(placed[i].entrant)})
             t == [i \in DOMAIN l |-> EventStanding(l[i])]
  <2>1. IsList(placed)
    BY HavingIsList
  <2>2. IsList(l)
    <3> HIDE DEF placed
    <3> QED
      BY <2>1, PartIsList
  <2> HIDE DEF l
  <2>3. IsList(t)
    BY <2>2, Mapped
  <2> QED
    BY <2>3, Zenon DEF EventStandings, Each, l
<1>4. IsList(PhaseSeeds(nodes))
  <2> DEFINE l == Having(nodes, {"id"})
             t == [i \in DOMAIN l |-> PhaseSeed(l[i])]
  <2>1. IsList(l)
    BY HavingIsList
  <2> HIDE DEF l
  <2>2. IsList(t)
    BY <2>1, Mapped
  <2> QED
    BY <2>2, Zenon DEF PhaseSeeds, Each, l
<1>5. IsList(Summaries(nodes))
  BY HavingIsList DEF Summaries
<1> QED
  BY <1>1, <1>2, <1>3, <1>4, <1>5 DEF Converted

(* What a command has read so far. *)
GotInv == \A p \in Processes : read[p].page \in Nat /\ IsList(read[p].got)

LEMMA NothingRead == NoRead.page \in Nat /\ IsList(NoRead.got)
<1>1. DOMAIN NoRead.got = 1..0 /\ NoRead.got = [i \in 1..0 |-> NoRead.got[i]]
  BY DEF NoRead
<1> QED
  BY <1>1 DEF NoRead, IsList

LEMMA OrderIds ==
    ASSUME RegisterInv, SeedsInv, GotInv, NEW p \in Processes, Order(p)
    PROVE  IdsOK(work'[p])
<1> DEFINE list  == SortedSeeds(read[p].got)
           order == SeedOrder(list, job[p].order)
           ids   == Each(order, LAMBDA x : x.id)
<1>1. CASE UNCHANGED work
  BY <1>1 DEF SeedsInv, IdsOK
<1>2. CASE order # Null /\ work' = [work EXCEPT ![p].ids = ids]
  <2> DEFINE keys   == job[p].order
             picked == [i \in DOMAIN keys |-> PickSeed(list, keys[i])]
             S      == {i \in DOMAIN list : \A y \in ToSet(picked) : y.id # list[i].id}
             rest   == Only(list, S)
  <2>1. order = picked \o rest
    BY <1>2, Zenon DEF SeedOrder
  <2>2. keys \in Seq(ToSet(keys))
    BY SeedsAssumption DEF Order, SeedsInv
  <2>3. DOMAIN picked = 1..Len(keys) /\ Len(keys) \in Nat
    BY <2>2
  <2>4. S \subseteq DOMAIN list
    OBVIOUS
  <2>5. IsList(list)
    BY Mapped DEF SortedSeeds, GotInv
  <2> HIDE DEF list
  <2>10. IsList(rest)
    <3> HIDE DEF S
    <3> QED
      BY <2>4, <2>5, PartIsList
  <2>6. IsList(picked)
    BY <2>3 DEF IsList
  <2> HIDE DEF rest, picked, order
  <2>7. IsList(order)
    BY <2>1, <2>6, <2>10, Together
  <2>8. DOMAIN ids = DOMAIN order
    BY DEF Each
  <2>9. work'[p].ids = ids
    BY <1>2, FieldsHold DEF RegisterInv, NoWork
  <2> QED
    BY <2>7, <2>8, <2>9 DEF IdsOK, IsList
<1> QED
  BY <1>1, <1>2, Zenon DEF Order

-----------------------------------------------------------------------------
(* What a step leaves of the lists in hand, and of the other commands. *)

WorkStays(p) == \A q \in Processes : work'[q].ids = work[q].ids /\ (q # p => work'[q] = work[q])

LEMMA OneNoted ==
    ASSUME work = [q \in Processes |-> work[q]], NEW p \in Processes,
           NEW w, work' = [work EXCEPT ![p] = w], w.ids = work[p].ids
    PROVE  WorkStays(p)
BY DEF WorkStays

(* Two fields noted at once, neither of them the ids. *)
NotesTwo(p, x, y) ==
    \/ work' = [work EXCEPT ![p].targets = x, ![p].candidates = y]
    \/ work' = [work EXCEPT ![p].entered = x, ![p].plan = y]
    \/ work' = [work EXCEPT ![p].entered = x, ![p].wrote = y]
    \/ work' = [work EXCEPT ![p].wrote = x, ![p].said = y]
    \/ work' = [work EXCEPT ![p].rows = x, ![p].next = y]
    \/ work' = [work EXCEPT ![p].file = x, ![p].then = y]

LEMMA PairNoted ==
    ASSUME work = [q \in Processes |-> work[q]], NEW p \in Processes, "ids" \in DOMAIN work[p],
           NEW x, NEW y, NotesTwo(p, x, y)
    PROVE  WorkStays(p)
<1> DEFINE a == [work[p] EXCEPT !.targets = x, !.candidates = y]
           b == [work[p] EXCEPT !.entered = x, !.plan = y]
           c == [work[p] EXCEPT !.entered = x, !.wrote = y]
           d == [work[p] EXCEPT !.wrote = x, !.said = y]
           e == [work[p] EXCEPT !.rows = x, !.next = y]
           f == [work[p] EXCEPT !.file = x, !.then = y]
<1>1. \E w \in {a, b, c, d, e, f} : work' = [work EXCEPT ![p] = w]
  BY DEF NotesTwo
<1>2. \A w \in {a, b, c, d, e, f} : w.ids = work[p].ids
  OBVIOUS
<1> HIDE DEF a, b, c, d, e, f
<1> QED
  BY <1>1, <1>2, OneNoted

(* A command that asks starts an empty list. *)
ReadStays(p) ==
    \/ UNCHANGED read
    \/ \E what, then : read' = [read EXCEPT ![p] = [NoRead EXCEPT !.what = what, !.then = then]]

LEMMA AskStays ==
    ASSUME NEW p, NEW what, NEW then, Ask(p, what, then)
    PROVE  ReadStays(p)
BY DEF Ask, ReadStays

LEMMA NextStays ==
    ASSUME RegisterInv, NEW p \in Processes, NEW w1, NextCandidate(p, w1), w1.ids = work[p].ids,
           DOMAIN w1 = DOMAIN NoWork
    PROVE  WorkStays(p) /\ ReadStays(p)
<1>1. CASE \E i \in DOMAIN w1.plan : i > w1.next
  <2>1. /\ work' = [work EXCEPT ![p] = [w1 EXCEPT !.next = w1.next + 1]]
        /\ UNCHANGED read
    BY <1>1 DEF NextCandidate
  <2> QED
    BY <2>1, FieldsHold DEF WorkStays, ReadStays, RegisterInv, NoWork
<1>2. CASE ~(\E i \in DOMAIN w1.plan : i > w1.next)
  <2>1. /\ work' = [work EXCEPT ![p] = [w1 EXCEPT !.entered = <<>>]]
        /\ \E what : Ask(p, what, "verify")
    BY <1>2, Zenon DEF NextCandidate
  <2>2. WorkStays(p)
    BY <2>1, FieldsHold DEF WorkStays, RegisterInv, NoWork
  <2> QED
    BY <2>1, <2>2, AskStays
<1> QED
  BY <1>1, <1>2

LEMMA ListsStay ==
    ASSUME RegisterInv, NEW p \in Processes, Step(p), ~ReadPage(p), ~Order(p)
    PROVE  WorkStays(p) /\ ReadStays(p)
<1>0. work = [q \in Processes |-> work[q]] /\ "ids" \in DOMAIN work[p]
  BY FieldsHold DEF RegisterInv, NoWork
<1>1. CASE Begin(p)
  <2>1. UNCHANGED work \/ \E x : work' = [work EXCEPT ![p].slugs = x]
    BY <1>1, Zenon DEF Begin
  <2>2. UNCHANGED read \/ \E what, then : Ask(p, what, then)
    BY <1>1, Zenon DEF Begin
  <2>3. WorkStays(p)
    BY <1>0, <2>1 DEF WorkStays
  <2>4. ReadStays(p)
    BY <2>2, AskStays, Zenon DEF ReadStays
  <2> QED
    BY <2>3, <2>4
<1>2. CASE ReadFails(p)
  BY <1>0, <1>2 DEF ReadFails, WorkStays, ReadStays
<1>3. CASE Truncate(p) \/ Rewrite(p) \/ Interrupted(p) \/ SaveFails(p)
  BY <1>3 DEF Truncate, Rewrite, Interrupted, SaveFails, WorkStays, ReadStays
<1>4. CASE PoolCommand(p)
  <2>1. UNCHANGED read /\ (UNCHANGED work \/ \E x, y : Save(p, x, y))
    BY <1>4, Zenon DEF PoolCommand
  <2>2. ASSUME NEW x, NEW y, Save(p, x, y) PROVE WorkStays(p)
    BY <1>0, <2>2, PairNoted DEF Save, NotesTwo
  <2>3. WorkStays(p)
    BY <2>1, <2>2 DEF WorkStays
  <2> QED
    BY <2>1, <2>3 DEF ReadStays
<1>5. CASE Fetched(p) \/ Extra(p)
  <2>1. UNCHANGED read /\ (UNCHANGED work \/ \E x, y : Save(p, x, y))
    BY <1>5, Zenon DEF Fetched, Extra, Remember
  <2>2. ASSUME NEW x, NEW y, Save(p, x, y) PROVE WorkStays(p)
    BY <1>0, <2>2, PairNoted DEF Save, NotesTwo
  <2>3. WorkStays(p)
    BY <2>1, <2>2 DEF WorkStays
  <2> QED
    BY <2>1, <2>3 DEF ReadStays
<1>6. CASE CacheRoster(p)
  <2>1. GoesOn(p)
    BY <1>6, CachingGoesOn DEF CacheRoster
  <2>2. UNCHANGED work \/ \/ \E x, y : work' = [work EXCEPT ![p].targets = x, ![p].candidates = y]
                          \/ \E x : work' = [work EXCEPT ![p].targets = x]
                          \/ \E x : work' = [work EXCEPT ![p].event = x]
    BY <2>1, Zenon DEF GoesOn
  <2>3. UNCHANGED read \/ \E what, then : Ask(p, what, then)
    BY <2>1, Zenon DEF GoesOn
  <2>4. WorkStays(p)
    <3>1. CASE \E x, y : NotesTwo(p, x, y)
      BY <1>0, <3>1, PairNoted
    <3>2. CASE \/ UNCHANGED work
               \/ \E x : \/ work' = [work EXCEPT ![p].targets = x]
                         \/ work' = [work EXCEPT ![p].event = x]
                         \/ work' = [work EXCEPT ![p].entered = x]
      BY <1>0, <3>2 DEF WorkStays
    <3> QED
      BY <2>2, <3>1, <3>2 DEF NotesTwo
  <2>5. ReadStays(p)
    BY <2>3, AskStays, Zenon DEF ReadStays
  <2> QED
    BY <2>4, <2>5
<1>7. CASE Create(p) \/ Generate(p)
  BY <1>7 DEF Create, Generate, WorkStays, ReadStays
<1>8. CASE Structure(p)
  <2>5. CASE job[p].do \in {"phases", "create"} \/ work[p].wrote = "yes"
    BY <1>8, <2>5 DEF Structure, WorkStays, ReadStays
  <2> SUFFICES ASSUME job[p].do \notin {"phases", "create"}, work[p].wrote = "no"
               PROVE  WorkStays(p) /\ ReadStays(p)
    BY <2>5, FieldsHold
  <2>1. UNCHANGED work \/ \E x : work' = [work EXCEPT ![p].phase = x]
    BY <1>8, Zenon DEF Structure
  <2>2. UNCHANGED read \/ \E what, then : Ask(p, what, then)
    BY <1>8, Zenon DEF Structure
  <2>3. WorkStays(p)
    BY <1>0, <2>1 DEF WorkStays
  <2>4. ReadStays(p)
    BY <2>2, AskStays, Zenon DEF ReadStays
  <2> QED
    BY <2>3, <2>4
<1>9. CASE Confirm(p)
  BY <1>0, <1>9 DEF Confirm, WorkStays, ReadStays
<1>10. CASE WriteSeeding(p)
  <2>1. UNCHANGED work /\ (UNCHANGED read \/ \E what, then : Ask(p, what, then))
    BY <1>10, Zenon DEF WriteSeeding
  <2> QED
    BY <2>1, AskStays DEF WorkStays, ReadStays
<1>11. CASE Compare(p) \/ WritePhase(p)
  <2>1. \/ \E x : work' = [work EXCEPT ![p].said = x]
        \/ \E x : work' = [work EXCEPT ![p].wrote = "yes", ![p].said = x]
    BY <1>11, Zenon DEF Compare, WritePhase
  <2>2. UNCHANGED read
    BY <1>11 DEF Compare, WritePhase
  <2>3. WorkStays(p)
    <3>1. ASSUME NEW x, work' = [work EXCEPT ![p].said = x] PROVE WorkStays(p)
      BY <1>0, <3>1 DEF WorkStays
    <3>2. ASSUME NEW x, work' = [work EXCEPT ![p].wrote = "yes", ![p].said = x] PROVE WorkStays(p)
      <4>1. NotesTwo(p, "yes", x)
        BY <3>2 DEF NotesTwo
      <4> QED
        BY <1>0, <4>1, PairNoted
    <3> QED
      BY <2>1, <3>1, <3>2
  <2> QED
    BY <2>2, <2>3 DEF ReadStays
<1>12. CASE Placed(p)
  <2>1. UNCHANGED work \/ \E x : work' = [work EXCEPT ![p].candidates = x]
    BY <1>12, Zenon DEF Placed
  <2>2. UNCHANGED read \/ \E what, then : Ask(p, what, then)
    BY <1>12, Zenon DEF Placed
  <2>3. WorkStays(p)
    BY <1>0, <2>1 DEF WorkStays
  <2>4. ReadStays(p)
    BY <2>2, AskStays, Zenon DEF ReadStays
  <2> QED
    BY <2>3, <2>4
<1>13. CASE Entered(p)
  <2>1. PlansOn(p)
    BY <1>13, EnteredPlansOn
  <2>2. \/ \E x : work' = [work EXCEPT ![p].entered = x]
        \/ \E x, y : work' = [work EXCEPT ![p].entered = x, ![p].plan = y]
    <3>1. CASE \E x, what : work' = [work EXCEPT ![p].entered = x] /\ Ask(p, what, "entered")
      BY <3>1
    <3>2. CASE \E x, y : work' = [work EXCEPT ![p].entered = x, ![p].plan = y]
      BY <3>2
    <3> QED
      BY <2>1, <3>1, <3>2, Zenon DEF PlansOn
  <2>3. UNCHANGED read \/ \E what, then : Ask(p, what, then)
    BY <2>1, Zenon DEF PlansOn
  <2>4. WorkStays(p)
    <3>1. CASE \E x, y : NotesTwo(p, x, y)
      BY <1>0, <3>1, PairNoted
    <3>2. CASE \/ UNCHANGED work
               \/ \E x : \/ work' = [work EXCEPT ![p].targets = x]
                         \/ work' = [work EXCEPT ![p].event = x]
                         \/ work' = [work EXCEPT ![p].entered = x]
      BY <1>0, <3>2 DEF WorkStays
    <3> QED
      BY <2>2, <3>1, <3>2 DEF NotesTwo
  <2>5. ReadStays(p)
    BY <2>3, AskStays, Zenon DEF ReadStays
  <2> QED
    BY <2>4, <2>5
<1>14. CASE RegistrationFails(p) \/ Redeem(p)
  <2>1. NextCandidate(p, work[p]) \/ NextCandidate(p, Failed(work[p]))
    BY <1>14, Zenon DEF RegistrationFails, Redeem
  <2>2. Failed(work[p]).ids = work[p].ids /\ DOMAIN Failed(work[p]) = DOMAIN NoWork
    BY FieldsHold DEF Failed, NoWork
  <2> QED
    BY <2>1, <2>2, FieldsHold, NextStays
<1>15. CASE Verify(p)
  <2>1. \/ \E x : work' = [work EXCEPT ![p].entered = x]
        \/ \E x : work' = [work EXCEPT ![p].entered = x, ![p].wrote = "yes"]
    BY <1>15, Zenon DEF Verify
  <2>2. UNCHANGED read \/ \E what, then : Ask(p, what, then)
    BY <1>15, Zenon DEF Verify
  <2>3. WorkStays(p)
    <3>1. ASSUME NEW x, \/ UNCHANGED work
                        \/ work' = [work EXCEPT ![p].entered = x]
          PROVE  WorkStays(p)
      BY <1>0, <3>1 DEF WorkStays
    <3>2. ASSUME NEW x, NEW y, NotesTwo(p, x, y)
          PROVE  WorkStays(p)
      BY <1>0, <3>2, PairNoted
    <3> QED
      BY <2>1, <3>1, <3>2 DEF NotesTwo
  <2>4. ReadStays(p)
    BY <2>2, AskStays, Zenon DEF ReadStays
  <2> QED
    BY <2>3, <2>4
<1>16. CASE FindNext(p)
  <2>1. UNCHANGED work \/ \E x, y : work' = [work EXCEPT ![p].rows = x, ![p].next = y]
    BY <1>16, Zenon DEF FindNext
  <2>2. UNCHANGED read \/ \E what, then : Ask(p, what, then)
    BY <1>16, Zenon DEF FindNext
  <2>3. WorkStays(p)
    <3>1. ASSUME NEW x, \/ UNCHANGED work
                        \/ work' = [work EXCEPT ![p].entered = x]
          PROVE  WorkStays(p)
      BY <1>0, <3>1 DEF WorkStays
    <3>2. ASSUME NEW x, NEW y, NotesTwo(p, x, y)
          PROVE  WorkStays(p)
      BY <1>0, <3>2, PairNoted
    <3> QED
      BY <2>1, <3>1, <3>2 DEF NotesTwo
  <2>4. ReadStays(p)
    BY <2>2, AskStays, Zenon DEF ReadStays
  <2> QED
    BY <2>3, <2>4
<1>17. CASE Found(p) \/ Rank(p)
  <2>1. CASE Found(p)
    BY <1>0, <2>1 DEF Found, WorkStays, ReadStays
  <2>2. CASE Rank(p)
    <3>1. UNCHANGED read /\ \E x : work' = [work EXCEPT ![p].shown = x]
      BY <2>2, Zenon DEF Rank
    <3> QED
      BY <1>0, <3>1 DEF WorkStays, ReadStays
  <2> QED
    BY <1>17, <2>1, <2>2
<1> QED
  BY <1>1, <1>2, <1>3, <1>4, <1>5, <1>6, <1>7, <1>8, <1>9, <1>10, <1>11, <1>12, <1>13, <1>14,
     <1>15, <1>16, <1>17, Zenon DEF Step

LEMMA JobsStay == ASSUME NEW p \in Processes, Step(p) PROVE UNCHANGED job
BY Zenon DEF Step, Begin, ReadPage, ReadFails, Truncate, Rewrite, Interrupted, SaveFails,
   PoolCommand, Fetched, CacheRoster, Create, Structure, Order, Confirm, WriteSeeding, Compare,
   WritePhase, Placed, Entered, Generate, RegistrationFails, Redeem, Verify, Extra, FindNext,
   Found, Rank

LEMMA SeedsStay ==
    ASSUME NEW p \in Processes, Step(p), ~Create(p), ~WriteSeeding(p), ~WritePhase(p)
    PROVE  UNCHANGED seeds
BY Zenon DEF Step, Begin, ReadPage, ReadFails, Truncate, Rewrite, Interrupted, SaveFails,
   PoolCommand, Fetched, CacheRoster, Structure, Order, Confirm, Compare,
   Placed, Entered, Generate, RegistrationFails, Redeem, Verify, Extra, FindNext,
   Found, Rank, site

-----------------------------------------------------------------------------
(* What is read is a list, at every page of it. *)

LEMMA GotInit == Init => GotInv
BY NothingRead DEF Init, GotInv

LEMMA ReadPageGot ==
    ASSUME RegisterInv, GotInv, NEW p \in Processes, ReadPage(p)
    PROVE  GotInv'
<1> DEFINE r     == read[p]
           page  == PageOf(Nodes(r.what), r.page, r.what[1] # "owned")
           got   == r.got \o Converted(r.what, page.nodes)
<1>1. \E n : read' = [read EXCEPT ![p] = [r EXCEPT !.got = got, !.page = r.page + 1, !.pages = n]]
  BY Zenon DEF ReadPage
<1>2. page.nodes = PageNodes(Nodes(r.what), r.page)
  BY DEF PageOf
<1>3. IsList(page.nodes)
  BY <1>2, PageIsList DEF GotInv
<1>4. IsList(got)
  <2>1. IsList(Converted(r.what, page.nodes))
    BY <1>3, ConvertedIsList
  <2>2. IsList(r.got)
    BY DEF GotInv
  <2> HIDE DEF page
  <2> QED
    BY <2>1, <2>2, Together
<1> HIDE DEF got
<1>5. PICK n : read' = [read EXCEPT ![p] = [r EXCEPT !.got = got, !.page = r.page + 1, !.pages = n]]
  BY <1>1
<1>6. read = [q \in Processes |-> read[q]] /\ DOMAIN r = DOMAIN NoRead
  BY FieldsHold DEF RegisterInv
<1>7. read'[p].page = r.page + 1 /\ read'[p].got = got
  BY <1>5, <1>6 DEF NoRead
<1>8. \A q \in Processes : q # p => read'[q] = read[q]
  BY <1>5, <1>6
<1> QED
  BY <1>4, <1>7, <1>8 DEF GotInv

LEMMA GotStep == RegisterInv /\ GotInv /\ [Next]_vars => GotInv'
<1> SUFFICES ASSUME RegisterInv, GotInv, [Next]_vars PROVE GotInv'
  OBVIOUS
<1>1. CASE UNCHANGED read
  BY <1>1 DEF GotInv
<1>2. ASSUME NEW p \in Processes, Step(p) PROVE GotInv'
  <2>1. CASE ReadPage(p)
    BY <2>1, ReadPageGot
  <2>2. CASE ReadStays(p)
    <3>1. ASSUME NEW what, NEW then,
                 read' = [read EXCEPT ![p] = [NoRead EXCEPT !.what = what, !.then = then]]
          PROVE  GotInv'
      <4>1. read = [q \in Processes |-> read[q]]
        BY DEF RegisterInv
      <4> DEFINE r == [NoRead EXCEPT !.what = what, !.then = then]
      <4>2. r.page = NoRead.page /\ r.got = NoRead.got
        BY DEF NoRead
      <4> HIDE DEF r
      <4>3. \A q \in Processes : read'[q] = r \/ read'[q] = read[q]
        BY <3>1, <4>1 DEF r
      <4> QED
        BY <4>2, <4>3, NothingRead DEF GotInv
    <3> QED
      BY <1>1, <2>2, <3>1 DEF ReadStays
  <2>3. CASE Order(p)
    BY <1>1, <2>3 DEF Order
  <2> QED
    BY <1>2, <2>1, <2>2, <2>3, ListsStay
<1>3. CASE Site
  <2>1. UNCHANGED read
    BY <1>3 DEF Site, Reseed, Indexed, Join, Withdraw, HandEdit, run
  <2> QED
    BY <1>1, <2>1
<1> QED
  BY <1>1, <1>2, <1>3 DEF Next, vars, run

-----------------------------------------------------------------------------
(* What gg-admin writes of the seeds. *)

LEMMA CreateSeeds ==
    ASSUME SeedsInv, NEW p \in Processes, Create(p)
    PROVE  \A ph \in DOMAIN seeds' : SeedList(seeds'[ph])
<1>1. \E id : seeds' = [ph \in DOMAIN seeds \cup {id} |-> IF ph = id THEN <<>> ELSE seeds[ph]]
  BY Zenon DEF Create
<1>2. SeedList(<<>>)
  <2>1. DOMAIN <<>> = 1..0
    OBVIOUS
  <2> QED
    BY <2>1 DEF SeedList
<1>3. ASSUME NEW ph \in DOMAIN seeds'
      PROVE  seeds'[ph] = <<>> \/ (ph \in DOMAIN seeds /\ seeds'[ph] = seeds[ph])
  BY <1>1, <1>3
<1> QED
  BY <1>2, <1>3 DEF SeedsInv

LEMMA WritePhaseSeeds ==
    ASSUME SeedsInv, NEW p \in Processes, WritePhase(p)
    PROVE  \A ph \in DOMAIN seeds' : SeedList(seeds'[ph])
<1>1. \/ UNCHANGED seeds
      \/ seeds' = [ph \in DOMAIN seeds \ {work[p].phase} |-> seeds[ph]]
  BY Zenon DEF WritePhase
<1> QED
  BY <1>1 DEF SeedsInv

(* A strict seeding names every seed of the phase. *)
LEMMA WriteSeedingSeeds ==
    ASSUME Strict, SeedsInv, NEW p \in Processes, WriteSeeding(p)
    PROVE  \A ph \in DOMAIN seeds' : SeedList(seeds'[ph])
<1> DEFINE ph  == work[p].phase
           ids == work[p].ids
           l   == seeds[ph]
<1>1. CASE UNCHANGED seeds
  BY <1>1 DEF SeedsInv
<1>2. CASE /\ ph \in DOMAIN seeds /\ Covers(ph, ids)
           /\ seeds' = [seeds EXCEPT ![ph] = Renumbered(l, ids)]
  <2>1. SeedList(l)
    BY <1>2 DEF SeedsInv
  <2>2. \A i \in DOMAIN l : l[i].id \in ToSet(ids)
    BY <1>2 DEF Covers
  <2>3. PICK n \in Nat : DOMAIN ids = 1..n
    BY DEF SeedsInv
  <2> HIDE DEF l, ids
  <2>4. SeedList(Renumbered(l, ids))
    BY <2>1, <2>2, <2>3, RenumberedList
  <2> QED
    BY <1>2, <2>4, OneList DEF SeedsInv
<1> QED
  BY <1>1, <1>2, Zenon DEF WriteSeeding

LEMMA SeedsStep ==
    ASSUME Strict
    PROVE  RegisterInv /\ GotInv /\ SeedsInv /\ [Next]_vars => SeedsInv'
<1> SUFFICES ASSUME RegisterInv, GotInv, SeedsInv, [Next]_vars PROVE SeedsInv'
  OBVIOUS
<1>1. CASE Site
  BY <1>1, SiteSeeds
<1>2. ASSUME NEW p \in Processes, Step(p) PROVE SeedsInv'
  <2>1. UNCHANGED job
    BY <1>2, JobsStay
  <2>2. ASSUME NEW q \in Processes PROVE IdsOK(work'[q])
    <3>1. CASE Order(p)
      <4>1. CASE q = p
        BY <3>1, <4>1, OrderIds
      <4>2. CASE q # p
        <5>1. UNCHANGED work \/ \E x : work' = [work EXCEPT ![p].ids = x]
          BY <3>1, Zenon DEF Order
        <5>2. work'[q] = work[q]
          BY <4>2, <5>1 DEF RegisterInv
        <5> QED
          BY <5>2 DEF SeedsInv, IdsOK
      <4> QED
        BY <4>1, <4>2
    <3>2. CASE ReadPage(p)
      BY <3>2 DEF ReadPage, SeedsInv, IdsOK
    <3>3. CASE WorkStays(p)
      BY <3>3 DEF WorkStays, SeedsInv, IdsOK
    <3> QED
      BY <1>2, <3>1, <3>2, <3>3, ListsStay
  <2>3. \A ph \in DOMAIN seeds' : SeedList(seeds'[ph])
    <3>1. CASE UNCHANGED seeds
      BY <3>1 DEF SeedsInv
    <3> QED
      BY <1>2, <3>1, CreateSeeds, WriteSeedingSeeds, WritePhaseSeeds, SeedsStay
  <2> QED
    BY <2>1, <2>2, <2>3 DEF SeedsInv, IdsOK
<1>3. CASE UNCHANGED vars
  BY <1>3 DEF vars, site, run, SeedsInv
<1> QED
  BY <1>1, <1>2, <1>3 DEF Next

(* No two seeds of a phase end with one number, for every strict seeding,    *)
(* whatever others do between its pages and its write.                     *)
THEOREM NumbersStayDistinct == ASSUME Strict PROVE Spec => []NumbersDistinct
<1>1. Init => RegisterInv /\ GotInv /\ SeedsInv
  BY RegisterInit, GotInit, SeedsInit
<1>2. RegisterInv /\ GotInv /\ SeedsInv /\ [Next]_vars => (RegisterInv /\ GotInv /\ SeedsInv)'
  BY RegisterStep, GotStep, SeedsStep
<1>3. SeedsInv => NumbersDistinct
  BY DEF SeedsInv, SeedList, NumbersDistinct
<1> QED
  BY <1>1, <1>2, <1>3, PTL DEF Spec

-----------------------------------------------------------------------------
(* The rosters in the cache. *)

(* A person the list names is among those read. *)
Holds(got, n) == n # Null /\ n.tag # Null => Participant(n) \in ToSet(got)

(* Everyone who was there at first is. *)
Whole(t, got)   == \A i \in DOMAIN Rosters[t] : Holds(got, Rosters[t][i])

(* The pages read so far are; and the pages to come reach to the end.       *)
Covered(t, r)   == \A i \in DOMAIN Rosters[t] : i <= PageSize * (r.page - 1) => Holds(r.got, Rosters[t][i])
Reaching(t, r)  == r.page > 1 => r.pages \in Nat /\ \A i \in DOMAIN Rosters[t] : i <= PageSize * r.pages

(* The live roster was read, in full or without those who paid. *)
LiveRead(r)  == r.what = <<"unpaid", Live>> \/ (r.what = <<"roster", Live>> /\ Whole(Live, r.got))
IsRoster(r)  == r.what[1] = "roster" /\ r.what[2] \in Tournaments

ReadInv(at, r, w) ==
    /\ at = "reading" =>
         /\ r.page \in Nat \ {0}
         /\ IsRoster(r) => Covered(r.what[2], r) /\ Reaching(r.what[2], r)
         /\ r.then = "fetched" => r.what \in {<<"unpaid", Live>>, <<"roster", Live>>}
         /\ r.then = "found" => r.what[1] = "roster"
    /\ at \in {"fetched", "caching"} => LiveRead(r)
    /\ at \in {"saving", "rewriting"} /\ w.then = "caching" => LiveRead(r)
    /\ at = "found" => IsRoster(r) /\ Whole(r.what[2], r.got)

(* The site's rosters only grow. *)
Grown(t) ==
    /\ roster[t] \in Seq(ToSet(roster[t]))
    /\ \A i \in DOMAIN Rosters[t] : i \in DOMAIN roster[t] /\ roster[t][i] = Rosters[t][i]

CacheInv ==
    /\ roster = [t \in Tournaments |-> roster[t]] /\ \A t \in Tournaments : Grown(t)
    /\ cache = [t \in Tournaments |-> cache[t]]
    /\ \A t \in Tournaments : cache[t] # Null => IsList(cache[t]) /\ Whole(t, cache[t])
    /\ \A p \in Processes : ReadInv(pc[p], read[p], work[p])

(* Nothing is left out of a selection. *)
LEMMA OnlyHas ==
    ASSUME NEW s, NEW S, \A i \in S : i \in Nat, IsFiniteSet(S), NEW i \in S
    PROVE  s[i] \in ToSet(Only(s, S))
<1> DEFINE Upto(x) == {j \in S : j <= x}
           upto == [x \in S |-> Upto(x)]
           k == Cardinality(Upto(i))
           Nth(c) == CHOOSE x \in S : Cardinality(Upto(x)) = c
<1>1. upto \in [S -> SUBSET S] /\ \A x \in S : upto[x] = Upto(x)
  OBVIOUS
<1>2. \A x \in S : x \in Upto(x)
  OBVIOUS
<1>3. \A x, y \in S : x # y => \/ Upto(x) \subseteq Upto(y) /\ y \notin Upto(x)
                               \/ Upto(y) \subseteq Upto(x) /\ x \notin Upto(y)
  <2>1. ASSUME NEW x \in S, NEW y \in S, x < y PROVE Upto(x) \subseteq Upto(y) /\ y \notin Upto(x)
    BY <2>1
  <2>2. \A x, y \in S : x # y => x < y \/ y < x
    OBVIOUS
  <2> HIDE DEF Upto
  <2> QED
    BY <2>1, <2>2
<1>4. Only(s, S) = [c \in 1..Cardinality(S) |-> s[Nth(c)]]
  BY DEF Only
<1>5. \A x, y \in S : Cardinality(Upto(x)) = Cardinality(Upto(y)) => x = y
  <2> HIDE DEF upto, Upto
  <2>1. \A x \in S : x \in upto[x]
    BY <1>1, <1>2
  <2>2. \A x, y \in S : x # y => \/ upto[x] \subseteq upto[y] /\ y \notin upto[x]
                                 \/ upto[y] \subseteq upto[x] /\ x \notin upto[y]
    BY <1>1, <1>3
  <2>3. \A x, y \in S : Cardinality(upto[x]) = Cardinality(upto[y]) => x = y
    BY <1>1, <2>1, <2>2, Ranks
  <2> QED
    BY <1>1, <2>3
<1>6. k \in 1..Cardinality(S)
  <2>1. Upto(i) \in SUBSET S /\ Upto(i) # {}
    BY <1>2
  <2> HIDE DEF Upto
  <2>2. IsFiniteSet(Upto(i)) /\ Cardinality(Upto(i)) <= Cardinality(S)
    BY <2>1, FS_Subset
  <2> QED
    BY <2>1, <2>2, FS_CardinalityType, FS_EmptySet
<1> HIDE DEF Upto
<1>7. Nth(k) = i
  BY <1>5
<1> HIDE DEF Nth, k
<1> DEFINE t == Only(s, S)
<1>8. k \in DOMAIN t /\ t[k] = s[i]
  BY <1>4, <1>6, <1>7
<1> HIDE DEF t
<1>9. s[i] \in ToSet(t)
  BY <1>8 DEF ToSet
<1> QED
  BY <1>9 DEF t

(* The places of a page of a list. *)
PlacesOf(list, k) == {i \in (PageSize * (k - 1) + 1)..(PageSize * k) : i \in DOMAIN list}

(* A page holds the people at its places. *)
LEMMA PageHolds ==
    ASSUME NEW list, list \in Seq(ToSet(list)), NEW k \in Nat, NEW i \in PlacesOf(list, k)
    PROVE  Holds(Participants(PageNodes(list, k)), list[i])
<1> DEFINE S == PlacesOf(list, k)
           page == PageNodes(list, k)
<1>1. page = Only(list, S)
  BY DEF PageNodes, PlacesOf
<1>2. S \in SUBSET (1..Len(list)) /\ Len(list) \in Nat
  BY DEF PlacesOf
<1>3. IsFiniteSet(S)
  <2>1. IsFiniteSet(1..Len(list))
    BY <1>2, FS_Interval
  <2> HIDE DEF S
  <2> QED
    BY <1>2, <2>1, FS_Subset
<1>4. \A x \in S : x \in Nat
  BY <1>2
<1>5. list[i] \in ToSet(page)
  <2> HIDE DEF S
  <2> SUFFICES i \in S
    BY <1>1, <1>3, <1>4, OnlyHas
  <2> QED
    BY DEF S
<1>6. IsList(page)
  BY PageIsList
<1> HIDE DEF page
<1>7. PICK j \in DOMAIN page : page[j] = list[i]
  BY <1>5 DEF ToSet
<1> SUFFICES ASSUME list[i] # Null, list[i].tag # Null
             PROVE  Participant(list[i]) \in ToSet(Participants(page))
  BY DEF Holds, page
<1> DEFINE F == {x \in DOMAIN page : page[x] # Null /\ \A f \in {"tag"} : page[x][f] # Null}
           l == Only(page, F)
           u == [x \in DOMAIN l |-> Participant(l[x])]
<1>8. j \in F
  BY <1>7
<1>9. IsFiniteSet(F) /\ \A x \in F : x \in Nat
  <2>1. PICK n \in Nat : DOMAIN page = 1..n
    BY <1>6 DEF IsList
  <2>2. F \in SUBSET (1..n)
    BY <2>1
  <2>3. IsFiniteSet(1..n) /\ \A x \in F : x \in Nat
    BY <2>2, FS_Interval
  <2> HIDE DEF F
  <2> QED
    BY <2>2, <2>3, FS_Subset
<1> HIDE DEF F
<1>10. page[j] \in ToSet(l)
  BY <1>8, <1>9, OnlyHas
<1>11. Participants(page) = u
  BY Zenon DEF Participants, Each, Having, F
<1> HIDE DEF l
<1>12. PICK m \in DOMAIN l : l[m] = list[i]
  BY <1>7, <1>10 DEF ToSet
<1>13. m \in DOMAIN u /\ u[m] = Participant(list[i])
  BY <1>12
<1> HIDE DEF u
<1> QED
  BY <1>11, <1>13 DEF ToSet

(* What is read stays with what is read after it. *)
LEMMA TogetherHas ==
    ASSUME NEW s, NEW t, IsList(s), IsList(t)
    PROVE  ToSet(s) \subseteq ToSet(s \o t) /\ ToSet(t) \subseteq ToSet(s \o t)
<1>1. PICK m \in Nat : DOMAIN s = 1..m /\ s = [i \in 1..m |-> s[i]]
  BY DEF IsList
<1>2. PICK n \in Nat : DOMAIN t = 1..n /\ t = [i \in 1..n |-> t[i]]
  BY DEF IsList
<1> DEFINE u == s \o t
<1>5. DOMAIN u = 1..(m + n)
  BY <1>1, <1>2, Joined
<1>6. \A i \in 1..m : u[i] = s[i]
  BY <1>1, <1>2, Joined
<1>7. \A i \in 1..n : u[m + i] = t[i]
  BY <1>1, <1>2, Joined
<1> HIDE DEF u
<1>8. ToSet(s) \subseteq ToSet(u) /\ ToSet(t) \subseteq ToSet(u)
  <2>1. \A i \in 1..m : i \in DOMAIN u
    BY <1>5
  <2>2. \A i \in 1..n : m + i \in DOMAIN u
    BY <1>5
  <2> QED
    BY <1>1, <1>2, <1>6, <1>7, <2>1, <2>2 DEF ToSet
<1> QED
  BY <1>8 DEF u

(* The pages counted on the site reach to the end of the list.              *)
LEMMA PagesReach ==
    ASSUME NEW list, list \in Seq(ToSet(list))
    PROVE  PageCount(list) \in Nat /\ \A i \in DOMAIN list : i <= PageSize * PageCount(list)
<1> DEFINE n == Len(list)
<1>1. n \in Nat /\ DOMAIN list = 1..n /\ PageSize \in Nat \ {0}
  BY PageAssumption
<1>2. CASE list = <<>>
  BY <1>1, <1>2 DEF PageCount
<1>3. CASE list # <<>>
  <2>1. PageCount(list) = (n + PageSize - 1) \div PageSize
    BY <1>3 DEF PageCount
  <2> DEFINE q == (n + PageSize - 1) \div PageSize
  <2>2. n + PageSize - 1 \in Nat
    BY <1>1
  <2>3. q \in Nat /\ n <= PageSize * q
    <3> HIDE DEF n
    <3> QED
      BY <1>1, <2>2
  <2> QED
    BY <1>1, <2>1, <2>3
<1> QED
  BY <1>2, <1>3

(* A page more of a roster is read. *)
LEMMA PageCovers ==
    ASSUME CacheInv, NEW t \in Tournaments, NEW r, r.page \in Nat \ {0}, IsList(r.got),
           Covered(t, r), Reaching(t, r), NEW page, page = PageOf(roster[t], r.page, TRUE),
           NEW s, s.got = r.got \o Participants(page.nodes), s.page = r.page + 1,
           s.pages = IF r.page = 1 THEN TotalPages(page) ELSE r.pages
    PROVE  /\ Covered(t, s) /\ Reaching(t, s)
           /\ r.page >= s.pages => Whole(t, s.got)
<1> DEFINE list == roster[t]
           more == Participants(PageNodes(list, r.page))
<1>1. list \in Seq(ToSet(list)) /\ \A i \in DOMAIN Rosters[t] : i \in DOMAIN list /\ list[i] = Rosters[t][i]
  BY DEF CacheInv, Grown
<1>2. page.nodes = PageNodes(list, r.page) /\ page.total = PageCount(list)
  BY DEF PageOf
<1>3. Rosters[t] \in Seq(ToSet(Rosters[t])) /\ PageSize \in Nat \ {0}
  BY RostersAssumption, PageAssumption DEF Tournaments
<1>4. \A i \in DOMAIN Rosters[t] : i \in Nat \ {0}
  BY <1>3
<1>5. IsList(more)
  <2>1. IsList(PageNodes(list, r.page))
    BY PageIsList
  <2> HIDE DEF list
  <2>2. IsList(Converted(<<"roster", t>>, PageNodes(list, r.page)))
    BY <2>1, ConvertedIsList
  <2> QED
    BY <2>2 DEF Converted
<1> HIDE DEF list
<1>6. ToSet(r.got) \subseteq ToSet(s.got) /\ ToSet(more) \subseteq ToSet(s.got)
  <2> HIDE DEF more
  <2>1. s.got = r.got \o more
    BY <1>2 DEF more
  <2> QED
    BY <1>5, <2>1, TogetherHas
<1>7. ASSUME NEW i \in DOMAIN Rosters[t], i <= PageSize * r.page
      PROVE  Holds(s.got, Rosters[t][i])
  <2>1. CASE i <= PageSize * (r.page - 1)
    <3>1. Holds(r.got, Rosters[t][i])
      BY <2>1 DEF Covered
    <3> QED
      BY <1>6, <3>1 DEF Holds
  <2>2. CASE ~(i <= PageSize * (r.page - 1))
    <3>1. PageSize * (r.page - 1) \in Int /\ PageSize * r.page \in Int /\ i \in Nat
      BY <1>3, <1>4
    <3>2. i \in DOMAIN list /\ list[i] = Rosters[t][i]
      BY <1>1
    <3>3. i \in PlacesOf(list, r.page)
      BY <1>7, <2>2, <3>1, <3>2 DEF PlacesOf
    <3>4. Holds(more, list[i])
      BY <1>1, <3>3, PageHolds
    <3> QED
      BY <1>6, <3>2, <3>4 DEF Holds
  <2> QED
    BY <2>1, <2>2
<1>8. Covered(t, s)
  <2>1. s.page - 1 = r.page
    OBVIOUS
  <2> QED
    BY <1>7, <2>1 DEF Covered
<1>9. s.pages \in Nat /\ \A i \in DOMAIN Rosters[t] : i <= PageSize * s.pages
  <2>1. CASE r.page = 1
    <3>1. PageCount(list) \in Nat /\ \A i \in DOMAIN list : i <= PageSize * PageCount(list)
      BY <1>1, PagesReach
    <3>2. s.pages = PageCount(list)
      BY <1>2, <2>1, <3>1, PageAssumption DEF TotalPages, Or
    <3> QED
      BY <1>1, <3>1, <3>2
  <2>2. CASE r.page # 1
    BY <2>2 DEF Reaching
  <2> QED
    BY <2>1, <2>2
<1>10. Reaching(t, s)
  BY <1>9 DEF Reaching
<1>11. ASSUME r.page >= s.pages PROVE Whole(t, s.got)
  <2>1. ASSUME NEW i \in DOMAIN Rosters[t] PROVE i <= PageSize * r.page
    <3>1. i \in Nat /\ i <= PageSize * s.pages
      BY <1>4, <1>9
    <3>2. \A a, b, c \in Nat : c * b \in Nat /\ (a >= b => c * b <= c * a)
      OBVIOUS
    <3>3. PageSize * s.pages <= PageSize * r.page
      BY <1>3, <1>9, <1>11, <3>2
    <3>4. PageSize * s.pages \in Nat /\ PageSize * r.page \in Nat
      BY <1>3, <1>9, <3>2
    <3>5. \A a, b, c \in Nat : a <= b /\ b <= c => a <= c
      OBVIOUS
    <3> QED
      BY <3>1, <3>3, <3>4, <3>5
  <2> QED
    BY <1>7, <2>1 DEF Whole
<1> QED
  BY <1>8, <1>10, <1>11

OthersKeep(p) == \A q \in Processes : q # p => work'[q] = work[q]

(* A step of one command leaves what the others read. *)
LEMMA OneReads ==
    ASSUME RegisterInv, CacheInv, NEW p \in Processes, NEW at, NEW r,
           pc' = [pc EXCEPT ![p] = at], read' = [read EXCEPT ![p] = r], OthersKeep(p),
           ReadInv(at, r, work'[p])
    PROVE  \A q \in Processes : ReadInv(pc'[q], read'[q], work'[q])
<1>1. pc'[p] = at /\ read'[p] = r
  BY DEF RegisterInv
<1>2. \A q \in Processes : q # p => pc'[q] = pc[q] /\ read'[q] = read[q] /\ work'[q] = work[q]
  BY DEF RegisterInv, OthersKeep
<1>3. \A q \in Processes : ReadInv(pc[q], read[q], work[q])
  BY DEF CacheInv
<1>4. ASSUME NEW q \in Processes PROVE ReadInv(pc'[q], read'[q], work'[q])
  <2>1. CASE q = p
    BY <1>1, <2>1
  <2>2. CASE q # p
    BY <1>2, <1>3, <2>2
  <2> QED
    BY <2>1, <2>2
<1> QED
  BY <1>4

(* Where nothing read is told of. *)
Busy == {"reading", "fetched", "caching", "saving", "rewriting", "found"}
Readers == \A q \in Processes : ReadInv(pc'[q], read'[q], work'[q])

LEMMA GoesAside ==
    ASSUME RegisterInv, CacheInv, NEW p \in Processes, NEW at, at \notin Busy, Goto(p, at),
           UNCHANGED read, OthersKeep(p)
    PROVE  Readers
<1>1. read' = [read EXCEPT ![p] = read[p]]
  BY FieldsHold
<1>2. ReadInv(at, read[p], work'[p])
  BY DEF ReadInv, Busy
<1>3. pc' = [pc EXCEPT ![p] = at]
  BY DEF Goto
<1> QED
  BY <1>1, <1>2, <1>3, OneReads DEF Readers

LEMMA AsksAnew ==
    ASSUME RegisterInv, CacheInv, NEW p \in Processes, NEW what, NEW then, Ask(p, what, then),
           then = "fetched" => what \in {<<"unpaid", Live>>, <<"roster", Live>>},
           then = "found" => what[1] = "roster", OthersKeep(p)
    PROVE  Readers
<1> DEFINE r == [NoRead EXCEPT !.what = what, !.then = then]
<1>1. read' = [read EXCEPT ![p] = r] /\ pc' = [pc EXCEPT ![p] = "reading"]
  BY DEF Ask, Goto
<1>2. r.what = what /\ r.then = then /\ r.page = 1
  BY DEF NoRead
<1> HIDE DEF r
<1>3. ASSUME NEW t \in Tournaments PROVE Covered(t, r) /\ Reaching(t, r)
  <2>1. Rosters[t] \in Seq(ToSet(Rosters[t]))
    BY RostersAssumption DEF Tournaments
  <2>2. \A i \in DOMAIN Rosters[t] : i \in Nat /\ i >= 1
    BY <2>1
  <2>3. PageSize * (r.page - 1) = 0
    BY <1>2, PageAssumption
  <2>4. \A i \in DOMAIN Rosters[t] : ~(i <= PageSize * (r.page - 1))
    BY <2>2, <2>3
  <2> QED
    BY <1>2, <2>4 DEF Covered, Reaching
<1>4. ReadInv("reading", r, work'[p])
  BY <1>2, <1>3 DEF ReadInv, IsRoster
<1> QED
  BY <1>1, <1>4, OneReads DEF Readers

(* Most steps go somewhere else or ask for something else. *)
Others(p) ==
    \/ UNCHANGED read /\ \E at : at \notin Busy /\ Goto(p, at)
    \/ \E what, then : then \notin {"fetched", "found"} /\ Ask(p, what, then)

LEMMA OthersRead ==
    ASSUME RegisterInv, CacheInv, NEW p \in Processes, Others(p), OthersKeep(p)
    PROVE  Readers
<1>1. ASSUME NEW at, at \notin Busy, Goto(p, at), UNCHANGED read PROVE Readers
  BY <1>1, GoesAside
<1>2. ASSUME NEW what, NEW then, then \notin {"fetched", "found"}, Ask(p, what, then) PROVE Readers
  BY <1>2, AsksAnew
<1> QED
  BY <1>1, <1>2 DEF Others

LEMMA Asking ==
    ASSUME NEW p, NEW what, NEW then, then \notin {"fetched", "found"}, Ask(p, what, then)
    PROVE  Others(p)
BY DEF Others
LEMMA Going ==
    ASSUME NEW p, NEW at, at \notin Busy, Goto(p, at), UNCHANGED read
    PROVE  Others(p)
BY DEF Others

LEMMA NextOthers == ASSUME NEW p \in Processes, NEW w1, NextCandidate(p, w1) PROVE Others(p)
<1>1. \/ Goto(p, "generate") /\ UNCHANGED read
      \/ \E what : Ask(p, what, "verify")
  BY Zenon DEF NextCandidate
<1>2. "generate" \notin Busy /\ "verify" \notin {"fetched", "found"}
  BY DEF Busy
<1> QED
  BY <1>1, <1>2, Asking, Going

LEMMA StepOthers ==
    ASSUME RegisterInv, NEW p \in Processes, Step(p), ~Begin(p), ~ReadPage(p), ~FindNext(p),
           ~(Truncate(p) \/ Rewrite(p) \/ Interrupted(p) \/ SaveFails(p)),
           ~PoolCommand(p), ~Fetched(p), ~Extra(p)
    PROVE  Others(p)
<1> DEFINE Aside == UNCHANGED read /\ \E at \in {"finding", "failed", "structure", "redeem", "done", "confirm",
                                                 "write", "generate", "create", "rank"} : Goto(p, at)
           Asked == \E what : \E then \in {"order", "compare", "entered", "placed", "verify", "done"} :
                        Ask(p, what, then)
<1>1. Aside => Others(p)
  <2>1. \A at \in {"finding", "failed", "structure", "redeem", "done", "confirm", "write", "generate",
                   "create", "rank"} : at \notin Busy
    BY DEF Busy
  <2> QED
    BY <2>1 DEF Others
<1>2. Asked => Others(p)
  BY DEF Others
<1>3. CASE ReadFails(p)
  BY <1>1, <1>3 DEF ReadFails, Fail
<1>4. CASE CacheRoster(p)
  <2>1. GoesOn(p)
    BY <1>4, CachingGoesOn DEF CacheRoster
  <2>2. Aside \/ Asked
    BY <2>1 DEF GoesOn
  <2> QED
    BY <1>1, <1>2, <2>2
<1>5. CASE Create(p) \/ Generate(p)
  BY <1>1, <1>5 DEF Create, Generate
<1>6. CASE Structure(p)
  <2>1. CASE job[p].do \in {"phases", "create"} \/ work[p].wrote = "yes"
    BY <1>1, <1>6, <2>1 DEF Structure
  <2>2. CASE job[p].do \notin {"phases", "create"} /\ work[p].wrote = "no"
    <3>1. \/ (\E what : Ask(p, what, "order"))
          \/ UNCHANGED read /\ (Goto(p, "failed") \/ Goto(p, "confirm"))
      BY <1>6, <2>2, Zenon DEF Structure, Fail
    <3> QED
      BY <1>1, <1>2, <3>1
  <2> QED
    BY <2>1, <2>2, FieldsHold
<1>7. CASE Order(p)
  <2>1. UNCHANGED read /\ (Goto(p, "failed") \/ Goto(p, "confirm"))
    BY <1>7, Zenon DEF Order, Fail
  <2> QED
    BY <1>1, <2>1
<1>8. CASE Confirm(p)
  <2>1. UNCHANGED read /\ \E at \in {"done", "write", "generate"} : Goto(p, at)
    BY <1>8 DEF Confirm
  <2> QED
    BY <1>1, <2>1
<1>9. CASE WriteSeeding(p)
  <2>1. (\E what : Ask(p, what, "compare")) \/ (UNCHANGED read /\ Goto(p, "failed"))
    BY <1>9, Zenon DEF WriteSeeding, Fail
  <2> QED
    BY <1>1, <1>2, <2>1
<1>10. CASE Compare(p)
  <2>1. UNCHANGED read /\ Goto(p, "done")
    BY <1>10, Zenon DEF Compare
  <2> QED
    BY <1>1, <2>1
<1>11. CASE WritePhase(p)
  <2>1. UNCHANGED read /\ (Goto(p, "structure") \/ Goto(p, "failed"))
    BY <1>11, Zenon DEF WritePhase, Fail
  <2> QED
    BY <1>1, <2>1
<1>12. CASE Placed(p)
  <2>1. (\E what : Ask(p, what, "entered")) \/ (UNCHANGED read /\ Goto(p, "failed"))
    BY <1>12, Zenon DEF Placed, Fail
  <2> QED
    BY <1>1, <1>2, <2>1
<1>13. CASE Entered(p)
  <2>1. PlansOn(p)
    BY <1>13, EnteredPlansOn
  <2>2. Aside \/ Asked
    BY <2>1 DEF PlansOn
  <2> QED
    BY <1>1, <1>2, <2>2
<1>14. CASE RegistrationFails(p) \/ Redeem(p)
  <2>1. \E w1 : NextCandidate(p, w1)
    BY <1>14, Zenon DEF RegistrationFails, Redeem
  <2> QED
    BY <2>1, NextOthers
<1>15. CASE Verify(p)
  <2>1. \/ \E what : Ask(p, what, "verify")
        \/ UNCHANGED read /\ Goto(p, IF work[p].failures > 0 THEN "failed" ELSE "done")
    BY <1>15, Zenon DEF Verify
  <2> QED
    BY <1>1, <1>2, <2>1
<1>16. CASE Found(p) \/ Rank(p)
  <2>1. UNCHANGED read /\ (Goto(p, "finding") \/ Goto(p, "done"))
    BY <1>16, Zenon DEF Found, Rank
  <2> QED
    BY <1>1, <2>1
<1> QED
  BY <1>3, <1>4, <1>5, <1>6, <1>7, <1>8, <1>9, <1>10, <1>11, <1>12, <1>13, <1>14, <1>15, <1>16, Zenon DEF Step

(* No step touches what another command has noted. *)
LEMMA OthersKept == ASSUME RegisterInv, NEW p \in Processes, Step(p) PROVE OthersKeep(p)
<1>1. CASE ReadPage(p)
  BY <1>1 DEF ReadPage, OthersKeep
<1>2. CASE Order(p)
  <2>1. UNCHANGED work \/ \E x : work' = [work EXCEPT ![p].ids = x]
    BY <1>2, Zenon DEF Order
  <2> QED
    BY <2>1 DEF RegisterInv, OthersKeep
<1>3. CASE WorkStays(p)
  BY <1>3 DEF WorkStays, OthersKeep
<1> QED
  BY <1>1, <1>2, <1>3, ListsStay

(* The commands whose roster, or whose save, is under way. *)
LEMMA BeginReads == ASSUME RegisterInv, CacheInv, NEW p \in Processes, Begin(p) PROVE Readers
<1>1. OthersKeep(p)
  BY OthersKept DEF Step
<1>2. \/ \E at \in {"failed", "finding", "extra", "pool"} : Goto(p, at) /\ UNCHANGED read
      \/ Ask(p, <<"owned", 0>>, "pool")
      \/ Ask(p, <<"unpaid", Live>>, "fetched") \/ Ask(p, <<"roster", Live>>, "fetched")
  BY DEF Begin, Fail
<1>3. ASSUME NEW at \in {"failed", "finding", "extra", "pool"}, Goto(p, at), UNCHANGED read PROVE Readers
  BY <1>1, <1>3, GoesAside DEF Busy
<1> QED
  BY <1>1, <1>2, <1>3, AsksAnew

LEMMA FindNextReads == ASSUME RegisterInv, CacheInv, NEW p \in Processes, FindNext(p) PROVE Readers
<1>1. OthersKeep(p)
  BY OthersKept DEF Step
<1>2. \/ \E at \in {"failed", "rank"} : Goto(p, at) /\ UNCHANGED read
      \/ UNCHANGED <<pc, read>> /\ pc[p] = "finding"
      \/ \E t : Ask(p, <<"roster", t>>, "found")
  BY DEF FindNext, At
<1>3. ASSUME NEW at \in {"failed", "rank", "finding"}, Goto(p, at), UNCHANGED read PROVE Readers
  BY <1>1, <1>3, GoesAside DEF Busy
<1>4. UNCHANGED pc /\ pc[p] = "finding" => Goto(p, "finding")
  BY DEF Goto, RegisterInv
<1>5. ASSUME NEW t, Ask(p, <<"roster", t>>, "found") PROVE Readers
  BY <1>1, <1>5, AsksAnew
<1> QED
  BY <1>2, <1>3, <1>4, <1>5

(* A save, with the roster or without it. *)
LEMMA SaveReads ==
    ASSUME RegisterInv, CacheInv, NEW p \in Processes, OthersKeep(p), UNCHANGED read,
           NEW at, Goto(p, at), at \in {"caching", "saving"}, work'[p].then = "caching" \/ at = "caching" => LiveRead(read[p])
    PROVE  Readers
<1>1. read' = [read EXCEPT ![p] = read[p]] /\ pc' = [pc EXCEPT ![p] = at]
  BY FieldsHold DEF Goto
<1>2. ReadInv(at, read[p], work'[p])
  BY DEF ReadInv
<1> QED
  BY <1>1, <1>2, OneReads DEF Readers

LEMMA RememberReads ==
    ASSUME RegisterInv, CacheInv, NEW p \in Processes, OthersKeep(p), UNCHANGED read,
           NEW t, NEW then \in {"caching", "finding"}, Remember(p, t, then),
           then = "caching" => LiveRead(read[p])
    PROVE  Readers
<1>1. CASE \E file : Save(p, file, then)
  <2>1. PICK file : Save(p, file, then)
    BY <1>1
  <2> DEFINE w == [work[p] EXCEPT !.file = file, !.then = then]
  <2>2. work' = [work EXCEPT ![p] = w] /\ Goto(p, "saving")
    BY <2>1 DEF Save
  <2>3. w.then = then
    BY FieldsHold DEF NoWork
  <2> HIDE DEF w
  <2>4. work'[p].then = then
    BY <2>2, <2>3 DEF RegisterInv
  <2> QED
    BY <2>2, <2>4, SaveReads
<1>2. CASE Goto(p, then)
  <2>1. CASE then = "caching"
    BY <1>2, <2>1, SaveReads
  <2>2. CASE then = "finding"
    BY <1>2, <2>2, GoesAside DEF Busy
  <2> QED
    BY <2>1, <2>2
<1> QED
  BY <1>1, <1>2 DEF Remember

LEMMA FileReads ==
    ASSUME RegisterInv, CacheInv, NEW p \in Processes,
           Truncate(p) \/ Rewrite(p) \/ Interrupted(p) \/ SaveFails(p)
    PROVE  Readers
<1>1. OthersKeep(p) /\ UNCHANGED <<read, work>> /\ pc[p] \in {"saving", "rewriting"}
  BY OthersKept DEF Step, Truncate, Rewrite, Interrupted, SaveFails, At
<1>2. work[p].then = "caching" => LiveRead(read[p])
  BY <1>1 DEF CacheInv, ReadInv
<1>3. \E at \in {"rewriting", "failed", "done", "caching", "finding"} :
          Goto(p, at) /\ (at = "caching" => work[p].then = "caching")
  BY FieldsHold DEF Truncate, Rewrite, Interrupted, SaveFails, Fail, AfterSave
<1>4. PICK at \in {"rewriting", "failed", "done", "caching", "finding"} :
          Goto(p, at) /\ (at = "caching" => work[p].then = "caching")
  BY <1>3
<1>5. ReadInv(at, read[p], work'[p])
  BY <1>1, <1>2, <1>4 DEF ReadInv
<1>6. read' = [read EXCEPT ![p] = read[p]] /\ pc' = [pc EXCEPT ![p] = at]
  BY <1>1, <1>4, FieldsHold DEF Goto
<1> QED
  BY <1>1, <1>5, <1>6, OneReads DEF Readers

LEMMA PoolReads == ASSUME RegisterInv, CacheInv, NEW p \in Processes, PoolCommand(p) PROVE Readers
<1>1. OthersKeep(p) /\ UNCHANGED read
  BY OthersKept DEF Step, PoolCommand
<1>2. \/ \E at \in {"failed", "done"} : Goto(p, at)
      \/ \E file : Save(p, file, "done")
  BY DEF PoolCommand, Fail
<1>3. ASSUME NEW at \in {"failed", "done"}, Goto(p, at) PROVE Readers
  BY <1>1, <1>3, GoesAside DEF Busy
<1>4. ASSUME NEW file, Save(p, file, "done") PROVE Readers
  <2> DEFINE w == [work[p] EXCEPT !.file = file, !.then = "done"]
  <2>1. work' = [work EXCEPT ![p] = w] /\ Goto(p, "saving")
    BY <1>4 DEF Save
  <2>2. w.then = "done"
    BY FieldsHold DEF NoWork
  <2> HIDE DEF w
  <2>3. work'[p].then = "done"
    BY <2>1, <2>2 DEF RegisterInv
  <2> QED
    BY <1>1, <2>1, <2>3, SaveReads
<1> QED
  BY <1>2, <1>3, <1>4

LEMMA FetchedReads == ASSUME RegisterInv, CacheInv, NEW p \in Processes, Fetched(p) \/ Extra(p) PROVE Readers
<1>1. OthersKeep(p) /\ UNCHANGED read
  BY OthersKept DEF Step, Fetched, Extra
<1>2. CASE Fetched(p)
  <2>1. LiveRead(read[p]) /\ Remember(p, Live, "caching")
    BY <1>2 DEF Fetched, At, CacheInv, ReadInv
  <2> QED
    BY <1>1, <2>1, RememberReads
<1>3. CASE Extra(p)
  <2>1. \E t : Remember(p, t, "finding")
    BY <1>3 DEF Extra
  <2> QED
    BY <1>1, <2>1, RememberReads
<1> QED
  BY <1>2, <1>3

(* A page is read; with the last one the command goes on. *)
LEMMA PageReads == ASSUME RegisterInv, GotInv, CacheInv, NEW p \in Processes, ReadPage(p) PROVE Readers
<1> DEFINE r     == read[p]
           page  == PageOf(Nodes(r.what), r.page, r.what[1] # "owned")
           pages == IF r.page = 1 THEN TotalPages(page) ELSE r.pages
           got   == r.got \o Converted(r.what, page.nodes)
           e     == [r EXCEPT !.got = got, !.page = r.page + 1]
           s     == [e EXCEPT !.pages = pages]
           at    == IF r.page >= pages THEN r.then ELSE "reading"
<1>1. /\ pc[p] = "reading" /\ read' = [read EXCEPT ![p] = s] /\ pc' = [pc EXCEPT ![p] = at]
      /\ UNCHANGED work
  <2>1. read' = [read EXCEPT ![p] = [r EXCEPT !.got = got, !.page = r.page + 1, !.pages = pages]]
    BY Zenon DEF ReadPage
  <2>2. pc[p] = "reading" /\ pc' = [pc EXCEPT ![p] = at] /\ UNCHANGED work
    BY Zenon DEF ReadPage, Goto, At
  <2>3. s = [r EXCEPT !.got = got, !.page = r.page + 1, !.pages = pages]
    <3> HIDE DEF got, pages, page
    <3> QED
      OBVIOUS
  <2> QED
    BY <2>1, <2>2, <2>3
<1>2. DOMAIN r = DOMAIN NoRead /\ r.then \in AfterRead
  BY FieldsHold
<1>3. s.got = got /\ s.page = r.page + 1 /\ s.pages = pages /\ s.what = r.what /\ s.then = r.then
  <2> HIDE DEF got, pages, page
  <2>1. e.got = got /\ e.page = r.page + 1 /\ e.what = r.what /\ e.then = r.then /\ DOMAIN e = DOMAIN NoRead
    BY <1>2 DEF NoRead
  <2> HIDE DEF e
  <2> QED
    BY <2>1 DEF NoRead
<1>4. ReadInv("reading", r, work[p])
  BY <1>1 DEF CacheInv
<1>5. r.page \in Nat \ {0} /\ IsList(r.got)
  BY <1>4 DEF ReadInv, GotInv
<1>6. ASSUME IsRoster(r)
      PROVE  /\ Covered(r.what[2], s) /\ Reaching(r.what[2], s)
             /\ r.page >= pages => Whole(r.what[2], s.got)
  <2> DEFINE t == r.what[2]
  <2>1. t \in Tournaments /\ r.what[1] = "roster" /\ Covered(t, r) /\ Reaching(t, r)
    BY <1>4, <1>6 DEF IsRoster, ReadInv
  <2>2. Nodes(r.what) = roster[t]
    BY <2>1 DEF Nodes
  <2>3. page = PageOf(roster[t], r.page, TRUE)
    BY <2>1, <2>2
  <2>4. Converted(r.what, page.nodes) = Participants(page.nodes)
    BY <2>1 DEF Converted
  <2>5. s.got = r.got \o Participants(page.nodes)
    BY <1>3, <2>4
  <2>6. s.page = r.page + 1 /\ s.pages = IF r.page = 1 THEN TotalPages(page) ELSE r.pages
    BY <1>3
  <2> HIDE DEF page, s, r, got, pages, t
  <2>7. /\ Covered(t, s) /\ Reaching(t, s)
        /\ r.page >= s.pages => Whole(t, s.got)
    BY <1>5, <2>1, <2>3, <2>5, <2>6, PageCovers
  <2> QED
    BY <1>3, <2>7 DEF t
<1>7. IsRoster(s) <=> IsRoster(r)
  BY <1>3 DEF IsRoster
<1> HIDE DEF r, page, pages, got, e, s
<1>8. ReadInv(at, s, work[p])
  <2>1. CASE r.page >= pages
    <3>1. at = r.then
      BY <2>1
    <3>2. r.then = "fetched" => LiveRead(s)
      <4>1. IsRoster(r) => Whole(r.what[2], s.got)
        BY <1>6, <2>1
      <4>2. r.what = <<"roster", Live>> => IsRoster(r) /\ r.what[2] = Live
        BY AdminAssumption DEF IsRoster, Tournaments
      <4>3. r.then = "fetched" => r.what \in {<<"unpaid", Live>>, <<"roster", Live>>}
        BY <1>4 DEF ReadInv
      <4> QED
        BY <1>3, <4>1, <4>2, <4>3 DEF LiveRead
    <3>3. r.then = "found" => IsRoster(s) /\ Whole(s.what[2], s.got)
      <4>1. r.what[1] = "roster" => r.what[2] \in Tournaments
        BY DEF ReadPage, Known, r
      <4> QED
        BY <1>3, <1>4, <1>6, <1>7, <2>1, <4>1 DEF ReadInv, IsRoster
    <3> HIDE DEF at
    <3> QED
      BY <1>2, <3>1, <3>2, <3>3 DEF ReadInv, AfterRead
  <2>2. CASE ~(r.page >= pages)
    <3>1. at = "reading"
      BY <2>2
    <3>2. s.page \in Nat \ {0}
      BY <1>3, <1>5
    <3>3. IsRoster(s) => Covered(s.what[2], s) /\ Reaching(s.what[2], s)
      BY <1>3, <1>6, <1>7
    <3>4. /\ s.then = "fetched" => s.what \in {<<"unpaid", Live>>, <<"roster", Live>>}
          /\ s.then = "found" => s.what[1] = "roster"
      BY <1>3, <1>4 DEF ReadInv
    <3> HIDE DEF at
    <3> QED
      BY <3>1, <3>2, <3>3, <3>4 DEF ReadInv
  <2> QED
    BY <2>1, <2>2
<1>9. OthersKeep(p) /\ work'[p] = work[p]
  BY <1>1 DEF OthersKeep
<1> HIDE DEF at
<1> QED
  BY <1>1, <1>8, <1>9, OneReads DEF Readers

LEMMA StepReads ==
    ASSUME RegisterInv, GotInv, CacheInv, NEW p \in Processes, Step(p)
    PROVE  Readers
<1>1. CASE Others(p)
  BY <1>1, OthersRead, OthersKept
<1> QED
  BY <1>1, BeginReads, PageReads, FindNextReads, FileReads, PoolReads, FetchedReads, StepOthers

(* What is cached is what was read, whole. *)
LEMMA CacheStays ==
    ASSUME NEW p \in Processes, Step(p), ~CacheRoster(p), ~Found(p)
    PROVE  UNCHANGED cache
BY Zenon DEF Step, Begin, ReadPage, ReadFails, Truncate, Rewrite, Interrupted, SaveFails,
   PoolCommand, Fetched, Create, Structure, Order, Confirm, WriteSeeding, Compare,
   WritePhase, Placed, Entered, Generate, RegistrationFails, Redeem, Verify, Extra, FindNext,
   Rank, files

LEMMA RosterStays == ASSUME NEW p \in Processes, Step(p) PROVE UNCHANGED roster
BY Zenon DEF Step, Begin, ReadPage, ReadFails, Truncate, Rewrite, Interrupted, SaveFails,
   PoolCommand, Fetched, CacheRoster, Create, Structure, Order, Confirm, WriteSeeding, Compare,
   WritePhase, Placed, Entered, Generate, RegistrationFails, Redeem, Verify, Extra, FindNext,
   Found, Rank, site

CachedWhole ==
    /\ cache' = [t \in Tournaments |-> cache'[t]]
    /\ \A t \in Tournaments : cache'[t] # Null => IsList(cache'[t]) /\ Whole(t, cache'[t])

LEMMA StepCaches == ASSUME GotInv, CacheInv, NEW p \in Processes, Step(p) PROVE CachedWhole
<1>1. CASE UNCHANGED cache
  BY <1>1 DEF CachedWhole, CacheInv
<1>2. ASSUME NEW t, NEW got, cache' = [cache EXCEPT ![t] = got], IsList(got),
             t \in Tournaments => Whole(t, got)
      PROVE  CachedWhole
  BY <1>2 DEF CachedWhole, CacheInv
<1>0. IsList(read[p].got)
  BY DEF GotInv
<1>3. CASE CacheRoster(p)
  <2>1. LiveRead(read[p])
    BY <1>3 DEF CacheRoster, At, CacheInv, ReadInv
  <2>2. UNCHANGED cache \/ (read[p].what[1] # "unpaid" /\ cache' = [cache EXCEPT ![Live] = read[p].got])
    BY <1>3, Zenon DEF CacheRoster, CachesWhole
  <2> QED
    BY <1>0, <1>1, <1>2, <2>1, <2>2 DEF LiveRead
<1>4. CASE Found(p)
  <2>1. cache' = [cache EXCEPT ![read[p].what[2]] = read[p].got] /\ pc[p] = "found"
    BY <1>4, Zenon DEF Found, At
  <2>2. read[p].what[2] \in Tournaments => Whole(read[p].what[2], read[p].got)
    BY <2>1 DEF CacheInv, ReadInv, IsRoster
  <2> QED
    BY <1>0, <1>2, <2>1, <2>2
<1> QED
  BY <1>1, <1>3, <1>4, CacheStays

LEMMA IndexedGrows ==
    ASSUME CacheInv, NEW n, Indexed(n)
    PROVE  roster' = [t \in Tournaments |-> roster'[t]] /\ \A t \in Tournaments : Grown(t)'
<1> DEFINE x == [id |-> n.id, tag |-> n.tag, user |-> n.users[1]]
           l == roster[Live]
           m == Append(l, x)
<1>1. roster' = [roster EXCEPT ![Live] = m]
  BY DEF Indexed
<1>2. roster = [t \in Tournaments |-> roster[t]] /\ Live \in Tournaments
  BY AdminAssumption DEF CacheInv, Tournaments
<1>3. \A t \in Tournaments : roster'[t] = IF t = Live THEN m ELSE roster[t]
  BY <1>1, <1>2
<1>4. Grown(Live)
  BY <1>2 DEF CacheInv
<1> HIDE DEF x
<1>5. l \in Seq(ToSet(l) \union {x})
  BY <1>4 DEF Grown
<1> HIDE DEF l
<1>6. /\ DOMAIN m = 1..(Len(l) + 1) /\ DOMAIN l = 1..Len(l) /\ Len(l) \in Nat
      /\ \A i \in DOMAIN l : m[i] = l[i]
      /\ m \in Seq(ToSet(l) \union {x}) /\ m[Len(l) + 1] = x
  BY <1>5
<1> HIDE DEF m
<1>7. m \in Seq(ToSet(m))
  <2>1. \A i \in DOMAIN m : m[i] \in ToSet(m)
    BY DEF ToSet
  <2>2. m = [i \in 1..(Len(l) + 1) |-> m[i]]
    BY <1>6
  <2> QED
    BY <1>6, <2>1, <2>2
<1>8. ASSUME NEW t \in Tournaments PROVE Grown(t)'
  <2>1. CASE t = Live
    <3>1. \A i \in DOMAIN Rosters[t] : i \in DOMAIN l /\ l[i] = Rosters[t][i]
      BY <1>4, <2>1 DEF Grown, l
    <3>2. \A i \in DOMAIN Rosters[t] : i \in DOMAIN m /\ m[i] = Rosters[t][i]
      BY <1>6, <3>1
    <3> QED
      BY <1>3, <1>7, <2>1, <3>2 DEF Grown
  <2>2. CASE t # Live
    BY <1>3, <2>2 DEF Grown, CacheInv
  <2> QED
    BY <2>1, <2>2
<1>9. roster' = [t \in Tournaments |-> roster'[t]]
  BY <1>1, <1>2
<1> QED
  BY <1>8, <1>9

LEMMA CacheInit == Init => CacheInv
<1> SUFFICES ASSUME Init PROVE CacheInv
  OBVIOUS
<1>1. roster = [t \in Tournaments |-> roster[t]] /\ \A t \in Tournaments : Grown(t)
  BY RostersAssumption DEF Init, Grown, Tournaments
<1>2. cache = [t \in Tournaments |-> cache[t]] /\ \A t \in Tournaments : cache[t] = Null
  BY DEF Init
<1>3. \A p \in Processes : ReadInv(pc[p], read[p], work[p])
  BY DEF Init, ReadInv
<1> QED
  BY <1>1, <1>2, <1>3 DEF CacheInv

LEMMA CacheStep == RegisterInv /\ GotInv /\ CacheInv /\ [Next]_vars => CacheInv'
<1> SUFFICES ASSUME RegisterInv, GotInv, CacheInv, [Next]_vars PROVE CacheInv'
  OBVIOUS
<1>1. ASSUME NEW p \in Processes, Step(p) PROVE CacheInv'
  <2>1. UNCHANGED roster /\ Readers /\ CachedWhole
    BY <1>1, RosterStays, StepReads, StepCaches
  <2> QED
    BY <2>1 DEF CacheInv, Readers, CachedWhole, Grown
<1>2. CASE Site
  <2>1. UNCHANGED <<cache, pc, read, work>>
    BY <1>2 DEF Site, Reseed, Indexed, Join, Withdraw, HandEdit, run, files
  <2>2. UNCHANGED roster \/ \E n : Indexed(n)
    BY <1>2 DEF Site, Reseed, Join, Withdraw, HandEdit
  <2>3. roster' = [t \in Tournaments |-> roster'[t]] /\ \A t \in Tournaments : Grown(t)'
    BY <2>2, IndexedGrows DEF CacheInv, Grown
  <2> QED
    BY <2>1, <2>3 DEF CacheInv
<1>3. CASE UNCHANGED vars
  BY <1>3 DEF vars, site, files, run, CacheInv, Grown
<1> QED
  BY <1>1, <1>2, <1>3 DEF Next

(* A roster in the cache names everyone the tournament had at first: for      *)
(* every number of pages, of commands and of interruptions, whatever others *)
(* add between two pages.                                                  *)
THEOREM CachedRostersWhole == Spec => []CacheIsWhole
<1>1. Init => RegisterInv /\ GotInv /\ CacheInv
  BY RegisterInit, GotInit, CacheInit
<1>2. RegisterInv /\ GotInv /\ CacheInv /\ [Next]_vars => (RegisterInv /\ GotInv /\ CacheInv)'
  BY RegisterStep, GotStep, CacheStep
<1>3. CacheInv => CacheIsWhole
  <2> SUFFICES ASSUME CacheInv, NEW t \in Tournaments, cache[t] # Null, NEW x \in ToSet(Participants(Rosters[t]))
               PROVE  x \in ToSet(cache[t])
    BY DEF CacheIsWhole
  <2> DEFINE S == {i \in DOMAIN Rosters[t] : Rosters[t][i] # Null /\ \A f \in {"tag"} : Rosters[t][i][f] # Null}
             l == Only(Rosters[t], S)
             u == [k \in DOMAIN l |-> Participant(l[k])]
  <2>1. Participants(Rosters[t]) = u
    BY Zenon DEF Participants, Each, Having
  <2>2. IsFiniteSet(S) /\ \A i \in S : i \in Nat
    <3>1. Rosters[t] \in Seq(ToSet(Rosters[t]))
      BY RostersAssumption DEF Tournaments
    <3>2. DOMAIN Rosters[t] = 1..Len(Rosters[t]) /\ Len(Rosters[t]) \in Nat
      BY <3>1
    <3>3. S \in SUBSET (1..Len(Rosters[t]))
      BY <3>2
    <3>4. IsFiniteSet(1..Len(Rosters[t])) /\ \A i \in S : i \in Nat
      BY <3>2, FS_Interval
    <3> HIDE DEF S
    <3> QED
      BY <3>3, <3>4, FS_Subset
  <2> HIDE DEF S
  <2>3. Picks(l, Rosters[t], S)
    BY <2>2, OnlyPicks
  <2> HIDE DEF l
  <2>4. PICK k \in DOMAIN l : x = Participant(l[k])
    BY <2>1 DEF ToSet
  <2>5. \E i \in S : l[k] = Rosters[t][i]
    BY <2>3, <2>4 DEF Picks
  <2>6. PICK i \in S : l[k] = Rosters[t][i]
    BY <2>5
  <2>7. i \in DOMAIN Rosters[t] /\ Rosters[t][i] # Null /\ Rosters[t][i].tag # Null
    BY DEF S
  <2>8. Holds(cache[t], Rosters[t][i])
    BY <2>7 DEF CacheInv, Whole
  <2> QED
    BY <2>4, <2>6, <2>7, <2>8 DEF Holds
<1> QED
  BY <1>1, <1>2, <1>3, PTL DEF Spec

-----------------------------------------------------------------------------
(* The people find shows. *)

(* Where in the rows those of a key are, up to a place. *)
Mine(rows, key, k) == {j \in 1..k : KeyOf(rows[j].who) = key}

(* What the entry of a key is made of: all of them, and the latest. *)
Absorbed(x, rows, mine) ==
    /\ x.seen = Cardinality(mine)
    /\ mine = {} => x.last = Null /\ x.user = Null
    /\ mine # {} =>
         /\ x.last \in Nat
         /\ \A j \in mine : x.user = rows[j].who.user /\ Starts[rows[j].at] <= x.last
         /\ \E j \in mine : x.last = Starts[rows[j].at] /\ x.display = rows[j].who.tag

IsRow(r) == r.at \in Tournaments
RowsOK(rows) == IsList(rows) /\ \A k \in DOMAIN rows : IsRow(rows[k])

LEMMA KeysOfRows ==
    ASSUME NEW x, NEW y, KeyOf(x) = KeyOf(y)
    PROVE  x.user = y.user
<1>1. CASE x.user # Null /\ y.user # Null
  <2>1. <<x.user>> = <<y.user>>
    BY <1>1 DEF KeyOf
  <2> QED
    BY <2>1
<1>2. CASE x.user = Null /\ y.user # Null
  BY <1>2 DEF KeyOf
<1>3. CASE x.user # Null /\ y.user = Null
  BY <1>3 DEF KeyOf
<1> QED
  BY <1>1, <1>2, <1>3

(* One row more. *)
LEMMA AbsorbsOne ==
    ASSUME NEW n \in Nat, NEW rows, \A j \in 1..n : IsRow(rows[j]), NEW key,
           NEW k \in 1..n, NEW x, Absorbed(x, rows, Mine(rows, key, k - 1)), KeyOf(rows[k].who) = key
    PROVE  Absorbed(Absorb(x, rows[k]), rows, Mine(rows, key, k))
<1> DEFINE old == Mine(rows, key, k - 1)
           new == Mine(rows, key, k)
           r   == rows[k]
           y   == Absorb(x, r)
<1>1. new = old \union {k} /\ k \notin old
  BY DEF Mine
<1>2. IsFiniteSet(old)
  <2>1. old \in SUBSET (1..(k - 1)) /\ IsFiniteSet(1..(k - 1))
    BY FS_Interval DEF Mine
  <2> HIDE DEF old
  <2> QED
    BY <2>1, FS_Subset
<1>3. Cardinality(new) = Cardinality(old) + 1 /\ Cardinality(old) \in Nat
  <2> HIDE DEF old, new
  <2> QED
    BY <1>1, <1>2, FS_AddElement, FS_CardinalityType
<1>4. Starts[r.at] \in Nat
  BY AdminAssumption DEF IsRow, Tournaments
<1>5. /\ y.seen = x.seen + 1 /\ y.user = IF x.user = Null THEN r.who.user ELSE x.user
      /\ x.last = Null => y.last = Starts[r.at] /\ y.display = r.who.tag
      /\ x.last # Null /\ Starts[r.at] >= x.last => y.last = Starts[r.at] /\ y.display = r.who.tag
      /\ x.last # Null /\ ~(Starts[r.at] >= x.last) => y.last = x.last /\ y.display = x.display
  <2> HIDE DEF r
  <2> QED
    BY DEF Absorb, Or
<1>6. \A j \in old : rows[j].who.user = r.who.user
  <2>1. \A j \in old : KeyOf(rows[j].who) = KeyOf(r.who)
    BY DEF Mine
  <2> HIDE DEF old, r
  <2> QED
    BY <2>1, KeysOfRows
<1>7. x.last \in Nat => x.last # Null
  BY PageAssumption
<1>8. Absorbed(x, rows, old)
  OBVIOUS
<1> SUFFICES Absorbed(y, rows, new)
  OBVIOUS
<1> HIDE DEF y, old, new
<1>9. y.seen = Cardinality(new)
  BY <1>3, <1>5, <1>8 DEF Absorbed
<1>10. CASE old = {}
  <2>1. y.last = Starts[r.at] /\ y.display = r.who.tag /\ y.user = r.who.user /\ new = {k}
    BY <1>1, <1>5, <1>8, <1>10 DEF Absorbed
  <2> QED
    BY <1>4, <1>9, <2>1 DEF Absorbed
<1>11. CASE old # {}
  <2>1. /\ x.last \in Nat /\ x.last # Null
        /\ \A j \in old : x.user = rows[j].who.user /\ Starts[rows[j].at] <= x.last
        /\ \E j \in old : x.last = Starts[rows[j].at] /\ x.display = rows[j].who.tag
    BY <1>7, <1>8, <1>11 DEF Absorbed
  <2>2. y.user = r.who.user /\ \A j \in new : y.user = rows[j].who.user
    BY <1>1, <1>5, <1>6, <1>11, <2>1
  <2>3. \A j \in old : Starts[rows[j].at] \in Nat
    BY AdminAssumption DEF IsRow, Tournaments, Mine, old
  <2>4. CASE Starts[r.at] >= x.last
    <3>1. y.last = Starts[r.at] /\ y.display = r.who.tag
      BY <1>5, <2>1, <2>4
    <3>2. \A j \in new : Starts[rows[j].at] <= y.last
      BY <1>1, <1>4, <2>1, <2>3, <2>4, <3>1
    <3> QED
      BY <1>1, <1>4, <1>9, <2>2, <3>1, <3>2 DEF Absorbed
  <2>5. CASE ~(Starts[r.at] >= x.last)
    <3>1. y.last = x.last /\ y.display = x.display
      BY <1>5, <2>1, <2>5
    <3>2. \A j \in new : Starts[rows[j].at] <= y.last
      BY <1>1, <1>4, <2>1, <2>3, <2>5, <3>1
    <3> QED
      BY <1>1, <1>9, <2>1, <2>2, <3>1, <3>2 DEF Absorbed
  <2> QED
    BY <2>4, <2>5
<1> QED
  BY <1>10, <1>11

(* The entry of a key, for any number of rows: a fold of them from the left. *)
LEMMA EntryMade ==
    ASSUME NEW rows, RowsOK(rows), NEW key
    PROVE  Absorbed(EntryOf(rows, key), rows, {j \in DOMAIN rows : KeyOf(rows[j].who) = key})
<1>1. PICK n \in Nat : DOMAIN rows = 1..n
  BY DEF RowsOK, IsList
<1> DEFINE tags == {rows[j].who.tag : j \in 1..n} \union {<<>>}
           users == {rows[j].who.user : j \in 1..n} \union {Null}
           V == [tags : SUBSET tags, display : tags, user : users, seen : Nat, last : Nat \union {Null}]
           Next1(k, v) == IF KeyOf(rows[k].who) = key THEN Absorb(v, rows[k]) ELSE v
           F == [x \in (1..n) \X V |-> Next1(x[1], x[2])]
           Body(h) == [u \in SUBSET DOMAIN rows |-> IF u = {} THEN NoEntry ELSE Next1(Max(u), h[u \ {Max(u)}])]
           c == CHOOSE h : h = Body(h)
<1>2. NoEntry \in V
  <2>1. <<>> \in tags /\ Null \in users /\ {} \in SUBSET tags
    OBVIOUS
  <2> HIDE DEF tags, users
  <2> QED
    BY <2>1 DEF NoEntry
<1>3. \A k \in 1..n, v \in V : Next1(k, v) \in V
  <2> SUFFICES ASSUME NEW k \in 1..n, NEW v \in V PROVE Absorb(v, rows[k]) \in V
    OBVIOUS
  <2>1. rows[k].who.tag \in tags /\ rows[k].who.user \in users
    OBVIOUS
  <2>2. Starts[rows[k].at] \in Nat
    BY <1>1, AdminAssumption DEF RowsOK, IsRow, Tournaments
  <2> HIDE DEF tags, users
  <2> QED
    BY <2>1, <2>2 DEF Absorb, Or
<1>4. StaysIn(F, 1..n, V)
  <2> HIDE DEF V, Next1
  <2> QED
    BY <1>3 DEF StaysIn
<1> HIDE DEF V
<1>5. PICK h : FoldOver(h, F, NoEntry, 1..n, Tops(n), V)
  <2> HIDE DEF F
  <2> QED
    BY <1>1, <1>2, <1>4, LeftFold
<1>6. h = Body(h)
  <2>1. ASSUME NEW u \in SUBSET (1..n), u # {}
        PROVE  F[<<Tops(n)[u], h[u \ {Tops(n)[u]}]>>] = Next1(Max(u), h[u \ {Max(u)}])
    <3>1. Tops(n)[u] \in 1..n /\ u \ {Tops(n)[u]} \in SUBSET (1..n) /\ Tops(n)[u] = Max(u)
      BY <1>1, <2>1, TopsPick DEF Tops
    <3>2. h[u \ {Tops(n)[u]}] \in V
      BY <1>5, <3>1 DEF FoldOver
    <3> HIDE DEF Next1
    <3> QED
      BY <3>1, <3>2
  <2> HIDE DEF F, Next1
  <2> QED
    BY <1>1, <1>5, <2>1 DEF FoldOver
<1>7. c = Body(c)
  <2> HIDE DEF Body
  <2> QED
    BY <1>6
<1>8. EntryOf(rows, key) = c[1..n]
  BY <1>1 DEF EntryOf, FoldLeft, MapThenFoldSet
<1> HIDE DEF c
<1>9. c[{}] = NoEntry /\ 1..0 = {}
  BY <1>7
<1>10. ASSUME NEW k \in 1..n PROVE c[1..k] = Next1(k, c[1..(k - 1)])
  <2>1. (1..k) \in SUBSET (1..n) /\ 1..k # {} /\ Max(1..k) = k /\ (1..k) \ {k} = 1..(k - 1)
    BY <1>1, Uptos
  <2> HIDE DEF Next1
  <2>2. c[1..k] = Body(c)[1..k]
    BY <1>7
  <2> QED
    BY <1>1, <2>1, <2>2
<1> DEFINE B == {k \in 0..n : Absorbed(c[1..k], rows, Mine(rows, key, k))}
<1>11. 0 \in B
  <2>1. Mine(rows, key, 0) = {} /\ Cardinality({}) = 0 /\ 0 \in 0..n
    BY FS_EmptySet DEF Mine
  <2>2. Absorbed(NoEntry, rows, {})
    BY <2>1 DEF Absorbed, NoEntry
  <2> QED
    BY <1>9, <2>1, <2>2
<1>12. ASSUME NEW k \in 1..n, k - 1 \in B PROVE k \in B
  <2> DEFINE x == c[1..(k - 1)]
  <2>1. Absorbed(x, rows, Mine(rows, key, k - 1)) /\ c[1..k] = Next1(k, x)
    BY <1>10, <1>12
  <2> HIDE DEF x
  <2>2. CASE KeyOf(rows[k].who) = key
    <3>1. \A j \in 1..n : IsRow(rows[j])
      BY <1>1 DEF RowsOK
    <3>2. Absorbed(Absorb(x, rows[k]), rows, Mine(rows, key, k))
      BY <2>1, <2>2, <3>1, AbsorbsOne
    <3> QED
      BY <2>1, <2>2, <3>2
  <2>3. CASE KeyOf(rows[k].who) # key
    <3>1. Mine(rows, key, k) = Mine(rows, key, k - 1)
      BY <2>3 DEF Mine
    <3> QED
      BY <2>1, <2>3, <3>1
  <2> QED
    BY <2>2, <2>3
<1>13. Absorbed(c[1..n], rows, Mine(rows, key, n))
  <2>1. n \in B
    <3> HIDE DEF B
    <3> QED
      BY <1>1, <1>11, <1>12, Upwards
  <2> QED
    BY <2>1
<1> QED
  BY <1>1, <1>8, <1>13 DEF Mine

(* Each line is of one account, or of someone without one. *)
LEMMA EntryMerged ==
    ASSUME NEW rows, RowsOK(rows), NEW i \in DOMAIN rows, NEW x, x = EntryOf(rows, KeyOf(rows[i].who))
    PROVE  x.user = rows[i].who.user /\ (x.user # Null => Merged(x, rows))
<1> DEFINE key == KeyOf(rows[i].who)
           mine == {j \in DOMAIN rows : KeyOf(rows[j].who) = key}
<1>1. Absorbed(x, rows, mine) /\ i \in mine
  BY EntryMade
<1>2. x.user = rows[i].who.user
  <2> HIDE DEF mine
  <2> QED
    BY <1>1 DEF Absorbed
<1>3. ASSUME x.user # Null PROVE mine = {k \in DOMAIN rows : rows[k].who.user = x.user}
  <2>1. \A k \in DOMAIN rows : rows[k].who.user = x.user => KeyOf(rows[k].who) = key
    BY <1>2, <1>3 DEF KeyOf
  <2>2. \A k \in DOMAIN rows : KeyOf(rows[k].who) = key => rows[k].who.user = x.user
    BY <1>2, KeysOfRows
  <2> QED
    BY <2>1, <2>2
<1> HIDE DEF mine
<1>4. ASSUME x.user # Null PROVE Merged(x, rows)
  BY <1>1, <1>3, <1>4 DEF Merged, Absorbed
<1> QED
  BY <1>2, <1>4

(* What find has read and shows. *)
Said(shown, rows) ==
    \A i \in DOMAIN shown : shown[i].user # Null =>
        /\ Merged(shown[i], rows)
        /\ \A j \in DOMAIN shown : shown[j].user = shown[i].user => i = j
FindOK(at, w) ==
    /\ RowsOK(w.rows)
    /\ w.shown # <<>> => at = "done" /\ Said(w.shown, w.rows)
FindInv == \A p \in Processes : FindOK(pc[p], work[p])

LEMMA FindInit == Init => FindInv
<1>1. IsList(<<>>) /\ NoWork.rows = <<>> /\ NoWork.shown = <<>>
  BY DEF IsList, NoWork
<1> QED
  BY <1>1 DEF Init, FindInv, FindOK, RowsOK

(* A command that is done does nothing more, and no step moves two. *)
Moves(p) == pc[p] # "done" /\ \A q \in Processes : q # p => pc'[q] = pc[q]
LEMMA StepMoves == ASSUME RegisterInv, NEW p \in Processes, Step(p) PROVE Moves(p)
<1>0. ASSUME NEW at, Goto(p, at), pc[p] # "done" PROVE Moves(p)
  BY <1>0 DEF Goto, Moves, RegisterInv
<1>1. ASSUME NEW what, NEW then, Ask(p, what, then), pc[p] # "done" PROVE Moves(p)
  BY <1>0, <1>1 DEF Ask
<1>2. pc[p] # "done"
  BY Zenon DEF Step, Begin, ReadPage, ReadFails, Truncate, Rewrite, Interrupted, SaveFails,
     PoolCommand, Fetched, CacheRoster, Create, Structure, Order, Confirm, WriteSeeding, Compare,
     WritePhase, Placed, Entered, Generate, RegistrationFails, Redeem, Verify, Extra, FindNext,
     Found, Rank, At
<1>3. CASE Others(p)
  BY <1>0, <1>1, <1>2, <1>3 DEF Others
<1>4. CASE Begin(p)
  <2>1. \/ \E at \in {"failed", "finding", "extra", "pool"} : Goto(p, at)
        \/ \E what, then : Ask(p, what, then)
    BY <1>4 DEF Begin, Fail
  <2> QED
    BY <1>0, <1>1, <1>2, <2>1
<1>5. CASE ReadPage(p)
  <2>1. \E at : Goto(p, at)
    BY <1>5, Zenon DEF ReadPage
  <2> QED
    BY <1>0, <1>2, <2>1
<1>6. CASE FindNext(p)
  <2>1. UNCHANGED pc \/ (\E at : Goto(p, at)) \/ \E what, then : Ask(p, what, then)
    BY <1>6, Zenon DEF FindNext
  <2> QED
    BY <1>0, <1>1, <1>2, <2>1 DEF Moves
<1>7. CASE Truncate(p) \/ Rewrite(p) \/ Interrupted(p) \/ SaveFails(p)
  <2>1. \E at : Goto(p, at)
    BY <1>7, Zenon DEF Truncate, Rewrite, Interrupted, SaveFails, Fail
  <2> QED
    BY <1>0, <1>2, <2>1
<1>8. CASE PoolCommand(p) \/ Fetched(p) \/ Extra(p)
  <2>1. \E at : Goto(p, at)
    BY <1>8, Zenon DEF PoolCommand, Fetched, Extra, Remember, Save, Fail
  <2> QED
    BY <1>0, <1>2, <2>1
<1> QED
  BY <1>3, <1>4, <1>5, <1>6, <1>7, <1>8, StepOthers

(* What find has read stays where a command does something else. *)
FindsStay == \A q \in Processes : work'[q].rows = work[q].rows /\ work'[q].shown = work[q].shown

LEMMA WorkKept ==
    ASSUME RegisterInv, NEW p \in Processes,
           NEW w, work' = [work EXCEPT ![p] = w], w.rows = work[p].rows, w.shown = work[p].shown
    PROVE  FindsStay
BY DEF FindsStay, RegisterInv

(* One or two other fields are noted. *)
NotesOne(p, x) ==
    \/ UNCHANGED work
    \/ work' = [work EXCEPT ![p].targets = x] \/ work' = [work EXCEPT ![p].candidates = x]
    \/ work' = [work EXCEPT ![p].event = x]   \/ work' = [work EXCEPT ![p].phase = x]
    \/ work' = [work EXCEPT ![p].slugs = x]   \/ work' = [work EXCEPT ![p].next = x]
    \/ work' = [work EXCEPT ![p].ids = x]     \/ work' = [work EXCEPT ![p].said = x]
    \/ work' = [work EXCEPT ![p].entered = x]
NotesPair(p, x, y) ==
    \/ work' = [work EXCEPT ![p].targets = x, ![p].candidates = y]
    \/ work' = [work EXCEPT ![p].entered = x, ![p].plan = y]
    \/ work' = [work EXCEPT ![p].entered = x, ![p].wrote = y]
    \/ work' = [work EXCEPT ![p].wrote = x, ![p].said = y]
    \/ work' = [work EXCEPT ![p].file = x, ![p].then = y]
NotesOther(p, x, y) == NotesOne(p, x) \/ NotesPair(p, x, y)

LEMMA OtherNoted ==
    ASSUME RegisterInv, NEW p \in Processes, NEW x, NEW y, NotesOther(p, x, y)
    PROVE  FindsStay
<1>1. {"rows", "shown"} \subseteq DOMAIN work[p]
  BY FieldsHold DEF NoWork
<1>2. CASE NotesOne(p, x)
  <2> DEFINE S == {work[p], [work[p] EXCEPT !.targets = x], [work[p] EXCEPT !.candidates = x],
                   [work[p] EXCEPT !.event = x], [work[p] EXCEPT !.phase = x],
                   [work[p] EXCEPT !.slugs = x], [work[p] EXCEPT !.next = x],
                   [work[p] EXCEPT !.ids = x], [work[p] EXCEPT !.said = x],
                   [work[p] EXCEPT !.entered = x]}
  <2>0. work = [q \in Processes |-> work[q]]
    BY DEF RegisterInv
  <2>1. \E w \in S : work' = [work EXCEPT ![p] = w]
    BY <1>2, <2>0 DEF NotesOne
  <2>2. \A w \in S : w.rows = work[p].rows /\ w.shown = work[p].shown
    BY <1>1
  <2> HIDE DEF S
  <2> QED
    BY <2>1, <2>2, WorkKept
<1>3. CASE NotesPair(p, x, y)
  <2> DEFINE a == [work[p] EXCEPT !.targets = x, !.candidates = y]
             b == [work[p] EXCEPT !.entered = x, !.plan = y]
             c == [work[p] EXCEPT !.entered = x, !.wrote = y]
             d == [work[p] EXCEPT !.wrote = x, !.said = y]
             e == [work[p] EXCEPT !.file = x, !.then = y]
  <2>0. work = [q \in Processes |-> work[q]]
    BY DEF RegisterInv
  <2>1. \E w \in {a, b, c, d, e} : work' = [work EXCEPT ![p] = w]
    BY <1>3, <2>0 DEF NotesPair
  <2>2. \A w \in {a, b, c, d, e} : w.rows = work[p].rows /\ w.shown = work[p].shown
    BY <1>1
  <2> HIDE DEF a, b, c, d, e
  <2> QED
    BY <2>1, <2>2, WorkKept
<1> QED
  BY <1>2, <1>3 DEF NotesOther

LEMMA FindsKept ==
    ASSUME RegisterInv, NEW p \in Processes, Step(p), ~FindNext(p), ~Found(p), ~Rank(p)
    PROVE  FindsStay
<1>0. ASSUME \E x, y : NotesOther(p, x, y) PROVE FindsStay
  BY <1>0, OtherNoted
<1>1. CASE Begin(p) \/ Placed(p) \/ Structure(p) \/ Order(p)
  <2>1. \E x : UNCHANGED work \/ work' = [work EXCEPT ![p].slugs = x]
                \/ work' = [work EXCEPT ![p].candidates = x] \/ work' = [work EXCEPT ![p].phase = x]
                \/ work' = [work EXCEPT ![p].ids = x]
    <3>1. CASE Begin(p)
      BY <3>1, Zenon DEF Begin
    <3>2. CASE Placed(p)
      BY <3>2, Zenon DEF Placed
    <3>3. CASE Order(p)
      BY <3>3, Zenon DEF Order
    <3>4. CASE Structure(p)
      <4>1. CASE job[p].do \in {"phases", "create"} \/ work[p].wrote = "yes"
        BY <3>4, <4>1 DEF Structure
      <4>2. CASE job[p].do \notin {"phases", "create"} /\ work[p].wrote = "no"
        BY <3>4, <4>2, Zenon DEF Structure
      <4> QED
        BY <4>1, <4>2, FieldsHold
    <3> QED
      BY <1>1, <3>1, <3>2, <3>3, <3>4
  <2> QED
    BY <1>0, <2>1 DEF NotesOther, NotesOne, NotesPair
<1>2. CASE ReadPage(p) \/ Truncate(p) \/ Rewrite(p) \/ Interrupted(p) \/ SaveFails(p)
           \/ Create(p) \/ Generate(p) \/ WriteSeeding(p)
  <2>1. UNCHANGED work
    BY <1>2, Zenon DEF ReadPage, Truncate, Rewrite, Interrupted, SaveFails, Create, Generate, WriteSeeding
  <2> QED
    BY <2>1 DEF FindsStay
<1>3. CASE ReadFails(p) \/ Confirm(p)
  <2>1. \E x : UNCHANGED work \/ work' = [work EXCEPT ![p].next = x]
    BY <1>3 DEF ReadFails, Confirm
  <2> QED
    BY <1>0, <2>1 DEF NotesOther, NotesOne, NotesPair
<1>4. CASE PoolCommand(p) \/ Fetched(p) \/ Extra(p)
  <2>1. UNCHANGED work \/ \E x, y : Save(p, x, y)
    BY <1>4, Zenon DEF PoolCommand, Fetched, Extra, Remember
  <2> QED
    BY <1>0, <2>1 DEF NotesOther, NotesOne, NotesPair, Save
<1>5. CASE CacheRoster(p)
  <2>1. GoesOn(p)
    BY <1>5, CachingGoesOn DEF CacheRoster
  <2>2. UNCHANGED work \/ \/ \E x, y : work' = [work EXCEPT ![p].targets = x, ![p].candidates = y]
                          \/ \E x : work' = [work EXCEPT ![p].targets = x]
                          \/ \E x : work' = [work EXCEPT ![p].event = x]
    BY <2>1, Zenon DEF GoesOn
  <2> QED
    BY <1>0, <2>2 DEF NotesOther, NotesOne, NotesPair
<1>6. CASE Compare(p) \/ WritePhase(p)
  <2>1. \/ \E x : work' = [work EXCEPT ![p].said = x]
        \/ \E x : work' = [work EXCEPT ![p].wrote = "yes", ![p].said = x]
    BY <1>6, Zenon DEF Compare, WritePhase
  <2> QED
    BY <1>0, <2>1 DEF NotesOther, NotesOne, NotesPair
<1>7. CASE Entered(p)
  <2>1. PlansOn(p)
    BY <1>7, EnteredPlansOn
  <2>2. \/ \E x : work' = [work EXCEPT ![p].entered = x]
        \/ \E x, y : work' = [work EXCEPT ![p].entered = x, ![p].plan = y]
    BY <2>1, Zenon DEF PlansOn
  <2> QED
    BY <1>0, <2>2 DEF NotesOther, NotesOne, NotesPair
<1>8. CASE RegistrationFails(p) \/ Redeem(p)
  <2>1. PICK w1 : NextCandidate(p, w1) /\ w1 \in {work[p], Failed(work[p])}
    BY <1>8, Zenon DEF RegistrationFails, Redeem
  <2>2. DOMAIN w1 = DOMAIN NoWork /\ w1.rows = work[p].rows /\ w1.shown = work[p].shown
    BY <2>1, FieldsHold DEF Failed, NoWork
  <2>3. \/ work' = [work EXCEPT ![p] = [w1 EXCEPT !.next = w1.next + 1]]
        \/ work' = [work EXCEPT ![p] = [w1 EXCEPT !.entered = <<>>]]
    <3>1. CASE \E i \in DOMAIN w1.plan : i > w1.next
      BY <2>1, <3>1 DEF NextCandidate
    <3>2. CASE ~(\E i \in DOMAIN w1.plan : i > w1.next)
      BY <2>1, <3>2, Zenon DEF NextCandidate
    <3> QED
      BY <3>1, <3>2
  <2>4. \A w \in {[w1 EXCEPT !.next = w1.next + 1], [w1 EXCEPT !.entered = <<>>]} :
            w.rows = work[p].rows /\ w.shown = work[p].shown
    BY <2>2 DEF NoWork
  <2> QED
    BY <2>3, <2>4, WorkKept
<1>9. CASE Verify(p)
  <2>1. \/ \E x : work' = [work EXCEPT ![p].entered = x]
        \/ \E x : work' = [work EXCEPT ![p].entered = x, ![p].wrote = "yes"]
    BY <1>9, Zenon DEF Verify
  <2> QED
    BY <1>0, <2>1 DEF NotesOther, NotesOne, NotesPair
<1> QED
  BY <1>1, <1>2, <1>3, <1>4, <1>5, <1>6, <1>7, <1>8, <1>9, Zenon DEF Step

(* A tournament's people are rows of it. *)
LEMMA RowsAdded ==
    ASSUME NEW rows, RowsOK(rows), NEW t \in Tournaments, NEW list, IsList(list)
    PROVE  RowsOK(rows \o RowsOf(t, list))
<1> DEFINE new == [i \in DOMAIN list |-> [at |-> t, who |-> list[i]]]
           u   == rows \o new
<1>1. RowsOf(t, list) = new
  BY Zenon DEF RowsOf, Each
<1>2. PICK m \in Nat : DOMAIN rows = 1..m /\ rows = [i \in 1..m |-> rows[i]]
  BY DEF RowsOK, IsList
<1>3. PICK n \in Nat : DOMAIN list = 1..n
  BY DEF IsList
<1>4. IsList(new) /\ DOMAIN new = 1..n /\ new = [i \in 1..n |-> new[i]] /\ \A i \in 1..n : IsRow(new[i])
  BY <1>3, Mapped DEF IsRow
<1> HIDE DEF new
<1> DEFINE X == {rows[i] : i \in 1..m} \union {new[i] : i \in 1..n}
<1>5. rows \in Seq(X) /\ new \in Seq(X)
  <2>1. \A i \in 1..m : rows[i] \in X
    OBVIOUS
  <2>2. \A i \in 1..n : new[i] \in X
    OBVIOUS
  <2>3. new = [i \in 1..n |-> new[i]]
    BY <1>4
  <2> HIDE DEF X
  <2>4. rows \in Seq(X)
    BY <1>2, <2>1
  <2>5. new \in Seq(X)
    BY <2>2, <2>3
  <2> QED
    BY <2>4, <2>5
<1>6. \A r \in X : IsRow(r)
  BY <1>2, <1>4 DEF RowsOK
<1> HIDE DEF X
<1>7. u \in Seq(X)
  BY <1>5
<1>8. IsList(u)
  BY <1>4, Together DEF RowsOK
<1>9. \A k \in DOMAIN u : u[k] \in X
  <2> HIDE DEF u
  <2> QED
    BY <1>7
<1> QED
  BY <1>1, <1>6, <1>8, <1>9 DEF RowsOK

(* What is shown of rows in order is merged. *)
LEMMA ShownMerged ==
    ASSUME NEW rows, RowsOK(rows), NEW S,
           S \subseteq {EntryOf(rows, KeyOf(rows[i].who)) : i \in DOMAIN rows}
    PROVE  Said(SetToSeq(S), rows)
<1> DEFINE entry == [i \in DOMAIN rows |-> EntryOf(rows, KeyOf(rows[i].who))]
           all   == {entry[i] : i \in DOMAIN rows}
<1>1. IsFiniteSet(DOMAIN rows)
  BY FS_Interval DEF RowsOK, IsList
<1>2. IsFiniteSet(all)
  <2>1. entry \in Surjection(DOMAIN rows, all)
    BY DEF Surjection
  <2> HIDE DEF entry, all
  <2> QED
    BY <1>1, <2>1, FS_Surjection
<1>3. IsFiniteSet(S)
  <2>1. S \in SUBSET all
    OBVIOUS
  <2> HIDE DEF all
  <2> QED
    BY <1>2, <2>1, FS_Subset
<1>4. ASSUME NEW x \in S, x.user # Null PROVE Merged(x, rows)
  <2>1. PICK i \in DOMAIN rows : x = EntryOf(rows, KeyOf(rows[i].who))
    OBVIOUS
  <2> QED
    BY <1>4, <2>1, EntryMerged
<1>5. ASSUME NEW x \in S, NEW y \in S, x.user # Null, y.user = x.user PROVE x = y
  <2>1. PICK i \in DOMAIN rows : x = EntryOf(rows, KeyOf(rows[i].who))
    OBVIOUS
  <2>2. PICK j \in DOMAIN rows : y = EntryOf(rows, KeyOf(rows[j].who))
    OBVIOUS
  <2>3. x.user = rows[i].who.user /\ y.user = rows[j].who.user
    BY <2>1, <2>2, EntryMerged
  <2>4. KeyOf(rows[i].who) = KeyOf(rows[j].who)
    BY <1>5, <2>3 DEF KeyOf
  <2> QED
    BY <2>1, <2>2, <2>4
<1> DEFINE shown == SetToSeq(S)
<1>6. /\ \A i \in DOMAIN shown : shown[i] \in S
      /\ \A i, j \in DOMAIN shown : shown[i] = shown[j] => i = j
  BY <1>3, ListedOnce
<1> HIDE DEF shown
<1> QED
  BY <1>4, <1>5, <1>6 DEF Said, shown

(* A step of one command keeps what another has found. *)
LEMMA OneFinds ==
    ASSUME RegisterInv, FindInv, NEW p \in Processes, Moves(p),
           NEW w, work' = [work EXCEPT ![p] = w], FindOK(pc'[p], w)
    PROVE  FindInv'
<1>1. work'[p] = w /\ \A q \in Processes : q # p => work'[q] = work[q] /\ pc'[q] = pc[q]
  BY DEF RegisterInv, Moves
<1>2. ASSUME NEW q \in Processes PROVE FindOK(pc'[q], work'[q])
  <2>1. CASE q = p
    BY <1>1, <2>1
  <2>2. CASE q # p
    BY <1>1, <2>2 DEF FindInv
  <2> QED
    BY <2>1, <2>2
<1> QED
  BY <1>2 DEF FindInv

LEMMA FindingKeeps ==
    ASSUME RegisterInv, GotInv, CacheInv, FindInv, NEW p \in Processes, FindNext(p) \/ Found(p)
    PROVE  FindInv'
<1>1. Moves(p) /\ pc[p] \in {"finding", "found"}
  BY StepMoves, Zenon DEF Step, FindNext, Found, At
<1>2. work[p].shown = <<>> /\ RowsOK(work[p].rows) /\ {"rows", "shown", "next"} \subseteq DOMAIN work[p]
  BY <1>1, FieldsHold DEF FindInv, FindOK, NoWork
<1>3. ASSUME UNCHANGED work PROVE FindInv'
  <2>1. FindOK(pc'[p], work[p])
    BY <1>2 DEF FindOK
  <2>2. work' = [work EXCEPT ![p] = work[p]]
    BY <1>3 DEF RegisterInv
  <2> QED
    BY <1>1, <2>1, <2>2, OneFinds
<1>4. ASSUME NEW t \in Tournaments, NEW list, IsList(list),
             work' = [work EXCEPT ![p].rows = work[p].rows \o RowsOf(t, list), ![p].next = work[p].next + 1]
      PROVE  FindInv'
  <2> DEFINE rows == work[p].rows \o RowsOf(t, list)
             w == [work[p] EXCEPT !.rows = rows, !.next = work[p].next + 1]
  <2>1. RowsOK(rows)
    BY <1>2, <1>4, RowsAdded
  <2> HIDE DEF rows
  <2>2. work' = [work EXCEPT ![p] = w]
    BY <1>4 DEF rows
  <2>3. w.rows = rows /\ w.shown = <<>>
    BY <1>2
  <2> HIDE DEF w
  <2>4. FindOK(pc'[p], w)
    BY <2>1, <2>3 DEF FindOK
  <2> QED
    BY <1>1, <2>2, <2>4, OneFinds
<1>5. CASE FindNext(p)
  <2> DEFINE t == work[p].slugs[work[p].next]
  <2>1. \/ UNCHANGED work
        \/ CacheUsable(p, t) /\ work' = [work EXCEPT ![p].rows = work[p].rows \o RowsOf(t, cache[t]), ![p].next = work[p].next + 1]
    BY <1>5, Zenon DEF FindNext
  <2>2. CacheUsable(p, t) => t \in Tournaments /\ IsList(cache[t])
    BY AdminAssumption DEF CacheUsable, CacheInv, Tournaments
  <2> HIDE DEF t
  <2>3. CASE UNCHANGED work
    BY <1>3, <2>3
  <2>4. CASE CacheUsable(p, t) /\ ~UNCHANGED work
    <3> DEFINE list == cache[t]
    <3>1. /\ t \in Tournaments /\ IsList(list)
          /\ work' = [work EXCEPT ![p].rows = work[p].rows \o RowsOf(t, list), ![p].next = work[p].next + 1]
      BY <2>1, <2>2, <2>4
    <3> HIDE DEF list
    <3> QED
      BY <1>4, <3>1
  <2> QED
    BY <2>1, <2>3, <2>4
<1>6. CASE Found(p)
  <2> DEFINE t == read[p].what[2]
  <2>1. t \in Tournaments /\ IsList(read[p].got)
    BY <1>6 DEF Found, At, CacheInv, ReadInv, IsRoster, GotInv
  <2>2. work' = [work EXCEPT ![p].rows = work[p].rows \o RowsOf(t, read[p].got), ![p].next = work[p].next + 1]
    BY <1>6 DEF Found
  <2> HIDE DEF t
  <2> QED
    BY <1>4, <2>1, <2>2
<1> QED
  BY <1>5, <1>6

LEMMA RankKeepsFinds ==
    ASSUME RegisterInv, FindInv, NEW p \in Processes, Rank(p)
    PROVE  FindInv'
<1>1. Moves(p) /\ pc'[p] = "done"
  BY StepMoves DEF Step, Rank, Goto, RegisterInv
<1>2. RowsOK(work[p].rows) /\ {"rows", "shown"} \subseteq DOMAIN work[p]
  BY FieldsHold DEF FindInv, FindOK, NoWork
<1>3. PICK S : /\ S \subseteq {EntryOf(work[p].rows, KeyOf(work[p].rows[i].who)) : i \in DOMAIN work[p].rows}
               /\ work' = [work EXCEPT ![p].shown = SetToSeq(S)]
  BY DEF Rank
<1>4. Said(SetToSeq(S), work[p].rows)
  BY <1>2, <1>3, ShownMerged
<1> DEFINE s == SetToSeq(S)
           w == [work[p] EXCEPT !.shown = s]
<1> HIDE DEF s
<1>5. w.shown = s /\ w.rows = work[p].rows
  BY <1>2
<1>6. work' = [work EXCEPT ![p] = w]
  BY <1>3 DEF s
<1> HIDE DEF w
<1>7. FindOK(pc'[p], w)
  BY <1>1, <1>2, <1>4, <1>5 DEF FindOK, s
<1> QED
  BY <1>1, <1>6, <1>7, OneFinds

LEMMA FindStep == RegisterInv /\ GotInv /\ CacheInv /\ FindInv /\ [Next]_vars => FindInv'
<1> SUFFICES ASSUME RegisterInv, GotInv, CacheInv, FindInv, [Next]_vars PROVE FindInv'
  OBVIOUS
<1>1. ASSUME NEW p \in Processes, Step(p), ~FindNext(p), ~Found(p), ~Rank(p) PROVE FindInv'
  <2>1. FindsStay /\ Moves(p)
    BY <1>1, FindsKept, StepMoves
  <2>2. ASSUME NEW q \in Processes PROVE FindOK(pc'[q], work'[q])
    <3>1. work'[q].rows = work[q].rows /\ work'[q].shown = work[q].shown
      BY <2>1 DEF FindsStay
    <3>2. FindOK(pc[q], work[q])
      BY DEF FindInv
    <3>3. work[q].shown # <<>> => pc'[q] = pc[q]
      BY <2>1, <3>2 DEF FindOK, Moves
    <3> QED
      BY <3>1, <3>2, <3>3 DEF FindOK
  <2> QED
    BY <2>2 DEF FindInv
<1>2. CASE Site
  BY <1>2 DEF Site, Reseed, Indexed, Join, Withdraw, HandEdit, run, FindInv
<1>3. CASE UNCHANGED vars
  BY <1>3 DEF vars, run, FindInv
<1> QED
  BY <1>1, <1>2, <1>3, FindingKeeps, RankKeepsFinds DEF Next

(* What find answers from and answers with is the whole of the rosters: what *)
(* is cached names everyone, and the lines shown name each account once,    *)
(* with all its appearances and the tag of the latest, for every number of  *)
(* tournaments, people, commands and pages.                                *)
THEOREM RostersStayTrue == Spec => []RostersTrue
<1>1. Init => RegisterInv /\ GotInv /\ CacheInv /\ FindInv
  BY RegisterInit, GotInit, CacheInit, FindInit
<1>2. RegisterInv /\ GotInv /\ CacheInv /\ FindInv /\ [Next]_vars
      => (RegisterInv /\ GotInv /\ CacheInv /\ FindInv)'
  BY RegisterStep, GotStep, CacheStep, FindStep
<1>3. FindInv => PeopleMerged
  BY DEF FindInv, FindOK, Said, PeopleMerged
<1>4. Spec => [](RegisterInv /\ GotInv /\ CacheInv /\ FindInv)
  BY <1>1, <1>2, PTL DEF Spec
<1>5. Spec => []PeopleMerged
  BY <1>3, <1>4, PTL
<1>6. CacheIsWhole /\ PeopleMerged => RostersTrue
  BY DEF RostersTrue
<1> QED
  BY <1>5, <1>6, CachedRostersWhole, PTL
-----------------------------------------------------------------------------
(* The samples of an event. *)

(* Who owns an id, also after a replacement. *)
Owner == CHOOSE owner \in [Ids -> {Key(row) : row \in ToSet(FirstRows)} \cup {Null}] : Owns(owner)

LEMMA OwnerOwns == Owns(Owner)
  BY RowsAssumption DEF Owner

(* What the site serves, and what is made of it. *)
InTime(t, now) == t = Null \/ (t \in Nat /\ t <= now)
SiteRow(row, now) ==
    /\ row = [id |-> row.id, group |-> row.group, round |-> row.round, ident |-> row.ident,
              started |-> row.started, done |-> row.done, winner |-> row.winner, slots |-> row.slots]
    /\ InTime(row.started, now)
    /\ row.done # Null => row.winner # Null
    /\ Usable(row) => Owner[row.id] = Key(row)
SiteRows(rows, now) == IsList(rows) /\ \A i \in DOMAIN rows : SiteRow(rows[i], now)
OneEach(rows) ==
    \A i, j \in DOMAIN rows : Usable(rows[i]) /\ Usable(rows[j]) /\ Key(rows[i]) = Key(rows[j]) => i = j

TableSet(s, now) ==
    /\ s = [id |-> s.id, key |-> s.key, started |-> s.started, done |-> s.done,
            winner |-> s.winner, slots |-> s.slots]
    /\ InTime(s.started, now)
    /\ Owner[s.id] = s.key
TableSets(T, now) ==
    /\ IsList(T) /\ \A i \in DOMAIN T : TableSet(T[i], now)
    /\ \A i, j \in DOMAIN T : T[i].key = T[j].key => i = j

Answered(a, now) == a = Null \/ (a.started \in Nat /\ a.started <= now)

RowsInv ==
    /\ clock \in Nat /\ Answered(answer, clock)
    /\ SiteRows(served, clock) /\ OneEach(served)
    /\ SiteRows(fetched.nodes, clock) /\ fetched.page \in Nat
    /\ TableSets(table, clock) /\ TableSets(disk.table, clock)

(* Of one set, r is b or what became of it.  A finished set starts again at  *)
(* no earlier time, save those of W, whose start an answer changed.        *)
Since(W, b, r) ==
    /\ Completed(b) => Completed(r)
    /\ b.done # Null => r = [b EXCEPT !.started = r.started]
    /\ b.done # Null /\ b.key \notin W => (b.started # Null /\ r.started # Null => b.started <= r.started)
Follows(W, T, U) == \A i \in DOMAIN T, j \in DOMAIN U : T[i].key = U[j].key => Since(W, T[i], U[j])
Lives(rows) == [i \in UsableAt(rows) |-> LiveSet(rows[i])]

(* The saved table, the table, the pages read and the site are in order. *)
OrderedInv ==
    /\ Follows(rewritten, disk.table, table)
    /\ Follows(rewritten, disk.table, Lives(fetched.nodes)) /\ Follows(rewritten, table, Lives(fetched.nodes))
    /\ Follows(rewritten, disk.table, Lives(served)) /\ Follows(rewritten, table, Lives(served))
    /\ Follows(rewritten, Lives(fetched.nodes), Lives(served))

LEMMA MoreRewritten ==
    ASSUME NEW W, NEW V, W \subseteq V, NEW T, NEW U, Follows(W, T, U)
    PROVE  Follows(V, T, U)
BY DEF Follows, Since

LEMMA LiveFields ==
    ASSUME NEW row
    PROVE  /\ LiveSet(row).id = row.id /\ LiveSet(row).key = Key(row)
           /\ LiveSet(row).started = row.started /\ LiveSet(row).done = row.done
           /\ LiveSet(row).winner = row.winner
           /\ LiveSet(row) = [id |-> row.id, key |-> Key(row), started |-> row.started, done |-> row.done,
                              winner |-> row.winner, slots |-> LiveSet(row).slots]
<1> DEFINE slots == Each(row.slots, LAMBDA s : [prereq |-> Prereq(s), who |-> Occupant(s)])
<1>1. LiveSet(row) = [id |-> row.id, key |-> Key(row), started |-> row.started, done |-> row.done,
                      winner |-> row.winner, slots |-> slots]
  BY Zenon DEF LiveSet
<1> HIDE DEF slots
<1> QED
  BY <1>1

LEMMA LiveIsSet ==
    ASSUME NEW row, NEW now, SiteRow(row, now), Usable(row)
    PROVE  TableSet(LiveSet(row), now)
<1> QED
  BY LiveFields DEF TableSet, SiteRow

(* What the poll makes of its pages: of each key the row read last. *)
LEMMA LiveSetsAre ==
    ASSUME NEW nodes, NEW now, SiteRows(nodes, now)
    PROVE  /\ TableSets(LiveSets(nodes), now)
           /\ \A k \in DOMAIN LiveSets(nodes) : \E i \in UsableAt(nodes) : LiveSets(nodes)[k] = LiveSet(nodes[i])
<1> DEFINE U == UsableAt(nodes)
           At1(row) == ServedAt(nodes, row)
           firsts == {i \in U : \A j \in At1(nodes[i]) : i <= j}
           rows == Only(nodes, firsts)
           Latest(row) == LiveSet(nodes[Max(At1(row))])
           sets == LiveSets(nodes)
<1>1. PICK n \in Nat : DOMAIN nodes = 1..n
  BY DEF SiteRows, IsList
<1>2. IsFiniteSet(1..n) /\ U \in SUBSET (1..n)
  BY <1>1, FS_Interval DEF UsableAt
<1>3. IsFiniteSet(firsts) /\ \A i \in firsts : i \in Nat /\ i \in U
  <2>1. firsts \in SUBSET (1..n)
    BY <1>2
  <2>2. \A i \in firsts : i \in Nat /\ i \in U
    BY <1>2
  <2> HIDE DEF firsts
  <2> QED
    BY <1>2, <2>1, <2>2, FS_Subset
<1>4. PICK m \in Nat : \E f \in [1..m -> firsts] : IsInjective(f) /\ rows = [k \in 1..m |-> nodes[f[k]]]
  <2> HIDE DEF firsts
  <2>1. Picks(rows, nodes, firsts)
    BY <1>3, OnlyPicks
  <2> HIDE DEF rows
  <2> QED
    BY <2>1 DEF Picks
<1>5. PICK f \in [1..m -> firsts] : IsInjective(f) /\ rows = [k \in 1..m |-> nodes[f[k]]]
  BY <1>4
<1>6. sets = [k \in DOMAIN rows |-> Latest(rows[k])]
  <2> HIDE DEF LiveSet
  <2> QED
    BY DEF LiveSets, Each
<1>7. ASSUME NEW k \in 1..m
      PROVE  LET i == Max(At1(nodes[f[k]])) IN
             /\ f[k] \in U /\ i \in U /\ Key(nodes[i]) = Key(nodes[f[k]])
             /\ sets[k] = LiveSet(nodes[i])
  <2>1. f[k] \in firsts
    BY <1>5
  <2>2. f[k] \in U
    BY <1>3, <2>1
  <2> DEFINE S == At1(nodes[f[k]])
  <2>3. f[k] \in S /\ S \in SUBSET U
    BY <2>2 DEF ServedAt
  <2>4. IsFiniteSet(S) /\ \A i \in S : i \in Nat
    <3>1. S \in SUBSET (1..n)
      BY <1>2, <2>3
    <3> HIDE DEF S
    <3>2. IsFiniteSet(S)
      BY <1>2, <3>1, FS_Subset
    <3>3. \A i \in S : i \in Nat
      BY <3>1
    <3> QED
      BY <3>2, <3>3
  <2>5. Max(S) \in S
    <3> HIDE DEF S
    <3> QED
      BY <2>3, <2>4, LastOf
  <2>6. rows[k] = nodes[f[k]] /\ k \in DOMAIN rows
    BY <1>5
  <2>7. sets[k] = LiveSet(nodes[Max(S)])
    <3> HIDE DEF rows, LiveSet, sets
    <3> QED
      BY <1>6, <2>6
  <2>8. Max(S) \in U /\ Key(nodes[Max(S)]) = Key(nodes[f[k]])
    BY <2>5 DEF ServedAt
  <2> QED
    BY <2>2, <2>7, <2>8
<1>8. DOMAIN sets = 1..m /\ sets = [k \in 1..m |-> sets[k]]
  <2>1. DOMAIN rows = 1..m
    BY <1>5
  <2> HIDE DEF rows, Latest, sets
  <2> QED
    BY <1>6, <2>1
<1>9. \A k \in 1..m : \E i \in U : sets[k] = LiveSet(nodes[i])
  <2> HIDE DEF sets, At1, U
  <2> QED
    BY <1>7
<1>10. ASSUME NEW k \in 1..m PROVE TableSet(sets[k], now)
  <2>1. PICK i \in U : sets[k] = LiveSet(nodes[i])
    BY <1>9
  <2>2. SiteRow(nodes[i], now) /\ Usable(nodes[i])
    BY DEF UsableAt, SiteRows
  <2> HIDE DEF sets
  <2> QED
    BY <2>1, <2>2, LiveIsSet
<1>11. ASSUME NEW a \in 1..m, NEW b \in 1..m, sets[a].key = sets[b].key
       PROVE  a = b
  <2>1. Key(nodes[f[a]]) = Key(nodes[f[b]]) /\ f[a] \in U /\ f[b] \in U
    <3>1. sets[a].key = Key(nodes[f[a]])
      <4> HIDE DEF sets, At1, U
      <4> QED
        BY <1>7, LiveFields
    <3>2. sets[b].key = Key(nodes[f[b]])
      <4> HIDE DEF sets, At1, U
      <4> QED
        BY <1>7, LiveFields
    <3>3. f[a] \in U /\ f[b] \in U
      <4> HIDE DEF sets, At1, U
      <4> QED
        BY <1>7
    <3> QED
      BY <1>11, <3>1, <3>2, <3>3
  <2>2. f[a] \in firsts /\ f[b] \in firsts
    BY <1>5
  <2>3. f[a] \in At1(nodes[f[b]]) /\ f[b] \in At1(nodes[f[a]])
    BY <2>1 DEF ServedAt
  <2>4. f[a] <= f[b] /\ f[b] <= f[a]
    BY <2>2, <2>3
  <2>5. f[a] \in Nat /\ f[b] \in Nat
    <3> HIDE DEF firsts
    <3> QED
      BY <1>3, <2>2
  <2>6. f[a] = f[b]
    <3> HIDE DEF firsts
    <3> QED
      BY <2>4, <2>5
  <2> HIDE DEF firsts, rows
  <2> QED
    BY <1>5, <2>6 DEF IsInjective
<1> HIDE DEF sets
<1> QED
  BY <1>8, <1>9, <1>10, <1>11 DEF TableSets, IsList, sets

(* What is in order stays in order later on. *)
LEMMA LaterRows ==
    ASSUME NEW rows, NEW now \in Nat, NEW later \in Nat, now <= later, SiteRows(rows, now)
    PROVE  SiteRows(rows, later)
<1>1. ASSUME NEW row, SiteRow(row, now) PROVE SiteRow(row, later)
  BY <1>1 DEF SiteRow, InTime
<1> QED
  BY <1>1 DEF SiteRows

LEMMA LaterSets ==
    ASSUME NEW T, NEW now \in Nat, NEW later \in Nat, now <= later, TableSets(T, now)
    PROVE  TableSets(T, later)
<1>1. ASSUME NEW s, TableSet(s, now) PROVE TableSet(s, later)
  BY <1>1 DEF TableSet, InTime
<1> QED
  BY <1>1 DEF TableSets

(* Some of the sets of a table. *)
LEMMA SomeSets ==
    ASSUME NEW T, NEW now, TableSets(T, now), NEW S, S \subseteq DOMAIN T
    PROVE  /\ TableSets(Only(T, S), now)
           /\ \A k \in DOMAIN Only(T, S) : \E i \in S : Only(T, S)[k] = T[i]
           /\ \A i \in S : \E k \in DOMAIN Only(T, S) : Only(T, S)[k] = T[i]
<1>1. PICK n \in Nat : DOMAIN T = 1..n
  BY DEF TableSets, IsList
<1>2. IsFiniteSet(1..n) /\ S \in SUBSET (1..n)
  BY <1>1, FS_Interval
<1>3. IsFiniteSet(S) /\ \A i \in S : i \in Nat
  BY <1>2, FS_Subset
<1> DEFINE t == Only(T, S)
<1>4. Picks(t, T, S) /\ IsList(t)
  BY <1>3, OnlyPicks, Selected
<1>5. \A i \in S : T[i] \in ToSet(t)
  BY <1>3, OnlyHas
<1> HIDE DEF t
<1>6. PICK m \in Nat : \E f \in [1..m -> S] : IsInjective(f) /\ t = [k \in 1..m |-> T[f[k]]]
  BY <1>4 DEF Picks
<1>7. PICK f \in [1..m -> S] : IsInjective(f) /\ t = [k \in 1..m |-> T[f[k]]]
  BY <1>6
<1>8. DOMAIN t = 1..m /\ \A k \in 1..m : f[k] \in S /\ t[k] = T[f[k]]
  BY <1>7
<1>9. \A k \in DOMAIN t : TableSet(t[k], now)
  BY <1>8 DEF TableSets
<1>10. ASSUME NEW a \in DOMAIN t, NEW b \in DOMAIN t, t[a].key = t[b].key PROVE a = b
  <2>1. f[a] = f[b]
    BY <1>8, <1>10 DEF TableSets
  <2> QED
    BY <1>7, <1>8, <2>1 DEF IsInjective
<1>11. TableSets(t, now)
  BY <1>4, <1>9, <1>10 DEF TableSets
<1>12. \A k \in DOMAIN t : \E i \in S : t[k] = T[i]
  BY <1>8
<1>13. \A i \in S : \E k \in DOMAIN t : t[k] = T[i]
  BY <1>5 DEF ToSet
<1> QED
  BY <1>11, <1>12, <1>13 DEF t

(* What a list put together of two holds. *)
IsJoin(u, s, t) ==
    /\ IsList(u)
    /\ \E m \in Nat : \A k \in DOMAIN u :
          /\ k \in Nat
          /\ \/ k \in DOMAIN s /\ u[k] = s[k]
             \/ k \notin DOMAIN s /\ k - m \in DOMAIN t /\ u[k] = t[k - m]
LEMMA Parts == ASSUME NEW s, NEW t, IsList(s), IsList(t) PROVE IsJoin(s \o t, s, t)
<1>1. PICK m \in Nat : DOMAIN s = 1..m /\ s = [i \in 1..m |-> s[i]]
  BY DEF IsList
<1>2. PICK n \in Nat : DOMAIN t = 1..n /\ t = [i \in 1..n |-> t[i]]
  BY DEF IsList
<1> DEFINE u == s \o t
<1>3. /\ DOMAIN u = 1..(m + n)
      /\ \A i \in 1..m : u[i] = s[i]
      /\ \A i \in 1..n : u[m + i] = t[i]
  BY <1>1, <1>2, Joined
<1>4. IsList(u)
  BY Together
<1> HIDE DEF u
<1>5. ASSUME NEW k \in 1..(m + n), k \notin 1..m
      PROVE  k - m \in 1..n /\ u[k] = t[k - m]
  <2>1. k - m \in 1..n /\ m + (k - m) = k
    BY <1>5
  <2> QED
    BY <1>3, <2>1
<1>6. \A k \in DOMAIN u :
         /\ k \in Nat
         /\ \/ k \in DOMAIN s /\ u[k] = s[k]
            \/ k \notin DOMAIN s /\ k - m \in DOMAIN t /\ u[k] = t[k - m]
  <2> TAKE k \in DOMAIN u
  <2>1. k \in 1..(m + n) /\ k \in Nat
    BY <1>3
  <2>2. CASE k \in 1..m
    BY <1>1, <1>3, <2>1, <2>2
  <2>3. CASE k \notin 1..m
    BY <1>1, <1>2, <1>5, <2>1, <2>3
  <2> QED
    BY <2>2, <2>3
<1>7. IsJoin(u, s, t)
  BY <1>4, <1>6 DEF IsJoin
<1> QED
  BY <1>7 DEF u

(* What is found in two lists. *)
OneOf(T, U, W) ==
    \A k \in DOMAIN T : (\E i \in DOMAIN U : T[k] = U[i]) \/ \E i \in DOMAIN W : T[k] = W[i]

(* What is made of the pages and what the tearing guard retains: the table. *)
LEMMA NextIs ==
    ASSUME NEW live, NEW now, TableSets(live, now), TableSets(table, now)
    PROVE  LET next == live \o Retained(live) IN
           /\ TableSets(next, now)
           /\ OneOf(next, live, table)
<1> DEFINE S == {i \in DOMAIN table : table[i].key \notin KeysOf(live) \cup suspects}
           kept == Only(table, S)
           next == live \o kept
<1>1. Retained(live) = kept
  BY DEF Retained
<1>2. S \subseteq DOMAIN table /\ \A i \in S : table[i].key \notin KeysOf(live)
  OBVIOUS
<1> HIDE DEF S
<1>3. TableSets(kept, now) /\ \A k \in DOMAIN kept : \E i \in S : kept[k] = table[i]
  BY <1>2, SomeSets
<1> HIDE DEF kept
<1>20. IsJoin(next, live, kept)
  BY <1>3, Parts DEF TableSets
<1> HIDE DEF next
<1>4. PICK m \in Nat : \A k \in DOMAIN next :
          /\ k \in Nat
          /\ \/ k \in DOMAIN live /\ next[k] = live[k]
             \/ k \notin DOMAIN live /\ k - m \in DOMAIN kept /\ next[k] = kept[k - m]
  BY <1>20 DEF IsJoin
<1>5. IsList(next)
  BY <1>20 DEF IsJoin
<1>6. \A k \in DOMAIN live : live[k].key \in KeysOf(live)
  BY DEF KeysOf
<1>7. \A k \in DOMAIN kept : kept[k].key \notin KeysOf(live)
  BY <1>2, <1>3
<1>8. \A k \in DOMAIN next : TableSet(next[k], now)
  BY <1>3, <1>4 DEF TableSets
<1>9. ASSUME NEW a \in DOMAIN next, NEW b \in DOMAIN next, next[a].key = next[b].key PROVE a = b
  <2>1. CASE a \in DOMAIN live /\ b \in DOMAIN live
    BY <1>4, <1>9, <2>1 DEF TableSets
  <2>2. CASE a \notin DOMAIN live /\ b \notin DOMAIN live
    <3>1. a - m \in DOMAIN kept /\ b - m \in DOMAIN kept /\ kept[a - m].key = kept[b - m].key
      BY <1>4, <1>9, <2>2
    <3>2. a - m = b - m
      BY <1>3, <3>1 DEF TableSets
    <3>3. a \in Nat /\ b \in Nat
      BY <1>4
    <3> QED
      BY <3>2, <3>3
  <2>3. CASE a \in DOMAIN live /\ b \notin DOMAIN live
    BY <1>4, <1>6, <1>7, <1>9, <2>3
  <2>4. CASE a \notin DOMAIN live /\ b \in DOMAIN live
    BY <1>4, <1>6, <1>7, <1>9, <2>4
  <2> QED
    BY <2>1, <2>2, <2>3, <2>4
<1>10. TableSets(next, now)
  BY <1>5, <1>8, <1>9 DEF TableSets
<1>11. OneOf(next, live, table)
  BY <1>2, <1>3, <1>4 DEF OneOf
<1> QED
  BY <1>1, <1>10, <1>11 DEF next

(* A page holds rows of the site. *)
LEMMA PageRows ==
    ASSUME NEW list, NEW now, SiteRows(list, now), NEW k \in Nat
    PROVE  /\ SiteRows(PageNodes(list, k), now)
           /\ \A j \in DOMAIN PageNodes(list, k) : \E i \in DOMAIN list : PageNodes(list, k)[j] = list[i]
<1> DEFINE S == PlacesOf(list, k)
           page == PageNodes(list, k)
<1>1. page = Only(list, S) /\ IsList(page)
  BY PageIsList DEF PageNodes, PlacesOf
<1>2. PICK n \in Nat : DOMAIN list = 1..n
  BY DEF SiteRows, IsList
<1>3. IsFiniteSet(1..n) /\ S \in SUBSET (1..n)
  BY <1>2, FS_Interval DEF PlacesOf
<1> HIDE DEF S, page
<1>4. IsFiniteSet(S) /\ \A i \in S : i \in Nat
  <2>1. IsFiniteSet(S)
    BY <1>3, FS_Subset
  <2> QED
    BY <1>3, <2>1
<1>5. Picks(page, list, S)
  BY <1>1, <1>4, OnlyPicks
<1>6. PICK m \in Nat : \E f \in [1..m -> S] : IsInjective(f) /\ page = [j \in 1..m |-> list[f[j]]]
  BY <1>5 DEF Picks
<1>7. \A j \in DOMAIN page : \E i \in DOMAIN list : page[j] = list[i]
  BY <1>2, <1>3, <1>6
<1>8. SiteRows(page, now)
  BY <1>1, <1>7 DEF SiteRows
<1> QED
  BY <1>7, <1>8 DEF page

LEMMA MoreRows ==
    ASSUME NEW nodes, NEW more, NEW now, SiteRows(nodes, now), SiteRows(more, now)
    PROVE  SiteRows(nodes \o more, now) /\ OneOf(nodes \o more, nodes, more)
<1> DEFINE u == nodes \o more
<1>1. IsJoin(u, nodes, more)
  BY Parts DEF SiteRows
<1> HIDE DEF u
<1>2. IsList(u)
  BY <1>1 DEF IsJoin
<1>3. OneOf(u, nodes, more)
  BY <1>1 DEF IsJoin, OneOf
<1>4. SiteRows(u, now)
  BY <1>2, <1>3 DEF SiteRows, OneOf
<1> QED
  BY <1>3, <1>4 DEF u

(* What a change at the site makes of a row. *)
Became(r, q, now) ==
    /\ SiteRow(q, now)
    /\ Usable(q) <=> Usable(r)
    /\ Key(q) = Key(r)
    /\ q.started = r.started \/ q.started = now \/ q.started = Null
    /\ r.done # Null => q = [r EXCEPT !.started = q.started]
    /\ r.done # Null \/ r.winner # Null => q.done # Null \/ q.winner # Null

LEMMA LiveSlots ==
    ASSUME NEW r, NEW q, r.slots = q.slots
    PROVE  LiveSet(r).slots = LiveSet(q).slots
<1> DEFINE slots(row) == Each(row.slots, LAMBDA s : [prereq |-> Prereq(s), who |-> Occupant(s)])
<1>1. \A row : LiveSet(row) = [id |-> row.id, key |-> Key(row), started |-> row.started, done |-> row.done,
                      winner |-> row.winner, slots |-> slots(row)]
  BY Zenon DEF LiveSet
<1>2. slots(r) = slots(q)
  BY Zenon
<1> HIDE DEF slots
<1> QED
  BY <1>1, <1>2

LEMMA SinceOn ==
    ASSUME NEW now \in Nat, NEW b, TableSet(b, now), NEW r, SiteRow(r, now), NEW q, Became(r, q, now),
           Since(rewritten, b, LiveSet(r))
    PROVE  Since(rewritten, b, LiveSet(q))
<1> DEFINE l == LiveSet(r)
           m == LiveSet(q)
<1>1. /\ l = [id |-> r.id, key |-> Key(r), started |-> r.started, done |-> r.done,
              winner |-> r.winner, slots |-> l.slots]
      /\ m = [id |-> q.id, key |-> Key(q), started |-> q.started, done |-> q.done,
              winner |-> q.winner, slots |-> m.slots]
  <2> HIDE DEF LiveSet
  <2> QED
    BY LiveFields
<1>2. r.slots = q.slots => l.slots = m.slots
  <2> HIDE DEF LiveSet
  <2> QED
    BY LiveSlots
<1> HIDE DEF l, m
<1>3. Completed(b) => Completed(m)
  BY <1>1 DEF Since, Completed, Became, l, m
<1>4. ASSUME b.done # Null PROVE m = [b EXCEPT !.started = m.started]
  <2>1. l = [b EXCEPT !.started = l.started]
    BY <1>4 DEF Since, l
  <2>2. l.done = b.done /\ r.done = b.done
    BY <1>1, <2>1 DEF TableSet
  <2>3. q = [r EXCEPT !.started = q.started]
    BY <1>4, <2>2 DEF Became
  <2>4. q.id = r.id /\ q.done = r.done /\ q.winner = r.winner /\ q.slots = r.slots
    BY <2>3 DEF SiteRow
  <2>5. m = [l EXCEPT !.started = m.started]
    BY <1>1, <1>2, <2>4 DEF Became
  <2> QED
    BY <2>1, <2>5 DEF TableSet
<1>5. ASSUME b.done # Null, b.key \notin rewritten, b.started # Null, m.started # Null
      PROVE  b.started <= m.started
  <2>1. b.started \in Nat /\ b.started <= now
    BY <1>5 DEF TableSet, InTime
  <2>2. CASE q.started = r.started
    BY <1>1, <1>5, <2>2 DEF Since, l
  <2>3. CASE q.started # r.started
    <3>1. m.started = now
      BY <1>1, <1>5, <2>3 DEF Became
    <3> QED
      BY <2>1, <3>1
  <2> QED
    BY <2>2, <2>3
<1> QED
  BY <1>3, <1>4, <1>5 DEF Since, m

(* Sets of one time, in order with the site, are so after the site changed. *)
OnTime(T, now) == \A i \in DOMAIN T : TableSet(T[i], now)
Sites(rows, rows2, now) ==
    /\ SiteRows(rows2, now) /\ OneEach(rows2)
    /\ \A T : OnTime(T, now) /\ Follows(rewritten, T, Lives(rows)) => Follows(rewritten, T, Lives(rows2))

LEMMA Carried ==
    ASSUME NEW now \in Nat, NEW rows, SiteRows(rows, now), OneEach(rows), NEW rows2, IsList(rows2),
           NEW f \in [DOMAIN rows2 -> DOMAIN rows], IsInjective(f),
           \A j \in DOMAIN rows2 : Became(rows[f[j]], rows2[j], now)
    PROVE  Sites(rows, rows2, now)
<1>1. SiteRows(rows2, now)
  BY DEF SiteRows, Became
<1>2. ASSUME NEW a \in DOMAIN rows2, NEW b \in DOMAIN rows2, Usable(rows2[a]), Usable(rows2[b]),
             Key(rows2[a]) = Key(rows2[b])
      PROVE  a = b
  <2>1. f[a] \in DOMAIN rows /\ f[b] \in DOMAIN rows
    OBVIOUS
  <2>2. Usable(rows[f[a]]) /\ Usable(rows[f[b]]) /\ Key(rows[f[a]]) = Key(rows[f[b]])
    BY <1>2 DEF Became
  <2>3. f[a] = f[b]
    BY <2>1, <2>2 DEF OneEach
  <2> QED
    BY <2>3 DEF IsInjective
<1>3. OneEach(rows2)
  BY <1>2 DEF OneEach
<1>4. ASSUME NEW T, OnTime(T, now), Follows(rewritten, T, Lives(rows)), NEW i \in DOMAIN T, NEW j \in DOMAIN Lives(rows2),
             T[i].key = Lives(rows2)[j].key
      PROVE  Since(rewritten, T[i], Lives(rows2)[j])
  <2> HIDE DEF LiveSet
  <2>1. j \in UsableAt(rows2) /\ Lives(rows2)[j] = LiveSet(rows2[j])
    BY <1>4 DEF Lives
  <2>2. j \in DOMAIN rows2 /\ Usable(rows2[j])
    BY <2>1 DEF UsableAt
  <2> DEFINE r == rows[f[j]]
             q == rows2[j]
  <2>3. Became(r, q, now) /\ f[j] \in DOMAIN rows
    BY <2>2
  <2>4. SiteRow(r, now) /\ Usable(r) /\ Key(r) = Key(q)
    BY <2>2, <2>3 DEF SiteRows, Became
  <2>5. f[j] \in UsableAt(rows)
    BY <2>3, <2>4 DEF UsableAt
  <2>6. f[j] \in DOMAIN Lives(rows) /\ Lives(rows)[f[j]] = LiveSet(r)
    BY <2>5 DEF Lives
  <2>7. T[i].key = LiveSet(r).key
    <3>1. LiveSet(q).key = Key(q) /\ LiveSet(r).key = Key(r)
      BY LiveFields
    <3> QED
      BY <1>4, <2>1, <2>4, <3>1
  <2>8. Since(rewritten, T[i], LiveSet(r))
    BY <1>4, <2>6, <2>7 DEF Follows
  <2>9. TableSet(T[i], now)
    BY <1>4 DEF OnTime
  <2> HIDE DEF r, q
  <2>10. Since(rewritten, T[i], LiveSet(q))
    BY <2>3, <2>4, <2>8, <2>9, SinceOn
  <2> QED
    BY <2>1, <2>10 DEF q
<1>5. \A T : OnTime(T, now) /\ Follows(rewritten, T, Lives(rows)) => Follows(rewritten, T, Lives(rows2))
  <2> TAKE T
  <2> HAVE OnTime(T, now) /\ Follows(rewritten, T, Lives(rows))
  <2> QED
    BY <1>4 DEF Follows
<1> QED
  BY <1>1, <1>3, <1>5 DEF Sites

(* One row changes. *)
LEMMA ChangeCarries ==
    ASSUME RowsInv, NEW i \in DOMAIN served, NEW q, Became(served[i], q, clock), served' = [served EXCEPT ![i] = q]
    PROVE  Sites(served, served', clock)
<1>1. PICK n \in Nat : DOMAIN served = 1..n /\ served = [k \in 1..n |-> served[k]]
  BY DEF RowsInv, SiteRows, IsList
<1> DEFINE s2 == served'
<1>2. DOMAIN s2 = 1..n /\ s2 = [k \in 1..n |-> s2[k]] /\ \A k \in 1..n : s2[k] = IF k = i THEN q ELSE served[k]
  BY <1>1
<1> HIDE DEF s2
<1>3. IsList(s2)
  BY <1>2 DEF IsList
<1> DEFINE f == [k \in 1..n |-> k]
<1>4. f \in [DOMAIN s2 -> DOMAIN served] /\ IsInjective(f) /\ \A k \in 1..n : f[k] = k
  BY <1>1, <1>2 DEF IsInjective
<1>5. \A k \in DOMAIN served : Became(served[k], served[k], clock)
  <2> TAKE k \in DOMAIN served
  <2> DEFINE r == served[k]
  <2>1. SiteRow(r, clock)
    BY DEF RowsInv, SiteRows
  <2> HIDE DEF r
  <2>2. r = [r EXCEPT !.started = r.started]
    BY <2>1 DEF SiteRow
  <2>3. Became(r, r, clock)
    BY <2>1, <2>2 DEF Became
  <2> QED
    BY <2>3 DEF r
<1> HIDE DEF f
<1>6. \A k \in DOMAIN s2 : Became(served[f[k]], s2[k], clock)
  BY <1>1, <1>2, <1>4, <1>5
<1>7. Sites(served, s2, clock)
  <2>1. clock \in Nat /\ SiteRows(served, clock) /\ OneEach(served)
    BY DEF RowsInv
  <2> QED
    BY <1>3, <1>4, <1>6, <2>1, Carried
<1> QED
  BY <1>7 DEF s2

LEMMA SubSeqAt ==
    ASSUME NEW X, NEW s \in Seq(X), NEW m \in 1..(Len(s) + 1), NEW n \in 0..Len(s), NEW k \in 1..(n - m + 1)
    PROVE  SubSeq(s, m, n)[k] = s[m + k - 1]
OBVIOUS

LEMMA JoinAt ==
    ASSUME NEW X, NEW a \in Seq(X), NEW b \in Seq(X), NEW k \in 1..(Len(a) + Len(b))
    PROVE  (a \o b)[k] = IF k <= Len(a) THEN a[k] ELSE b[k - Len(a)]
OBVIOUS

(* A row moves to the front. *)
LEMMA MoveCarries ==
    ASSUME RowsInv, NEW i \in DOMAIN served, served' = <<served[i]>> \o RemoveAt(served, i)
    PROVE  Sites(served, served', clock)
<1>1. PICK n \in Nat : DOMAIN served = 1..n /\ served = [k \in 1..n |-> served[k]]
  BY DEF RowsInv, SiteRows, IsList
<1> DEFINE X == {served[k] : k \in 1..n}
           s2 == served'
           f == [k \in 1..n |-> IF k = 1 THEN i ELSE IF k <= i THEN k - 1 ELSE k]
<1>2. served \in Seq(X) /\ Len(served) = n
  <2>1. \A k \in 1..n : served[k] \in X
    OBVIOUS
  <2> HIDE DEF X
  <2> QED
    BY <1>1, <2>1, ListIn
<1>3. i \in 1..n
  BY <1>1
<1> HIDE DEF X
<1>20. served[i] \in X
  BY <1>2, <1>3
<1> DEFINE a == SubSeq(served, 1, i - 1)
           b == SubSeq(served, i + 1, n)
<1>4. a \in Seq(X) /\ Len(a) = i - 1 /\ \A k \in 1..(i - 1) : a[k] = served[k]
  BY <1>2, <1>3
<1>5. b \in Seq(X) /\ Len(b) = n - i /\ \A k \in 1..(n - i) : b[k] = served[i + k]
  <2>1. i + 1 \in 1..(n + 1) /\ n \in 0..Len(served)
    BY <1>2, <1>3
  <2>2. b \in Seq(X)
    BY <1>2, <2>1
  <2>3. Len(b) = n - i
    BY <1>2, <1>3, <2>1
  <2>4. \A k \in 1..(n - i) : b[k] = served[(i + 1) + k - 1]
    <3> TAKE k \in 1..(n - i)
    <3> DEFINE m == i + 1
    <3>1. m \in 1..(Len(served) + 1) /\ n \in 0..Len(served) /\ k \in 1..(n - m + 1)
      BY <1>2, <1>3
    <3> HIDE DEF m
    <3>2. SubSeq(served, m, n)[k] = served[m + k - 1]
      BY <1>2, <3>1, SubSeqAt
    <3> QED
      BY <3>2 DEF m
  <2> HIDE DEF b
  <2> QED
    BY <1>3, <2>2, <2>3, <2>4
<1>6. s2 = <<served[i]>> \o (a \o b)
  <2> DEFINE b2 == SubSeq(served, i + 1, Len(served))
  <2>1. s2 = <<served[i]>> \o (a \o b2)
    BY Zenon DEF RemoveAt
  <2>2. b2 = b
    BY <1>2
  <2> HIDE DEF a, b, b2
  <2> QED
    BY <2>1, <2>2
<1> HIDE DEF a, b, s2, f
<1> DEFINE c == a \o b
<1>7. c \in Seq(X) /\ Len(c) = n - 1
  <2>1. c \in Seq(X) /\ Len(c) = Len(a) + Len(b)
    <3>1. a \in Seq(X) /\ b \in Seq(X)
      BY <1>4, <1>5
    <3> HIDE DEF X
    <3> QED
      BY ONLY <3>1
  <2>2. (i - 1) + (n - i) = n - 1
    BY <1>3
  <2> HIDE DEF c
  <2> QED
    BY <1>4, <1>5, <2>1, <2>2
<1>14. \A k \in 1..(n - 1) : c[k] = IF k < i THEN served[k] ELSE served[k + 1]
  <2>3. ASSUME NEW k \in 1..(n - 1) PROVE c[k] = IF k < i THEN a[k] ELSE b[k - (i - 1)]
    <3>1. k \in 1..(Len(a) + Len(b)) /\ (k <= Len(a) <=> k < i) /\ k - Len(a) = k - (i - 1)
      BY <1>3, <1>4, <1>5
    <3>2. c[k] = IF k <= Len(a) THEN a[k] ELSE b[k - Len(a)]
      BY <1>4, <1>5, <3>1, JoinAt
    <3> HIDE DEF c
    <3> QED
      BY <3>1, <3>2
  <2> HIDE DEF c
  <2>1. ASSUME NEW k \in 1..(n - 1), k < i PROVE c[k] = served[k]
    <3>1. c[k] = a[k]
      BY <2>1, <2>3
    <3> QED
      BY <1>3, <1>4, <2>1, <3>1
  <2>2. ASSUME NEW k \in 1..(n - 1), ~(k < i) PROVE c[k] = served[k + 1]
    <3>1. k - (i - 1) \in 1..(n - i) /\ i + (k - (i - 1)) = k + 1
      BY <1>3, <2>2
    <3>2. c[k] = b[k - (i - 1)]
      BY <2>2, <2>3
    <3> QED
      BY <1>5, <3>1, <3>2
  <2> QED
    BY <2>1, <2>2
<1>8. s2 = <<served[i]>> \o c
  BY <1>6
<1> HIDE DEF c
<1>15. /\ s2 \in Seq(X) /\ Len(s2) = n
       /\ s2[1] = served[i] /\ \A k \in 2..n : s2[k] = c[k - 1]
  BY <1>3, <1>7, <1>8, <1>20
<1>16. \A k \in 1..n : f[k] = IF k = 1 THEN i ELSE IF k <= i THEN k - 1 ELSE k
  BY DEF f
<1>9. ASSUME NEW k \in 1..n PROVE s2[k] = served[f[k]]
  <2>1. CASE k = 1
    BY <1>3, <1>15, <1>16, <2>1
  <2>2. CASE k # 1
    <3>1. k \in 2..n /\ k - 1 \in 1..(n - 1) /\ (k - 1) + 1 = k
      BY <2>2
    <3>2. s2[k] = IF k - 1 < i THEN served[k - 1] ELSE served[k]
      BY <1>14, <1>15, <3>1
    <3>3. f[k] = IF k <= i THEN k - 1 ELSE k
      BY <1>16, <2>2
    <3>4. k - 1 < i <=> k <= i
      BY <1>3
    <3> QED
      BY <3>2, <3>3, <3>4
  <2> QED
    BY <2>1, <2>2
<1>10. f \in [1..n -> 1..n] /\ IsInjective(f)
  BY <1>3 DEF IsInjective, f
<1>11. IsList(s2) /\ DOMAIN s2 = 1..n
  BY <1>15 DEF IsList
<1>12. \A k \in DOMAIN s2 : Became(served[f[k]], s2[k], clock)
  <2> TAKE k \in DOMAIN s2
  <2> DEFINE r == served[f[k]]
  <2>1. SiteRow(r, clock) /\ s2[k] = r
    BY <1>1, <1>9, <1>10, <1>11 DEF RowsInv, SiteRows
  <2> HIDE DEF r
  <2>2. r = [r EXCEPT !.started = r.started]
    BY <2>1 DEF SiteRow
  <2>3. Became(r, r, clock)
    BY <2>1, <2>2 DEF Became
  <2> QED
    BY <2>1, <2>3 DEF r
<1>13. Sites(served, s2, clock)
  <2>1. clock \in Nat /\ SiteRows(served, clock) /\ OneEach(served)
    BY DEF RowsInv
  <2> QED
    BY <1>1, <1>10, <1>11, <1>12, <2>1, Carried
<1> QED
  BY <1>13 DEF s2

(* What is found in two lists is in order with what both are. *)
LEMMA FollowsBoth ==
    ASSUME NEW T, NEW U, NEW W, OneOf(T, U, W), NEW V
    PROVE  /\ Follows(rewritten, V, U) /\ Follows(rewritten, V, W) => Follows(rewritten, V, T)
           /\ Follows(rewritten, U, V) /\ Follows(rewritten, W, V) => Follows(rewritten, T, V)
<1>1. ASSUME Follows(rewritten, V, U), Follows(rewritten, V, W), NEW i \in DOMAIN V, NEW k \in DOMAIN T, V[i].key = T[k].key
      PROVE  Since(rewritten, V[i], T[k])
  <2>1. CASE \E j \in DOMAIN U : T[k] = U[j]
    BY <1>1, <2>1 DEF Follows
  <2>2. CASE \E j \in DOMAIN W : T[k] = W[j]
    BY <1>1, <2>2 DEF Follows
  <2> QED
    BY <2>1, <2>2 DEF OneOf
<1>2. ASSUME Follows(rewritten, U, V), Follows(rewritten, W, V), NEW i \in DOMAIN V, NEW k \in DOMAIN T, T[k].key = V[i].key
      PROVE  Since(rewritten, T[k], V[i])
  <2>1. CASE \E j \in DOMAIN U : T[k] = U[j]
    BY <1>2, <2>1 DEF Follows
  <2>2. CASE \E j \in DOMAIN W : T[k] = W[j]
    BY <1>2, <2>2 DEF Follows
  <2> QED
    BY <2>1, <2>2 DEF OneOf
<1> QED
  BY <1>1, <1>2 DEF Follows

LEMMA SinceItself == ASSUME NEW now, NEW s, TableSet(s, now), now \in Nat PROVE Since(rewritten, s, s)
<1>1. s = [s EXCEPT !.started = s.started]
  BY DEF TableSet
<1> QED
  BY <1>1 DEF Since, TableSet, InTime

LEMMA FollowsItself ==
    ASSUME NEW T, NEW now \in Nat, OnTime(T, now), \A i, j \in DOMAIN T : T[i].key = T[j].key => i = j
    PROVE  Follows(rewritten, T, T)
BY SinceItself DEF Follows, OnTime

(* The rows of the site, as sets. *)
LEMMA LivesAre ==
    ASSUME NEW rows, NEW now, SiteRows(rows, now)
    PROVE  /\ OnTime(Lives(rows), now)
           /\ OneEach(rows) =>
                \A i, j \in DOMAIN Lives(rows) : Lives(rows)[i].key = Lives(rows)[j].key => i = j
<1> HIDE DEF LiveSet
<1>1. \A i \in DOMAIN Lives(rows) :
         /\ i \in DOMAIN rows /\ Usable(rows[i]) /\ SiteRow(rows[i], now)
         /\ Lives(rows)[i] = LiveSet(rows[i]) /\ LiveSet(rows[i]).key = Key(rows[i])
  BY LiveFields DEF Lives, UsableAt, SiteRows
<1>2. OnTime(Lives(rows), now)
  BY <1>1, LiveIsSet DEF OnTime
<1>3. ASSUME OneEach(rows), NEW i \in DOMAIN Lives(rows), NEW j \in DOMAIN Lives(rows),
             Lives(rows)[i].key = Lives(rows)[j].key
      PROVE  i = j
  <2>1. Key(rows[i]) = Key(rows[j])
    BY <1>1, <1>3
  <2> QED
    BY <1>1, <1>3, <2>1 DEF OneEach
<1> QED
  BY <1>2, <1>3

LEMMA LivesOf ==
    ASSUME NEW rows, NEW u, NEW w, OneOf(rows, u, w)
    PROVE  OneOf(Lives(rows), Lives(u), Lives(w))
<1> HIDE DEF LiveSet
<1>1. \A x : \A i \in DOMAIN x : Usable(x[i]) => i \in DOMAIN Lives(x) /\ Lives(x)[i] = LiveSet(x[i])
  BY DEF Lives, UsableAt
<1>2. \A k \in DOMAIN Lives(rows) : k \in DOMAIN rows /\ Usable(rows[k]) /\ Lives(rows)[k] = LiveSet(rows[k])
  BY DEF Lives, UsableAt
<1> SUFFICES ASSUME NEW k \in DOMAIN Lives(rows)
             PROVE  \/ \E i \in DOMAIN Lives(u) : Lives(rows)[k] = Lives(u)[i]
                    \/ \E i \in DOMAIN Lives(w) : Lives(rows)[k] = Lives(w)[i]
  BY DEF OneOf
<1>3. CASE \E i \in DOMAIN u : rows[k] = u[i]
  BY <1>1, <1>2, <1>3
<1>4. CASE \E i \in DOMAIN w : rows[k] = w[i]
  BY <1>1, <1>2, <1>4
<1> QED
  BY <1>2, <1>3, <1>4 DEF OneOf

LEMMA LiveSetsOf ==
    ASSUME NEW nodes, NEW now, SiteRows(nodes, now)
    PROVE  OneOf(LiveSets(nodes), Lives(nodes), Lives(nodes))
<1> HIDE DEF LiveSet
<1> DEFINE sets == LiveSets(nodes)
<1>1. \A k \in DOMAIN sets : \E i \in UsableAt(nodes) : sets[k] = LiveSet(nodes[i])
  BY LiveSetsAre
<1>2. \A i \in UsableAt(nodes) : i \in DOMAIN Lives(nodes) /\ Lives(nodes)[i] = LiveSet(nodes[i])
  BY DEF Lives
<1> HIDE DEF sets
<1>3. OneOf(sets, Lives(nodes), Lives(nodes))
  BY <1>1, <1>2 DEF OneOf
<1> QED
  BY <1>3 DEF sets

LEMMA NoLives == Lives(<<>>) = <<>> /\ \A T : Follows(rewritten, T, <<>>) /\ Follows(rewritten, <<>>, T)
<1>1. UsableAt(<<>>) = {}
  BY DEF UsableAt
<1>2. DOMAIN Lives(<<>>) = {} /\ Lives(<<>>) = [i \in {} |-> LiveSet((<<>>)[i])]
  <2> HIDE DEF LiveSet
  <2> QED
    BY <1>1 DEF Lives
<1>3. Lives(<<>>) = <<>>
  <2> HIDE DEF LiveSet
  <2>1. [i \in {} |-> LiveSet((<<>>)[i])] = <<>>
    OBVIOUS
  <2> QED
    BY <1>2, <2>1
<1> QED
  BY <1>3 DEF Follows

LEMMA NoRows == ASSUME NEW now PROVE SiteRows(<<>>, now) /\ TableSets(<<>>, now)
<1>1. IsList(<<>>)
  <2>1. DOMAIN <<>> = 1..0 /\ <<>> = [i \in 1..0 |-> (<<>>)[i]]
    OBVIOUS
  <2> QED
    BY <2>1 DEF IsList
<1> QED
  BY <1>1 DEF SiteRows, TableSets

(* At the start the site has its first rows, and nothing is read or saved. *)
LEMMA OrderInit == TablesInit => RowsInv /\ OrderedInv
<1> SUFFICES ASSUME TablesInit PROVE RowsInv /\ OrderedInv
  OBVIOUS
<1>1. /\ clock = 1 /\ served = FirstRows /\ table = <<>> /\ disk.table = <<>>
      /\ fetched.nodes = <<>> /\ fetched.page = 1 /\ answer = Null
  BY DEF TablesInit, Launching, NoFetch
<1>2. IsList(FirstRows)
  <2>1. FirstRows \in Seq(ToSet(FirstRows))
    BY RowsAssumption
  <2>2. Len(FirstRows) \in Nat /\ DOMAIN FirstRows = 1..Len(FirstRows) /\ FirstRows = [i \in 1..Len(FirstRows) |-> FirstRows[i]]
    BY <2>1
  <2> QED
    BY <2>2 DEF IsList
<1>3. ASSUME NEW i \in DOMAIN FirstRows PROVE SiteRow(FirstRows[i], 1)
  <2> DEFINE row == FirstRows[i]
  <2>1. row \in ToSet(FirstRows)
    BY DEF ToSet
  <2>2. /\ row = [f \in RowFields |-> row[f]]
        /\ row.started \in {Null, 0, 1} /\ (row.done # Null => row.winner # Null)
    BY <2>1, RowsAssumption
  <2>3. Usable(row) => Owner[row.id] = Key(row)
    BY <2>1, OwnerOwns DEF Owns
  <2> HIDE DEF row
  <2>4. row = [id |-> row.id, group |-> row.group, round |-> row.round, ident |-> row.ident,
               started |-> row.started, done |-> row.done, winner |-> row.winner, slots |-> row.slots]
    BY <2>2 DEF RowFields
  <2>5. InTime(row.started, 1)
    BY <2>2 DEF InTime
  <2>6. SiteRow(row, 1)
    BY <2>2, <2>3, <2>4, <2>5 DEF SiteRow
  <2> QED
    BY <2>6 DEF row
<1>4. OneEach(FirstRows)
  BY RowsAssumption DEF OneEach
<1>5. RowsInv
  BY <1>1, <1>2, <1>3, <1>4, NoRows DEF RowsInv, SiteRows, Answered
<1>6. OrderedInv
  BY <1>1, NoLives DEF OrderedInv
<1> QED
  BY <1>5, <1>6

(* A change at the site keeps its rows in order with all that was read. *)
LEMMA SiteCarries ==
    ASSUME RowsInv, NEW i \in DOMAIN served, Usable(served[i]),
           SiteStarts(i) \/ SiteFinishes(i) \/ SiteRevises(i) \/ SiteReplaces(i) \/ SiteMoves(i)
    PROVE  /\ Sites(served, served', clock)
           /\ UNCHANGED <<clock, fetched, table, suspects, overlay, disk, saving, answer, found, rewritten>>
<1> DEFINE r == served[i]
<1>1. /\ SiteRow(r, clock) /\ Usable(r) /\ clock \in Nat
      /\ r = [id |-> r.id, group |-> r.group, round |-> r.round, ident |-> r.ident,
              started |-> r.started, done |-> r.done, winner |-> r.winner, slots |-> r.slots]
  BY DEF RowsInv, SiteRows, SiteRow
<1>2. ASSUME NEW q, Change(i, q), Became(r, q, clock)
      PROVE  /\ Sites(served, served', clock)
             /\ UNCHANGED <<clock, fetched, table, suspects, overlay, disk, saving, answer, found, rewritten>>
  <2>1. served' = [served EXCEPT ![i] = q]
    BY <1>2 DEF Change
  <2>2. Sites(served, served', clock)
    BY <1>2, <2>1, ChangeCarries
  <2> QED
    BY <1>2, <2>2 DEF Change, ghosts
<1>3. CASE SiteStarts(i)
  <2> DEFINE q == [r EXCEPT !.started = clock]
  <2>1. Change(i, q) /\ r.done = Null
    BY <1>3 DEF SiteStarts
  <2> HIDE DEF r
  <2>2. Became(r, q, clock)
    BY <1>1, <2>1 DEF Became, SiteRow, InTime, Usable, Key
  <2> QED
    BY <1>2, <2>1, <2>2
<1>4. CASE SiteFinishes(i)
  <2>1. PICK done \in {clock, Null} : r.done = Null /\ Change(i, [r EXCEPT !.done = done, !.winner = 1])
    BY <1>4 DEF SiteFinishes
  <2> DEFINE p == [r EXCEPT !.done = done]
             q == [p EXCEPT !.winner = 1]
  <2> HIDE DEF r
  <2>3. p = [id |-> r.id, group |-> r.group, round |-> r.round, ident |-> r.ident,
             started |-> r.started, done |-> done, winner |-> r.winner, slots |-> r.slots]
    BY <1>1
  <2>4. Change(i, q)
    BY <2>1
  <2> HIDE DEF p
  <2>5. q = [id |-> r.id, group |-> r.group, round |-> r.round, ident |-> r.ident,
             started |-> r.started, done |-> done, winner |-> 1, slots |-> r.slots]
    BY <2>3
  <2>6. 1 # Null
    BY PageAssumption
  <2> HIDE DEF q
  <2>7. Became(r, q, clock)
    BY <1>1, <2>1, <2>5, <2>6 DEF Became, SiteRow, Usable, Key
  <2> QED
    BY <1>2, <2>4, <2>7
<1>5. CASE SiteRevises(i)
  <2>1. PICK started \in {clock, Null} : r.done # Null /\ Change(i, [r EXCEPT !.started = started])
    BY <1>5 DEF SiteRevises
  <2> DEFINE q == [r EXCEPT !.started = started]
  <2> HIDE DEF r
  <2>2. Became(r, q, clock)
    BY <1>1, <2>1 DEF Became, SiteRow, InTime, Usable, Key
  <2> QED
    BY <1>2, <2>1, <2>2
<1>6. CASE SiteReplaces(i)
  <2> DEFINE q == [r EXCEPT !.id = Substitutes[r.id]]
  <2>1. Change(i, q) /\ r.winner = Null /\ r.id \in DOMAIN Substitutes
    BY <1>6 DEF SiteReplaces
  <2>2. Substitutes[r.id] # Null /\ Owner[Substitutes[r.id]] = Owner[r.id]
    BY <2>1, RowsAssumption, OwnerOwns DEF Owns, ToSet
  <2> HIDE DEF r
  <2>3. Became(r, q, clock)
    BY <1>1, <2>1, <2>2 DEF Became, SiteRow, InTime, Usable, Key
  <2> QED
    BY <1>2, <2>1, <2>3
<1>7. CASE SiteMoves(i)
  BY <1>7, MoveCarries DEF SiteMoves, ghosts
<1> QED
  BY <1>3, <1>4, <1>5, <1>6, <1>7

(* What one more page makes of those read. *)
Gathered(nodes, now) ==
    /\ SiteRows(nodes, now)
    /\ \A T : Follows(rewritten, T, Lives(fetched.nodes)) /\ Follows(rewritten, T, Lives(served)) => Follows(rewritten, T, Lives(nodes))
    /\ Follows(rewritten, Lives(nodes), Lives(served))

LEMMA NodesRead ==
    ASSUME RowsInv, OrderedInv
    PROVE  Gathered(fetched.nodes \o PageOf(served, fetched.page, TRUE).nodes, clock)
<1> DEFINE page == PageNodes(served, fetched.page)
           nodes == fetched.nodes \o page
<1>1. SiteRows(served, clock) /\ OneEach(served) /\ SiteRows(fetched.nodes, clock) /\ fetched.page \in Nat /\ clock \in Nat
  BY DEF RowsInv
<1>2. SiteRows(page, clock) /\ \A j \in DOMAIN page : \E i \in DOMAIN served : page[j] = served[i]
  BY <1>1, PageRows
<1> HIDE DEF page
<1>3. SiteRows(nodes, clock) /\ OneOf(nodes, fetched.nodes, page)
  BY <1>1, <1>2, MoreRows
<1> HIDE DEF nodes
<1>4. OneOf(nodes, fetched.nodes, served)
  BY <1>2, <1>3 DEF OneOf
<1>5. OneOf(Lives(nodes), Lives(fetched.nodes), Lives(served))
  BY <1>4, LivesOf
<1>6. Follows(rewritten, Lives(served), Lives(served))
  BY <1>1, LivesAre, FollowsItself
<1>7. Follows(rewritten, Lives(nodes), Lives(served))
  BY <1>5, <1>6, FollowsBoth DEF OrderedInv
<1>8. \A T : Follows(rewritten, T, Lives(fetched.nodes)) /\ Follows(rewritten, T, Lives(served)) => Follows(rewritten, T, Lives(nodes))
  BY <1>5, FollowsBoth
<1>9. Gathered(nodes, clock)
  BY <1>3, <1>7, <1>8 DEF Gathered
<1>10. nodes = fetched.nodes \o PageOf(served, fetched.page, TRUE).nodes
  BY DEF PageOf, page, nodes
<1> QED
  BY <1>9, <1>10

(* The table of a poll. *)
LEMMA PollOrders ==
    ASSUME RowsInv, OrderedInv, NEW nodes, Gathered(nodes, clock)
    PROVE  LET next == LiveSets(nodes) \o Retained(LiveSets(nodes)) IN
           /\ TableSets(next, clock)
           /\ Follows(rewritten, disk.table, next) /\ Follows(rewritten, table, next) /\ Follows(rewritten, next, Lives(served))
<1> DEFINE live == LiveSets(nodes)
           next == live \o Retained(live)
<1>1. SiteRows(nodes, clock) /\ TableSets(table, clock)
  BY DEF Gathered, RowsInv
<1>2. TableSets(live, clock) /\ OneOf(live, Lives(nodes), Lives(nodes))
  BY <1>1, LiveSetsAre, LiveSetsOf
<1> HIDE DEF live
<1>3. TableSets(next, clock) /\ OneOf(next, live, table)
  BY <1>1, <1>2, NextIs
<1> HIDE DEF next
<1>4. Follows(rewritten, disk.table, Lives(nodes)) /\ Follows(rewritten, Lives(nodes), Lives(served))
  BY DEF Gathered, OrderedInv
<1>5. Follows(rewritten, disk.table, live) /\ Follows(rewritten, live, Lives(served))
  BY <1>2, <1>4, FollowsBoth
<1>6. Follows(rewritten, disk.table, table) /\ Follows(rewritten, table, Lives(served))
  BY DEF OrderedInv
<1>7. Follows(rewritten, disk.table, next) /\ Follows(rewritten, next, Lives(served))
  BY <1>3, <1>5, <1>6, FollowsBoth
<1>8. Follows(rewritten, table, live)
  BY <1>2, FollowsBoth DEF Gathered, OrderedInv
<1>9. Follows(rewritten, table, table)
  BY <1>1, FollowsItself DEF RowsInv, TableSets, OnTime
<1>10. Follows(rewritten, table, next)
  BY <1>3, <1>8, <1>9, FollowsBoth
<1> QED
  BY <1>3, <1>7, <1>10 DEF next, live

(* The table of a launch. *)
LEMMA LaunchOrders ==
    ASSUME RowsInv, OrderedInv, NEW sets, Opened(sets),
           \/ sets = <<>>
           \/ TableSets(sets, clock) /\ Follows(rewritten, disk.table, sets) /\ Follows(rewritten, sets, Lives(served))
    PROVE  /\ TableSets(table', clock)
           /\ Follows(rewritten, disk.table, table') /\ Follows(rewritten, table', Lives(served))
<1>1. TableSets(disk.table, clock) /\ Follows(rewritten, disk.table, Lives(served)) /\ clock \in Nat
  BY DEF RowsInv, OrderedInv
<1>2. Follows(rewritten, disk.table, disk.table)
  BY <1>1, FollowsItself DEF TableSets, OnTime
<1> QED
  BY <1>1, <1>2 DEF Opened

(* A fetch that ends leaves nothing read. *)
LEMMA FetchEnds ==
    ASSUME RowsInv, OrderedInv, fetched' = NoFetch, UNCHANGED <<clock, served, disk, answer, rewritten>>,
           TableSets(table', clock), Follows(rewritten, disk.table, table'), Follows(rewritten, table', Lives(served))
    PROVE  RowsInv' /\ OrderedInv'
<1>1. fetched'.nodes = <<>> /\ fetched'.page = 1
  BY DEF NoFetch
<1>2. RowsInv'
  BY <1>1, NoRows DEF RowsInv
<1>3. OrderedInv'
  <2>1. Lives(fetched'.nodes) = <<>>
    BY <1>1, NoLives
  <2>2. /\ Follows(rewritten, disk.table, Lives(fetched'.nodes)) /\ Follows(rewritten, table', Lives(fetched'.nodes))
        /\ Follows(rewritten, Lives(fetched'.nodes), Lives(served))
    BY <2>1, NoLives
  <2> HIDE DEF Lives, Follows
  <2> QED
    BY <2>2 DEF OrderedInv
<1> QED
  BY <1>2, <1>3

(* An answer to a write of ours: the table after it has the sets of the table *)
(* before, at their places, and of the finished ones only those rewritten   *)
(* have another start.                                                      *)
Restarted(T, W) ==
    /\ DOMAIN T = DOMAIN table /\ rewritten \subseteq W
    /\ \A i \in DOMAIN table :
          /\ T[i] = [table[i] EXCEPT !.started = T[i].started]
          /\ T[i].started = table[i].started \/ T[i].started = answer.started
          /\ table[i].done # Null /\ table[i].key \notin W => T[i].started = table[i].started

LEMMA MergeIs ==
    ASSUME RowsInv, MergeAnswer
    PROVE  Restarted(table', rewritten') /\ TableSets(table', clock)
<1> DEFINE merged(set) == IF Rewrites(set) THEN [set EXCEPT !.started = answer.started] ELSE set
           T == table'
<1>1. T = [i \in DOMAIN table |-> merged(table[i])]
  BY DEF MergeAnswer, Each
<1>2. rewritten' = rewritten \cup {table[i].key : i \in {j \in DOMAIN table : table[j].done # Null /\ Rewrites(table[j])}}
  BY DEF MergeAnswer
<1>3. answer.started \in Nat /\ answer.started <= clock
  BY DEF MergeAnswer, RowsInv, Answered
<1> HIDE DEF T
<1>4. ASSUME NEW i \in DOMAIN table
      PROVE  /\ TableSet(T[i], clock) /\ T[i].key = table[i].key
             /\ T[i] = [table[i] EXCEPT !.started = T[i].started]
             /\ T[i].started = table[i].started \/ T[i].started = answer.started
             /\ table[i].done # Null /\ table[i].key \notin rewritten' => T[i].started = table[i].started
  <2> DEFINE s == table[i]
  <2>1. T[i] = IF Rewrites(s) THEN [s EXCEPT !.started = answer.started] ELSE s
    BY <1>1
  <2>2. TableSet(s, clock)
    BY DEF RowsInv, TableSets
  <2>3. s.done # Null /\ s.key \notin rewritten' => ~Rewrites(s)
    BY <1>2
  <2> HIDE DEF s
  <2>4. CASE Rewrites(s)
    <3>1. T[i] = [id |-> s.id, key |-> s.key, started |-> answer.started, done |-> s.done,
                  winner |-> s.winner, slots |-> s.slots]
      BY <2>1, <2>2, <2>4 DEF TableSet
    <3>2. T[i] = [s EXCEPT !.started = T[i].started]
      BY <2>1, <2>4, <3>1
    <3>3. TableSet(T[i], clock)
      BY <1>3, <2>2, <3>1 DEF TableSet, InTime
    <3> QED
      BY <2>3, <2>4, <3>1, <3>2, <3>3 DEF s
  <2>5. CASE ~Rewrites(s)
    <3>1. s = [s EXCEPT !.started = s.started]
      BY <2>2 DEF TableSet
    <3> QED
      BY <2>1, <2>2, <2>5, <3>1 DEF s
  <2> QED
    BY <2>4, <2>5
<1>5. DOMAIN T = DOMAIN table /\ rewritten \subseteq rewritten'
  BY <1>1, <1>2
<1>6. IsList(T)
  <2>1. PICK n \in Nat : DOMAIN table = 1..n
    BY DEF RowsInv, TableSets, IsList
  <2>2. T = [i \in DOMAIN table |-> T[i]]
    BY <1>1
  <2> QED
    BY <1>5, <2>1, <2>2 DEF IsList
<1>7. \A i, j \in DOMAIN T : T[i].key = T[j].key => i = j
  BY <1>4, <1>5 DEF RowsInv, TableSets
<1>8. TableSets(T, clock)
  BY <1>4, <1>5, <1>6, <1>7 DEF TableSets
<1>9. Restarted(T, rewritten')
  BY <1>4, <1>5 DEF Restarted
<1> QED
  BY <1>8, <1>9 DEF T

(* It stays in order with what was read before and what is read later. *)
LEMMA MergeFollows ==
    ASSUME RowsInv, NEW T, NEW W, Restarted(T, W), NEW U
    PROVE  /\ Follows(rewritten, U, table) /\ OnTime(U, clock) => Follows(W, U, T)
           /\ Follows(rewritten, table, U) => Follows(W, T, U)
<1>1. ASSUME NEW i \in DOMAIN table
      PROVE  /\ TableSet(table[i], clock)
             /\ T[i] = [id |-> table[i].id, key |-> table[i].key, started |-> T[i].started, done |-> table[i].done,
                        winner |-> table[i].winner, slots |-> table[i].slots]
             /\ table[i].done # Null /\ table[i].key \notin W => T[i].started = table[i].started
  BY DEF Restarted, RowsInv, TableSets, TableSet
<1>2. DOMAIN T = DOMAIN table /\ rewritten \subseteq W
  BY DEF Restarted
<1>3. ASSUME Follows(rewritten, U, table), OnTime(U, clock), NEW i \in DOMAIN U, NEW j \in DOMAIN T, U[i].key = T[j].key
      PROVE  Since(W, U[i], T[j])
  <2> DEFINE b == U[i]
             r == table[j]
             q == T[j]
  <2>1. /\ TableSet(b, clock) /\ TableSet(r, clock)
        /\ q = [id |-> r.id, key |-> r.key, started |-> q.started, done |-> r.done,
                winner |-> r.winner, slots |-> r.slots]
        /\ r.done # Null /\ r.key \notin W => q.started = r.started
    BY <1>1, <1>2, <1>3 DEF OnTime
  <2>2. b.key = q.key
    BY <1>3
  <2>3. Since(rewritten, b, r)
    <3>1. b.key = r.key /\ j \in DOMAIN table
      BY <1>2, <2>1, <2>2
    <3> QED
      BY <1>3, <3>1 DEF Follows
  <2> HIDE DEF b, r, q
  <2>4. Completed(b) => Completed(q)
    BY <2>1, <2>3 DEF Since, Completed
  <2>5. ASSUME b.done # Null
        PROVE  /\ q = [b EXCEPT !.started = q.started] /\ r.done # Null /\ r.key = b.key
    <3>1. r = [b EXCEPT !.started = r.started]
      BY <2>3, <2>5 DEF Since
    <3> QED
      BY <2>1, <2>5, <3>1 DEF TableSet
  <2>6. Since(W, b, q)
    BY <1>2, <2>1, <2>3, <2>4, <2>5 DEF Since
  <2> QED
    BY <2>6 DEF b, q
<1>4. ASSUME Follows(rewritten, table, U), NEW i \in DOMAIN T, NEW j \in DOMAIN U, T[i].key = U[j].key
      PROVE  Since(W, T[i], U[j])
  <2> DEFINE b == table[i]
             c == T[i]
             r == U[j]
  <2>1. /\ TableSet(b, clock)
        /\ c = [id |-> b.id, key |-> b.key, started |-> c.started, done |-> b.done,
                winner |-> b.winner, slots |-> b.slots]
        /\ b.done # Null /\ b.key \notin W => c.started = b.started
    BY <1>1, <1>2
  <2>2. Since(rewritten, b, r)
    <3>1. b.key = r.key /\ i \in DOMAIN table
      BY <1>2, <1>4, <2>1
    <3> QED
      BY <1>4, <3>1 DEF Follows
  <2> HIDE DEF b, c, r
  <2>3. Completed(c) => Completed(r)
    BY <2>1, <2>2 DEF Since, Completed
  <2>4. ASSUME c.done # Null PROVE r = [c EXCEPT !.started = r.started]
    <3>1. r = [b EXCEPT !.started = r.started]
      BY <2>1, <2>2, <2>4 DEF Since
    <3> QED
      BY <2>1, <3>1 DEF TableSet
  <2>5. Since(W, c, r)
    BY <1>2, <2>1, <2>2, <2>3, <2>4 DEF Since
  <2> QED
    BY <2>5 DEF c, r
<1> QED
  BY <1>3, <1>4 DEF Follows

LEMMA MergeOrders ==
    ASSUME RowsInv, OrderedInv, MergeAnswer
    PROVE  RowsInv' /\ OrderedInv'
<1>1. Restarted(table', rewritten') /\ TableSets(table', clock) /\ rewritten \subseteq rewritten'
  BY MergeIs DEF Restarted
<1>2. answer' = Null /\ UNCHANGED <<clock, served, fetched, disk>>
  BY DEF MergeAnswer
<1>3. RowsInv'
  BY <1>1, <1>2 DEF RowsInv, Answered
<1>4. OnTime(disk.table, clock)
  BY DEF RowsInv, TableSets, OnTime
<1>5. OrderedInv'
  <2>1. Follows(rewritten', disk.table, table')
    BY <1>1, <1>4, MergeFollows DEF OrderedInv
  <2>2. Follows(rewritten', table', Lives(fetched.nodes)) /\ Follows(rewritten', table', Lives(served))
    BY <1>1, MergeFollows DEF OrderedInv
  <2>3. /\ Follows(rewritten', disk.table, Lives(fetched.nodes)) /\ Follows(rewritten', disk.table, Lives(served))
        /\ Follows(rewritten', Lives(fetched.nodes), Lives(served))
    BY <1>1, MoreRewritten DEF OrderedInv
  <2> HIDE DEF Lives, Follows
  <2> QED
    BY <1>2, <2>1, <2>2, <2>3 DEF OrderedInv
<1> QED
  BY <1>3, <1>5

LEMMA OrderStep ==
    ASSUME ArrivalInv, RowsInv, OrderedInv, [TablesNext]_tableVars
    PROVE  RowsInv' /\ OrderedInv'
<1>1. ASSUME UNCHANGED <<clock, served, fetched, table, rewritten>>, disk'.table = disk.table,
             Answered(answer', clock)
      PROVE  RowsInv' /\ OrderedInv'
  <2>1. RowsInv'
    BY <1>1 DEF RowsInv
  <2>2. OrderedInv'
    <3> HIDE DEF Lives, Follows
    <3> QED
      BY <1>1 DEF OrderedInv
  <2> QED
    BY <2>1, <2>2
<1>20. ASSUME UNCHANGED <<clock, served, fetched, table, answer, rewritten>>, disk'.table = disk.table
       PROVE  RowsInv' /\ OrderedInv'
  BY <1>1, <1>20 DEF RowsInv
<1>2. ASSUME NEW i \in {j \in DOMAIN served : Usable(served[j])},
             SiteStarts(i) \/ SiteFinishes(i) \/ SiteRevises(i) \/ SiteReplaces(i) \/ SiteMoves(i)
      PROVE  RowsInv' /\ OrderedInv'
  <2>1. Sites(served, served', clock) /\ UNCHANGED <<clock, fetched, table, disk, answer, rewritten>>
    BY <1>2, SiteCarries
  <2>2. RowsInv'
    BY <2>1 DEF RowsInv, Sites
  <2>3. OnTime(table, clock) /\ OnTime(disk.table, clock) /\ OnTime(Lives(fetched.nodes), clock)
    <3>1. SiteRows(fetched.nodes, clock) /\ TableSets(table, clock) /\ TableSets(disk.table, clock)
      BY DEF RowsInv
    <3> HIDE DEF Lives
    <3> QED
      BY <3>1, LivesAre DEF TableSets, OnTime
  <2>4. OrderedInv'
    <3> HIDE DEF Lives, Follows
    <3> QED
      BY <2>1, <2>3 DEF OrderedInv, Sites
  <2> QED
    BY <2>2, <2>4
<1>3. CASE FetchPage
  <2> DEFINE page  == PageOf(served, fetched.page, TRUE)
             pages == IF fetched.page = 1 THEN TotalPages(page) ELSE fetched.pages
             nodes == fetched.nodes \o page.nodes
             live  == LiveSets(nodes)
  <2>1. UNCHANGED <<clock, served, disk, answer, rewritten>>
    BY <1>3 DEF FetchPage
  <2>2. Gathered(nodes, clock)
    BY NodesRead
  <2>3. ASSUME fetched.page < pages PROVE RowsInv' /\ OrderedInv'
    <3>1. /\ fetched' = [fetched EXCEPT !.page = @ + 1, !.pages = pages, !.nodes = nodes]
          /\ UNCHANGED table
      BY <1>3, <2>3 DEF FetchPage
    <3> HIDE DEF pages, nodes
    <3>2. fetched'.page = fetched.page + 1 /\ fetched'.nodes = nodes
      BY <3>1 DEF ArrivalInv, ShapeInv
    <3>3. RowsInv'
      BY <2>1, <2>2, <3>1, <3>2 DEF RowsInv, Gathered
    <3>4. OrderedInv'
      <4>1. Follows(rewritten, disk.table, Lives(nodes)) /\ Follows(rewritten, table, Lives(nodes)) /\ Follows(rewritten, Lives(nodes), Lives(served))
        BY <2>2 DEF Gathered, OrderedInv
      <4> HIDE DEF Lives, Follows
      <4> QED
        BY <2>1, <3>1, <3>2, <4>1 DEF OrderedInv
    <3> QED
      BY <3>3, <3>4
  <2>4. ASSUME ~(fetched.page < pages), fetched.launch = "yes" PROVE RowsInv' /\ OrderedInv'
    <3>1. fetched' = NoFetch /\ Opened(live)
      BY <1>3, <2>4 DEF FetchPage
    <3> HIDE DEF nodes
    <3>2. TableSets(live, clock) /\ OneOf(live, Lives(nodes), Lives(nodes))
      BY <2>2, LiveSetsAre, LiveSetsOf DEF Gathered
    <3>3. Follows(rewritten, disk.table, Lives(nodes)) /\ Follows(rewritten, Lives(nodes), Lives(served))
      BY <2>2 DEF Gathered, OrderedInv
    <3> HIDE DEF live
    <3>4. Follows(rewritten, disk.table, live) /\ Follows(rewritten, live, Lives(served))
      BY <3>2, <3>3, FollowsBoth
    <3>5. TableSets(table', clock) /\ Follows(rewritten, disk.table, table') /\ Follows(rewritten, table', Lives(served))
      BY <3>1, <3>2, <3>4, LaunchOrders
    <3> QED
      BY <2>1, <3>1, <3>5, FetchEnds
  <2>5. ASSUME ~(fetched.page < pages), fetched.launch # "yes" PROVE RowsInv' /\ OrderedInv'
    <3>1. fetched' = NoFetch /\ ApplySnapshot(nodes)
      BY <1>3, <2>5 DEF FetchPage
    <3> HIDE DEF nodes
    <3>2. table' = live \o Retained(live)
      BY <3>1, Zenon DEF ApplySnapshot
    <3>3. TableSets(table', clock) /\ Follows(rewritten, disk.table, table') /\ Follows(rewritten, table', Lives(served))
      BY <2>2, <3>2, PollOrders
    <3> QED
      BY <2>1, <3>1, <3>3, FetchEnds
  <2> QED
    BY <2>3, <2>4, <2>5
<1>4. CASE FetchFails
  <2>1. fetched' = NoFetch /\ UNCHANGED <<clock, served, disk, answer, rewritten>>
    BY <1>4 DEF FetchFails
  <2>2. Opened(<<>>) \/ UNCHANGED table
    BY <1>4 DEF FetchFails
  <2>3. TableSets(table', clock) /\ Follows(rewritten, disk.table, table') /\ Follows(rewritten, table', Lives(served))
    <3>1. CASE Opened(<<>>)
      BY <3>1, LaunchOrders
    <3>2. CASE UNCHANGED table
      BY <3>2 DEF RowsInv, OrderedInv
    <3> QED
      BY <2>2, <3>1, <3>2
  <2> QED
    BY <2>1, <2>3, FetchEnds
<1>5. CASE DeskCalls
  BY <1>20, <1>5 DEF DeskCalls, ghosts
<1>6. CASE SaveOverlay
  <2>1. disk'.table = disk.table
    BY <1>6 DEF SaveOverlay, ArrivalInv, ShapeInv
  <2> QED
    BY <1>20, <1>6, <2>1 DEF SaveOverlay, ghosts
<1>7. CASE SaveTable
  <2>1. disk'.table = table /\ UNCHANGED <<clock, served, fetched, table, answer, rewritten>>
    BY <1>7 DEF SaveTable, ArrivalInv, ShapeInv, ghosts
  <2>2. Follows(rewritten, table, table)
    BY FollowsItself DEF RowsInv, TableSets, OnTime
  <2>3. RowsInv'
    BY <2>1 DEF RowsInv
  <2>4. OrderedInv'
    <3> HIDE DEF Lives, Follows
    <3> QED
      BY <2>1, <2>2 DEF OrderedInv
  <2> QED
    BY <2>3, <2>4
<1>8. CASE Relaunch
  <2>1. /\ table' = <<>> /\ fetched'.nodes = <<>> /\ fetched'.page = 1 /\ answer' = Null
        /\ UNCHANGED <<clock, served, disk, rewritten>>
    BY <1>8 DEF Relaunch, Launching, NoFetch, ghosts
  <2>2. RowsInv'
    BY <2>1, NoRows DEF RowsInv, Answered
  <2>3. OrderedInv'
    <3>1. /\ Lives(fetched'.nodes) = <<>> /\ Follows(rewritten, disk.table, Lives(served))
          /\ \A T : Follows(rewritten, T, <<>>) /\ Follows(rewritten, <<>>, T)
      BY <2>1, NoLives DEF OrderedInv
    <3> HIDE DEF Lives, Follows
    <3> QED
      BY <2>1, <3>1 DEF OrderedInv
  <2> QED
    BY <2>2, <2>3
<1>9. CASE TimePasses
  <2>1. clock' = clock + 1 /\ UNCHANGED <<served, fetched, table, disk, answer, rewritten>>
    BY <1>9 DEF TimePasses, ghosts
  <2>2. clock \in Nat /\ clock' \in Nat /\ clock <= clock'
    BY <2>1 DEF RowsInv
  <2>3. RowsInv'
    <3>1. SiteRows(served, clock') /\ SiteRows(fetched.nodes, clock')
      BY <2>2, LaterRows DEF RowsInv
    <3>2. TableSets(table, clock') /\ TableSets(disk.table, clock')
      BY <2>2, LaterSets DEF RowsInv
    <3>3. Answered(answer, clock')
      BY <2>2 DEF RowsInv, Answered
    <3> QED
      BY <2>1, <2>2, <3>1, <3>2, <3>3 DEF RowsInv
  <2>4. OrderedInv'
    <3> HIDE DEF Lives, Follows
    <3> QED
      BY <2>1 DEF OrderedInv
  <2> QED
    BY <2>3, <2>4
<1>10. ASSUME NEW i \in DOMAIN served, SiteAnswers(i) PROVE RowsInv' /\ OrderedInv'
  <2>1. /\ served[i].started # Null
        /\ answer' = [key |-> Key(served[i]), started |-> served[i].started]
        /\ UNCHANGED <<clock, served, fetched, table, disk, rewritten>>
    BY <1>10 DEF SiteAnswers, ghosts
  <2>2. SiteRow(served[i], clock)
    BY DEF RowsInv, SiteRows
  <2>3. Answered(answer', clock)
    BY <2>1, <2>2 DEF Answered, SiteRow, InTime
  <2> QED
    BY <1>1, <2>1, <2>3
<1>11. CASE MergeAnswer
  BY <1>11, MergeOrders
<1>12. CASE UNCHANGED tableVars
  BY <1>20, <1>12 DEF tableVars, ghosts
<1> QED
  BY <1>2, <1>3, <1>4, <1>5, <1>6, <1>7, <1>8, <1>9, <1>10, <1>11, <1>12 DEF TablesNext

(* What is learned from the news. *)
SampleOf(set) == [secs |-> Clamped(set.done - StartOf(set)), games |-> GamesOf(set), print |-> PrintOf(set)]
Taken(x, old, news, D) ==
    /\ x = [id \in DOMAIN x |-> x[id]]
    /\ DOMAIN old \subseteq DOMAIN x
    /\ \A id \in DOMAIN x :
          \/ id \in DOMAIN old /\ x[id] = old[id]
          \/ \E j \in D : news[j].id = id /\ StartOf(news[j]) # Null /\ x[id] = SampleOf(news[j])
    /\ \A j \in D : StartOf(news[j]) # Null =>
          news[j].id \in DOMAIN x /\ x[news[j].id].print = PrintOf(news[j])

LEMMA IngestIs ==
    ASSUME NEW x, NEW set
    PROVE  \/ Ingest(x, set) = x /\ StartOf(set) = Null
           \/ Ingest(x, set) = x /\ set.id \in DOMAIN x /\ x[set.id].print = PrintOf(set)
           \/ Ingest(x, set) = With(x, set.id, SampleOf(set)) /\ StartOf(set) # Null
BY Zenon DEF Ingest, Unchanged, SampleOf

IsWith(w, x, id, v) ==
    /\ w = [i \in DOMAIN w |-> w[i]] /\ DOMAIN w = DOMAIN x \cup {id}
    /\ w[id] = v /\ \A i \in DOMAIN x : i # id => w[i] = x[i]
LEMMA WithIs == ASSUME NEW x, NEW id, NEW v PROVE IsWith(With(x, id, v), x, id, v)
BY DEF With, IsWith

LEMMA TakesOne ==
    ASSUME NEW old, NEW news, NEW k \in Nat \ {0}, NEW x, Taken(x, old, news, 1..(k - 1)),
           \A j \in 1..(k - 1) : news[j].id # news[k].id
    PROVE  Taken(Ingest(x, news[k]), old, news, 1..k)
<1> DEFINE set == news[k]
           y == Ingest(x, set)
<1>1. \/ y = x /\ StartOf(set) = Null
      \/ y = x /\ set.id \in DOMAIN x /\ x[set.id].print = PrintOf(set)
      \/ y = With(x, set.id, SampleOf(set)) /\ StartOf(set) # Null
  BY IngestIs
<1>2. 1..k = 1..(k - 1) \cup {k}
  OBVIOUS
<1>3. \A j \in 1..k : j \in 1..(k - 1) \/ j = k
  OBVIOUS
<1> HIDE DEF y
<1>4. CASE y = x /\ StartOf(set) = Null
  BY <1>3, <1>4 DEF Taken, y
<1>5. CASE y = x /\ set.id \in DOMAIN x /\ x[set.id].print = PrintOf(set)
  <2> HIDE DEF set
  <2>1. \A j \in 1..k : j \in 1..(k - 1) \/ news[j] = set
    BY <1>3 DEF set
  <2>2. \A j \in 1..k : StartOf(news[j]) # Null =>
           news[j].id \in DOMAIN x /\ x[news[j].id].print = PrintOf(news[j])
    BY <1>5, <2>1 DEF Taken
  <2>3. \A id \in DOMAIN x :
           \/ id \in DOMAIN old /\ x[id] = old[id]
           \/ \E j \in 1..k : news[j].id = id /\ StartOf(news[j]) # Null /\ x[id] = SampleOf(news[j])
    BY <1>2 DEF Taken
  <2>4. Taken(x, old, news, 1..k)
    BY <2>2, <2>3 DEF Taken
  <2> QED
    BY <1>5, <2>4 DEF y, set
<1>6. CASE y = With(x, set.id, SampleOf(set)) /\ StartOf(set) # Null
  <2>1. /\ y = [i \in DOMAIN y |-> y[i]] /\ DOMAIN y = DOMAIN x \cup {set.id}
        /\ y[set.id] = SampleOf(set) /\ \A i \in DOMAIN x : i # set.id => y[i] = x[i]
    <3>1. IsWith(y, x, set.id, SampleOf(set))
      BY <1>6, WithIs
    <3> HIDE DEF set
    <3> QED
      BY <3>1 DEF IsWith
  <2>2. SampleOf(set).print = PrintOf(set)
    BY DEF SampleOf
  <2>3. k \in 1..k
    OBVIOUS
  <2>4. ASSUME NEW id \in DOMAIN y
        PROVE  \/ id \in DOMAIN old /\ y[id] = old[id]
               \/ \E j \in 1..k : news[j].id = id /\ StartOf(news[j]) # Null /\ y[id] = SampleOf(news[j])
    <3>1. CASE id = set.id
      BY <1>6, <2>1, <2>3, <3>1
    <3>2. CASE id # set.id
      <4>1. id \in DOMAIN x /\ y[id] = x[id]
        BY <2>1, <3>2
      <4> QED
        BY <1>2, <4>1 DEF Taken
    <3> QED
      BY <3>1, <3>2
  <2>5. ASSUME NEW j \in 1..k, StartOf(news[j]) # Null
        PROVE  news[j].id \in DOMAIN y /\ y[news[j].id].print = PrintOf(news[j])
    <3>1. CASE j = k
      BY <2>1, <2>2, <3>1
    <3>2. CASE j # k
      <4>1. j \in 1..(k - 1)
        BY <1>3, <3>2
      <4>2. news[j].id \in DOMAIN x /\ x[news[j].id].print = PrintOf(news[j])
        BY <2>5, <4>1 DEF Taken
      <4>3. news[j].id # set.id
        BY <4>1
      <4> QED
        BY <2>1, <4>2, <4>3
    <3> QED
      BY <3>1, <3>2
  <2>6. DOMAIN old \subseteq DOMAIN y
    BY <2>1 DEF Taken
  <2>7. Taken(y, old, news, 1..k)
    BY <2>1, <2>4, <2>5, <2>6 DEF Taken
  <2> QED
    BY <2>7 DEF y
<1> QED
  BY <1>1, <1>4, <1>5, <1>6

LEMMA Ingested ==
    ASSUME NEW old, old = [id \in DOMAIN old |-> old[id]], NEW news, IsList(news),
           \A a, b \in DOMAIN news : news[a].id = news[b].id => a = b
    PROVE  Taken(FoldLeft(Ingest, old, news), old, news, DOMAIN news)
<1>1. PICK n \in Nat : DOMAIN news = 1..n
  BY DEF IsList
<1> DEFINE ids == DOMAIN old \cup {news[j].id : j \in 1..n}
           vals == {old[id] : id \in DOMAIN old} \cup {SampleOf(news[j]) : j \in 1..n}
           V == UNION {[X -> vals] : X \in SUBSET ids}
           F == [x \in (1..n) \X V |-> Ingest(x[2], news[x[1]])]
           Body(h) == [u \in SUBSET DOMAIN news |-> IF u = {} THEN old ELSE Ingest(h[u \ {Max(u)}], news[Max(u)])]
           c == CHOOSE h : h = Body(h)
<1>2. old \in V
  <2>1. DOMAIN old \in SUBSET ids /\ \A id \in DOMAIN old : old[id] \in vals
    OBVIOUS
  <2> HIDE DEF ids, vals
  <2>2. old \in [DOMAIN old -> vals]
    BY <2>1
  <2> QED
    BY <2>1, <2>2
<1>3. \A k \in 1..n, v \in V : Ingest(v, news[k]) \in V
  <2> SUFFICES ASSUME NEW k \in 1..n, NEW v \in V PROVE Ingest(v, news[k]) \in V
    OBVIOUS
  <2> DEFINE set == news[k]
             w == With(v, set.id, SampleOf(set))
  <2>1. set.id \in ids /\ SampleOf(set) \in vals
    OBVIOUS
  <2>2. Ingest(v, set) = v \/ Ingest(v, set) = w
    BY IngestIs
  <2> HIDE DEF ids, vals, set
  <2>3. PICK X \in SUBSET ids : v \in [X -> vals]
    OBVIOUS
  <2>4. w \in [X \cup {set.id} -> vals] /\ X \cup {set.id} \in SUBSET ids
    BY <2>1, <2>3 DEF With
  <2> HIDE DEF w
  <2>5. w \in V
    BY <2>4
  <2> QED
    BY <2>2, <2>5 DEF set
<1>4. StaysIn(F, 1..n, V)
  <2> HIDE DEF V
  <2> QED
    BY <1>3 DEF StaysIn
<1> HIDE DEF V
<1>5. PICK h : FoldOver(h, F, old, 1..n, Tops(n), V)
  <2> HIDE DEF F
  <2> QED
    BY <1>1, <1>2, <1>4, LeftFold
<1>6. h = Body(h)
  <2>1. ASSUME NEW u \in SUBSET (1..n), u # {}
        PROVE  F[<<Tops(n)[u], h[u \ {Tops(n)[u]}]>>] = Ingest(h[u \ {Max(u)}], news[Max(u)])
    <3>1. Tops(n)[u] \in 1..n /\ u \ {Tops(n)[u]} \in SUBSET (1..n) /\ Tops(n)[u] = Max(u)
      BY <1>1, <2>1, TopsPick DEF Tops
    <3>2. h[u \ {Tops(n)[u]}] \in V
      BY <1>5, <3>1 DEF FoldOver
    <3> QED
      BY <3>1, <3>2
  <2> HIDE DEF F
  <2> QED
    BY <1>1, <1>5, <2>1 DEF FoldOver
<1>7. c = Body(c)
  <2> HIDE DEF Body
  <2> QED
    BY <1>6
<1>8. FoldLeft(Ingest, old, news) = c[1..n]
  BY <1>1 DEF FoldLeft, MapThenFoldSet
<1> HIDE DEF c
<1>9. c[{}] = old /\ 1..0 = {}
  BY <1>7
<1>10. ASSUME NEW k \in 1..n PROVE c[1..k] = Ingest(c[1..(k - 1)], news[k])
  <2>1. (1..k) \in SUBSET (1..n) /\ 1..k # {} /\ Max(1..k) = k /\ (1..k) \ {k} = 1..(k - 1)
    BY <1>1, Uptos
  <2>2. c[1..k] = Body(c)[1..k]
    BY <1>7
  <2> QED
    BY <1>1, <2>1, <2>2
<1> DEFINE B == {k \in 0..n : Taken(c[1..k], old, news, 1..k)}
<1>11. 0 \in B
  <2>1. Taken(old, old, news, {}) /\ 0 \in 0..n
    BY DEF Taken
  <2> QED
    BY <1>9, <2>1
<1>12. ASSUME NEW k \in 1..n, k - 1 \in B PROVE k \in B
  <2> DEFINE x == c[1..(k - 1)]
  <2>1. Taken(x, old, news, 1..(k - 1)) /\ c[1..k] = Ingest(x, news[k])
    BY <1>10, <1>12
  <2>2. \A j \in 1..(k - 1) : news[j].id # news[k].id
    <3>1. \A j \in 1..(k - 1) : j \in 1..n /\ j # k
      OBVIOUS
    <3> QED
      BY <1>1, <3>1
  <2> HIDE DEF x
  <2>3. k \in Nat \ {0}
    OBVIOUS
  <2>4. Taken(Ingest(x, news[k]), old, news, 1..k)
    BY <2>1, <2>2, <2>3, TakesOne
  <2> QED
    BY <2>1, <2>4
<1>13. Taken(c[1..n], old, news, 1..n)
  <2>1. n \in B
    <3> HIDE DEF B
    <3> QED
      BY <1>1, <1>11, <1>12, Upwards
  <2> QED
    BY <2>1
<1> QED
  BY <1>1, <1>8, <1>13

(* The seconds of a sample are those between its times. *)
Sampling(samples) ==
    /\ samples = [id \in DOMAIN samples |-> samples[id]]
    /\ \A id \in DOMAIN samples : LET p == samples[id].print IN
          p[1] # Null => samples[id].secs = Clamped(p[2] - p[1])

(* What has finished, and no launch found so, is not called. *)
Held(T, called, f) ==
    \A i \in DOMAIN T : Completed(T[i]) /\ T[i].key \notin f => T[i].key \notin DOMAIN called

(* What has finished after it was started has a sample of that finish and of *)
(* that start, or of a later one, save what a launch found finished and what *)
(* an answer gave another start.                                           *)
Spared == found \cup rewritten
Due(s, f) == s.done # Null /\ s.started # Null /\ s.key \notin f
StartIn(s, samples) == samples[s.id].print[1]
Current(s, samples) ==
    /\ s.id \in DOMAIN samples
    /\ StartIn(s, samples) \in Nat /\ s.started <= StartIn(s, samples)
    /\ samples[s.id].print[2] = s.done
Kept(T, samples, f) == \A i \in DOMAIN T : Due(T[i], f) => Current(T[i], samples)

(* A later one only while the saved table shows the earlier one. *)
Exact(T, samples, f, saved) ==
    \A i \in DOMAIN T : Due(T[i], f) =>
        StartIn(T[i], samples) = T[i].started \/ T[i] \in ToSet(saved)

SampleInv ==
    /\ saving = {"table"} => overlay = disk.overlay
    /\ Sampling(overlay.samples) /\ Sampling(disk.overlay.samples)
    /\ Held(table, overlay.called, found)
    /\ Held(disk.table, overlay.called, found) /\ Held(disk.table, disk.overlay.called, found)
    /\ Kept(table, overlay.samples, Spared) /\ Exact(table, overlay.samples, Spared, disk.table)
    /\ Kept(disk.table, overlay.samples, Spared) /\ Kept(disk.table, disk.overlay.samples, Spared)

LEMMA SampleInit == TablesInit => SampleInv
<1> SUFFICES ASSUME TablesInit PROVE SampleInv
  OBVIOUS
<1>1. /\ saving = {} /\ table = <<>> /\ disk.table = <<>>
      /\ overlay.samples = <<>> /\ disk.overlay.samples = <<>>
  BY DEF TablesInit, NoOverlay
<1>2. Sampling(<<>>)
  <2>1. DOMAIN <<>> = {} /\ <<>> = [id \in {} |-> (<<>>)[id]]
    OBVIOUS
  <2> QED
    BY <2>1 DEF Sampling
<1> QED
  BY <1>1, <1>2 DEF SampleInv, Held, Kept, Exact

LEMMA SamplesHold ==
    ASSUME RowsInv, SampleInv
    PROVE  SamplesCurrent
<1> SUFFICES ASSUME NEW i \in DOMAIN table, Due(table[i], Spared)
             PROVE  /\ table[i].id \in DOMAIN overlay.samples
                    /\ Sampled(table[i], overlay.samples[table[i].id])
  BY DEF SamplesCurrent, Due, Spared
<1> DEFINE s == table[i]
           x == overlay.samples[s.id]
<1>1. /\ s.id \in DOMAIN overlay.samples
      /\ x.print[1] \in Nat /\ s.started <= x.print[1] /\ x.print[2] = s.done
  <2>1. Current(table[i], overlay.samples)
    BY DEF SampleInv, Kept
  <2> QED
    BY <2>1 DEF Current, StartIn
<1>2. x.print[1] = s.started \/ s \in ToSet(disk.table)
  BY DEF SampleInv, Exact, StartIn
<1>3. x.print[1] # Null
  BY <1>1, PageAssumption
<1>4. x.secs = Clamped(x.print[2] - x.print[1])
  BY <1>1, <1>3 DEF SampleInv, Sampling
<1>5. s.started \in Nat
  BY DEF RowsInv, TableSets, TableSet, InTime, Due
<1> HIDE DEF s, x
<1>6. Sampled(s, x)
  BY <1>1, <1>2, <1>3, <1>4, <1>5 DEF Sampled
<1> QED
  BY <1>1, <1>6 DEF s, x

(* What a launch finds finished asks for nothing more. *)
LEMMA MoreFound ==
    ASSUME NEW T, NEW o, NEW f, NEW g, f \subseteq g
    PROVE  /\ Held(T, o.called, f) => Held(T, o.called, g)
           /\ Kept(T, o.samples, f) => Kept(T, o.samples, g)
BY DEF Held, Kept, Due

(* The news of a table, and what is not. *)
LEMMA NewsAre ==
    ASSUME NEW next, NEW now, TableSets(next, now)
    PROVE  /\ TableSets(News(next), now)
           /\ \A j \in DOMAIN News(next) : \E k \in DOMAIN next : News(next)[j] = next[k] /\ IsNews(next[k])
           /\ \A k \in DOMAIN next : IsNews(next[k]) => \E j \in DOMAIN News(next) : News(next)[j] = next[k]
<1> DEFINE S == {i \in DOMAIN next : IsNews(next[i])}
<1>1. S \subseteq DOMAIN next /\ \A k \in DOMAIN next : k \in S <=> IsNews(next[k])
  OBVIOUS
<1>2. News(next) = Only(next, S)
  BY DEF News
<1> HIDE DEF S
<1>3. /\ TableSets(Only(next, S), now)
      /\ \A j \in DOMAIN Only(next, S) : \E k \in S : Only(next, S)[j] = next[k]
      /\ \A k \in S : \E j \in DOMAIN Only(next, S) : Only(next, S)[j] = next[k]
  BY <1>1, SomeSets
<1> QED
  BY <1>1, <1>2, <1>3

(* Of the sets of a table, an id names one. *)
LEMMA IdsNameSets ==
    ASSUME NEW T, NEW U, NEW now, TableSets(T, now), TableSets(U, now)
    PROVE  /\ \A i \in DOMAIN T, j \in DOMAIN U : T[i].id = U[j].id => T[i].key = U[j].key
           /\ \A i, j \in DOMAIN T : T[i].id = T[j].id => i = j
BY DEF TableSets, TableSet

(* What a poll learns of a set that has a start: its sample. *)
LEMMA SampleFields ==
    ASSUME NEW r
    PROVE  /\ SampleOf(r).print[1] = r.started /\ SampleOf(r).print[2] = r.done
           /\ SampleOf(r).secs = Clamped(r.done - StartOf(r))
           /\ r.started # Null => StartOf(r) = r.started
           /\ r.started = Null => StartOf(r) = CallOf(r)
           /\ PrintOf(r)[1] = r.started /\ PrintOf(r)[2] = r.done
<1>1. SampleOf(r) = [secs |-> Clamped(r.done - StartOf(r)), games |-> GamesOf(r), print |-> PrintOf(r)]
  BY Zenon DEF SampleOf
<1>2. PrintOf(r) = <<r.started, r.done, CallOf(r)>>
  BY DEF PrintOf
<1>3. SampleOf(r).print = PrintOf(r) /\ SampleOf(r).secs = Clamped(r.done - StartOf(r))
  <2> HIDE DEF SampleOf
  <2> QED
    BY <1>1
<1>4. (r.started # Null => StartOf(r) = r.started) /\ (r.started = Null => StartOf(r) = CallOf(r))
  BY DEF StartOf, Or
<1> HIDE DEF SampleOf, PrintOf, StartOf
<1> QED
  BY <1>2, <1>3, <1>4

(* The seconds stay those between the times. *)
LEMMA SamplingKept ==
    ASSUME Sampling(overlay.samples), NEW news, NEW x, Taken(x, overlay.samples, news, DOMAIN news)
    PROVE  Sampling(x)
<1> SUFFICES ASSUME NEW id \in DOMAIN x, x[id].print[1] # Null
             PROVE  x[id].secs = Clamped(x[id].print[2] - x[id].print[1])
  BY DEF Sampling, Taken
<1>1. CASE id \in DOMAIN overlay.samples /\ x[id] = overlay.samples[id]
  BY <1>1 DEF Sampling
<1>2. CASE \E j \in DOMAIN news : x[id] = SampleOf(news[j])
  <2>1. PICK j \in DOMAIN news : x[id] = SampleOf(news[j])
    BY <1>2
  <2> DEFINE r == news[j]
  <2>2. /\ SampleOf(r).print[1] = r.started /\ SampleOf(r).print[2] = r.done
        /\ SampleOf(r).secs = Clamped(r.done - StartOf(r))
        /\ r.started # Null => StartOf(r) = r.started
    BY SampleFields
  <2> HIDE DEF r
  <2>3. x[id] = SampleOf(r)
    BY <2>1 DEF r
  <2> HIDE DEF SampleOf, StartOf
  <2> QED
    BY <2>2, <2>3
<1> QED
  BY <1>1, <1>2 DEF Taken

(* A table whose sets the new one follows keeps its samples. *)
LEMMA OldKept ==
    ASSUME RowsInv, NEW T, TableSets(T, clock), NEW next, TableSets(next, clock), Follows(rewritten, T, next),
           Held(T, overlay.called, found), Kept(T, overlay.samples, Spared),
           NEW x, Taken(x, overlay.samples, News(next), DOMAIN News(next))
    PROVE  Kept(T, x, Spared)
<1> DEFINE news == News(next)
<1>1. /\ TableSets(news, clock)
      /\ \A j \in DOMAIN news : \E k \in DOMAIN next : news[j] = next[k] /\ IsNews(next[k])
  BY NewsAre
<1> HIDE DEF news
<1>2. Taken(x, overlay.samples, news, DOMAIN news)
  BY DEF news
<1> SUFFICES ASSUME NEW i \in DOMAIN T, Due(T[i], Spared) PROVE Current(T[i], x)
  BY DEF Kept
<1> DEFINE s == T[i]
<1>3. /\ s.id \in DOMAIN overlay.samples
      /\ StartIn(s, overlay.samples) \in Nat /\ s.started <= StartIn(s, overlay.samples)
      /\ overlay.samples[s.id].print[2] = s.done
  BY DEF Kept, Current
<1>4. s.id \in DOMAIN x
  BY <1>2, <1>3 DEF Taken
<1>5. CASE x[s.id] = overlay.samples[s.id]
  BY <1>3, <1>4, <1>5 DEF Current, StartIn
<1>6. ASSUME NEW j \in DOMAIN news, news[j].id = s.id, StartOf(news[j]) # Null, x[s.id] = SampleOf(news[j])
      PROVE  Current(s, x)
  <2> DEFINE r == news[j]
  <2>1. r.key = s.key
    BY <1>1, <1>6, IdsNameSets
  <2>2. PICK k \in DOMAIN next : r = next[k]
    BY <1>1
  <2>3. Since(rewritten, s, r) /\ TableSet(r, clock) /\ TableSet(s, clock)
    BY <2>1, <2>2 DEF Follows, TableSets
  <2>4. Completed(s) /\ s.done # Null /\ s.started # Null /\ s.key \notin found /\ s.key \notin rewritten
    BY DEF Due, Completed, Spared
  <2>5. s.key \notin DOMAIN overlay.called
    BY <2>4 DEF Held
  <2>6. CallOf(r) = Null
    BY <2>1, <2>5 DEF CallOf
  <2>7. /\ SampleOf(r).print[1] = r.started /\ SampleOf(r).print[2] = r.done
        /\ r.started # Null
    <3> HIDE DEF r
    <3>1. StartOf(r) # Null
      BY <1>6 DEF r
    <3> QED
      BY <2>6, <3>1, SampleFields
  <2>8. x[s.id].print[1] = r.started /\ x[s.id].print[2] = r.done
    <3> HIDE DEF SampleOf
    <3> QED
      BY <1>6, <2>7
  <2> HIDE DEF s, r
  <2>9. r.done = s.done
    BY <2>3, <2>4 DEF Since, TableSet
  <2>10. r.started \in Nat /\ s.started <= r.started
    BY <2>3, <2>4, <2>7 DEF Since, TableSet, InTime
  <2> QED
    BY <1>4, <2>8, <2>9, <2>10 DEF Current, StartIn
<1>7. \/ x[s.id] = overlay.samples[s.id]
      \/ \E j \in DOMAIN news : news[j].id = s.id /\ StartOf(news[j]) # Null /\ x[s.id] = SampleOf(news[j])
  BY <1>2, <1>4 DEF Taken
<1> QED
  BY <1>5, <1>6, <1>7

(* What was known of a set that is no news: the same. *)
LEMMA NoNewsIsKnown ==
    ASSUME RowsInv, NEW r, TableSet(r, clock), r.done # Null, ~IsNews(r),
           \A i \in DOMAIN table : table[i].key = r.key => Since(rewritten, table[i], r)
    PROVE  \E i \in DOMAIN table : table[i] = r
<1>1. ~Newly(r) /\ ~Revised(r)
  BY DEF IsNews
<1>2. PICK b \in Before(r) : Completed(b)
  BY <1>1 DEF Newly, Completed
<1>3. PICK i \in DOMAIN table : table[i] = b /\ b.key = r.key
  BY BeforeIsKnown
<1>4. b.started = r.started /\ b.done = r.done
  BY <1>1, <1>2 DEF Revised
<1>5. r = [b EXCEPT !.started = r.started]
  BY <1>3, <1>4 DEF Since
<1>6. TableSet(b, clock)
  BY <1>3 DEF RowsInv, TableSets
<1>7. [b EXCEPT !.started = r.started] = b
  BY <1>4, <1>6 DEF TableSet
<1> QED
  BY <1>3, <1>5, <1>7

(* So does the new table, and news have samples of their own start. *)
LEMMA NewKept ==
    ASSUME RowsInv, SampleInv, NEW next, TableSets(next, clock), Follows(rewritten, table, next),
           NEW x, Taken(x, overlay.samples, News(next), DOMAIN News(next))
    PROVE  Kept(next, x, Spared) /\ Exact(next, x, Spared, disk.table)
<1> DEFINE news == News(next)
<1>1. /\ TableSets(news, clock)
      /\ \A k \in DOMAIN next : IsNews(next[k]) => \E j \in DOMAIN news : news[j] = next[k]
      /\ \A j \in DOMAIN news : \E k \in DOMAIN next : news[j] = next[k] /\ IsNews(next[k])
  BY NewsAre
<1> HIDE DEF news
<1>2. Taken(x, overlay.samples, news, DOMAIN news)
  BY DEF news
<1> SUFFICES ASSUME NEW k \in DOMAIN next, Due(next[k], Spared)
             PROVE  /\ Current(next[k], x)
                    /\ StartIn(next[k], x) = next[k].started \/ next[k] \in ToSet(disk.table)
  BY DEF Kept, Exact
<1> DEFINE r == next[k]
<1>3. TableSet(r, clock) /\ r.done # Null /\ r.started # Null /\ r.started \in Nat /\ r.started <= clock
  BY DEF TableSets, TableSet, InTime, Due
<1>4. ASSUME r.id \in DOMAIN x, x[r.id].print[1] = r.started, x[r.id].print[2] = r.done
      PROVE  Current(r, x) /\ StartIn(r, x) = r.started
  <2> HIDE DEF r
  <2> QED
    BY <1>3, <1>4 DEF Current, StartIn
<1>5. SampleOf(r).print[1] = r.started /\ SampleOf(r).print[2] = r.done /\ StartOf(r) # Null
      /\ PrintOf(r)[1] = r.started /\ PrintOf(r)[2] = r.done
  <2> HIDE DEF r
  <2> QED
    BY <1>3, SampleFields
<1>6. CASE IsNews(r)
  <2>1. PICK j \in DOMAIN news : news[j] = r
    BY <1>1, <1>6
  <2> HIDE DEF r
  <2>2. r.id \in DOMAIN x /\ x[r.id].print = PrintOf(r)
    BY <1>2, <1>5, <2>1 DEF Taken
  <2> HIDE DEF PrintOf
  <2>3. x[r.id].print[1] = r.started /\ x[r.id].print[2] = r.done
    BY <1>5, <2>2
  <2> QED
    BY <1>4, <2>2, <2>3 DEF r
<1>7. CASE ~IsNews(r)
  <2>1. PICK i \in DOMAIN table : table[i] = r
    BY <1>3, <1>7, NoNewsIsKnown DEF Follows
  <2>2. Current(r, overlay.samples) /\ (StartIn(r, overlay.samples) = r.started \/ r \in ToSet(disk.table))
    BY <2>1 DEF SampleInv, Kept, Exact
  <2>3. r.id \in DOMAIN x
    BY <1>2, <2>2 DEF Taken, Current
  <2>4. CASE x[r.id] = overlay.samples[r.id]
    <3> HIDE DEF r
    <3>1. Current(r, x) /\ StartIn(r, x) = StartIn(r, overlay.samples)
      BY <2>2, <2>3, <2>4 DEF Current, StartIn
    <3> QED
      BY <2>2, <3>1 DEF r
  <2>5. ASSUME NEW j \in DOMAIN news, news[j].id = r.id PROVE FALSE
    <3>1. PICK a \in DOMAIN next : news[j] = next[a] /\ IsNews(next[a])
      BY <1>1
    <3>2. a = k
      BY <2>5, <3>1, IdsNameSets
    <3> QED
      BY <1>7, <3>1, <3>2
  <2> QED
    BY <1>2, <2>3, <2>4, <2>5 DEF Taken
<1> QED
  BY <1>6, <1>7

(* What arrives is no longer called. *)
LEMMA HeldAfter ==
    ASSUME Held(table, overlay.called, found), NEW next, NEW called, DOMAIN called = DOMAIN overlay.called \ Arrivals(next)
    PROVE  Held(next, called, found)
<1> SUFFICES ASSUME NEW k \in DOMAIN next, Completed(next[k]), next[k].key \notin found
             PROVE  next[k].key \notin DOMAIN called
  BY DEF Held
<1>1. CASE Newly(next[k])
  BY <1>1 DEF Arrivals
<1>2. CASE ~Newly(next[k])
  <2>1. PICK b \in Before(next[k]) : Completed(b)
    BY <1>2 DEF Newly
  <2>2. PICK i \in DOMAIN table : table[i] = b /\ b.key = next[k].key
    BY BeforeIsKnown
  <2> QED
    BY <2>1, <2>2 DEF Held
<1> QED
  BY <1>1, <1>2

(* A launch opens what it fetched, which is found, or the saved table. *)
LEMMA OpenedSamples ==
    ASSUME ArrivalInv, SampleInv, fetched.launch = "yes", NEW sets, Opened(sets),
           UNCHANGED <<overlay, disk, saving, rewritten>>
    PROVE  SampleInv'
<1>1. saving = {} /\ found \subseteq found' /\ Spared \subseteq Spared'
  BY DEF ArrivalInv, LaunchInv, Opened, Spared
<1>2. /\ Held(disk.table, overlay.called, found') /\ Held(disk.table, disk.overlay.called, found')
      /\ Kept(disk.table, overlay.samples, Spared') /\ Kept(disk.table, disk.overlay.samples, Spared')
  BY <1>1, MoreFound DEF SampleInv
<1>3. /\ Held(table', overlay.called, found')
      /\ Kept(table', overlay.samples, Spared') /\ Exact(table', overlay.samples, Spared', disk.table)
  <2>1. CASE table' = disk.table
    <3>1. Exact(disk.table, overlay.samples, Spared', disk.table)
      BY DEF Exact, ToSet
    <3> QED
      BY <1>2, <2>1, <3>1
  <2>2. CASE table' = sets /\ found' = found \cup Finishes(sets)
    <3>1. \A i \in DOMAIN sets : Completed(sets[i]) => sets[i].key \in found'
      BY <2>2 DEF Finishes
    <3>2. \A i \in DOMAIN sets : ~Due(sets[i], Spared')
      BY <3>1 DEF Due, Completed, Spared
    <3> QED
      BY <2>2, <3>1, <3>2 DEF Held, Kept, Exact
  <2> QED
    BY <2>1, <2>2 DEF Opened
<1> HIDE DEF Held, Kept, Exact, Sampling
<1> QED
  BY <1>1, <1>2, <1>3 DEF SampleInv

(* A poll learns from the news of its table. *)
LEMMA PollSamples ==
    ASSUME RowsInv, OrderedInv, SampleInv, NEW nodes, Gathered(nodes, clock), ApplySnapshot(nodes),
           saving' = {"overlay", "table"}, UNCHANGED <<clock, disk, found, rewritten>>
    PROVE  SampleInv'
<1> DEFINE next == LiveSets(nodes) \o Retained(LiveSets(nodes))
           news == News(next)
           x == FoldLeft(Ingest, overlay.samples, news)
<1>1. /\ table' = next /\ overlay'.samples = x
      /\ DOMAIN overlay'.called = DOMAIN overlay.called \ Arrivals(next)
  <2>1. /\ table' = next
        /\ overlay' = [samples |-> x, rest |-> overlay'.rest,
                       called |-> [k \in DOMAIN overlay.called \ Arrivals(next) |-> overlay.called[k]],
                       arrived |-> overlay'.arrived]
    BY Zenon DEF ApplySnapshot
  <2> HIDE DEF next, x
  <2> QED
    BY <2>1
<1>2. TableSets(next, clock) /\ Follows(rewritten, disk.table, next) /\ Follows(rewritten, table, next)
  BY PollOrders
<1> HIDE DEF next
<1>3. Taken(x, overlay.samples, news, DOMAIN news)
  <2>1. TableSets(news, clock)
    BY <1>2, NewsAre
  <2>2. IsList(news) /\ \A a, b \in DOMAIN news : news[a].id = news[b].id => a = b
    BY <2>1, IdsNameSets DEF TableSets
  <2>3. overlay.samples = [id \in DOMAIN overlay.samples |-> overlay.samples[id]]
    BY DEF SampleInv, Sampling
  <2> HIDE DEF news
  <2> QED
    BY <2>2, <2>3, Ingested
<1> HIDE DEF x
<1>4. Kept(next, x, Spared) /\ Exact(next, x, Spared, disk.table)
  BY <1>2, <1>3, NewKept
<1>5. Kept(disk.table, x, Spared)
  <2>1. TableSets(disk.table, clock)
    BY DEF RowsInv
  <2> QED
    BY <1>2, <1>3, <2>1, OldKept DEF SampleInv
<1>6. Sampling(x)
  BY <1>3, SamplingKept DEF SampleInv
<1>7. Held(next, overlay'.called, found)
  BY <1>1, HeldAfter DEF SampleInv
<1>8. Held(disk.table, overlay'.called, found)
  BY <1>1 DEF SampleInv, Held
<1> HIDE DEF Held, Kept, Exact, Sampling
<1> QED
  BY <1>1, <1>4, <1>5, <1>6, <1>7, <1>8 DEF SampleInv, Spared

(* An answer to a write of ours leaves the samples of the sets it leaves. *)
LEMMA MergeSamples ==
    ASSUME RowsInv, SampleInv, MergeAnswer
    PROVE  SampleInv'
<1>1. Restarted(table', rewritten')
  BY MergeIs
<1>2. saving' = saving \cup {"overlay"} /\ UNCHANGED <<overlay, disk, found>> /\ Spared \subseteq Spared'
  BY <1>1 DEF MergeAnswer, Restarted, Spared
<1>3. ASSUME NEW i \in DOMAIN table'
      PROVE  /\ i \in DOMAIN table /\ table'[i].key = table[i].key
             /\ Completed(table'[i]) => Completed(table[i])
             /\ Due(table'[i], Spared') => table'[i] = table[i] /\ Due(table[i], Spared)
  <2> DEFINE b == table[i]
             c == table'[i]
  <2>1. /\ i \in DOMAIN table
        /\ c = [b EXCEPT !.started = c.started]
        /\ b.done # Null /\ b.key \notin rewritten' => c.started = b.started
    BY <1>1 DEF Restarted
  <2>2. /\ b = [id |-> b.id, key |-> b.key, started |-> b.started, done |-> b.done,
                winner |-> b.winner, slots |-> b.slots]
    BY <2>1 DEF RowsInv, TableSets, TableSet
  <2> HIDE DEF b, c
  <2>3. c = [id |-> b.id, key |-> b.key, started |-> c.started, done |-> b.done,
             winner |-> b.winner, slots |-> b.slots]
    BY <2>1, <2>2
  <2>4. c.key = b.key /\ c.done = b.done /\ c.winner = b.winner
    BY <2>3
  <2>5. Due(c, Spared') => c = b /\ Due(b, Spared)
    <3> SUFFICES ASSUME Due(c, Spared') PROVE c = b /\ Due(b, Spared)
      OBVIOUS
    <3>1. b.done # Null /\ b.key \notin rewritten' /\ b.key \notin Spared
      BY <1>2, <2>4 DEF Due, Spared
    <3>2. c = b
      BY <2>1, <2>2, <2>3, <3>1
    <3> QED
      BY <3>1, <3>2 DEF Due
  <2> QED
    BY <2>1, <2>4, <2>5 DEF b, c, Completed
<1>4. Held(table', overlay.called, found)
  BY <1>3 DEF SampleInv, Held
<1>5. Kept(table', overlay.samples, Spared') /\ Exact(table', overlay.samples, Spared', disk.table)
  BY <1>3 DEF SampleInv, Kept, Exact
<1>6. Kept(disk.table, overlay.samples, Spared') /\ Kept(disk.table, disk.overlay.samples, Spared')
  BY <1>2, MoreFound DEF SampleInv
<1> HIDE DEF Held, Kept, Exact, Sampling
<1> QED
  BY <1>2, <1>4, <1>5, <1>6 DEF SampleInv

LEMMA SampleStep ==
    ASSUME ArrivalInv, RowsInv, OrderedInv, SampleInv, [TablesNext]_tableVars
    PROVE  SampleInv'
<1>1. ASSUME UNCHANGED <<table, overlay, disk, saving, found, rewritten>> PROVE SampleInv'
  <2> HIDE DEF Held, Kept, Exact, Sampling
  <2> QED
    BY <1>1 DEF SampleInv, Spared
<1>2. ASSUME NEW i \in {j \in DOMAIN served : Usable(served[j])},
             SiteStarts(i) \/ SiteFinishes(i) \/ SiteRevises(i) \/ SiteReplaces(i) \/ SiteMoves(i)
      PROVE  SampleInv'
  BY <1>1, <1>2, SiteCarries
<1>3. CASE FetchPage
  <2> DEFINE page  == PageOf(served, fetched.page, TRUE)
             pages == IF fetched.page = 1 THEN TotalPages(page) ELSE fetched.pages
             nodes == fetched.nodes \o page.nodes
  <2>1. UNCHANGED <<clock, disk, rewritten>>
    BY <1>3 DEF FetchPage
  <2>2. Gathered(nodes, clock)
    BY NodesRead
  <2>3. ASSUME fetched.page < pages PROVE SampleInv'
    BY <1>1, <1>3, <2>1, <2>3 DEF FetchPage
  <2>4. ASSUME ~(fetched.page < pages), fetched.launch = "yes" PROVE SampleInv'
    <3>1. Opened(LiveSets(nodes)) /\ UNCHANGED <<overlay, saving>>
      BY <1>3, <2>4 DEF FetchPage
    <3> QED
      BY <2>1, <2>4, <3>1, OpenedSamples
  <2>5. ASSUME ~(fetched.page < pages), fetched.launch # "yes" PROVE SampleInv'
    <3>1. ApplySnapshot(nodes) /\ saving' = {"overlay", "table"} /\ UNCHANGED found
      BY <1>3, <2>5 DEF FetchPage
    <3> QED
      BY <2>1, <2>2, <3>1, PollSamples
  <2> QED
    BY <2>3, <2>4, <2>5
<1>4. CASE FetchFails
  <2>1. CASE fetched.launch = "yes"
    BY <1>4, <2>1, OpenedSamples DEF FetchFails
  <2>2. CASE fetched.launch # "yes"
    BY <1>1, <1>4, <2>2 DEF FetchFails
  <2> QED
    BY <2>1, <2>2
<1>5. CASE DeskCalls
  <2>1. PICK i \in DOMAIN table :
            /\ ~Completed(table[i])
            /\ overlay' = [overlay EXCEPT !.called = With(@, table[i].key, clock)]
    BY <1>5 DEF DeskCalls
  <2>2. overlay'.samples = overlay.samples /\ overlay'.called = With(overlay.called, table[i].key, clock)
    BY <2>1 DEF ArrivalInv, ShapeInv, IsOverlay
  <2>3. saving' = saving \cup {"overlay"} /\ UNCHANGED <<table, disk, found, rewritten>>
    BY <1>5 DEF DeskCalls, ghosts
  <2>4. DOMAIN overlay'.called = DOMAIN overlay.called \cup {table[i].key}
    BY <2>2 DEF With
  <2>5. \A k \in DOMAIN table : table[k].key = table[i].key => ~Completed(table[k])
    BY <2>1 DEF RowsInv, TableSets
  <2>6. \A k \in DOMAIN disk.table : disk.table[k].key = table[i].key => ~Completed(disk.table[k])
    BY <2>1 DEF OrderedInv, Follows, Since
  <2>7. Held(table, overlay'.called, found) /\ Held(disk.table, overlay'.called, found)
    BY <2>4, <2>5, <2>6 DEF SampleInv, Held
  <2> HIDE DEF Held, Kept, Exact, Sampling
  <2> QED
    BY <2>2, <2>3, <2>7 DEF SampleInv, Spared
<1>6. CASE SaveOverlay
  <2>1. /\ disk'.overlay = overlay /\ disk'.table = disk.table
        /\ UNCHANGED <<table, overlay, found, rewritten>>
    BY <1>6 DEF SaveOverlay, ArrivalInv, ShapeInv, ghosts
  <2> HIDE DEF Held, Kept, Exact, Sampling
  <2> QED
    BY <2>1 DEF SampleInv, Spared
<1>7. CASE SaveTable
  <2>1. /\ disk'.overlay = disk.overlay /\ disk'.table = table
        /\ saving = {"table"} /\ saving' = {} /\ UNCHANGED <<table, overlay, found, rewritten>>
    BY <1>7 DEF SaveTable, ArrivalInv, ShapeInv, ghosts
  <2>2. Exact(table, overlay.samples, Spared, table)
    BY DEF Exact, ToSet
  <2> HIDE DEF Held, Kept, Exact, Sampling
  <2> QED
    BY <2>1, <2>2 DEF SampleInv, Spared
<1>8. CASE Relaunch
  <2>1. table' = <<>> /\ overlay' = disk.overlay /\ saving' = {} /\ UNCHANGED <<disk, found, rewritten>>
    BY <1>8 DEF Relaunch, ghosts
  <2>2. /\ Held(<<>>, overlay'.called, found) /\ Kept(<<>>, overlay'.samples, Spared)
        /\ Exact(<<>>, overlay'.samples, Spared, disk.table)
    BY DEF Held, Kept, Exact
  <2> HIDE DEF Held, Kept, Exact, Sampling
  <2> QED
    BY <2>1, <2>2 DEF SampleInv, Spared
<1>9. CASE TimePasses
  BY <1>1, <1>9 DEF TimePasses, ghosts
<1>10. ASSUME NEW i, SiteAnswers(i) PROVE SampleInv'
  BY <1>1, <1>10 DEF SiteAnswers, ghosts
<1>11. CASE MergeAnswer
  BY <1>11, MergeSamples
<1>12. CASE UNCHANGED tableVars
  BY <1>1, <1>12 DEF tableVars, ghosts
<1> QED
  BY <1>2, <1>3, <1>4, <1>5, <1>6, <1>7, <1>8, <1>9, <1>10, <1>11, <1>12 DEF TablesNext

(* Every finished set of the table that was ever started has the sample of   *)
(* its times, for every site, every order of its changes, the polls and the *)
(* answers to writes of ours, and every crash between a poll and its two    *)
(* saves.  A set whose start an answer changed after its finish is excepted. *)
THEOREM SamplesStayCurrent == TablesSpec => []SamplesCurrent
<1> DEFINE I == ArrivalInv /\ RowsInv /\ OrderedInv /\ SampleInv
<1>1. TablesInit => I
  BY ArrivalInit, OrderInit, SampleInit
<1>2. I /\ [TablesNext]_tableVars => I'
  BY ArrivalStep, OrderStep, SampleStep
<1>3. I => SamplesCurrent
  BY SamplesHold
<1> QED
  BY <1>1, <1>2, <1>3, PTL DEF TablesSpec
=============================================================================
