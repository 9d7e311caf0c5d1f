------------------------------ MODULE StateFile ------------------------------
(***************************************************************************)
(* The files that outlive a launch of the scheduler: the lock file that    *)
(* admits one process at a time (tools/scheduler/tui/src/persist.rs), and  *)
(* the overlay and snapshot documents that the event loop saves behind a   *)
(* common debounce and a restart reads back (tui/src/main.rs).             *)
(*                                                                         *)
(* Every launch is a process of its own; it may crash between any two      *)
(* system calls.  Of the overlay we keep which changes of the operator it  *)
(* holds and which tables its board has seen; of the snapshot, which       *)
(* tables it shows.  Tables are numbered by the moments of the site.       *)
(***************************************************************************)
EXTENDS Naturals, FiniteSets

CONSTANTS
    Processes,  \* the launches
    Inodes,     \* what the lock path may name: every created file is a new one
    NoFile, NoOne,
    Changes,    \* Bound: the operator's changes, all launches together
    MaxSite,    \* Bound: how often the site moves
    Corruptions \* Bound: the documents that may be found unusable

ASSUME StateFileAssumption ==
    /\ NoFile \notin Inodes /\ NoOne \notin Processes
    /\ MaxSite \in Nat
    /\ Corruptions \subseteq {"overlay", "snapshot"}

Docs   == {"overlay", "snapshot"}
Stages == {"idle", "opening", "starting", "running", "quitting", "unlocked", "gone"}

VARIABLES
    stage,    \* where each launch stands
    fd,       \* the lock file it has open
    path,     \* the file the lock path names
    holder,   \* who holds the flock of each file
    torn,     \* ghost: the path was removed while another launch had the file open
    disk,     \* the documents: "none", "whole", "partial" or "bad" (of another version)
    temp,     \* their siblings .tmp: which launch created or truncated it last
    backup,   \* the documents renamed .bak
    memory,   \* the state of a running launch
    dirty,    \* overlay_dirty, snapshot_dirty
    todo,     \* the saves under way
    writing,  \* whether the first of them has its .tmp open
    blind,    \* the launches whose overlay file could not be opened
    failed,   \* ghost: some overlay save failed
    site      \* the moment of the site

lock  == <<fd, path, holder, torn>>
files == <<disk, temp, backup>>
saves == <<todo, writing>>
mind  == <<memory, dirty, saves, blind>>
vars  == <<stage, lock, files, mind, failed, site>>

Version == [changes : SUBSET Changes, seen : 0..MaxSite, tables : 0..MaxSite]
Blank   == [changes |-> {}, seen |-> 0, tables |-> 0]
Stored  == [state : {"none", "whole", "partial", "bad"}, version : Version]
Nothing == [state |-> "none", version |-> Blank]

TypeOK ==
    /\ stage \in [Processes -> Stages]
    /\ fd \in [Processes -> Inodes \cup {NoFile}]
    /\ path \in Inodes \cup {NoFile}
    /\ holder \in [Inodes -> Processes \cup {NoOne}]
    /\ torn \in {"no", "yes"}
    /\ disk \in [Docs -> Stored]
    /\ temp \in [Docs -> Processes \cup {NoOne}]
    /\ backup \in SUBSET Docs
    /\ memory \in [Processes -> Version]
    /\ dirty \in [Processes -> SUBSET Docs]
    /\ todo \in [Processes -> SUBSET Docs]
    /\ writing \in [Processes -> {"no", "yes"}]
    /\ blind \in SUBSET Processes
    /\ failed \in {"no", "yes"}
    /\ site \in 0..MaxSite

Init ==
    /\ stage = [p \in Processes |-> "idle"]
    /\ fd = [p \in Processes |-> NoFile]
    /\ path = NoFile
    /\ holder = [i \in Inodes |-> NoOne]
    /\ torn = "no"
    /\ disk = [d \in Docs |-> Nothing]
    /\ temp = [d \in Docs |-> NoOne]
    /\ backup = {}
    /\ memory = [p \in Processes |-> Blank]
    /\ dirty = [p \in Processes |-> {}]
    /\ todo = [p \in Processes |-> {}]
    /\ writing = [p \in Processes |-> "no"]
    /\ blind = {}
    /\ failed = "no"
    /\ site = 0

-----------------------------------------------------------------------------
(* The lock file. *)

Unused == {i \in Inodes : i # path /\ \A q \in Processes : fd[q] # i}

(* Variant: a leftover file of a crashed launch is cleared away first. *)
OpenAfresh(p) ==
    /\ stage[p] = "idle"
    /\ \E i \in Unused :
          /\ path' = i
          /\ fd' = [fd EXCEPT ![p] = i]
    /\ stage' = [stage EXCEPT ![p] = "opening"]
    /\ UNCHANGED <<holder, torn, files, mind, failed, site>>

(* acquire, first half: open or create the file at the path. *)
Open(p) ==
    /\ stage[p] = "idle"
    /\ \E i \in (IF path = NoFile THEN Unused ELSE {path}) :
          /\ path' = i
          /\ fd' = [fd EXCEPT ![p] = i]
    /\ stage' = [stage EXCEPT ![p] = "opening"]
    /\ UNCHANGED <<holder, torn, files, mind, failed, site>>

(* acquire, second half: try_lock_exclusive. *)
Lock(p) ==
    /\ stage[p] = "opening"
    /\ holder[fd[p]] = NoOne
    /\ holder' = [holder EXCEPT ![fd[p]] = p]
    /\ stage' = [stage EXCEPT ![p] = "starting"]
    /\ UNCHANGED <<fd, path, torn, files, mind, failed, site>>

(* "another scheduler instance is already running". *)
Refused(p) ==
    /\ stage[p] = "opening"
    /\ holder[fd[p]] # NoOne
    /\ fd' = [fd EXCEPT ![p] = NoFile]
    /\ stage' = [stage EXCEPT ![p] = "gone"]
    /\ UNCHANGED <<path, holder, torn, files, mind, failed, site>>

(* Drop for Lockfile: unlock, then remove whatever file the path names. *)
Unlock(p) ==
    /\ stage[p] = "quitting" /\ todo[p] = {}
    /\ holder' = [holder EXCEPT ![fd[p]] = NoOne]
    /\ stage' = [stage EXCEPT ![p] = "unlocked"]
    /\ UNCHANGED <<fd, path, torn, files, mind, failed, site>>

(* A launch that ends takes its state with it. *)
Forgotten(p) ==
    /\ fd' = [fd EXCEPT ![p] = NoFile]
    /\ stage' = [stage EXCEPT ![p] = "gone"]
    /\ memory' = [memory EXCEPT ![p] = Blank]
    /\ dirty' = [dirty EXCEPT ![p] = {}]
    /\ todo' = [todo EXCEPT ![p] = {}]
    /\ writing' = [writing EXCEPT ![p] = "no"]
    /\ blind' = blind \ {p}

Remove(p) ==
    /\ stage[p] = "unlocked"
    /\ path' = NoFile
    /\ torn' = IF \E q \in Processes : fd[q] = path /\ path # NoFile
                                         /\ stage[q] # "unlocked"
               THEN "yes" ELSE torn
    /\ Forgotten(p)
    /\ UNCHANGED <<holder, files, failed, site>>

(* The kernel closes the files of a crashed process: its flock goes, the    *)
(* lock file and a partial temporary file stay.                            *)
Crash(p) ==
    /\ stage[p] \notin {"idle", "gone"}
    /\ holder' = [i \in Inodes |-> IF holder[i] = p THEN NoOne ELSE holder[i]]
    /\ Forgotten(p)
    /\ UNCHANGED <<path, torn, files, failed, site>>

-----------------------------------------------------------------------------
(* Start. *)

(* preflight fails, or --preflight-only: nothing is read nor written. *)
PreflightEnds(p) ==
    /\ stage[p] = "starting"
    /\ stage' = [stage EXCEPT ![p] = "quitting"]
    /\ UNCHANGED <<lock, files, mind, failed, site>>

(* load_versioned: a document of another version is renamed .bak. *)
Usable(d) == disk[d].state = "whole"
Recover(ds) ==
    /\ backup' = backup \cup ds
    /\ disk' = [d \in Docs |-> IF d \in ds THEN Nothing ELSE disk[d]]

(* seed_from_snapshot_file, AppState::new and restore_overlay.  Offline,    *)
(* the tables are those of the snapshot; `opened` says whether the overlay  *)
(* file could be opened at all.  An empty board agrees with any tables.     *)
Shown(offline) ==
    IF ~offline THEN site
    ELSE IF Usable("snapshot") THEN disk["snapshot"].version.tables ELSE 0

(* Variant: a board older than the tables is not restored. *)
RestoredIfCurrent(shown, opened) ==
    IF opened /\ Usable("overlay") /\ disk["overlay"].version.seen >= shown
    THEN [disk["overlay"].version EXCEPT !.tables = shown]
    ELSE [changes |-> {}, seen |-> shown, tables |-> shown]

Restored(shown, opened) ==
    IF opened /\ Usable("overlay") THEN [disk["overlay"].version EXCEPT !.tables = shown]
    ELSE [changes |-> {}, seen |-> shown, tables |-> shown]

Start(p, offline, opened) ==
    /\ stage[p] = "starting"
    /\ opened \/ disk["overlay"].state # "none"
    /\ memory' = [memory EXCEPT ![p] = Restored(Shown(offline), opened)]
    /\ Recover({d \in Docs : disk[d].state \in {"partial", "bad"}}
               \ (IF opened THEN {} ELSE {"overlay"}))
    /\ blind' = IF opened THEN blind ELSE blind \cup {p}
    /\ stage' = [stage EXCEPT ![p] = "running"]
    /\ UNCHANGED <<lock, temp, dirty, saves, failed, site>>

-----------------------------------------------------------------------------
(* The event loop.  While a save is under way it does nothing else. *)

Looping(p) == stage[p] = "running" /\ todo[p] = {}

(* update on an input: the overlay is dirty. *)
Change(p, c) ==
    /\ Looping(p)
    /\ c \notin memory[p].changes
    /\ memory' = [memory EXCEPT ![p].changes = @ \cup {c}]
    /\ dirty' = [dirty EXCEPT ![p] = @ \cup {"overlay"}]
    /\ UNCHANGED <<stage, lock, files, saves, blind, failed, site>>

(* update on a poll that is applied: the board sees the tables, both        *)
(* documents are dirty.                                                    *)
Poll(p) ==
    /\ Looping(p)
    /\ memory' = [memory EXCEPT ![p].tables = site, ![p].seen = site]
    /\ dirty' = [dirty EXCEPT ![p] = Docs]
    /\ UNCHANGED <<stage, lock, files, saves, blind, failed, site>>

(* A poll that failed or that the gate refused: the overlay alone is dirty. *)
PollRefused(p) ==
    /\ Looping(p)
    /\ dirty' = [dirty EXCEPT ![p] = @ \cup {"overlay"}]
    /\ UNCHANGED <<stage, lock, files, memory, saves, blind, failed, site>>

(* What a window, and the final flush, save.  Variant: the snapshot instead *)
(* of the overlay.                                                         *)
TablesElseBoard(ds) == IF "snapshot" \in ds THEN {"snapshot"} ELSE ds
ToSave(ds) == ds

(* The order of the saves.  Variant: the snapshot first. *)
TablesFirst(ds) == IF "snapshot" \in ds THEN "snapshot" ELSE "overlay"
NextSave(ds) == IF "overlay" \in ds THEN "overlay" ELSE "snapshot"

SaveWindow(p) ==
    /\ Looping(p)
    /\ dirty[p] # {}
    /\ todo' = [todo EXCEPT ![p] = ToSave(dirty[p])]
    /\ UNCHANGED <<stage, lock, files, memory, dirty, writing, blind, failed, site>>

(* The quit key: the final flush, then the lock file is dropped. *)
Quit(p) ==
    /\ Looping(p)
    /\ stage' = [stage EXCEPT ![p] = "quitting"]
    /\ todo' = [todo EXCEPT ![p] = ToSave(dirty[p])]
    /\ UNCHANGED <<lock, files, memory, dirty, writing, blind, failed, site>>

(* Of an overlay the tables are not kept, of a snapshot nothing else is. *)
Written(d, version) ==
    IF d = "overlay" THEN [version EXCEPT !.tables = 0]
    ELSE [Blank EXCEPT !.tables = version.tables]

(* write_then_rename: the sibling .tmp is created or truncated, and filled  *)
(* while the launch has it open ...                                        *)
BeginSave(p) ==
    /\ todo[p] # {} /\ writing[p] = "no"
    /\ temp' = [temp EXCEPT ![NextSave(todo[p])] = p]
    /\ writing' = [writing EXCEPT ![p] = "yes"]
    /\ UNCHANGED <<stage, lock, disk, backup, memory, dirty, todo, blind, failed, site>>

Saved(p) ==
    /\ todo' = [todo EXCEPT ![p] = @ \ {NextSave(@)}]
    /\ dirty' = [dirty EXCEPT ![p] = @ \ {NextSave(todo[p])}]
    /\ writing' = [writing EXCEPT ![p] = "no"]

(* ... and, synced, renamed over the document.  What another launch has     *)
(* truncated meanwhile is not whole.                                       *)
CommitSave(p) ==
    /\ writing[p] = "yes"
    /\ LET d == NextSave(todo[p]) IN
        /\ temp[d] # NoOne
        /\ temp' = [temp EXCEPT ![d] = NoOne]
        /\ disk' = [disk EXCEPT ![d] =
              [state |-> IF temp[d] = p THEN "whole" ELSE "partial",
               version |-> Written(d, memory[p])]]
    /\ Saved(p)
    /\ UNCHANGED <<stage, lock, backup, memory, blind, failed, site>>

(* record_persist_outcome: a failed save raises the badge, and the document *)
(* counts as clean.                                                        *)
FailSave(p) ==
    /\ writing[p] = "yes"
    /\ Saved(p)
    /\ failed' = IF NextSave(todo[p]) = "overlay" THEN "yes" ELSE failed
    /\ UNCHANGED <<stage, lock, files, memory, blind, site>>

-----------------------------------------------------------------------------
(* The world. *)

SiteMoves ==
    /\ site < MaxSite
    /\ site' = site + 1
    /\ UNCHANGED <<stage, lock, files, mind, failed>>

(* A build of another version, or a damaged disk, between two launches. *)
Corrupt(d) ==
    /\ d \in Corruptions \ backup
    /\ Usable(d)
    /\ \A p \in Processes : stage[p] \in {"idle", "gone"}
    /\ disk' = [disk EXCEPT ![d].state = "bad"]
    /\ UNCHANGED <<stage, lock, temp, backup, mind, failed, site>>

-----------------------------------------------------------------------------

Launch(p) ==
    \/ Open(p) \/ Lock(p) \/ Refused(p) \/ Unlock(p) \/ Remove(p) \/ Crash(p)
    \/ PreflightEnds(p)
    \/ \E offline, opened \in BOOLEAN : Start(p, offline, opened)

Loop(p) ==
    \/ \E c \in Changes : Change(p, c)
    \/ Poll(p) \/ PollRefused(p)
    \/ SaveWindow(p) \/ Quit(p)
    \/ BeginSave(p) \/ CommitSave(p) \/ FailSave(p)

Next ==
    \/ \E p \in Processes : Launch(p) \/ Loop(p)
    \/ SiteMoves
    \/ \E d \in Docs : Corrupt(d)

Spec == Init /\ [][Next]_vars

(* The update loop goes on: polls end one way or the other, the save window *)
(* comes round, a save ends, and the disk does not fail for ever.          *)
SaveFairness(p) ==
    /\ WF_vars(Poll(p) \/ PollRefused(p))
    /\ WF_vars(SaveWindow(p))
    /\ WF_vars(BeginSave(p))
    /\ WF_vars(CommitSave(p) \/ FailSave(p))
    /\ SF_vars(writing[p] = "yes" /\ NextSave(todo[p]) = "overlay" /\ CommitSave(p))

FairSpec == Spec /\ \A p \in Processes : SaveFairness(p)

-----------------------------------------------------------------------------
(* Properties. *)

Owners == {p \in Processes : stage[p] \in {"starting", "running", "quitting"}}

(* One process at a time owns the state files ("single-instance guard, held *)
(* for the process lifetime"), whoever crashes, as long as no lock file was *)
(* removed under a launch that had just opened it.                          *)
OneDesk == torn = "no" => \A p, q \in Owners : p = q

(* However a save is cut short, the documents that the next launch finds    *)
(* are whole: a crash never truncates the live file.                        *)
WholeDocuments == torn = "no" => \A d \in Docs : disk[d].state # "partial"

(* The persisted board has seen the persisted tables: a restart that opens  *)
(* on the snapshot file never shows a finish that the restored board has    *)
(* not been told of.  Saves that failed excepted.                           *)
BoardSeesTables ==
    torn = "no" /\ failed = "no" /\ Usable("overlay") /\ Usable("snapshot")
        => disk["snapshot"].version.tables <= disk["overlay"].version.seen

(* No step takes a change of the operator away from the overlay file: what  *)
(* one launch saved the next one restores and saves again.  Excepted are    *)
(* a launch that could not open the file and a file of another version.     *)
Sighted == torn = "no" /\ blind = {} /\ Usable("overlay")
ChangesKept ==
    [][Sighted /\ Sighted' => disk["overlay"].version.changes \subseteq disk'["overlay"].version.changes]_vars

(* A change is saved in the end, also when a save of it failed and cleared  *)
(* the dirty flag, unless its launch ends.                                  *)
ChangesSaved ==
    \A p \in Processes : \A c \in Changes :
        (stage[p] = "running" /\ c \in memory[p].changes)
            ~> (\/ stage[p] # "running" \/ torn = "yes"
                \/ Usable("overlay") /\ c \in disk["overlay"].version.changes)

(* Whatever crashed or failed, the next launch restores whole documents      *)
(* that fit each other (save_json_atomic, maybe_persist).                  *)
StateFilesSound == WholeDocuments /\ BoardSeesTables
=============================================================================
