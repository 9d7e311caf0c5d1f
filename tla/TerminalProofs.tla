---------------------------- MODULE TerminalProofs ----------------------------
(***************************************************************************)
(* Theorems about what the terminal's event loop keeps outside the desk.   *)
(* The lock file and the state documents, for any number of launches,      *)
(* changes and crashes.  The rollout ranking, for all delays and every     *)
(* bound: as long as no evaluation outlives the timeout one is under way   *)
(* at most, and no request is forgotten.  The two share nothing.           *)
(***************************************************************************)
EXTENDS StateFile, Ranking, TLAPS

-----------------------------------------------------------------------------
(* The files: types. *)

LEMMA InitType == Init => TypeOK
  BY StateFileAssumption DEF Init, TypeOK, Docs, Stages, Stored, Version, Nothing, Blank

(* The versions that are restored, shown and written have their types. *)
LEMMA VersionTypes ==
    ASSUME TypeOK
    PROVE  /\ Blank \in Version /\ Nothing \in Stored
           /\ \A offline \in BOOLEAN : Shown(offline) \in 0..MaxSite
           /\ \A shown \in 0..MaxSite, opened \in BOOLEAN : Restored(shown, opened) \in Version
           /\ \A d \in Docs, p \in Processes : Written(d, memory[p]) \in Version
<1>1. Blank \in Version /\ Nothing \in Stored
  BY StateFileAssumption DEF Blank, Version, Nothing, Stored
<1>2. \A d \in Docs : disk[d] \in Stored /\ disk[d].version \in Version
  BY DEF TypeOK, Stored
<1>3. ASSUME NEW offline \in BOOLEAN PROVE Shown(offline) \in 0..MaxSite
  BY <1>2, StateFileAssumption DEF Shown, Docs, Version, TypeOK
<1>4. ASSUME NEW shown \in 0..MaxSite, NEW opened \in BOOLEAN PROVE Restored(shown, opened) \in Version
  BY <1>2 DEF Restored, Docs, Version
<1>5. ASSUME NEW d \in Docs, NEW p \in Processes PROVE Written(d, memory[p]) \in Version
  <2>1. memory[p] \in Version
    BY DEF TypeOK
  <2> QED
    BY <2>1, StateFileAssumption DEF Written, Blank, Version
<1> QED
  BY <1>1, <1>3, <1>4, <1>5

LEMMA NextType == TypeOK /\ [Next]_vars => TypeOK'
<1> SUFFICES ASSUME TypeOK, [Next]_vars PROVE TypeOK'
  OBVIOUS
<1> USE DEF TypeOK, lock, files, saves, mind
<1>1. ASSUME NEW p \in Processes, Open(p) PROVE TypeOK'
  BY <1>1 DEF Open, Unused, Stages
<1>2. ASSUME NEW p \in Processes, Lock(p) PROVE TypeOK'
  BY <1>2 DEF Lock, Stages
<1>3. ASSUME NEW p \in Processes, Refused(p) PROVE TypeOK'
  BY <1>3 DEF Refused, Stages
<1>4. ASSUME NEW p \in Processes, Unlock(p) PROVE TypeOK'
  BY <1>4 DEF Unlock, Stages
<1>5. ASSUME NEW p \in Processes, Forgotten(p)
      PROVE  /\ stage' \in [Processes -> Stages] /\ fd' \in [Processes -> Inodes \cup {NoFile}]
             /\ memory' \in [Processes -> Version] /\ dirty' \in [Processes -> SUBSET Docs]
             /\ todo' \in [Processes -> SUBSET Docs] /\ writing' \in [Processes -> {"no", "yes"}]
             /\ blind' \in SUBSET Processes
  BY <1>5, VersionTypes DEF Forgotten, Stages
<1>6. ASSUME NEW p \in Processes, Remove(p) PROVE TypeOK'
  BY <1>5, <1>6 DEF Remove
<1>7. ASSUME NEW p \in Processes, Crash(p) PROVE TypeOK'
  BY <1>5, <1>7 DEF Crash
<1>8. ASSUME NEW p \in Processes, PreflightEnds(p) PROVE TypeOK'
  BY <1>8 DEF PreflightEnds, Stages
<1>9. ASSUME NEW p \in Processes, NEW offline \in BOOLEAN, NEW opened \in BOOLEAN, Start(p, offline, opened)
      PROVE  TypeOK'
  <2>1. Restored(Shown(offline), opened) \in Version
    BY VersionTypes
  <2>2. backup' \in SUBSET Docs /\ disk' \in [Docs -> Stored]
    BY <1>9, VersionTypes DEF Start, Recover
  <2>3. memory' \in [Processes -> Version] /\ stage' \in [Processes -> Stages]
    BY <1>9, <2>1 DEF Start, Stages
  <2>4. blind' \in SUBSET Processes
    BY <1>9 DEF Start
  <2> QED
    BY <1>9, <2>2, <2>3, <2>4 DEF Start
<1>10. ASSUME NEW p \in Processes, NEW c \in Changes, Change(p, c) PROVE TypeOK'
  <2>1. memory' \in [Processes -> Version]
    BY <1>10 DEF Change, Version
  <2> QED
    BY <1>10, <2>1 DEF Change, Docs
<1>11. ASSUME NEW p \in Processes, Poll(p) PROVE TypeOK'
  <2>1. memory' \in [Processes -> Version]
    BY <1>11 DEF Poll, Version
  <2> QED
    BY <1>11, <2>1 DEF Poll
<1>12. ASSUME NEW p \in Processes, PollRefused(p) PROVE TypeOK'
  BY <1>12 DEF PollRefused, Docs
<1>13. ASSUME NEW p \in Processes, SaveWindow(p) PROVE TypeOK'
  BY <1>13 DEF SaveWindow, ToSave
<1>14. ASSUME NEW p \in Processes, Quit(p) PROVE TypeOK'
  BY <1>14 DEF Quit, ToSave, Stages
<1>15. \A ds \in SUBSET Docs : NextSave(ds) \in Docs
  BY DEF NextSave, Docs
<1>16. ASSUME NEW p \in Processes, BeginSave(p) PROVE TypeOK'
  BY <1>15, <1>16 DEF BeginSave
<1>17. ASSUME NEW p \in Processes, Saved(p)
       PROVE  /\ todo' \in [Processes -> SUBSET Docs] /\ dirty' \in [Processes -> SUBSET Docs]
              /\ writing' \in [Processes -> {"no", "yes"}]
  BY <1>17 DEF Saved
<1>18. ASSUME NEW p \in Processes, CommitSave(p) PROVE TypeOK'
  <2>1. NextSave(todo[p]) \in Docs
    BY <1>15
  <2>2. Written(NextSave(todo[p]), memory[p]) \in Version
    BY <2>1, VersionTypes
  <2>3. disk' \in [Docs -> Stored] /\ temp' \in [Docs -> Processes \cup {NoOne}]
    BY <1>18, <2>1, <2>2 DEF CommitSave, Stored
  <2> QED
    BY <1>17, <1>18, <2>3 DEF CommitSave
<1>19. ASSUME NEW p \in Processes, FailSave(p) PROVE TypeOK'
  BY <1>17, <1>19 DEF FailSave
<1>20. ASSUME NEW d \in Docs, Corrupt(d) PROVE TypeOK'
  BY <1>20 DEF Corrupt, Stored
<1>21. CASE SiteMoves
  BY <1>21, StateFileAssumption DEF SiteMoves
<1>22. CASE UNCHANGED vars
  BY <1>22 DEF vars
<1> QED
  BY <1>1, <1>2, <1>3, <1>4, <1>6, <1>7, <1>8, <1>9, <1>10, <1>11, <1>12, <1>13, <1>14, <1>16, <1>18,
     <1>19, <1>20, <1>21, <1>22 DEF Next, Launch, Loop

(* Locks, documents and launches keep their types. *)
THEOREM TypeCorrect == Spec => []TypeOK
<1> QED
  BY InitType, NextType, PTL DEF Spec

-----------------------------------------------------------------------------
(* The lock file: who owns the state files holds the flock of the file it  *)
(* has open, and while no lock file was removed under a launch, that is    *)
(* the file at the path.                                                   *)

HasFile == {"opening", "starting", "running", "quitting"}

LockInv ==
    /\ \A p \in Owners : holder[fd[p]] = p
    /\ \A p \in Processes : stage[p] \in HasFile \cup {"unlocked"} => fd[p] \in Inodes
    /\ torn = "no" => \A p \in Processes : stage[p] \in HasFile => fd[p] = path

LEMMA LockInit == Init => LockInv
  BY DEF Init, LockInv, Owners, HasFile

(* The steps that leave the lock file alone, and make owners of owners. *)
LEMMA LockKept ==
    ASSUME TypeOK, LockInv, UNCHANGED lock,
           \A q \in Processes :
               \/ stage'[q] = stage[q]
               \/ stage[q] \in {"starting", "running", "quitting"} /\ stage'[q] \in {"running", "quitting"}
    PROVE  LockInv'
  BY DEF LockInv, lock, Owners, HasFile

LEMMA LockStep == TypeOK /\ LockInv /\ [Next]_vars => LockInv'
<1> SUFFICES ASSUME TypeOK, LockInv, [Next]_vars PROVE LockInv'
  OBVIOUS
<1> USE DEF HasFile
<1>1. ASSUME NEW p \in Processes, Open(p) PROVE LockInv'
  <2>1. PICK i \in Inodes : /\ i = path \/ path = NoFile
                            /\ path' = i /\ fd' = [fd EXCEPT ![p] = i]
    BY <1>1 DEF Open, Unused, TypeOK
  <2>2. stage[p] = "idle" /\ stage' = [stage EXCEPT ![p] = "opening"] /\ UNCHANGED <<holder, torn>>
    BY <1>1 DEF Open
  <2>3. torn = "no" => \A q \in Processes : stage[q] \in HasFile => fd[q] = i
    BY <2>1, StateFileAssumption DEF LockInv
  <2> QED
    BY <2>1, <2>2, <2>3 DEF LockInv, Owners, TypeOK
<1>2. ASSUME NEW p \in Processes, Lock(p) PROVE LockInv'
  <2>1. fd[p] \in Inodes
    BY <1>2 DEF Lock, LockInv
  <2>2. \A q \in Owners : fd[q] # fd[p]
    BY <1>2, StateFileAssumption DEF Lock, LockInv, Owners
  <2> QED
    BY <1>2, <2>1, <2>2 DEF Lock, LockInv, Owners, TypeOK
<1>3. ASSUME NEW p \in Processes, Refused(p) PROVE LockInv'
  BY <1>3 DEF Refused, LockInv, Owners, TypeOK
<1>4. ASSUME NEW p \in Processes, Unlock(p) PROVE LockInv'
  <2>1. holder[fd[p]] = p /\ fd[p] \in Inodes
    BY <1>4 DEF Unlock, LockInv, Owners
  <2>2. \A q \in Owners : q # p => fd[q] # fd[p]
    BY <2>1 DEF LockInv
  <2> QED
    BY <1>4, <2>1, <2>2 DEF Unlock, LockInv, Owners, TypeOK
<1>5. ASSUME NEW p \in Processes, Remove(p) PROVE LockInv'
  <2>1. /\ stage[p] = "unlocked" /\ stage' = [stage EXCEPT ![p] = "gone"]
        /\ fd' = [fd EXCEPT ![p] = NoFile] /\ holder' = holder /\ path' = NoFile
    BY <1>5 DEF Remove, Forgotten
  <2>2. ASSUME torn' = "no", NEW q \in Processes, stage[q] \in HasFile PROVE FALSE
    <3>1. ~\E x \in Processes : fd[x] = path /\ path # NoFile /\ stage[x] # "unlocked"
      BY <1>5, <2>2 DEF Remove
    <3>2. torn = "no"
      BY <1>5, <2>2 DEF Remove, TypeOK
    <3>3. fd[q] = path /\ fd[q] \in Inodes
      BY <2>2, <3>2 DEF LockInv
    <3> QED
      BY <2>2, <3>1, <3>3, StateFileAssumption
  <2> QED
    BY <2>1, <2>2 DEF LockInv, Owners, TypeOK
<1>6. ASSUME NEW p \in Processes, Crash(p) PROVE LockInv'
  <2>1. /\ stage' = [stage EXCEPT ![p] = "gone"] /\ fd' = [fd EXCEPT ![p] = NoFile]
        /\ holder' = [i \in Inodes |-> IF holder[i] = p THEN NoOne ELSE holder[i]]
        /\ UNCHANGED <<path, torn>>
    BY <1>6 DEF Crash, Forgotten
  <2>2. \A q \in Owners : fd[q] \in Inodes
    BY DEF LockInv, Owners
  <2> QED
    BY <2>1, <2>2 DEF LockInv, Owners, TypeOK
<1>7. ASSUME NEW p \in Processes, PreflightEnds(p) PROVE LockInv'
  BY <1>7, LockKept DEF PreflightEnds, TypeOK
<1>8. ASSUME NEW p \in Processes, NEW offline \in BOOLEAN, NEW opened \in BOOLEAN, Start(p, offline, opened)
      PROVE  LockInv'
  BY <1>8, LockKept DEF Start, TypeOK
<1>9. ASSUME NEW p \in Processes, Loop(p) PROVE LockInv'
  <2>1. UNCHANGED lock /\ (stage' = stage \/ Quit(p))
    BY <1>9 DEF Loop, Change, Poll, PollRefused, SaveWindow, Quit, BeginSave, CommitSave, FailSave
  <2>2. Quit(p) => stage[p] = "running" /\ stage' = [stage EXCEPT ![p] = "quitting"]
    BY DEF Quit, Looping
  <2> QED
    BY <2>1, <2>2, LockKept DEF TypeOK
<1>10. CASE SiteMoves \/ (\E d \in Docs : Corrupt(d)) \/ UNCHANGED vars
  BY <1>10, LockKept DEF SiteMoves, Corrupt, vars
<1> QED
  BY <1>1, <1>2, <1>3, <1>4, <1>5, <1>6, <1>7, <1>8, <1>9, <1>10 DEF Next, Launch

(* One launch at a time owns the state files. *)
LEMMA Alone == TypeOK /\ LockInv => OneDesk
  BY DEF LockInv, OneDesk, Owners, HasFile

(* The guard holds "for the process lifetime", however many launches crash *)
(* (Lockfile::acquire).                                                    *)
THEOREM Guarded == Spec => []OneDesk
<1>1. TypeOK /\ LockInv /\ [Next]_vars => TypeOK' /\ LockInv'
  BY NextType, LockStep
<1> QED
  BY InitType, LockInit, <1>1, Alone, PTL DEF Spec

-----------------------------------------------------------------------------
(* The documents.  A launch that runs, or that saves, owns the files, and   *)
(* what it saves is what is dirty.                                         *)

Live(p) == stage[p] = "running" \/ todo[p] # {}

SaveInv ==
    \A p \in Processes :
        /\ todo[p] # {} => stage[p] \in {"running", "quitting"}
        /\ ~(stage[p] = "running" /\ todo[p] = {}) => todo[p] = dirty[p]
        /\ writing[p] = "yes" => todo[p] # {}

LEMMA SaveInit == Init => SaveInv
  BY DEF Init, SaveInv

LEMMA SaveStep == TypeOK /\ SaveInv /\ [Next]_vars => SaveInv'
<1> SUFFICES ASSUME TypeOK, SaveInv, [Next]_vars PROVE SaveInv'
  OBVIOUS
<1> USE DEF TypeOK, SaveInv, mind, saves
<1>1. ASSUME NEW p \in Processes, Open(p) \/ Lock(p) \/ Refused(p) \/ Unlock(p) PROVE SaveInv'
  BY <1>1 DEF Open, Lock, Refused, Unlock
<1>2. ASSUME NEW p \in Processes, Forgotten(p) PROVE SaveInv'
  BY <1>2 DEF Forgotten
<1>3. ASSUME NEW p \in Processes, PreflightEnds(p) PROVE SaveInv'
  BY <1>3 DEF PreflightEnds
<1>4. ASSUME NEW p \in Processes, NEW offline \in BOOLEAN, NEW opened \in BOOLEAN, Start(p, offline, opened)
      PROVE  SaveInv'
  BY <1>4 DEF Start
<1>5. ASSUME NEW p \in Processes, NEW c \in Changes, Change(p, c) PROVE SaveInv'
  BY <1>5 DEF Change, Looping
<1>6. ASSUME NEW p \in Processes, Poll(p) \/ PollRefused(p) PROVE SaveInv'
  BY <1>6 DEF Poll, PollRefused, Looping, Docs
<1>7. ASSUME NEW p \in Processes, SaveWindow(p) \/ Quit(p) PROVE SaveInv'
  BY <1>7 DEF SaveWindow, Quit, Looping, ToSave
<1>8. ASSUME NEW p \in Processes, BeginSave(p) PROVE SaveInv'
  BY <1>8 DEF BeginSave
<1>9. ASSUME NEW p \in Processes, writing[p] = "yes", Saved(p), UNCHANGED stage PROVE SaveInv'
  BY <1>9 DEF Saved
<1>10. ASSUME NEW p \in Processes, CommitSave(p) \/ FailSave(p) PROVE SaveInv'
  BY <1>9, <1>10 DEF CommitSave, FailSave
<1>11. CASE SiteMoves \/ (\E d \in Docs : Corrupt(d)) \/ UNCHANGED vars
  BY <1>11 DEF SiteMoves, Corrupt, vars
<1> QED
  BY <1>1, <1>2, <1>3, <1>4, <1>5, <1>6, <1>7, <1>8, <1>10, <1>11
     DEF Next, Launch, Loop, Remove, Crash

(* While no lock file is torn, one launch at most is live. *)
LEMMA OneLive ==
    ASSUME LockInv, SaveInv, TypeOK, torn = "no"
    PROVE  /\ \A p, q \in Processes : Live(p) /\ Live(q) => p = q
           /\ \A p, q \in Processes : Live(p) /\ q \in Owners => p = q
  BY Alone DEF OneDesk, Owners, Live, SaveInv

(* A torn lock file stays torn. *)
LEMMA TornStays == TypeOK /\ [Next]_vars /\ torn' = "no" => torn = "no"
  BY DEF TypeOK, Next, vars, Launch, Loop, lock, Open, Lock, Refused, Unlock, Remove, Crash, PreflightEnds,
         Start, Change, Poll, PollRefused, SaveWindow, Quit, BeginSave, CommitSave, FailSave, SiteMoves, Corrupt

(* The temporary file of a save is the one this launch filled. *)
WholeInv ==
    torn = "no" =>
        /\ \A p \in Processes : writing[p] = "yes" => temp[NextSave(todo[p])] = p
        /\ \A d \in Docs : disk[d].state # "partial"

LEMMA WholeInit == Init => WholeInv
  BY DEF Init, WholeInv, Nothing

LEMMA WholeStep == TypeOK /\ LockInv /\ SaveInv /\ WholeInv /\ [Next]_vars => WholeInv'
<1> SUFFICES ASSUME TypeOK, LockInv, SaveInv, WholeInv, [Next]_vars, torn' = "no" PROVE WholeInv'
  BY DEF WholeInv
<1>0. torn = "no"
  BY TornStays
<1> USE <1>0 DEF WholeInv, files, mind, saves
<1>1. ASSUME NEW p \in Processes, Open(p) \/ Lock(p) \/ Refused(p) \/ Unlock(p) \/ PreflightEnds(p) PROVE WholeInv'
  BY <1>1 DEF Open, Lock, Refused, Unlock, PreflightEnds
<1>2. ASSUME NEW p \in Processes, Forgotten(p), UNCHANGED files PROVE WholeInv'
  BY <1>2 DEF Forgotten, TypeOK
<1>3. ASSUME NEW p \in Processes, NEW offline \in BOOLEAN, NEW opened \in BOOLEAN, Start(p, offline, opened)
      PROVE  WholeInv'
  <2>1. \A d \in Docs : disk'[d] = Nothing \/ disk'[d] = disk[d]
    BY <1>3 DEF Start, Recover
  <2> QED
    BY <1>3, <2>1 DEF Start, Nothing
<1>4. ASSUME NEW p \in Processes, NEW c \in Changes, Change(p, c) PROVE WholeInv'
  BY <1>4 DEF Change
<1>5. ASSUME NEW p \in Processes, Poll(p) \/ PollRefused(p) PROVE WholeInv'
  BY <1>5 DEF Poll, PollRefused
<1>6. ASSUME NEW p \in Processes, SaveWindow(p) \/ Quit(p) PROVE WholeInv'
  BY <1>6 DEF SaveWindow, Quit, Looping, SaveInv, TypeOK
<1>7. ASSUME NEW p \in Processes, BeginSave(p) PROVE WholeInv'
  <2>1. \A q \in Processes : writing'[q] = "yes" => q = p
    BY <1>7, OneLive DEF BeginSave, SaveInv, Live, TypeOK
  <2>2. NextSave(todo[p]) \in Docs
    BY DEF NextSave, Docs
  <2> QED
    BY <1>7, <2>1, <2>2 DEF BeginSave, TypeOK
<1>8. ASSUME NEW p \in Processes, writing[p] = "yes", Saved(p) PROVE \A q \in Processes : writing'[q] # "yes"
  BY <1>8, OneLive DEF Saved, SaveInv, Live, TypeOK
<1>9. ASSUME NEW p \in Processes, CommitSave(p) PROVE WholeInv'
  <2>1. temp[NextSave(todo[p])] = p
    BY <1>9 DEF CommitSave
  <2>2. \A d \in Docs : disk'[d].state # "partial"
    BY <1>9, <2>1 DEF CommitSave, TypeOK, Stored
  <2> QED
    BY <1>8, <1>9, <2>2 DEF CommitSave
<1>10. ASSUME NEW p \in Processes, FailSave(p) PROVE WholeInv'
  BY <1>8, <1>10 DEF FailSave
<1>11. ASSUME NEW d \in Docs, Corrupt(d) PROVE WholeInv'
  BY <1>11 DEF Corrupt, TypeOK, Stored
<1>12. CASE SiteMoves \/ UNCHANGED vars
  BY <1>12 DEF SiteMoves, vars
<1> QED
  BY <1>1, <1>2, <1>3, <1>4, <1>5, <1>6, <1>7, <1>9, <1>10, <1>11, <1>12
     DEF Next, Launch, Loop, Remove, Crash, files

-----------------------------------------------------------------------------
(* Tables and boards.  Nothing shows more than the site has; a live launch  *)
(* has seen the saved tables, and when only the snapshot is left to save,   *)
(* the overlay on disk has seen what it will show.                          *)

PastInv ==
    /\ disk["snapshot"].version.tables <= site
    /\ \A p \in Processes : memory[p].tables <= site

SeenInv ==
    torn = "no" /\ failed = "no" =>
        /\ Usable("overlay") /\ Usable("snapshot")
               => disk["snapshot"].version.tables <= disk["overlay"].version.seen
        /\ \A p \in Processes : Live(p) =>
              /\ Usable("snapshot") => disk["snapshot"].version.tables <= memory[p].seen
              /\ "snapshot" \in dirty[p] => memory[p].tables <= memory[p].seen
              /\ "snapshot" \in dirty[p] /\ "overlay" \notin dirty[p] /\ Usable("overlay")
                     => memory[p].tables <= disk["overlay"].version.seen

LEMMA SeenInit == Init => PastInv /\ SeenInv
  BY StateFileAssumption DEF Init, PastInv, SeenInv, Live, Usable, Nothing, Blank, Docs

(* Numbers, not just versions. *)
LEMMA Numbers ==
    ASSUME TypeOK
    PROVE  /\ \A d \in Docs : disk[d].version.tables \in Nat /\ disk[d].version.seen \in Nat
           /\ \A p \in Processes : memory[p].tables \in Nat /\ memory[p].seen \in Nat
           /\ site \in Nat
  BY StateFileAssumption DEF TypeOK, Stored, Version

(* A launch that is forgotten is blank and not live. *)
LEMMA ForgottenBlank ==
    ASSUME TypeOK, NEW p \in Processes, Forgotten(p)
    PROVE  /\ memory' = [memory EXCEPT ![p] = Blank] /\ dirty' = [dirty EXCEPT ![p] = {}]
           /\ ~Live(p)' /\ \A q \in Processes : q # p => Live(q)' = Live(q)
  BY DEF TypeOK, Forgotten, Live

(* What Start shows, restores and recovers. *)
LEMMA Starts ==
    ASSUME TypeOK, PastInv, SaveInv, NEW p \in Processes, NEW offline \in BOOLEAN, NEW opened \in BOOLEAN,
           Start(p, offline, opened)
    PROVE  /\ memory'[p].tables = Shown(offline) /\ memory'[p].tables <= site
           /\ \A q \in Processes : q # p => memory'[q] = memory[q] /\ (Live(q)' <=> Live(q))
           /\ Usable("snapshot")' => Usable("snapshot") /\ disk'["snapshot"] = disk["snapshot"]
           /\ Usable("overlay")' => Usable("overlay") /\ disk'["overlay"] = disk["overlay"]
           /\ Usable("snapshot") => disk["snapshot"].version.tables <= Shown(offline)
           /\ \/ Usable("overlay") /\ memory'[p].seen = disk["overlay"].version.seen
              \/ memory'[p].seen = Shown(offline)
           /\ dirty' = dirty /\ dirty[p] = {} /\ UNCHANGED <<torn, failed, site>>
           /\ disk'["snapshot"].version.tables <= site
<1>1. Shown(offline) \in Nat /\ Shown(offline) <= site /\ site \in Nat
  BY Numbers DEF Shown, PastInv, Docs
<1>2. Usable("snapshot") => disk["snapshot"].version.tables <= Shown(offline)
  BY Numbers DEF Shown, PastInv, Docs
<1>3. /\ memory' = [memory EXCEPT ![p] = Restored(Shown(offline), opened)]
      /\ stage' = [stage EXCEPT ![p] = "running"] /\ todo' = todo /\ dirty' = dirty
      /\ stage[p] = "starting" /\ UNCHANGED <<torn, failed, site>>
  BY <1>1 DEF Start, lock, saves
<1>4. memory'[p] = Restored(Shown(offline), opened) /\ \A q \in Processes : q # p => memory'[q] = memory[q]
  BY <1>3 DEF TypeOK
<1>5. /\ Restored(Shown(offline), opened).tables = Shown(offline)
      /\ \/ Usable("overlay") /\ Restored(Shown(offline), opened).seen = disk["overlay"].version.seen
         \/ Restored(Shown(offline), opened).seen = Shown(offline)
  BY DEF Restored, TypeOK, Stored, Version, Docs
<1>6. \A d \in Docs : disk'[d] = Nothing \/ disk'[d] = disk[d]
  BY <1>1 DEF Start, Recover
<1>7. \A d \in Docs : disk'[d].state = "whole" => disk'[d] = disk[d]
  BY <1>6 DEF Nothing
<1>8. disk'["snapshot"].version.tables <= site
  BY <1>1, <1>6 DEF Nothing, Blank, PastInv, Docs
<1>9. \A q \in Processes : q # p => (Live(q)' <=> Live(q))
  BY <1>3 DEF Live, TypeOK
<1>10. dirty[p] = {}
  BY <1>3 DEF SaveInv
<1> QED
  BY <1>1, <1>2, <1>3, <1>4, <1>5, <1>7, <1>8, <1>9, <1>10 DEF Usable, Docs

(* What a save that ends does. *)
LEMMA Commits ==
    ASSUME TypeOK, SaveInv, NEW p \in Processes, CommitSave(p)
    PROVE  /\ Live(p)
           /\ \/ /\ "overlay" \in dirty[p] /\ dirty' = [dirty EXCEPT ![p] = @ \ {"overlay"}]
                 /\ disk'["snapshot"] = disk["snapshot"]
                 /\ disk'["overlay"].version.seen = memory[p].seen
                 /\ disk'["overlay"].version.changes = memory[p].changes
              \/ /\ "overlay" \notin dirty[p] /\ "snapshot" \in dirty[p]
                 /\ dirty' = [dirty EXCEPT ![p] = @ \ {"snapshot"}]
                 /\ disk'["overlay"] = disk["overlay"]
                 /\ disk'["snapshot"].version.tables = memory[p].tables
           /\ memory' = memory /\ UNCHANGED <<torn, failed, site, blind>>
           /\ \A q \in Processes : Live(q)' => Live(q)
<1>1. todo[p] # {} /\ todo[p] = dirty[p] /\ todo[p] \subseteq Docs
  BY DEF SaveInv, CommitSave, TypeOK
<1>2. \/ "overlay" \in todo[p] /\ NextSave(todo[p]) = "overlay"
      \/ "overlay" \notin todo[p] /\ "snapshot" \in todo[p] /\ NextSave(todo[p]) = "snapshot"
  BY <1>1 DEF NextSave, Docs
<1>3. /\ dirty' = [dirty EXCEPT ![p] = @ \ {NextSave(todo[p])}]
      /\ todo' = [todo EXCEPT ![p] = @ \ {NextSave(@)}]
      /\ disk' = [disk EXCEPT ![NextSave(todo[p])] =
                    [state |-> IF temp[NextSave(todo[p])] = p THEN "whole" ELSE "partial",
                     version |-> Written(NextSave(todo[p]), memory[p])]]
      /\ UNCHANGED <<stage, lock, memory, failed, site, blind>>
  BY DEF CommitSave, Saved
<1>4. /\ disk'[NextSave(todo[p])].version = Written(NextSave(todo[p]), memory[p])
      /\ \A d \in Docs : d # NextSave(todo[p]) => disk'[d] = disk[d]
  BY <1>2, <1>3 DEF TypeOK, Docs
<1>5. Written("snapshot", memory[p]).tables = memory[p].tables
  BY DEF Written, Blank
<1>6. /\ Written("overlay", memory[p]).seen = memory[p].seen
      /\ Written("overlay", memory[p]).changes = memory[p].changes
  <2>1. memory[p] \in Version
    BY DEF TypeOK
  <2> QED
    BY <2>1 DEF Written, Version
<1>7. \A q \in Processes : Live(q)' => Live(q)
  BY <1>3 DEF Live, TypeOK
<1> QED
  BY <1>1, <1>2, <1>3, <1>4, <1>5, <1>6, <1>7 DEF Live, Docs, lock

LEMMA PastStep == TypeOK /\ SaveInv /\ PastInv /\ [Next]_vars => PastInv'
<1> SUFFICES ASSUME TypeOK, SaveInv, PastInv, [Next]_vars PROVE PastInv'
  OBVIOUS
<1> USE DEF PastInv, files, mind
<1>1. ASSUME NEW p \in Processes, Open(p) \/ Lock(p) \/ Refused(p) \/ Unlock(p) \/ PreflightEnds(p) PROVE PastInv'
  BY <1>1 DEF Open, Lock, Refused, Unlock, PreflightEnds
<1>2. ASSUME NEW p \in Processes, Forgotten(p), UNCHANGED <<files, site>> PROVE PastInv'
  BY <1>2, ForgottenBlank, Numbers DEF Blank, TypeOK
<1>3. ASSUME NEW p \in Processes, NEW offline \in BOOLEAN, NEW opened \in BOOLEAN, Start(p, offline, opened)
      PROVE  PastInv'
  BY <1>3, Starts
<1>4. ASSUME NEW p \in Processes, NEW c \in Changes, Change(p, c) PROVE PastInv'
  BY <1>4 DEF Change, TypeOK, Version
<1>5. ASSUME NEW p \in Processes, Poll(p) PROVE PastInv'
  BY <1>5, Numbers DEF Poll, TypeOK, Version
<1>6. ASSUME NEW p \in Processes, PollRefused(p) \/ SaveWindow(p) \/ Quit(p) \/ BeginSave(p) \/ FailSave(p)
      PROVE  PastInv'
  BY <1>6 DEF PollRefused, SaveWindow, Quit, BeginSave, FailSave
<1>7. ASSUME NEW p \in Processes, CommitSave(p) PROVE PastInv'
  BY <1>7, Commits
<1>8. ASSUME NEW d \in Docs, Corrupt(d) PROVE PastInv'
  BY <1>8 DEF Corrupt, TypeOK, Stored, Docs
<1>9. CASE SiteMoves \/ UNCHANGED vars
  <2>1. disk' = disk /\ memory' = memory /\ site' \in {site, site + 1}
    BY <1>9 DEF SiteMoves, vars
  <2>2. \A n \in Nat : n <= site => n <= site'
    BY <2>1, Numbers
  <2> QED
    BY <2>1, <2>2, Numbers DEF Docs
<1> QED
  BY <1>1, <1>2, <1>3, <1>4, <1>5, <1>6, <1>7, <1>8, <1>9 DEF Next, Launch, Loop, Remove, Crash

LEMMA SeenStep == TypeOK /\ LockInv /\ SaveInv /\ PastInv /\ SeenInv /\ [Next]_vars => SeenInv'
<1> SUFFICES ASSUME TypeOK, LockInv, SaveInv, PastInv, SeenInv, [Next]_vars, torn' = "no", failed' = "no"
             PROVE  SeenInv'
  BY DEF SeenInv
<1>0. torn = "no"
  BY TornStays
<1> USE <1>0 DEF SeenInv, files, mind, saves, Usable
<1>1. ASSUME NEW p \in Processes, Open(p) \/ Lock(p) \/ Refused(p) \/ Unlock(p) \/ PreflightEnds(p) PROVE SeenInv'
  BY <1>1 DEF Open, Lock, Refused, Unlock, PreflightEnds, Live, TypeOK
<1>2. ASSUME NEW p \in Processes, Forgotten(p), UNCHANGED <<files, failed>> PROVE SeenInv'
  BY <1>2, ForgottenBlank DEF TypeOK
<1>3. ASSUME NEW p \in Processes, NEW offline \in BOOLEAN, NEW opened \in BOOLEAN, Start(p, offline, opened)
      PROVE  SeenInv'
  BY <1>3, Starts, Numbers DEF Docs
<1>4. ASSUME NEW p \in Processes, NEW c \in Changes, Change(p, c) PROVE SeenInv'
  <2>1. /\ \A q \in Processes : memory'[q].seen = memory[q].seen /\ memory'[q].tables = memory[q].tables
        /\ \A q \in Processes : Live(q)' => Live(q)
        /\ dirty' = [dirty EXCEPT ![p] = @ \cup {"overlay"}]
    BY <1>4 DEF Change, Live, TypeOK, Version
  <2> QED
    BY <1>4, <2>1 DEF Change, TypeOK
<1>5. ASSUME NEW p \in Processes, Poll(p) PROVE SeenInv'
  <2>1. /\ memory'[p].seen = site /\ memory'[p].tables = site
        /\ \A q \in Processes : q # p => memory'[q] = memory[q] /\ dirty'[q] = dirty[q]
        /\ \A q \in Processes : Live(q)' => Live(q)
        /\ "overlay" \in dirty'[p] /\ UNCHANGED <<disk, failed>>
    BY <1>5 DEF Poll, Live, TypeOK, Version, Docs
  <2>2. disk["snapshot"].version.tables <= site /\ site <= site
    BY Numbers DEF PastInv
  <2>3. failed = "no"
    BY <2>1
  <2> QED
    BY <2>1, <2>2, <2>3
<1>6. ASSUME NEW p \in Processes, PollRefused(p) PROVE SeenInv'
  <2>1. dirty' = [dirty EXCEPT ![p] = @ \cup {"overlay"}] /\ \A q \in Processes : Live(q)' => Live(q)
    BY <1>6 DEF PollRefused, Live
  <2> QED
    BY <1>6, <2>1 DEF PollRefused, TypeOK
<1>7. ASSUME NEW p \in Processes, SaveWindow(p) \/ Quit(p) PROVE SeenInv'
  <2>1. \A q \in Processes : Live(q)' => Live(q)
    BY <1>7 DEF SaveWindow, Quit, Looping, Live, TypeOK
  <2> QED
    BY <1>7, <2>1 DEF SaveWindow, Quit
<1>8. ASSUME NEW p \in Processes, BeginSave(p) PROVE SeenInv'
  BY <1>8 DEF BeginSave, Live
<1>9. ASSUME NEW p \in Processes, CommitSave(p) PROVE SeenInv'
  <2>1. \A q \in Processes : Live(q) => q = p
    BY <1>9, Commits, OneLive
  <2>2. memory[p] \in Version
    BY DEF TypeOK
  <2> QED
    BY <1>9, <2>1, <2>2, Commits, Numbers DEF Version, TypeOK
<1>10. ASSUME NEW p \in Processes, FailSave(p) PROVE SeenInv'
  <2>1. NextSave(todo[p]) # "overlay" /\ failed = "no"
    BY <1>10 DEF FailSave, TypeOK
  <2>2. "overlay" \in dirty'[p] \/ "overlay" \notin dirty[p]
    BY <1>10, <2>1 DEF FailSave, Saved, TypeOK
  <2>3. \A q \in Processes : dirty'[q] \subseteq dirty[q] /\ (q # p => dirty'[q] = dirty[q]) /\ (Live(q)' => Live(q))
    BY <1>10 DEF FailSave, Saved, TypeOK, Live
  <2> QED
    BY <1>10, <2>1, <2>2, <2>3 DEF FailSave
<1>11. ASSUME NEW d \in Docs, Corrupt(d) PROVE SeenInv'
  <2>1. \A x \in Docs : disk'[x].version = disk[x].version /\ (disk'[x].state = "whole" => disk[x].state = "whole")
    BY <1>11 DEF Corrupt, TypeOK, Stored
  <2> QED
    BY <1>11, <2>1 DEF Corrupt, Live, Docs
<1>12. CASE SiteMoves \/ UNCHANGED vars
  BY <1>12 DEF SiteMoves, vars, Live
<1> QED
  BY <1>1, <1>2, <1>3, <1>4, <1>5, <1>6, <1>7, <1>8, <1>9, <1>10, <1>11, <1>12
     DEF Next, Launch, Loop, Remove, Crash

(* Whatever crashed or failed, the next launch restores whole documents    *)
(* that fit each other (save_json_atomic, the order of the two saves).     *)
THEOREM DocumentsSound == Spec => []StateFilesSound
<1> DEFINE Inv == TypeOK /\ LockInv /\ SaveInv /\ WholeInv /\ PastInv /\ SeenInv
<1>1. Init => Inv
  BY InitType, LockInit, SaveInit, WholeInit, SeenInit
<1>2. Inv /\ [Next]_vars => Inv'
  BY NextType, LockStep, SaveStep, WholeStep, PastStep, SeenStep
<1>3. Inv => StateFilesSound
  BY DEF WholeInv, SeenInv, StateFilesSound, WholeDocuments, BoardSeesTables
<1> HIDE DEF Inv
<1> QED
  BY <1>1, <1>2, <1>3, PTL DEF Spec

-----------------------------------------------------------------------------
(* The operator's changes: a live launch that could read the overlay file   *)
(* holds everything the file holds.                                        *)

KeptInv ==
    torn = "no" => \A p \in Processes :
        Live(p) /\ p \notin blind /\ Usable("overlay")
            => disk["overlay"].version.changes \subseteq memory[p].changes

LEMMA KeptInit == Init => KeptInv
  BY DEF Init, KeptInv, Live

LEMMA KeptStep == TypeOK /\ LockInv /\ SaveInv /\ KeptInv /\ [Next]_vars => KeptInv'
<1> SUFFICES ASSUME TypeOK, LockInv, SaveInv, KeptInv, [Next]_vars, torn' = "no" PROVE KeptInv'
  BY DEF KeptInv
<1>0. torn = "no"
  BY TornStays
<1> USE <1>0 DEF KeptInv, files, mind, saves, Usable
<1>1. ASSUME NEW p \in Processes, Open(p) \/ Lock(p) \/ Refused(p) \/ Unlock(p) \/ PreflightEnds(p) PROVE KeptInv'
  BY <1>1 DEF Open, Lock, Refused, Unlock, PreflightEnds, Live, TypeOK
<1>2. ASSUME NEW p \in Processes, Forgotten(p), UNCHANGED files PROVE KeptInv'
  <2>1. blind' = blind \ {p}
    BY <1>2 DEF Forgotten
  <2> QED
    BY <1>2, <2>1, ForgottenBlank DEF TypeOK
<1>3. ASSUME NEW p \in Processes, NEW offline \in BOOLEAN, NEW opened \in BOOLEAN, Start(p, offline, opened)
      PROVE  KeptInv'
  <2>1. disk'["overlay"] = Nothing \/ disk'["overlay"] = disk["overlay"]
    BY <1>3 DEF Start, Recover, Docs
  <2>2. \A q \in Processes : q # p => memory'[q] = memory[q] /\ (Live(q)' => Live(q))
    BY <1>3 DEF Start, TypeOK, Live
  <2>3. p \in blind' \/ (opened /\ memory'[p] = Restored(Shown(offline), opened))
    BY <1>3 DEF Start, TypeOK
  <2>4. opened /\ disk["overlay"].state = "whole"
            => Restored(Shown(offline), opened).changes = disk["overlay"].version.changes
    BY DEF Restored, TypeOK, Stored, Version, Docs
  <2>5. blind \subseteq blind'
    BY <1>3 DEF Start
  <2> QED
    BY <2>1, <2>2, <2>3, <2>4, <2>5 DEF Nothing
<1>4. ASSUME NEW p \in Processes, NEW c \in Changes, Change(p, c) PROVE KeptInv'
  <2>1. /\ \A q \in Processes : memory[q].changes \subseteq memory'[q].changes
        /\ \A q \in Processes : Live(q)' => Live(q)
    BY <1>4 DEF Change, Live, TypeOK, Version
  <2> QED
    BY <1>4, <2>1 DEF Change
<1>5. ASSUME NEW p \in Processes, Poll(p) PROVE KeptInv'
  <2>1. /\ \A q \in Processes : memory'[q].changes = memory[q].changes
        /\ \A q \in Processes : Live(q)' => Live(q)
    BY <1>5 DEF Poll, Live, TypeOK, Version
  <2> QED
    BY <1>5, <2>1 DEF Poll
<1>6. ASSUME NEW p \in Processes, PollRefused(p) \/ BeginSave(p) PROVE KeptInv'
  BY <1>6 DEF PollRefused, BeginSave, Live
<1>7. ASSUME NEW p \in Processes, SaveWindow(p) \/ Quit(p) PROVE KeptInv'
  <2>1. \A q \in Processes : Live(q)' => Live(q)
    BY <1>7 DEF SaveWindow, Quit, Looping, Live, TypeOK
  <2> QED
    BY <1>7, <2>1 DEF SaveWindow, Quit
<1>8. ASSUME NEW p \in Processes, CommitSave(p) PROVE KeptInv'
  <2>1. \A q \in Processes : Live(q) => q = p
    BY <1>8, Commits, OneLive
  <2>2. memory[p] \in Version
    BY DEF TypeOK
  <2> QED
    BY <1>8, <2>1, <2>2, Commits DEF Version
<1>9. ASSUME NEW p \in Processes, FailSave(p) PROVE KeptInv'
  <2>1. \A q \in Processes : Live(q)' => Live(q)
    BY <1>9 DEF FailSave, Saved, Live, TypeOK
  <2> QED
    BY <1>9, <2>1 DEF FailSave
<1>10. ASSUME NEW d \in Docs, Corrupt(d) PROVE KeptInv'
  <2>1. /\ disk'["overlay"].version = disk["overlay"].version
        /\ disk'["overlay"].state = "whole" => disk["overlay"].state = "whole"
    BY <1>10 DEF Corrupt, TypeOK, Stored, Docs
  <2> QED
    BY <1>10, <2>1 DEF Corrupt, Live
<1>11. CASE SiteMoves \/ UNCHANGED vars
  BY <1>11 DEF SiteMoves, vars, Live
<1> QED
  BY <1>1, <1>2, <1>3, <1>4, <1>5, <1>6, <1>7, <1>8, <1>9, <1>10, <1>11
     DEF Next, Launch, Loop, Remove, Crash

(* A step that the overlay file is readable before and after takes nothing  *)
(* away from it.                                                           *)
LEMMA NothingTaken ==
    ASSUME TypeOK, SaveInv, KeptInv, [Next]_vars, Sighted, Sighted'
    PROVE  disk["overlay"].version.changes \subseteq disk'["overlay"].version.changes
<1> DEFINE Old == disk["overlay"].version.changes
           New == disk'["overlay"].version.changes
<1> USE DEF Sighted, Usable, files
<1>1. ASSUME NEW p \in Processes, CommitSave(p) PROVE Old \subseteq New
  <2>1. Old \subseteq memory[p].changes
    BY <1>1, Commits DEF KeptInv
  <2>2. memory[p] \in Version
    BY DEF TypeOK
  <2> QED
    BY <1>1, <2>1, <2>2, Commits DEF Version
<1>2. ASSUME NEW p \in Processes, NEW offline \in BOOLEAN, NEW opened \in BOOLEAN, Start(p, offline, opened)
      PROVE  Old \subseteq New
  <2>1. disk'["overlay"] = Nothing \/ disk'["overlay"] = disk["overlay"]
    BY <1>2 DEF Start, Recover, Docs
  <2> QED
    BY <2>1 DEF Nothing
<1>3. ASSUME NEW d \in Docs, Corrupt(d) PROVE Old \subseteq New
  BY <1>3 DEF Corrupt, TypeOK, Stored, Docs
<1>4. CASE UNCHANGED disk
  BY <1>4
<1>5. ASSUME NEW p \in Processes, Loop(p), ~CommitSave(p) PROVE UNCHANGED disk
  BY <1>5 DEF Loop, Change, Poll, PollRefused, SaveWindow, Quit, BeginSave, FailSave
<1>6. ASSUME NEW p \in Processes, Launch(p) PROVE UNCHANGED disk \/ \E offline, opened \in BOOLEAN : Start(p, offline, opened)
  BY <1>6 DEF Launch, Open, Lock, Refused, Unlock, Remove, Crash, PreflightEnds
<1>7. CASE SiteMoves \/ UNCHANGED vars
  BY <1>7 DEF SiteMoves, vars
<1> QED
  BY <1>1, <1>2, <1>3, <1>4, <1>5, <1>6, <1>7 DEF Next

(* What one launch saved the next one restores and saves again.            *)
THEOREM ChangesStay == Spec => ChangesKept
<1> DEFINE Inv == TypeOK /\ LockInv /\ SaveInv /\ KeptInv
<1>1. Init => Inv
  BY InitType, LockInit, SaveInit, KeptInit
<1>2. Inv /\ [Next]_vars => Inv'
  BY NextType, LockStep, SaveStep, KeptStep
<1>3. Inv /\ [Next]_vars
        => [Sighted /\ Sighted' => disk["overlay"].version.changes \subseteq disk'["overlay"].version.changes]_vars
  BY NothingTaken
<1> HIDE DEF Inv
<1> QED
  BY <1>1, <1>2, <1>3, PTL DEF Spec, ChangesKept

-----------------------------------------------------------------------------
(* The ranking. *)

RankingSpec == RankingInit /\ [][RankingNext]_rankVars

(* The types of the state. *)
LoopType == [pending : BOOLEAN, urgent : BOOLEAN, inflight : BOOLEAN,
             dispatched : Int, done : Int, cost : Int]
TurnType == [open : BOOLEAN, effect : {0, Routine, Immediate}, done : BOOLEAN]
HistoryType == [asked : Nat, sent : Nat, covered : Nat, saw : Seq(Nat), newest : Nat,
                over : BOOLEAN, outlived : BOOLEAN, lost : BOOLEAN]

RankingTypeOK ==
    /\ modal \in {"none", "picker", "refreshed", "other"}
    /\ rollout \in Nat /\ held \in Nat
    /\ turn \in TurnType /\ loop \in LoopType /\ history \in HistoryType
    /\ jobs \in Seq(Nat) /\ results \in Seq(Nat)
    /\ evaluator \in Int
    /\ evaluator \in Nat \cup {-1}
    /\ clock \in Nat /\ panics \in Nat

LEMMA RankingInitType == RankingInit => RankingTypeOK
<1> SUFFICES ASSUME RankingInit PROVE RankingTypeOK
  OBVIOUS
<1>1. LongAgo \in Int
  BY RankingAssumption DEF LongAgo
<1> QED
  BY <1>1 DEF RankingInit, RankingTypeOK, LoopType, TurnType, HistoryType, Waiting

-----------------------------------------------------------------------------
(* What a step does to the fields of the records. *)

(* A message opens the turn and counts what it asks for. *)
LEMMA AskFields ==
  ASSUME RankingTypeOK, NEW effect \in {0, Routine, Immediate}, Asks(effect)
  PROVE  /\ turn' \in TurnType /\ history' \in HistoryType
         /\ turn'.open /\ turn'.done = turn.done
         /\ turn'.effect >= turn.effect /\ turn'.effect >= effect
         /\ history'.asked = (IF effect > 0 THEN history.asked + 1 ELSE history.asked)
         /\ history'.sent = history.sent /\ history'.covered = history.covered
         /\ history'.saw = history.saw /\ history'.newest = history.newest
         /\ history'.over = history.over /\ history'.outlived = history.outlived
         /\ history'.lost = history.lost
<1>1. /\ turn' = [turn EXCEPT !.open = TRUE, !.effect = IF effect > @ THEN effect ELSE @]
      /\ history' = [history EXCEPT !.asked = IF effect > 0 THEN @ + 1 ELSE @]
  BY DEF Asks
<1>2. turn \in TurnType /\ history \in HistoryType
  BY DEF RankingTypeOK
<1>3. turn' \in TurnType /\ turn'.effect >= turn.effect /\ turn'.effect >= effect
  <2>1. CASE effect > turn.effect
    <3>1. turn' = [turn EXCEPT !.open = TRUE, !.effect = effect]
      BY <1>1, <1>2, <2>1 DEF TurnType
    <3> QED
      <4>1. effect \in Int /\ turn.effect \in Int
        BY <1>2 DEF TurnType, Routine, Immediate
      <4>2. turn' \in TurnType /\ turn'.effect = effect
        BY <1>2, <3>1 DEF TurnType
      <4> QED
        BY <2>1, <4>1, <4>2
  <2>2. CASE ~(effect > turn.effect)
    <3>1. turn' = [turn EXCEPT !.open = TRUE]
      BY <1>1, <1>2, <2>2 DEF TurnType
    <3> QED
      <4>1. effect \in Int /\ turn.effect \in Int
        BY <1>2 DEF TurnType, Routine, Immediate
      <4>2. turn' \in TurnType /\ turn'.effect = turn.effect
        BY <1>2, <3>1 DEF TurnType
      <4> QED
        BY <2>2, <4>1, <4>2
  <2> QED
    BY <2>1, <2>2
<1>4. turn'.open /\ turn'.done = turn.done
  BY <1>1, <1>2 DEF TurnType
<1>5. /\ history' \in HistoryType
      /\ history'.asked = (IF effect > 0 THEN history.asked + 1 ELSE history.asked)
  BY <1>1, <1>2 DEF HistoryType
<1>6. /\ history'.sent = history.sent /\ history'.covered = history.covered
      /\ history'.saw = history.saw /\ history'.newest = history.newest
  BY <1>1, <1>2 DEF HistoryType
<1>7. /\ history'.over = history.over /\ history'.outlived = history.outlived
      /\ history'.lost = history.lost
  BY <1>1, <1>2 DEF HistoryType
<1> QED
  BY <1>3, <1>4, <1>5, <1>6, <1>7

(* The loop's wishes at the end of a turn. *)
LEMMA NotedFields ==
  ASSUME RankingTypeOK
  PROVE  /\ Noted \in LoopType
         /\ Noted.inflight <=> loop.inflight /\ ~turn.done
         /\ Noted.pending <=> loop.pending \/ turn.effect = Routine
         /\ Noted.urgent <=> loop.urgent \/ turn.effect = Immediate
<1>1. /\ Answered \in LoopType /\ (Answered.inflight <=> loop.inflight /\ ~turn.done)
      /\ Answered.pending = loop.pending /\ Answered.urgent = loop.urgent
  <2>1. CASE turn.done
    <3>1. Answered = [loop EXCEPT !.inflight = FALSE, !.done = clock, !.cost = clock - loop.dispatched]
      BY <2>1 DEF Answered
    <3> QED
      <4>1. loop \in LoopType /\ clock \in Int /\ clock - loop.dispatched \in Int
        BY DEF RankingTypeOK, LoopType
      <4>2. Answered \in LoopType /\ ~Answered.inflight
        BY <3>1, <4>1 DEF LoopType
      <4>3. Answered.pending = loop.pending /\ Answered.urgent = loop.urgent
        BY <3>1, <4>1 DEF LoopType
      <4> QED
        BY <2>1, <4>2, <4>3
  <2>2. CASE ~turn.done
    <3>1. Answered = loop
      BY <2>2 DEF Answered
    <3> QED
      BY <2>2, <3>1 DEF RankingTypeOK, LoopType
  <2> QED
    BY <2>1, <2>2
<1> QED
  BY <1>1 DEF Noted, LoopType, RankingTypeOK, TurnType

(* A turn ends in one of three ways. *)
LEMMA EndFields ==
  ASSUME RankingTypeOK, EndTurn
  PROVE  /\ loop' \in LoopType /\ history' \in HistoryType /\ jobs' \in Seq(Nat)
         /\ turn' = Waiting
         /\ UNCHANGED <<deskSide, evaluator, results, clock, panics>>
         /\ history'.asked = history.asked /\ history'.newest = history.newest
         /\ \/ /\ ~Noted.inflight \/ history'.outlived
               /\ ~loop'.pending /\ ~loop'.urgent /\ loop'.inflight
               /\ jobs' = (IF evaluator = -1 THEN jobs ELSE Append(jobs, history.sent + 1))
               /\ history'.sent = history.sent + 1 /\ history'.covered = history.asked
               /\ history'.saw = Append(history.saw, history.asked) /\ ~history'.over
               /\ (history'.lost <=> history.lost \/ evaluator = -1)
               /\ history.outlived => history'.outlived
            \/ /\ ~Noted.inflight \/ history'.outlived
               /\ ~loop'.pending /\ ~loop'.urgent
               /\ jobs' = jobs /\ history'.sent = history.sent /\ history'.covered = history.asked
               /\ history'.saw = history.saw /\ history'.over /\ history'.lost = history.lost
               /\ history.outlived => history'.outlived
            \/ /\ (loop'.inflight <=> Noted.inflight) \/ history'.outlived
               /\ loop'.pending = Noted.pending /\ loop'.urgent = Noted.urgent
               /\ jobs' = jobs /\ history'.sent = history.sent /\ history'.covered = history.covered
               /\ history'.saw = history.saw /\ history'.over = history.over
               /\ history'.lost = history.lost
               /\ history.outlived => history'.outlived
<1> DEFINE l == Noted
<1>1. l \in LoopType
  BY NotedFields
<1>2. GivenUp(l) \in BOOLEAN /\ (MaySend(l) => ~l.inflight \/ GivenUp(l))
  BY <1>1 DEF GivenUp, MaySend, LoopType
<1>3. turn' = Waiting /\ UNCHANGED <<deskSide, evaluator, results, clock, panics>>
  BY DEF EndTurn
<1>4. CASE MaySend(l) /\ Dispatch(l)
  <2>1. /\ loop' \in LoopType /\ ~loop'.pending /\ ~loop'.urgent /\ loop'.inflight
    <3>1. Cleared(l) \in LoopType /\ ~Cleared(l).pending /\ ~Cleared(l).urgent
      BY <1>1 DEF Cleared, LoopType
    <3>2. loop' = [Cleared(l) EXCEPT !.inflight = TRUE, !.dispatched = clock] /\ clock \in Int
      BY <1>4 DEF Dispatch, RankingTypeOK
    <3> QED
      BY <3>1, <3>2 DEF LoopType
  <2>2. /\ history' \in HistoryType
        /\ history'.asked = history.asked /\ history'.newest = history.newest
        /\ history'.sent = history.sent + 1 /\ history'.covered = history.asked
        /\ history'.saw = Append(history.saw, history.asked) /\ ~history'.over
        /\ (history'.lost <=> history.lost \/ evaluator = -1)
        /\ (history'.outlived <=> history.outlived \/ GivenUp(l))
    <3> DEFINE seen == Append(history.saw, history.asked)
               lost == history.lost \/ evaluator = -1
               late == history.outlived \/ GivenUp(l)
    <3>1. history' = [history EXCEPT !.sent = history.sent + 1, !.covered = history.asked, !.saw = seen,
                                     !.over = FALSE, !.lost = lost, !.outlived = late]
      BY <1>4 DEF Dispatch
    <3>2. history \in HistoryType
      BY DEF RankingTypeOK
    <3>3. seen \in Seq(Nat) /\ history.sent + 1 \in Nat /\ lost \in BOOLEAN /\ late \in BOOLEAN
      BY <1>2, <3>2 DEF HistoryType
    <3> HIDE DEF seen, lost, late
    <3>4. history' \in HistoryType
      BY <3>1, <3>2, <3>3 DEF HistoryType
    <3>5. /\ history'.asked = history.asked /\ history'.newest = history.newest
          /\ history'.sent = history.sent + 1 /\ history'.covered = history.asked
          /\ history'.saw = seen /\ history'.over = FALSE
      BY <3>1, <3>2 DEF HistoryType
    <3>6. history'.lost = lost /\ history'.outlived = late
      BY <3>1, <3>2 DEF HistoryType
    <3> QED
      BY <3>4, <3>5, <3>6 DEF seen, lost, late
  <2>3. /\ jobs' = (IF evaluator = -1 THEN jobs ELSE Append(jobs, history.sent + 1))
        /\ jobs' \in Seq(Nat)
    BY <1>4 DEF Dispatch, RankingTypeOK, HistoryType
  <2> QED
    BY <1>2, <1>3, <1>4, <2>1, <2>2, <2>3
<1>5. CASE MaySend(l) /\ TooBig(l)
  <2>1. /\ loop' \in LoopType /\ ~loop'.pending /\ ~loop'.urgent
    BY <1>1, <1>5 DEF TooBig, Cleared, LoopType, RankingTypeOK
  <2>2. /\ history' \in HistoryType
        /\ history'.asked = history.asked /\ history'.newest = history.newest
        /\ history'.sent = history.sent /\ history'.covered = history.asked
        /\ history'.saw = history.saw /\ history'.over
        /\ history'.lost = history.lost
        /\ (history'.outlived <=> history.outlived \/ GivenUp(l))
    BY <1>2, <1>5 DEF TooBig, HistoryType, RankingTypeOK
  <2>3. jobs' = jobs /\ jobs' \in Seq(Nat)
    BY <1>5 DEF TooBig, RankingTypeOK
  <2> QED
    BY <1>2, <1>3, <1>5, <2>1, <2>2, <2>3
<1>6. CASE ~MaySend(l)
  <2>1. /\ loop' = [l EXCEPT !.inflight = @ /\ ~GivenUp(l)]
        /\ jobs' = jobs
        /\ history' = [history EXCEPT !.outlived = @ \/ GivenUp(l)]
    BY <1>6 DEF EndTurn
  <2>2. /\ loop' \in LoopType /\ loop'.pending = l.pending /\ loop'.urgent = l.urgent
        /\ (loop'.inflight <=> l.inflight /\ ~GivenUp(l))
    BY <1>1, <1>2, <2>1 DEF LoopType
  <2>3. /\ history' \in HistoryType
        /\ history'.asked = history.asked /\ history'.newest = history.newest
        /\ history'.sent = history.sent /\ history'.covered = history.covered
        /\ history'.saw = history.saw /\ history'.over = history.over
        /\ history'.lost = history.lost
        /\ (history'.outlived <=> history.outlived \/ GivenUp(l))
    BY <1>2, <2>1 DEF HistoryType, RankingTypeOK
  <2>4. jobs' \in Seq(Nat)
    BY <2>1 DEF RankingTypeOK
  <2>5. (loop'.inflight <=> l.inflight) \/ history'.outlived
    BY <1>2, <2>2, <2>3
  <2>6. history.outlived => history'.outlived
    BY <2>3
  <2> HIDE DEF l
  <2> QED
    BY <1>3, <2>1, <2>2, <2>3, <2>4, <2>5, <2>6 DEF l
<1> QED
  BY <1>4, <1>5, <1>6 DEF EndTurn

LEMMA TakeFields ==
  ASSUME RankingTypeOK, TakeResult
  PROVE  /\ turn' \in TurnType /\ history' \in HistoryType
         /\ turn'.open /\ turn'.done /\ turn'.effect = turn.effect
         /\ history'.newest = Head(results)
         /\ history'.asked = history.asked /\ history'.sent = history.sent
         /\ history'.covered = history.covered /\ history'.saw = history.saw
         /\ history'.over = history.over /\ history'.outlived = history.outlived
         /\ history'.lost = history.lost
<1>1. Head(results) \in Nat
  BY DEF TakeResult, RankingTypeOK
<1>2. /\ turn' = [turn EXCEPT !.open = TRUE, !.done = TRUE]
      /\ history' = [history EXCEPT !.newest = Head(results)]
  BY DEF TakeResult
<1> QED
  BY <1>1, <1>2 DEF RankingTypeOK, TurnType, HistoryType

LEMMA PanicFields ==
  ASSUME RankingTypeOK, EvaluatorPanics
  PROVE  /\ history' \in HistoryType
         /\ history'.asked = history.asked /\ history'.sent = history.sent
         /\ history'.covered = history.covered /\ history'.saw = history.saw
         /\ history'.newest = history.newest
         /\ history'.over = history.over /\ history'.outlived = history.outlived
         /\ history'.lost
  BY DEF EvaluatorPanics, RankingTypeOK, HistoryType

LEMMA RestartFields ==
  ASSUME RankingTypeOK, RestartEvaluator
  PROVE  /\ turn' \in TurnType /\ loop' \in LoopType
         /\ turn'.open /\ turn'.effect = turn.effect /\ turn'.done = turn.done
         /\ loop'.pending = loop.pending /\ loop'.urgent = loop.urgent
  BY DEF RestartEvaluator, RankingTypeOK, TurnType, LoopType

LEMMA StepType == RankingTypeOK /\ [RankingNext]_rankVars => RankingTypeOK'
<1> SUFFICES ASSUME RankingTypeOK, [RankingNext]_rankVars PROVE RankingTypeOK'
  OBVIOUS
<1>1. ASSUME NEW effect \in {0, Routine, Immediate}, Asks(effect),
             modal' \in {"none", "picker", "refreshed", "other"}, rollout' \in Nat, held' \in Nat
      PROVE  RankingTypeOK'
  <2>1. turn' \in TurnType /\ history' \in HistoryType
    BY <1>1, AskFields
  <2> QED
    BY <1>1, <2>1 DEF Asks, RankingTypeOK, evaluatorSide
<1>2. CASE \E effect \in {0, Routine, Immediate} : Message(effect)
  BY <1>1, <1>2 DEF Message, deskSide, RankingTypeOK
<1>3. CASE \E effect \in {0, Routine} : Closes(effect)
  BY <1>1, <1>3 DEF Closes, Release, RankingTypeOK
<1>4. CASE OpenPicker
  BY <1>1, <1>4 DEF OpenPicker, Release, RankingTypeOK
<1>5. CASE OpenOther
  BY <1>1, <1>5 DEF OpenOther, RankingTypeOK
<1>6. CASE ApplyReassign
  BY <1>1, <1>6 DEF ApplyReassign, RankingTypeOK
<1>7. CASE TakeResult
  <2>1. turn' \in TurnType /\ history' \in HistoryType
    BY <1>7, TakeFields
  <2>2. Head(results) \in Nat /\ Tail(results) \in Seq(Nat)
    BY <1>7 DEF TakeResult, RankingTypeOK
  <2> QED
    BY <1>7, <2>1, <2>2 DEF TakeResult, RankingTypeOK
<1>8. CASE EndTurn
  <2>1. /\ loop' \in LoopType /\ history' \in HistoryType /\ jobs' \in Seq(Nat)
        /\ turn' = Waiting /\ UNCHANGED <<deskSide, evaluator, results, clock, panics>>
    BY <1>8, EndFields
  <2>2. Waiting \in TurnType
    BY DEF Waiting, TurnType
  <2> QED
    BY <2>1, <2>2 DEF RankingTypeOK, deskSide
<1>9. CASE Take
  <2>1. jobs[Len(jobs)] \in Nat
    BY <1>9 DEF Take, RankingTypeOK
  <2> QED
    BY <1>9, <2>1 DEF Take, RankingTypeOK, deskSide
<1>10. CASE Publish
  BY <1>10 DEF Publish, RankingTypeOK, deskSide
<1>11. CASE EvaluatorPanics
  <2>1. history' \in HistoryType
    BY <1>11, PanicFields
  <2> QED
    BY <1>11, <2>1 DEF EvaluatorPanics, RankingTypeOK, deskSide
<1>12. CASE RestartEvaluator
  <2>1. turn' \in TurnType /\ loop' \in LoopType
    BY <1>12, RestartFields
  <2> QED
    BY <1>12, <2>1 DEF RestartEvaluator, RankingTypeOK, deskSide
<1>13. CASE Passes
  BY <1>13 DEF Passes, RankingTypeOK, deskSide, evaluatorSide
<1>14. CASE UNCHANGED rankVars
  BY <1>14 DEF rankVars, RankingTypeOK
<1> QED
  BY <1>2, <1>3, <1>4, <1>5, <1>6, <1>7, <1>8, <1>9, <1>10, <1>11, <1>12, <1>13, <1>14 DEF RankingNext

(* Every state of the loop, the desk's side and the evaluator has its types. *)
THEOREM RankingTypes == RankingSpec => []RankingTypeOK
<1> QED
  BY RankingInitType, StepType, PTL DEF RankingSpec

-----------------------------------------------------------------------------
(* Single flight.  What is queued, worked on or unread is the evaluation    *)
(* the loop has in flight; once its result was read this turn nothing is.  *)

UnderWay == Len(jobs) + (IF evaluator > 0 THEN 1 ELSE 0) + Len(results)

FlightInv ==
    /\ evaluator = -1 => jobs = <<>>
    /\ ~history.outlived =>
         /\ UnderWay <= 1
         /\ UnderWay = 1 => loop.inflight /\ ~turn.done
         /\ evaluator = -1 => results = <<>>

LEMMA FlightInit == RankingInit => FlightInv
  BY DEF RankingInit, FlightInv, UnderWay

LEMMA FlightStep ==
  RankingTypeOK /\ RankingTypeOK' /\ FlightInv /\ [RankingNext]_rankVars => FlightInv'
<1> SUFFICES ASSUME RankingTypeOK, RankingTypeOK', FlightInv, [RankingNext]_rankVars PROVE FlightInv'
  OBVIOUS
<1>1. ASSUME UNCHANGED <<loop, jobs, evaluator, results>>,
             history'.outlived = history.outlived, turn'.done = turn.done
      PROVE  FlightInv'
  BY <1>1 DEF FlightInv, UnderWay
<1>2. ASSUME NEW effect \in {0, Routine, Immediate}, Asks(effect) PROVE FlightInv'
  <2>1. history'.outlived = history.outlived /\ turn'.done = turn.done
    BY <1>2, AskFields
  <2> QED
    BY <1>1, <1>2, <2>1 DEF Asks, evaluatorSide
<1>3. CASE TakeResult
  <2>1. history'.outlived = history.outlived
    BY <1>3, TakeFields
  <2>2. /\ Len(results) > 0 /\ Len(results') = Len(results) - 1
        /\ jobs' = jobs /\ evaluator' = evaluator
    BY <1>3 DEF TakeResult, RankingTypeOK
  <2>3. UnderWay' = UnderWay - 1
    BY <2>2 DEF UnderWay, RankingTypeOK
  <2>4. UnderWay >= 1 /\ (UnderWay <= 1 => UnderWay' = 0)
    BY <2>2, <2>3 DEF UnderWay, RankingTypeOK
  <2>5. ~history.outlived /\ evaluator = -1 => FALSE
    BY <2>2 DEF FlightInv, RankingTypeOK
  <2> QED
    BY <2>1, <2>2, <2>4, <2>5 DEF FlightInv
<1>4. CASE EndTurn
  <2>1. /\ evaluator' = evaluator /\ results' = results /\ turn'.done = FALSE
    BY <1>4, EndFields DEF Waiting
  <2>2. Noted.inflight <=> loop.inflight /\ ~turn.done
    BY NotedFields
  <2>3. history.outlived => history'.outlived
    BY <1>4, EndFields
  <2>4. CASE /\ ~Noted.inflight \/ history'.outlived
             /\ loop'.inflight
             /\ jobs' = (IF evaluator = -1 THEN jobs ELSE Append(jobs, history.sent + 1))
    <3>1. Len(jobs') = (IF evaluator = -1 THEN Len(jobs) ELSE Len(jobs) + 1)
      BY <2>4 DEF RankingTypeOK, HistoryType
    <3>2. ~history'.outlived => UnderWay <= 1 /\ UnderWay # 1
      BY <2>2, <2>3, <2>4 DEF FlightInv
    <3>7. Len(jobs) \in Nat /\ Len(results) \in Nat /\ Len(results') = Len(results)
      BY <2>1 DEF RankingTypeOK
    <3>8. Len(jobs') <= Len(jobs) + 1 /\ Len(jobs') \in Nat
      BY <3>1, <3>7
    <3>5. UnderWay \in Nat /\ UnderWay' <= UnderWay + 1
      BY <2>1, <3>7, <3>8 DEF UnderWay
    <3>3. ~history'.outlived => UnderWay = 0 /\ UnderWay' <= 1
      BY <3>2, <3>5
    <3>6. UnderWay = 0 => results = <<>>
      BY DEF UnderWay, RankingTypeOK
    <3>4. evaluator' = -1 => jobs' = <<>>
      BY <2>1, <2>4 DEF FlightInv
    <3> QED
      BY <2>1, <2>3, <2>4, <3>3, <3>4, <3>6 DEF FlightInv
  <2>5. CASE jobs' = jobs /\ (~Noted.inflight \/ history'.outlived)
    <3>1. ~history'.outlived => UnderWay <= 1 /\ UnderWay # 1
      BY <2>2, <2>3, <2>5 DEF FlightInv
    <3>2. UnderWay' = UnderWay
      BY <2>1, <2>5 DEF UnderWay
    <3> QED
      BY <2>1, <2>3, <2>5, <3>1, <3>2 DEF FlightInv
  <2>6. CASE jobs' = jobs /\ ((loop'.inflight <=> Noted.inflight) \/ history'.outlived)
    <3>1. UnderWay' = UnderWay
      BY <2>1, <2>6 DEF UnderWay
    <3> QED
      BY <2>1, <2>2, <2>3, <2>6, <3>1 DEF FlightInv
  <2> QED
    BY <1>4, <2>4, <2>5, <2>6, EndFields
<1>5. CASE Take
  <2>1. /\ evaluator = 0 /\ jobs # <<>> /\ Len(jobs') = 0 /\ jobs' = <<>> /\ evaluator' = jobs[Len(jobs)]
        /\ UNCHANGED <<turn, loop, results, history>>
    BY <1>5 DEF Take
  <2>2. Len(jobs) >= 1 /\ evaluator' >= 0
    BY <2>1 DEF RankingTypeOK
  <2>3. UnderWay' <= UnderWay
    BY <2>1, <2>2 DEF UnderWay, RankingTypeOK
  <2>4. UnderWay >= 1 /\ UnderWay \in Nat /\ UnderWay' \in Nat
    BY <2>1, <2>2 DEF UnderWay, RankingTypeOK
  <2> QED
    BY <2>1, <2>2, <2>3, <2>4 DEF FlightInv
<1>6. CASE Publish
  <2>1. /\ evaluator > 0 /\ evaluator' = 0 /\ Len(results') = Len(results) + 1
        /\ UNCHANGED <<turn, loop, jobs, history>>
    BY <1>6 DEF Publish, RankingTypeOK
  <2>2. UnderWay' = UnderWay
    BY <2>1 DEF UnderWay, RankingTypeOK
  <2> QED
    BY <2>1, <2>2 DEF FlightInv
<1>7. CASE EvaluatorPanics
  <2>1. /\ evaluator > 0 /\ evaluator' = -1 /\ jobs' = <<>> /\ Len(jobs') = 0
        /\ UNCHANGED <<turn, loop, results>>
    BY <1>7 DEF EvaluatorPanics, deskSide
  <2>2. history'.outlived = history.outlived
    BY <1>7, PanicFields
  <2>3. UnderWay' < UnderWay /\ UnderWay' \in Nat /\ UnderWay \in Nat
    BY <2>1 DEF UnderWay, RankingTypeOK
  <2>4. UnderWay <= 1 => results = <<>>
    BY <2>1 DEF UnderWay, RankingTypeOK
  <2> QED
    BY <2>1, <2>2, <2>3, <2>4 DEF FlightInv
<1>8. CASE RestartEvaluator
  <2>1. /\ evaluator = -1 /\ evaluator' = 0 /\ UNCHANGED <<jobs, results, history>>
    BY <1>8 DEF RestartEvaluator
  <2>2. ~history.outlived => UnderWay' = 0
    BY <2>1 DEF FlightInv, UnderWay
  <2> QED
    BY <2>1, <2>2 DEF FlightInv
<1>9. CASE Passes \/ UNCHANGED rankVars
  BY <1>1, <1>9 DEF Passes, rankVars, evaluatorSide
<1> QED
  BY <1>2, <1>3, <1>4, <1>5, <1>6, <1>7, <1>8, <1>9
  DEF RankingNext, Message, Closes, OpenPicker, OpenOther, ApplyReassign

(* While no evaluation outlived the timeout, one at most is queued, running *)
(* or unread.                                                              *)
THEOREM SingleFlight == RankingSpec => []OneEvaluation
<1>1. RankingInit => RankingTypeOK /\ FlightInv
  BY RankingInitType, FlightInit
<1>2. RankingTypeOK /\ FlightInv /\ [RankingNext]_rankVars => RankingTypeOK' /\ FlightInv'
  BY StepType, FlightStep
<1>3. FlightInv => OneEvaluation
  BY DEF FlightInv, OneEvaluation, UnderWay
<1> QED
  BY <1>1, <1>2, <1>3, PTL DEF RankingSpec

-----------------------------------------------------------------------------
(* Requests.  A wish that is not dispatched is with the turn or the loop;   *)
(* the last dispatch covers everything asked before it, and is the last     *)
(* one anywhere between the loop and the desk.                             *)

WishInv ==
    /\ history.covered <= history.asked
    /\ history.asked > history.covered =>
         loop.pending \/ loop.urgent \/ (turn.open /\ turn.effect > 0)
    /\ Len(history.saw) = history.sent
    /\ history.covered > 0 /\ ~history.over =>
         history.sent > 0 /\ history.saw[history.sent] = history.covered

LastInv ==
    ~history.lost =>
        /\ evaluator >= 0
        /\ jobs # <<>> => jobs[Len(jobs)] = history.sent /\ history.sent > 0
        /\ jobs = <<>> /\ evaluator > 0 => evaluator = history.sent
        /\ jobs = <<>> /\ evaluator = 0 /\ results # <<>> => results[Len(results)] = history.sent
        /\ jobs = <<>> /\ evaluator = 0 /\ results = <<>> => history.newest = history.sent

LEMMA RequestsInit == RankingInit => WishInv /\ LastInv
  BY DEF RankingInit, WishInv, LastInv, Waiting

LEMMA WishStep ==
  RankingTypeOK /\ RankingTypeOK' /\ WishInv /\ [RankingNext]_rankVars => WishInv'
<1> SUFFICES ASSUME RankingTypeOK, RankingTypeOK', WishInv, [RankingNext]_rankVars PROVE WishInv'
  OBVIOUS
<1> USE DEF Routine, Immediate
<1>0. /\ history.asked \in Nat /\ history.covered \in Nat /\ history.sent \in Nat
      /\ history.saw \in Seq(Nat) /\ turn.effect \in {0, 1, 2}
  BY DEF RankingTypeOK, HistoryType, TurnType
<1>1. ASSUME history'.asked = history.asked, history'.sent = history.sent,
             history'.covered = history.covered, history'.saw = history.saw,
             history'.over = history.over, turn'.open \/ turn'.open = turn.open,
             turn'.effect = turn.effect, loop'.pending = loop.pending, loop'.urgent = loop.urgent
      PROVE  WishInv'
  BY <1>1 DEF WishInv
<1>2. ASSUME NEW effect \in {0, Routine, Immediate}, Asks(effect) PROVE WishInv'
  <2>1. /\ turn'.open /\ turn'.effect >= turn.effect /\ turn'.effect >= effect
        /\ history'.asked = (IF effect > 0 THEN history.asked + 1 ELSE history.asked)
        /\ history'.sent = history.sent /\ history'.covered = history.covered
        /\ history'.saw = history.saw /\ history'.over = history.over
    BY <1>2, AskFields
  <2>2. loop' = loop /\ turn'.effect \in {0, 1, 2}
    BY <1>2 DEF Asks, RankingTypeOK, TurnType
  <2>3. history'.covered <= history'.asked
    BY <1>0, <2>1 DEF WishInv
  <2>4. ASSUME history'.asked > history'.covered
        PROVE  loop'.pending \/ loop'.urgent \/ (turn'.open /\ turn'.effect > 0)
    <3>1. CASE effect > 0
      BY <2>1, <2>2, <3>1
    <3>2. CASE ~(effect > 0)
      BY <1>0, <2>1, <2>2, <2>4, <3>2 DEF WishInv
    <3> QED
      BY <3>1, <3>2
  <2> QED
    BY <2>1, <2>3, <2>4 DEF WishInv
<1>3. CASE TakeResult
  <2>1. loop' = loop
    BY <1>3 DEF TakeResult
  <2> QED
    BY <1>1, <1>3, <2>1, TakeFields
<1>4. CASE EndTurn
  <2>1. /\ Noted.pending <=> loop.pending \/ turn.effect = Routine
        /\ Noted.urgent <=> loop.urgent \/ turn.effect = Immediate
    BY NotedFields
  <2>2. history'.asked = history.asked
    BY <1>4, EndFields
  <2>3. CASE /\ history'.sent = history.sent + 1 /\ history'.covered = history.asked
             /\ history'.saw = Append(history.saw, history.asked)
    <3>1. /\ Len(history'.saw) = history'.sent /\ history'.sent > 0
          /\ history'.saw[history'.sent] = history'.covered
      BY <1>0, <2>3 DEF WishInv
    <3> QED
      BY <1>0, <2>2, <2>3, <3>1 DEF WishInv
  <2>4. CASE /\ history'.sent = history.sent /\ history'.covered = history.asked
             /\ history'.saw = history.saw /\ history'.over
    BY <1>0, <2>2, <2>4 DEF WishInv
  <2>5. CASE /\ loop'.pending = Noted.pending /\ loop'.urgent = Noted.urgent
             /\ history'.sent = history.sent /\ history'.covered = history.covered
             /\ history'.saw = history.saw /\ history'.over = history.over
    BY <1>0, <2>1, <2>2, <2>5 DEF WishInv
  <2> QED
    BY <1>4, <2>3, <2>4, <2>5, EndFields
<1>5. CASE Take \/ Publish \/ Passes \/ UNCHANGED rankVars
  BY <1>1, <1>5 DEF Take, Publish, Passes, rankVars
<1>6. CASE EvaluatorPanics
  <2>1. turn' = turn /\ loop' = loop
    BY <1>6 DEF EvaluatorPanics
  <2> QED
    BY <1>1, <1>6, <2>1, PanicFields
<1>7. CASE RestartEvaluator
  <2>1. history' = history
    BY <1>7 DEF RestartEvaluator
  <2> QED
    BY <1>1, <1>7, <2>1, RestartFields
<1> QED
  BY <1>2, <1>3, <1>4, <1>5, <1>6, <1>7
  DEF RankingNext, Message, Closes, OpenPicker, OpenOther, ApplyReassign

LEMMA LastStep ==
  RankingTypeOK /\ RankingTypeOK' /\ LastInv /\ [RankingNext]_rankVars => LastInv'
<1> SUFFICES ASSUME RankingTypeOK, RankingTypeOK', LastInv, [RankingNext]_rankVars PROVE LastInv'
  OBVIOUS
<1>1. ASSUME UNCHANGED <<jobs, evaluator, results>>, history'.sent = history.sent,
             history'.newest = history.newest, history'.lost = history.lost
      PROVE  LastInv'
  BY <1>1 DEF LastInv
<1>2. ASSUME NEW effect \in {0, Routine, Immediate}, Asks(effect) PROVE LastInv'
  <2>1. /\ history'.sent = history.sent /\ history'.newest = history.newest
        /\ history'.lost = history.lost
    BY <1>2, AskFields
  <2> QED
    BY <1>1, <1>2, <2>1 DEF Asks, evaluatorSide
<1>3. CASE TakeResult
  <2>1. /\ history'.newest = Head(results) /\ history'.sent = history.sent
        /\ history'.lost = history.lost
    BY <1>3, TakeFields
  <2>2. jobs' = jobs /\ evaluator' = evaluator /\ results # <<>> /\ results' = Tail(results)
    BY <1>3 DEF TakeResult
  <2>3. /\ results' # <<>> => results'[Len(results')] = results[Len(results)]
        /\ results' = <<>> => Head(results) = results[Len(results)]
    <3>1. results \in Seq(Nat) /\ Len(results) > 0 /\ Len(results') = Len(results) - 1
      BY <2>2 DEF RankingTypeOK
    <3>2. ASSUME results' # <<>> PROVE results'[Len(results')] = results[Len(results)]
      <4>1. Len(results') > 0
        BY <2>2, <3>1, <3>2
      <4> QED
        BY <2>2, <3>1, <4>1
    <3>3. ASSUME results' = <<>> PROVE Head(results) = results[Len(results)]
      <4>1. Len(results) = 1
        BY <3>1, <3>3
      <4> QED
        BY <3>1, <4>1
    <3> QED
      BY <3>2, <3>3
  <2> QED
    BY <2>1, <2>2, <2>3 DEF LastInv
<1>4. CASE EndTurn
  <2>1. /\ UNCHANGED <<evaluator, results>> /\ history'.newest = history.newest
    BY <1>4, EndFields
  <2>2. CASE /\ jobs' = (IF evaluator = -1 THEN jobs ELSE Append(jobs, history.sent + 1))
             /\ history'.sent = history.sent + 1
             /\ history'.lost <=> history.lost \/ evaluator = -1
    <3>1. CASE evaluator = -1
      BY <2>2, <3>1 DEF LastInv
    <3>2. CASE evaluator # -1
      <4>1. jobs' # <<>> /\ jobs'[Len(jobs')] = history'.sent /\ history'.sent > 0
        <5>1. jobs \in Seq(Nat) /\ history.sent + 1 \in Nat /\ jobs' = Append(jobs, history.sent + 1)
          BY <2>2, <3>2 DEF RankingTypeOK, HistoryType
        <5>2. Len(jobs') = Len(jobs) + 1 /\ jobs'[Len(jobs) + 1] = history.sent + 1
          BY <5>1
        <5> QED
          <6>1. history.sent \in Nat /\ Len(jobs) \in Nat
            BY DEF RankingTypeOK, HistoryType
          <6>2. history'.sent = history.sent + 1
            BY <2>2
          <6>3. history'.sent > 0 /\ jobs' # <<>>
            BY <5>2, <6>1, <6>2
          <6>4. jobs'[Len(jobs')] = history'.sent
            BY <5>2, <6>2
          <6> QED
            BY <6>3, <6>4
      <4> QED
        BY <2>1, <2>2, <3>2, <4>1 DEF LastInv
    <3> QED
      BY <3>1, <3>2
  <2>3. CASE jobs' = jobs /\ history'.sent = history.sent /\ history'.lost = history.lost
    BY <1>1, <2>1, <2>3
  <2> QED
    BY <1>4, <2>2, <2>3, EndFields
<1>5. CASE Take
  <2>1. /\ jobs # <<>> /\ jobs' = <<>> /\ evaluator' = jobs[Len(jobs)]
        /\ UNCHANGED <<results, history>>
    BY <1>5 DEF Take
  <2>2. jobs[Len(jobs)] \in Nat
    BY <2>1 DEF RankingTypeOK
  <2>4. history.sent \in Nat
    BY DEF RankingTypeOK, HistoryType
  <2>3. ~history.lost => evaluator' = history.sent /\ evaluator' # 0
    BY <2>1, <2>4 DEF LastInv
  <2> QED
    BY <2>1, <2>2, <2>3 DEF LastInv
<1>6. CASE Publish
  <2>1. /\ evaluator > 0 /\ evaluator' = 0 /\ results' # <<>> /\ results'[Len(results')] = evaluator
        /\ UNCHANGED <<jobs, history>>
    BY <1>6 DEF Publish, RankingTypeOK
  <2> QED
    BY <2>1 DEF LastInv
<1>7. CASE EvaluatorPanics
  <2>1. history'.lost
    BY <1>7, PanicFields
  <2> QED
    BY <2>1 DEF LastInv
<1>8. CASE RestartEvaluator
  <2>1. evaluator = -1 /\ history' = history
    BY <1>8 DEF RestartEvaluator
  <2> QED
    BY <2>1 DEF LastInv
<1>9. CASE Passes \/ UNCHANGED rankVars
  BY <1>1, <1>9 DEF Passes, rankVars, evaluatorSide
<1> QED
  BY <1>2, <1>3, <1>4, <1>5, <1>6, <1>7, <1>8, <1>9
  DEF RankingNext, Message, Closes, OpenPicker, OpenOther, ApplyReassign

(* Nothing asked for is forgotten, and once nothing is under way a ranking  *)
(* that saw every request has arrived.                                     *)
THEOREM RequestsAnswered == RankingSpec => []RequestsMet
<1>1. RankingInit => RankingTypeOK /\ WishInv /\ LastInv
  BY RankingInitType, RequestsInit
<1>2. RankingTypeOK /\ WishInv /\ LastInv /\ [RankingNext]_rankVars
        => RankingTypeOK' /\ WishInv' /\ LastInv'
  BY StepType, WishStep, LastStep
<1>3. RankingTypeOK /\ WishInv /\ LastInv => RequestsMet
  <2> SUFFICES ASSUME RankingTypeOK, WishInv, LastInv, ~turn.open
               PROVE  /\ history.asked > history.covered => loop.pending \/ loop.urgent
                      /\ ~loop.pending /\ ~loop.urgent /\ jobs = <<>> /\ evaluator = 0 /\ results = <<>>
                             /\ history.asked > 0 /\ ~history.over /\ ~history.lost
                         => history.newest > 0 /\ history.saw[history.newest] = history.asked
    BY DEF RequestsMet
  <2>1. history.asked > history.covered => loop.pending \/ loop.urgent
    BY DEF WishInv
  <2>2. history.asked \in Nat /\ history.covered \in Nat
    BY DEF RankingTypeOK, HistoryType
  <2>3. ~loop.pending /\ ~loop.urgent => history.covered = history.asked
    BY <2>1, <2>2 DEF WishInv
  <2> QED
    BY <2>1, <2>2, <2>3 DEF WishInv, LastInv
<1> QED
  BY <1>1, <1>2, <1>3, PTL DEF RankingSpec
==============================================================================
