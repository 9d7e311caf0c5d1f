------------------------------ MODULE SessionProofs ----------------------------
(***************************************************************************)
(* Theorems about what surrounds the desk, for any number of worlds,       *)
(* events, requests, faults, launches and keys: the browser's documents,   *)
(* the launches of the program and the operator's console.                 *)
(***************************************************************************)
EXTENDS Startup, Console, WebDesk, Inductions

-----------------------------------------------------------------------------
(* Launches *)

StartupSpec == StartupInit /\ [][StartupNext]_launchVars

(* A process that was launched: a record that every step keeps whole, with *)
(* one outcome for each event heard so far.                                *)
Early  == {"seeding", "structure", "sets", "characters", "verdict", "probe"}
Judged == {"verdict", "probe", "opening", "running", "saving"}
Fields ==
    {"phase", "kind", "conf", "cli", "at", "seeded", "waits", "got", "denied", "armed", "escalate",
     "board", "base", "from"}
Heard ==
    [how : {"asked", "failed", "offline", "ready"}, named : BOOLEAN, cast : Casts \union {None, Placeholder}]

(* What arming writes takes. *)
Clear(d) ==
    /\ ~d.cli.advisor /\ ~d.conf.advisor
    /\ \A i \in DOMAIN d.got : d.got[i].how = "ready"
    /\ \A i, j \in DOMAIN d.got :
          d.got[i].named /\ d.got[j].named => HomeOf[d.conf.events[i]] = HomeOf[d.conf.events[j]]
    /\ d.conf.pin # None =>
          \A i \in DOMAIN d.got : d.got[i].named => HomeOf[d.conf.events[i]] = d.conf.pin

LaunchOK(d) ==
    /\ DOMAIN d = Fields
    /\ d.phase \in Early \union Judged
    /\ d.got \in Seq(Heard) /\ d.at \in Nat \ {0}
    /\ \A e \in DOMAIN d.seeded : d.seeded[e] \in Casts
    /\ d.phase = "seeding" => d.got = <<>>
    /\ d.phase = "structure" => Len(d.got) = d.at - 1
    /\ d.phase \in {"sets", "characters"} => Len(d.got) = d.at
    /\ d.phase \in Judged => Len(d.got) = Len(d.conf.events)
    /\ d.phase \in Early => d.armed = FALSE
    /\ d.phase = "probe" => Clear(d)
    /\ d.armed => Clear(d) /\ ~d.denied

StartInv ==
    /\ \A key \in DOMAIN rosters : rosters[key] \in Casts
    /\ desk = Off \/ desk.phase = "generating" \/ LaunchOK(desk)

(* Without a mismatch, the events that named their tournament agree. *)
LEMMA NoMismatch ==
  ASSUME LaunchOK(desk), ~Mismatch, ProxyArmed
  PROVE  Clear(desk)
<1>1. DOMAIN desk.got \subseteq Nat
  BY DEF LaunchOK
<1>2. ~desk.cli.advisor /\ ~desk.conf.advisor /\ \A i \in DOMAIN desk.got : desk.got[i].how = "ready"
  BY DEF ProxyArmed, Ready
<1>3. \A i, j \in Named : HomeOf[desk.conf.events[i]] = HomeOf[desk.conf.events[j]]
  BY DEF Mismatch, HomeAt
<1>4. ASSUME desk.conf.pin # None, NEW i \in Named
      PROVE  HomeOf[desk.conf.events[i]] = desk.conf.pin
  <2>1. PICK m \in Named : \A j \in Named : m <= j
    BY <1>1, <1>4, FirstOf DEF Named
  <2> DEFINE m1 == CHOOSE n \in Named : \A j \in Named : n <= j
  <2>2. m1 \in Named
    BY <2>1
  <2>3. Agreed = HomeOf[desk.conf.events[m1]]
    BY <1>4 DEF Agreed, HomeAt
  <2>4. Agreed = desk.conf.pin
    BY <1>4 DEF Mismatch
  <2> HIDE DEF m1
  <2> QED
    BY <1>3, <1>4, <2>2, <2>3, <2>4
<1> QED
  BY <1>2, <1>3, <1>4 DEF Clear, Named

LEMMA Alive ==
  ASSUME StartInv, desk.phase \in Early \union Judged
  PROVE  LaunchOK(desk)
  BY DEF StartInv, Off, Early, Judged

LEMMA StartsClean == StartupInit => StartInv
  BY DEF StartupInit, StartInv

(* The next event, or the verdict. *)
LEMMA ReportOK ==
  ASSUME LaunchOK(desk), desk.phase \in {"structure", "sets", "characters"},
         NEW got \in Seq(Heard), Len(got) = desk.at
  PROVE  LaunchOK(Report(got))
<1> DEFINE next == IF desk.at = Len(desk.conf.events) THEN "verdict" ELSE "structure"
           d == [desk EXCEPT !.got = got, !.at = @ + 1, !.phase = next]
<1>1. Report(got) = d
  BY DEF Report
<1>2. /\ DOMAIN d = Fields /\ d.got = got /\ d.at = desk.at + 1 /\ d.phase = next
      /\ d.seeded = desk.seeded /\ d.conf = desk.conf /\ d.armed = desk.armed
  BY DEF LaunchOK, Fields
<1>3. desk.armed = FALSE /\ desk.at \in Nat \ {0} /\ \A e \in DOMAIN desk.seeded : desk.seeded[e] \in Casts
  BY DEF LaunchOK, Early
<1> HIDE DEF d
<1> QED
  BY <1>1, <1>2, <1>3 DEF LaunchOK, Early, Judged

LEMMA CastKinds ==
  ASSUME NEW e
  PROVE  CastOf(e) \in Casts \union {None}
  BY DEF CastOf

(* resolve_roster. *)
LEMMA SettleOK ==
  ASSUME StartInv, LaunchOK(desk), desk.phase \in {"sets", "characters"},
         NEW how \in {"failed", "offline", "ready"}, NEW fetched \in Casts \union {None, Placeholder},
         Saves(desk.kind) => fetched \in Casts \union {None},
         Settle(how, fetched)
  PROVE  StartInv'
<1> DEFINE key == CacheKey(desk.conf, Event)
           cached == Lookup(rosters, key)
           saved == fetched # None /\ Saves(desk.kind)
           cast == IF saved \/ cached = None THEN fetched ELSE cached
           got == [desk.got EXCEPT ![desk.at] = Outcome(how, @.named, cast)]
<1>1. rosters' = (IF saved THEN Put(rosters, key, fetched) ELSE rosters) /\ desk' = Report(got)
  BY DEF Settle
<1>2. cached \in Casts \union {None}
  BY DEF StartInv, Lookup
<1> HIDE DEF key, cached
<1>3. cast \in Casts \union {None, Placeholder}
  BY <1>2
<1>4. desk.got \in Seq(Heard) /\ Len(desk.got) = desk.at /\ desk.at \in DOMAIN desk.got
  BY DEF LaunchOK
<1>5. Outcome(how, desk.got[desk.at].named, cast) \in Heard
  <2>1. desk.got[desk.at].named \in BOOLEAN
    <3>1. desk.got[desk.at] \in Heard
      BY <1>4
    <3> QED
      BY <3>1 DEF Heard
  <2> HIDE DEF cast
  <2> QED
    BY <1>3, <2>1 DEF Outcome, Heard
<1>6. got \in Seq(Heard) /\ Len(got) = desk.at
  BY <1>4, <1>5
<1>7. LaunchOK(desk')
  <2> HIDE DEF got
  <2> QED
    BY <1>1, <1>6, ReportOK
<1>8. \A k \in DOMAIN rosters' : rosters'[k] \in Casts
  <2>1. CASE saved
    <3>1. fetched \in Casts /\ rosters' = Put(rosters, key, fetched)
      BY <1>1, <2>1
    <3> QED
      BY <3>1 DEF Put, StartInv
  <2>2. CASE ~saved
    BY <1>1, <2>2 DEF StartInv
  <2> QED
    BY <2>1, <2>2
<1> QED
  BY <1>7, <1>8 DEF StartInv

(* The preflight's requests. *)
LEMMA PausedOK ==
  ASSUME LaunchOK(desk)
  PROVE  LaunchOK(Paused)
<1>1. /\ DOMAIN Paused = Fields /\ Paused.got = desk.got /\ Paused.at = desk.at /\ Paused.phase = desk.phase
      /\ Paused.seeded = desk.seeded /\ Paused.conf = desk.conf /\ Paused.armed = desk.armed
      /\ Paused.cli = desk.cli /\ Paused.denied = desk.denied
  BY DEF LaunchOK, Fields, Paused
<1> QED
  BY <1>1 DEF LaunchOK, Clear

LEMMA StructureOK ==
  ASSUME StartInv, NEW answer \in Answers, AskStructure(answer)
  PROVE  StartInv'
<1>1. desk.phase = "structure" /\ UNCHANGED rosters
  BY DEF AskStructure
<1>2. LaunchOK(desk)
  BY <1>1, Alive DEF Early
<1>3. desk.got \in Seq(Heard) /\ Len(desk.got) = desk.at - 1 /\ desk.at \in Nat \ {0} /\ desk.armed = FALSE
  BY <1>1, <1>2 DEF LaunchOK, Early
<1>4. \/ desk' = Paused
      \/ \E named \in BOOLEAN :
            desk' = [desk EXCEPT !.phase = "sets", !.got = Append(@, Outcome("asked", named, None))]
      \/ \E how \in {"failed", "offline"} : desk' = Report(Append(desk.got, Outcome(how, FALSE, None)))
  <2>1. CASE Waits(answer)
    BY <2>1 DEF AskStructure, Waits
  <2>2. CASE ~Waits(answer) /\ answer \in {"ok", "nameless"}
    <3>1. desk' = [desk EXCEPT !.phase = "sets", !.got = Append(@, Outcome("asked", answer = "ok", None))]
      BY <2>2 DEF AskStructure
    <3> QED
      BY <3>1
  <2>3. CASE ~Waits(answer) /\ answer \notin {"ok", "nameless"}
    <3>1. \/ desk' = Report(Append(desk.got, Outcome("failed", FALSE, None)))
          \/ desk' = Report(Append(desk.got, Outcome("offline", FALSE, None)))
      BY <2>3 DEF AskStructure
    <3> QED
      BY <3>1
  <2> QED
    BY <2>1, <2>2, <2>3
<1>5. \A how \in {"asked", "failed", "offline"}, named \in BOOLEAN : Outcome(how, named, None) \in Heard
  BY DEF Outcome, Heard
<1> DEFINE Longer(x) == Append(desk.got, x)
<1>9. \A x \in Heard : Longer(x) \in Seq(Heard) /\ Len(Longer(x)) = desk.at
  BY <1>3
<1>6. CASE desk' = Paused
  BY <1>1, <1>2, <1>6, PausedOK DEF StartInv
<1>7. ASSUME NEW named \in BOOLEAN,
             desk' = [desk EXCEPT !.phase = "sets", !.got = Append(@, Outcome("asked", named, None))]
      PROVE  StartInv'
  <2> DEFINE got == Append(desk.got, Outcome("asked", named, None))
  <2>1. got \in Seq(Heard) /\ Len(got) = desk.at
    <3>1. Outcome("asked", named, None) \in Heard
      BY <1>5
    <3> QED
      BY <1>9, <3>1
  <2>2. desk' = [desk EXCEPT !.phase = "sets", !.got = got]
    BY <1>2, <1>7 DEF LaunchOK, Fields
  <2> HIDE DEF got
  <2>3. /\ DOMAIN desk' = Fields /\ desk'.got = got /\ desk'.at = desk.at /\ desk'.phase = "sets"
        /\ desk'.seeded = desk.seeded /\ desk'.armed = desk.armed
    BY <1>2, <2>2 DEF LaunchOK, Fields
  <2>4. LaunchOK(desk')
    BY <1>2, <1>3, <2>1, <2>3 DEF LaunchOK, Early, Judged
  <2> QED
    BY <1>1, <2>4 DEF StartInv
<1>8. ASSUME NEW how \in {"failed", "offline"}, desk' = Report(Append(desk.got, Outcome(how, FALSE, None)))
      PROVE  StartInv'
  <2> DEFINE got == Append(desk.got, Outcome(how, FALSE, None))
  <2>1. got \in Seq(Heard) /\ Len(got) = desk.at
    <3>1. Outcome(how, FALSE, None) \in Heard
      BY <1>5
    <3> QED
      BY <1>9, <3>1
  <2> HIDE DEF got
  <2>2. LaunchOK(Report(got))
    BY <1>1, <1>2, <2>1, ReportOK
  <2> QED
    BY <1>1, <1>8, <2>2 DEF StartInv, got
<1> QED
  BY <1>4, <1>6, <1>7, <1>8

LEMMA SetsOK ==
  ASSUME StartInv, NEW answer \in Answers, AskSets(answer)
  PROVE  StartInv'
<1>1. desk.phase = "sets"
  BY DEF AskSets
<1>2. LaunchOK(desk)
  BY <1>1, Alive DEF Early
<1>3. \/ desk' = Paused /\ UNCHANGED rosters
      \/ desk' = [desk EXCEPT !.phase = "characters"] /\ UNCHANGED rosters
      \/ \E how \in {"failed", "offline"} : Settle(how, None)
  BY DEF AskSets
<1>4. CASE desk' = [desk EXCEPT !.phase = "characters"] /\ UNCHANGED rosters
  <2>1. /\ DOMAIN desk' = Fields /\ desk'.got = desk.got /\ desk'.at = desk.at /\ desk'.phase = "characters"
        /\ desk'.seeded = desk.seeded /\ desk'.armed = desk.armed
    BY <1>2, <1>4 DEF LaunchOK, Fields
  <2>2. LaunchOK(desk')
    BY <1>1, <1>2, <2>1 DEF LaunchOK, Early, Judged
  <2> QED
    BY <1>4, <2>2 DEF StartInv
<1> QED
  BY <1>1, <1>2, <1>3, <1>4, PausedOK, SettleOK DEF StartInv

LEMMA CharactersOK ==
  ASSUME StartInv, NEW answer \in Answers, AskCharacters(answer)
  PROVE  StartInv'
<1>1. desk.phase = "characters"
  BY DEF AskCharacters
<1>2. LaunchOK(desk)
  BY <1>1, Alive DEF Early
<1>3. Characters(answer) \in Casts \union {None, Placeholder}
      /\ (Saves(desk.kind) => Characters(answer) \in Casts \union {None})
  BY <1>2, CastKinds DEF Characters, Saves, LaunchOK
<1>4. (desk' = Paused /\ UNCHANGED rosters) \/ Settle("ready", Characters(answer))
  BY DEF AskCharacters
<1> QED
  BY <1>1, <1>2, <1>3, <1>4, PausedOK, SettleOK DEF StartInv

(* A rehearsal's fetches. *)
LEMMA SeedOK ==
  ASSUME StartInv, NEW fetched, NEW characters, Seed(fetched, characters)
  PROVE  StartInv'
<1> DEFINE e == desk.conf.events[desk.at]
           cast == IF characters = "ok" THEN CastOf(e) ELSE None
           over == desk.at = Len(desk.conf.events)
           seeded == IF cast = None THEN desk.seeded ELSE Put(desk.seeded, e, cast)
           phase == IF over THEN "structure" ELSE "seeding"
           at == IF over THEN 1 ELSE desk.at + 1
<1>1. desk.phase = "seeding"
  BY DEF Seed
<1>2. LaunchOK(desk)
  BY <1>1, Alive DEF Early
<1>3. cast \in Casts \union {None}
  BY CastKinds
<1>4. CASE desk' = Off /\ UNCHANGED rosters
  BY <1>4 DEF StartInv
<1>5. CASE /\ rosters' = (IF cast = None THEN rosters ELSE Put(rosters, CacheKey(desk.conf, e), cast))
           /\ desk' = [desk EXCEPT !.seeded = seeded, !.phase = phase, !.at = at]
  <2> HIDE DEF e
  <2>1. \A k \in DOMAIN rosters' : rosters'[k] \in Casts
    <3>1. CASE cast = None
      BY <1>5, <3>1 DEF StartInv
    <3>2. CASE cast # None
      <4>1. cast \in Casts /\ rosters' = Put(rosters, CacheKey(desk.conf, e), cast)
        BY <1>3, <1>5, <3>2
      <4> QED
        BY <4>1 DEF Put, StartInv
    <3> QED
      BY <3>1, <3>2
  <2>2. \A k \in DOMAIN seeded : seeded[k] \in Casts
    <3>1. CASE cast = None
      BY <1>2, <3>1 DEF LaunchOK
    <3>2. CASE cast # None
      <4>1. cast \in Casts /\ seeded = Put(desk.seeded, e, cast)
        BY <1>3, <3>2
      <4> QED
        BY <1>2, <4>1 DEF Put, LaunchOK
    <3> QED
      BY <3>1, <3>2
  <2> HIDE DEF seeded
  <2>3. /\ DOMAIN desk' = Fields /\ desk'.got = desk.got /\ desk'.at = at /\ desk'.phase = phase
        /\ desk'.seeded = seeded /\ desk'.armed = desk.armed
    BY <1>2, <1>5 DEF LaunchOK, Fields
  <2>4. desk.got = <<>> /\ desk.armed = FALSE /\ desk.at \in Nat \ {0}
    BY <1>1, <1>2 DEF LaunchOK, Early
  <2>5. LaunchOK(desk')
    <3>1. <<>> \in Seq(Heard) /\ Len(<<>>) = 0
      OBVIOUS
    <3> QED
      BY <2>2, <2>3, <2>4, <3>1 DEF LaunchOK, Early, Judged
  <2> QED
    BY <2>1, <2>5 DEF StartInv
<1> QED
  BY <1>1, <1>2, <1>4, <1>5 DEF Seed, LaunchOK, Fields

(* The verdict, and the probe of the token. *)
LEMMA DecidedOK ==
  ASSUME LaunchOK(desk), desk.phase \in {"verdict", "probe"}, NEW may \in BOOLEAN, NEW no \in BOOLEAN,
         may => Clear(desk) /\ ~no
  PROVE  LaunchOK(Decided(may, no))
<1> DEFINE d == Decided(may, no)
<1>1. /\ DOMAIN d = Fields /\ d.got = desk.got /\ d.at = desk.at /\ d.phase = "opening"
      /\ d.seeded = desk.seeded /\ d.armed = may /\ d.denied = no /\ d.conf = desk.conf /\ d.cli = desk.cli
  BY DEF LaunchOK, Fields, Decided
<1>2. /\ desk.got \in Seq(Heard) /\ desk.at \in Nat \ {0} /\ Len(desk.got) = Len(desk.conf.events)
      /\ \A e \in DOMAIN desk.seeded : desk.seeded[e] \in Casts
  BY DEF LaunchOK, Judged
<1> HIDE DEF d
<1>3. Clear(desk) => Clear(d)
  BY <1>1 DEF Clear
<1>4. d.armed => Clear(d) /\ ~d.denied
  BY <1>1, <1>3
<1>5. d.phase \in Judged /\ d.phase \notin Early /\ d.phase \notin {"seeding", "structure", "sets", "characters", "probe"}
  BY <1>1 DEF Early, Judged
<1>6. LaunchOK(d)
  BY <1>1, <1>2, <1>4, <1>5 DEF LaunchOK
<1> QED
  BY <1>6 DEF d

LEMMA VerdictOK ==
  ASSUME StartInv, Verdict
  PROVE  StartInv'
<1>1. desk.phase = "verdict" /\ UNCHANGED rosters
  BY DEF Verdict
<1>2. LaunchOK(desk)
  BY <1>1, Alive DEF Early
<1>3. ProxyArmed \in BOOLEAN
  BY DEF ProxyArmed
<1>4. \/ desk' = Off
      \/ ~Fatal /\ ProxyArmed /\ desk' = [desk EXCEPT !.phase = "probe"]
      \/ ~Fatal /\ desk' = Decided(ProxyArmed, FALSE)
  BY DEF Verdict
<1>5. CASE ~Fatal /\ ProxyArmed /\ desk' = [desk EXCEPT !.phase = "probe"]
  <2>1. Clear(desk)
    BY <1>2, <1>5, NoMismatch DEF Fatal
  <2>2. /\ DOMAIN desk' = Fields /\ desk'.got = desk.got /\ desk'.at = desk.at /\ desk'.phase = "probe"
        /\ desk'.seeded = desk.seeded /\ desk'.armed = desk.armed /\ desk'.conf = desk.conf /\ desk'.cli = desk.cli
    BY <1>2, <1>5 DEF LaunchOK, Fields
  <2>3. desk.armed = FALSE /\ desk.got \in Seq(Heard) /\ Len(desk.got) = Len(desk.conf.events)
    BY <1>1, <1>2 DEF LaunchOK, Early, Judged
  <2>4. LaunchOK(desk')
    BY <1>2, <2>1, <2>2, <2>3 DEF LaunchOK, Early, Judged, Clear
  <2> QED
    BY <1>1, <2>4 DEF StartInv
<1>6. CASE ~Fatal /\ desk' = Decided(ProxyArmed, FALSE)
  <2>1. ProxyArmed => Clear(desk)
    BY <1>2, <1>6, NoMismatch DEF Fatal
  <2>2. LaunchOK(Decided(ProxyArmed, FALSE))
    BY <1>1, <1>2, <1>3, <2>1, DecidedOK
  <2> QED
    BY <1>1, <1>6, <2>2 DEF StartInv
<1> QED
  BY <1>1, <1>4, <1>5, <1>6 DEF StartInv

LEMMA ProbeOK ==
  ASSUME StartInv, NEW answer, ProbeAdmin(answer)
  PROVE  StartInv'
<1>1. desk.phase = "probe" /\ UNCHANGED rosters /\ desk' = Decided(answer \notin Denials, answer \in Denials)
  BY DEF ProbeAdmin
<1>2. LaunchOK(desk) /\ Clear(desk)
  BY <1>1, Alive DEF Early, LaunchOK
<1> DEFINE may == answer \notin Denials
           no == answer \in Denials
<1>3. may \in BOOLEAN /\ no \in BOOLEAN /\ (may => ~no)
  OBVIOUS
<1>4. desk' = Decided(may, no)
  BY <1>1
<1> HIDE DEF may, no
<1>5. LaunchOK(Decided(may, no))
  BY <1>1, <1>2, <1>3, DecidedOK
<1> QED
  BY <1>1, <1>4, <1>5 DEF StartInv

(* The session. *)
LEMMA SessionOK ==
  ASSUME LaunchOK(desk), desk.phase \in {"opening", "running", "saving"},
         DOMAIN desk' = Fields, desk'.phase \in {"running", "saving"},
         desk'.seeded = <<>> \/ desk'.seeded = desk.seeded, desk'.at = 1 \/ desk'.at = desk.at,
         desk'.conf = desk.conf, desk'.cli = desk.cli, desk'.got = desk.got,
         desk'.armed = desk.armed, desk'.denied = desk.denied
  PROVE  LaunchOK(desk')
<1>1. /\ desk.got \in Seq(Heard) /\ desk.at \in Nat \ {0} /\ Len(desk.got) = Len(desk.conf.events)
      /\ \A e \in DOMAIN desk.seeded : desk.seeded[e] \in Casts
      /\ desk.armed => Clear(desk) /\ ~desk.denied
  BY DEF LaunchOK, Judged
<1>2. \A e \in DOMAIN desk'.seeded : desk'.seeded[e] \in Casts
  BY <1>1
<1> QED
  BY <1>1, <1>2 DEF LaunchOK, Early, Judged, Clear

LEMMA OpenOK ==
  ASSUME StartInv, OpenDesk
  PROVE  StartInv'
<1> DEFINE saved == Lookup(overlays, Path)
           adopt == desk.cli.setups = None /\ saved # None /\ saved.board # <<>>
           board == IF adopt THEN saved.board ELSE Roster(desk.conf)
           base == CountsByType(board)
           from == IF adopt THEN saved.by ELSE None
<1>1. desk.phase = "opening" /\ UNCHANGED rosters
  BY DEF OpenDesk
<1>2. LaunchOK(desk)
  BY <1>1, Alive DEF Judged
<1>3. \/ desk' = Off
      \/ desk' = [desk EXCEPT !.phase = "running", !.seeded = <<>>, !.at = 1, !.board = board, !.base = base, !.from = from]
  BY DEF OpenDesk
<1> HIDE DEF board, base, from
<1>4. CASE desk' = [desk EXCEPT !.phase = "running", !.seeded = <<>>, !.at = 1, !.board = board, !.base = base, !.from = from]
  <2>1. /\ DOMAIN desk' = Fields /\ desk'.got = desk.got /\ desk'.at = 1 /\ desk'.phase = "running"
        /\ desk'.seeded = <<>> /\ desk'.armed = desk.armed /\ desk'.conf = desk.conf /\ desk'.cli = desk.cli
        /\ desk'.denied = desk.denied
    BY <1>2, <1>4 DEF LaunchOK, Fields
  <2>2. LaunchOK(desk')
    BY <1>1, <1>2, <2>1, SessionOK
  <2> QED
    BY <1>1, <2>2 DEF StartInv
<1> QED
  BY <1>1, <1>3, <1>4 DEF StartInv

LEMMA RunningOK ==
  ASSUME StartInv, ChangeStations \/ SaveBoard \/ \E quits \in BOOLEAN : SaveDefaults(quits)
  PROVE  StartInv'
<1>1. desk.phase \in {"running", "saving"} /\ UNCHANGED rosters
  BY DEF ChangeStations, SaveBoard, SaveDefaults
<1>2. LaunchOK(desk)
  BY <1>1, Alive DEF Judged
<1>3. \/ desk' = Off
      \/ \E board : desk' = [desk EXCEPT !.board = board] 
      \/ desk' = [desk EXCEPT !.phase = "saving"]
      \/ \E base : desk' = [desk EXCEPT !.phase = "running", !.base = base]
  <2>1. CASE ChangeStations
    BY <2>1 DEF ChangeStations
  <2>2. CASE SaveBoard
    BY <2>2 DEF SaveBoard
  <2>3. CASE \E quits \in BOOLEAN : SaveDefaults(quits)
    BY <2>3 DEF SaveDefaults
  <2> QED
    BY <2>1, <2>2, <2>3
<1>4. CASE desk' = Off
  BY <1>1, <1>4 DEF StartInv
<1>5. ASSUME desk' # Off PROVE LaunchOK(desk')
  <2>1. /\ DOMAIN desk' = Fields /\ desk'.got = desk.got /\ desk'.at = desk.at
        /\ desk'.phase \in {"running", "saving"}
        /\ desk'.seeded = desk.seeded /\ desk'.armed = desk.armed /\ desk'.conf = desk.conf /\ desk'.cli = desk.cli
        /\ desk'.denied = desk.denied
    BY <1>1, <1>2, <1>3, <1>5 DEF LaunchOK, Fields
  <2> QED
    BY <1>1, <1>2, <2>1, SessionOK
<1> QED
  BY <1>1, <1>4, <1>5 DEF StartInv

LEMMA LaunchedOK ==
  ASSUME StartInv, NEW kind, NEW via, NEW cli, Launch(kind, via, cli)
  PROVE  StartInv'
<1>1. PICK c : desk' = Begin(kind, c, cli)
  BY DEF Launch
<1>2. UNCHANGED rosters
  BY DEF Launch
<1>3. /\ DOMAIN desk' = Fields /\ desk'.phase \in {"seeding", "structure"} /\ desk'.got = <<>> /\ desk'.at = 1
      /\ desk'.seeded = <<>> /\ desk'.armed = FALSE
  BY <1>1 DEF Begin, Fields
<1>4. <<>> \in Seq(Heard) /\ Len(<<>>) = 0 /\ DOMAIN <<>> = {}
  OBVIOUS
<1>5. LaunchOK(desk')
  BY <1>3, <1>4 DEF LaunchOK, Early, Judged
<1> QED
  BY <1>2, <1>5 DEF StartInv

LEMMA StartStep == StartInv /\ [StartupNext]_launchVars => StartInv'
<1> SUFFICES ASSUME StartInv, [StartupNext]_launchVars PROVE StartInv'
  OBVIOUS
<1>1. CASE UNCHANGED launchVars
  BY <1>1 DEF launchVars, StartInv
<1>2. ASSUME NEW t, InitTournament(t) PROVE StartInv'
  BY <1>2 DEF InitTournament, StartInv
<1>3. CASE WriteConfig \/ Killed
  BY <1>3 DEF WriteConfig, Killed, StartInv
<1>4. CASE HandMapping \/ Bootstrap \/ \E s \in Slots : HandEdit(s)
  <2>1. UNCHANGED <<rosters, desk>>
    BY <1>4 DEF HandMapping, Bootstrap, HandEdit
  <2> QED
    BY <2>1 DEF StartInv
<1> QED
  BY <1>1, <1>2, <1>3, <1>4, LaunchedOK, SeedOK, StructureOK, SetsOK, CharactersOK, VerdictOK, ProbeOK,
     OpenOK, RunningOK DEF StartupNext

(* Writes are armed only on a desk that heard all of its events, at one    *)
(* tournament, the pinned one, and was told of no denial: whatever the     *)
(* answers, pauses and config edits (preflight, assert_tournament_identity,*)
(* resolve_admin_probe).                                                   *)
THEOREM ArmedIsAnswered == StartupSpec => []ArmedOnlyAnswered
<1>1. StartInv => ArmedOnlyAnswered
  <2> SUFFICES ASSUME StartInv, InSession, desk.armed PROVE ArmedOnlyAnswered
    BY DEF ArmedOnlyAnswered
  <2>1. LaunchOK(desk) /\ Clear(desk) /\ ~desk.denied /\ Len(desk.got) = Len(desk.conf.events)
    BY Alive DEF InSession, Judged, LaunchOK
  <2> QED
    BY <2>1 DEF ArmedOnlyAnswered, Clear, Named, HomeAt
<1> QED
  BY <1>1, StartsClean, StartStep, PTL DEF StartupSpec

(* No launch of any kind puts the fixtures' placeholder into the roster    *)
(* cache (resolve_roster, seed_fixture_from_live).                         *)
THEOREM CacheStaysReal == StartupSpec => []CacheIsReal
<1>1. StartInv => CacheIsReal
  BY StartupAssumption DEF StartInv, CacheIsReal
<1> QED
  BY <1>1, StartsClean, StartStep, PTL DEF StartupSpec
-----------------------------------------------------------------------------
(* What the launches leave behind *)

(* A cast is filed under its game, or under the event of a config that     *)
(* names no game.                                                          *)
Filed(key, cast) == cast \in Casts /\ (key = cast \/ (key \in Events /\ GameOf[key] = cast))

(* Who may have left a board at a path.                                    *)
WroteAt(by, path) == by.live = ~path.sim /\ (by.live /\ by.sure => by.home = path.tag)

(* What a process keeps of its own: the config it was launched with, the   *)
(* casts it was seeded with, the outcomes of its preflight, its board's    *)
(* author.                                                                 *)
Asking == {"seeding", "structure", "sets", "characters"}
Passed == {"probe", "opening", "running", "saving"}
Rooted(d) ==
    /\ Fits(d.conf) /\ d.conf.events # <<>>
    /\ d.from # None => WroteAt(d.from, PersistedPath(d.kind, d.conf))
SeedsOK(d) == \A e \in DOMAIN d.seeded : d.seeded[e] = CastOf(e)
Within(d) == d.phase \in Asking => d.at \in DOMAIN d.conf.events
CastOK(d, i, cached) ==
    /\ d.got[i].cast \in {None, Placeholder, CastOf(d.conf.events[i])}
    /\ d.got[i].cast = Placeholder => d.kind # "live" /\ CacheKey(d.conf, d.conf.events[i]) \notin cached
CastsOK(d, cached) == \A i \in DOMAIN d.got : CastOK(d, i, cached)
Pinned(d) ==
    d.phase \in Passed /\ d.conf.pin # None =>
        \A i \in DOMAIN d.got : d.got[i].named => HomeOf[d.conf.events[i]] = d.conf.pin
ProcessOK(d, cached) == Rooted(d) /\ SeedsOK(d) /\ Within(d) /\ CastsOK(d, cached) /\ Pinned(d)

ApartInv ==
    /\ \A s \in Slots : configs[s] # None => Fits(configs[s])
    /\ desk.phase = "generating" => desk.target \in Tournaments
    /\ \A key \in DOMAIN rosters : Filed(key, rosters[key])
    /\ \A p \in DOMAIN overlays : WroteAt(overlays[p].by, p)
    /\ desk.phase \in Early \union Judged => ProcessOK(desk, DOMAIN rosters)

(* Configs.                                                                *)
LEMMA AtKind ==
  ASSUME NEW t, NEW s \in Seq(Events)
  PROVE  At(t, s) \in Seq(Events)
<1> DEFINE n == Len(s)
           V == Seq(Events)
           Next(k, v) == IF HomeOf[s[k]] = t THEN Append(v, s[k]) ELSE v
           F == [x \in (1..n) \X V |-> Next(x[1], x[2])]
           Body(h) == [u \in SUBSET DOMAIN s |-> IF u = {} THEN <<>> ELSE Next(Max(u), h[u \ {Max(u)}])]
           c == CHOOSE h : h = Body(h)
<1>1. <<>> \in V /\ n \in Nat /\ DOMAIN s = 1..n
  OBVIOUS
<1>2. \A k \in 1..n, v \in V : Next(k, v) \in V
  OBVIOUS
<1>3. StaysIn(F, 1..n, V)
  BY <1>2 DEF StaysIn
<1>4. PICK h : FoldOver(h, F, <<>>, 1..n, Tops(n), V)
  <2> HIDE DEF F, n, V
  <2> QED
    BY <1>1, <1>3, LeftFold
<1>5. h = Body(h)
  <2>1. ASSUME NEW u \in SUBSET (1..n), u # {}
        PROVE  F[<<Tops(n)[u], h[u \ {Tops(n)[u]}]>>] = Next(Max(u), h[u \ {Max(u)}])
    <3>1. Tops(n)[u] \in 1..n /\ u \ {Tops(n)[u]} \in SUBSET (1..n) /\ Tops(n)[u] = Max(u)
      BY <1>1, <2>1, TopsPick DEF Tops
    <3>2. h[u \ {Tops(n)[u]}] \in V
      BY <1>4, <3>1 DEF FoldOver
    <3> HIDE DEF Next, n, V
    <3> QED
      BY <3>1, <3>2
  <2> HIDE DEF F, n, Next
  <2> QED
    BY <1>1, <1>4, <2>1 DEF FoldOver
<1>6. c = Body(c)
  <2> HIDE DEF Body
  <2> QED
    BY <1>5
<1>7. At(t, s) = c[1..n]
  <2> HIDE DEF n
  <2> QED
    BY <1>1 DEF At, FoldLeft, MapThenFoldSet
<1> HIDE DEF c
<1>8. c[1..0] = <<>>
  <2>1. 1..0 = {}
    OBVIOUS
  <2> QED
    BY <1>6, <2>1
<1>9. ASSUME NEW k \in 1..n PROVE c[1..k] = Next(k, c[1..(k - 1)])
  <2>1. (1..k) \in SUBSET (1..n) /\ 1..k # {} /\ Max(1..k) = k /\ (1..k) \ {k} = 1..(k - 1)
    <3> HIDE DEF n
    <3> QED
      BY <1>1, Uptos
  <2> HIDE DEF Next, n
  <2>2. c[1..k] = Body(c)[1..k]
    BY <1>6
  <2> QED
    BY <1>1, <2>1, <2>2
<1> DEFINE B == {k \in 0..n : c[1..k] \in V}
<1>10. 0 \in B
  <2> HIDE DEF V
  <2>1. 0 \in 0..n
    BY <1>1
  <2> QED
    BY <1>1, <1>8, <2>1
<1>11. ASSUME NEW k \in 1..n, k - 1 \in B PROVE k \in B
  <2>1. c[1..(k - 1)] \in V
    BY <1>11
  <2>2. Next(k, c[1..(k - 1)]) \in V
    <3> HIDE DEF Next, V
    <3> QED
      BY <1>2, <2>1
  <2> HIDE DEF Next, V
  <2> QED
    BY <1>1, <1>9, <2>2
<1>12. n \in B
  <2> HIDE DEF B, n
  <2> QED
    BY <1>1, <1>10, <1>11, Upwards
<1> QED
  BY <1>7, <1>12

LEMMA PlainFits ==
  ASSUME NEW events \in Seq(Events)
  PROVE  Fits(Plain(events)) /\ Plain(events).events = events
<1>1. DOMAIN Plain(events) = {"pin", "state", "events", "types", "game", "counts", "noise", "advisor", "calledInt"}
  BY DEF Plain, Generated
<1>2. Plain(events).events = events /\ Plain(events).pin = None
  BY DEF Plain, Generated
<1>3. ASSUME NEW e \in ToSet(events) PROVE e \in DOMAIN Plain(events).game /\ Plain(events).game[e] = None
  BY <1>3 DEF Plain, Generated
<1> QED
  BY <1>1, <1>2, <1>3 DEF Fits

(* A config that differs in nothing else fits as well.                     *)
LEMMA LikeFits ==
  ASSUME NEW c, NEW d, Fits(c), DOMAIN d = DOMAIN c,
         d.events = c.events, d.game = c.game, d.pin \in {None, c.pin}, d.state = c.state
  PROVE  Fits(d)
  BY DEF Fits

LEMMA DerivedFits ==
  ASSUME NEW events \in Seq(Events)
  PROVE  Fits(Derived(events))
<1> DEFINE own == At(Largest(events), events)
<1>1. own \in Seq(Events)
  BY AtKind
<1> HIDE DEF own
<1>2. Fits(Plain(own))
  BY <1>1, PlainFits
<1> DEFINE c == Plain(own)
           d == [c EXCEPT !.counts = Uniform(2)]
<1>3. Derived(events) = d
  BY DEF Derived, own
<1>4. DOMAIN d = DOMAIN c /\ d.events = c.events /\ d.game = c.game /\ d.pin = c.pin /\ d.state = c.state
  <2> HIDE DEF c
  <2> QED
    OBVIOUS
<1> QED
  <2> HIDE DEF c, d
  <2>1. Fits(c)
    BY <1>2 DEF c
  <2> QED
    BY <1>3, <1>4, <2>1, LikeFits

LEMMA StarterFits == Fits(Starter)
<1> DEFINE c == Plain(<<"your-main-event">>)
           d == [c EXCEPT !.advisor = TRUE, !.counts = Uniform(4)]
<1>1. <<"your-main-event">> \in Seq(Events)
  BY NamesAssumption
<1>2. Starter = d
  BY DEF Starter
<1>3. DOMAIN d = DOMAIN c /\ d.events = c.events /\ d.game = c.game /\ d.pin = c.pin /\ d.state = c.state
  <2> HIDE DEF c
  <2> QED
    OBVIOUS
<1>4. Fits(c)
  BY <1>1, PlainFits
<1> QED
  <2> HIDE DEF c, d
  <2> QED
    BY <1>2, <1>3, <1>4, LikeFits

LEMMA GeneratedFits ==
  ASSUME NEW t, NEW events \in Seq(Events), NEW map
  PROVE  Fits(Generated(t, events, map))
  BY DEF Generated, Fits

LEMMA EditedFits ==
  ASSUME NEW c, Fits(c), NEW d \in Edited(c)
  PROVE  Fits(d)
<1>1. CASE \E b : d = [c EXCEPT !.counts = b] \/ d = [c EXCEPT !.pin = None] \/ d = [c EXCEPT !.calledInt = FALSE, !.advisor = TRUE]
  <2>1. DOMAIN d = DOMAIN c /\ d.events = c.events /\ d.game = c.game /\ d.pin \in {None, c.pin} /\ d.state = c.state
    BY <1>1 DEF Fits
  <2> QED
    BY <2>1, LikeFits
<1>2. CASE c.events # <<>> /\ d = [c EXCEPT !.events = Tail(c.events)]
  <2>1. Tail(c.events) \in Seq(Events) /\ ToSet(Tail(c.events)) \subseteq ToSet(c.events)
    BY <1>2 DEF Fits, ToSet
  <2>2. /\ DOMAIN d = DOMAIN c /\ d.events = Tail(c.events) /\ d.game = c.game /\ d.pin = c.pin
        /\ d.state = c.state
    BY <1>2 DEF Fits
  <2> QED
    BY <2>1, <2>2 DEF Fits
<1>3. CASE \E e \in Additions \ ToSet(c.events) :
             d = [pin |-> c.pin, events |-> Append(c.events, e), types |-> Put(c.types, e, <<DefaultType>>),
                  game |-> Put(c.game, e, None), counts |-> c.counts, noise |-> c.noise, advisor |-> c.advisor,
                  calledInt |-> c.calledInt, state |-> c.state]
  <2>1. PICK e \in Additions \ ToSet(c.events) :
             d = [pin |-> c.pin, events |-> Append(c.events, e), types |-> Put(c.types, e, <<DefaultType>>),
                  game |-> Put(c.game, e, None), counts |-> c.counts, noise |-> c.noise, advisor |-> c.advisor,
                  calledInt |-> c.calledInt, state |-> c.state]
    BY <1>3
  <2>2. c.events \in Seq(Events) /\ e \in Events
    BY NamesAssumption DEF Fits
  <2>3. Append(c.events, e) \in Seq(Events) /\ ToSet(Append(c.events, e)) \subseteq ToSet(c.events) \union {e}
    <3> DEFINE s == c.events
    <3>1. s \in Seq(Events)
      BY <2>2
    <3> HIDE DEF s
    <3>2. Append(s, e) \in Seq(Events) /\ \A i \in DOMAIN Append(s, e) : Append(s, e)[i] = e \/ (i \in DOMAIN s /\ Append(s, e)[i] = s[i])
      BY <2>2, <3>1
    <3> QED
      BY <3>2 DEF ToSet, s
  <2>4. ASSUME NEW f \in ToSet(c.events) \union {e}
        PROVE  f \in DOMAIN Put(c.game, e, None) /\ Put(c.game, e, None)[f] \in {None, GameOf[f]}
    BY <2>4 DEF Put, Fits
  <2>5. /\ DOMAIN d = {"pin", "state", "events", "types", "game", "counts", "noise", "advisor", "calledInt"}
        /\ d.events = Append(c.events, e) /\ d.game = Put(c.game, e, None) /\ d.pin = c.pin /\ d.state = c.state
    BY <2>1
  <2>6. c.pin # None => c.state \in {None, c.pin}
    BY DEF Fits
  <2> QED
    BY <2>3, <2>4, <2>5, <2>6 DEF Fits
<1> QED
  BY <1>1, <1>2, <1>3 DEF Edited

LEMMA SessionFits ==
  ASSUME NEW c, Fits(c), NEW cli
  PROVE  Fits(Session(c, cli))
<1> DEFINE noisy == IF cli.noise = None THEN c ELSE [c EXCEPT !.noise = cli.noise]
<1>1. PICK counts : Session(c, cli) = [noisy EXCEPT !.counts = counts]
  BY DEF Session, Counted
<1>2. /\ DOMAIN noisy = DOMAIN c /\ noisy.events = c.events /\ noisy.game = c.game /\ noisy.pin = c.pin
      /\ noisy.state = c.state
  OBVIOUS
<1> HIDE DEF noisy
<1> DEFINE d == [noisy EXCEPT !.counts = counts]
<1>3. DOMAIN d = DOMAIN c /\ d.events = c.events /\ d.game = c.game /\ d.pin = c.pin /\ d.state = c.state
  BY <1>2
<1> HIDE DEF d
<1>4. Fits(d)
  BY <1>3, LikeFits
<1> QED
  BY <1>1, <1>4 DEF d

(* A process.                                                              *)
LEMMA PinAgrees ==
  ASSUME LaunchOK(desk), ~Mismatch, desk.conf.pin # None, NEW i \in Named
  PROVE  HomeOf[desk.conf.events[i]] = desk.conf.pin
<1>1. PICK m \in Named : \A j \in Named : m <= j
  <2>1. Named \in SUBSET Nat
    BY DEF LaunchOK, Named
  <2> QED
    BY <2>1, FirstOf
<1> DEFINE m1 == CHOOSE n \in Named : \A j \in Named : n <= j
<1>2. m1 \in Named
  BY <1>1
<1>3. Agreed = HomeOf[desk.conf.events[m1]]
  BY DEF Agreed, HomeAt
<1>4. Agreed = desk.conf.pin
  BY DEF Mismatch
<1> HIDE DEF m1
<1> QED
  BY <1>2, <1>3, <1>4 DEF Mismatch, HomeAt

LEMMA InProcess ==
  ASSUME StartInv, ApartInv, desk.phase \in Early \union Judged
  PROVE  LaunchOK(desk) /\ ProcessOK(desk, DOMAIN rosters)
  BY Alive DEF ApartInv

(* A step within a process that keeps the files and the casts.             *)
LEMMA MovesOn ==
  ASSUME ApartInv, ProcessOK(desk, DOMAIN rosters), UNCHANGED <<configs, rosters, overlays>>,
         desk'.phase # "generating",
         desk'.conf = desk.conf, desk'.kind = desk.kind, desk'.from = desk.from,
         desk'.seeded = desk.seeded \/ desk'.seeded = <<>>, desk'.got = desk.got,
         Within(desk'), Pinned(desk')
  PROVE  ApartInv'
<1>1. ProcessOK(desk', DOMAIN rosters')
  BY DEF ProcessOK, Rooted, SeedsOK, CastsOK, CastOK
<1> QED
  BY <1>1 DEF ApartInv

(* The process ends.                                                       *)
LEMMA Stops ==
  ASSUME ApartInv, UNCHANGED <<configs, rosters, overlays>>, desk' = Off
  PROVE  ApartInv'
  BY DEF ApartInv, Off, Early, Judged

(* An answer is put down.                                                  *)
LEMMA Reported ==
  ASSUME ApartInv, LaunchOK(desk), ProcessOK(desk, DOMAIN rosters), UNCHANGED <<configs, overlays>>,
         desk.phase \in {"structure", "sets", "characters"},
         NEW got, CastsOK([desk EXCEPT !.got = got], DOMAIN rosters'),
         \A key \in DOMAIN rosters' : Filed(key, rosters'[key]),
         \/ desk' = Report(got)
         \/ desk' = [desk EXCEPT !.phase = "sets", !.got = got]
  PROVE  ApartInv'
<1>1. /\ desk'.got = got /\ desk'.conf = desk.conf /\ desk'.kind = desk.kind /\ desk'.from = desk.from
      /\ desk'.seeded = desk.seeded /\ desk'.phase \in {"structure", "sets", "verdict"}
      /\ desk'.phase = "structure" => desk'.at = desk.at + 1 /\ desk.at # Len(desk.conf.events)
      /\ desk'.phase = "sets" => desk'.at = desk.at
  BY DEF Report, LaunchOK, Fields
<1>2. desk.at \in DOMAIN desk.conf.events /\ desk.conf.events \in Seq(Events)
  BY DEF ProcessOK, Within, Asking, Rooted, Fits
<1>3. Within(desk')
  <2>1. CASE desk'.phase = "structure"
    <3> DEFINE s == desk.conf.events
    <3>1. s \in Seq(Events) /\ desk.at \in DOMAIN s /\ desk.at # Len(s)
      BY <1>1, <1>2, <2>1
    <3> HIDE DEF s
    <3>2. desk.at + 1 \in DOMAIN s
      BY <3>1
    <3> QED
      BY <1>1, <2>1, <3>2 DEF Within, s
  <2> QED
    BY <1>1, <1>2, <2>1 DEF Within, Asking
<1>4. Pinned(desk')
  BY <1>1 DEF Pinned, Passed
<1>5. CastsOK(desk', DOMAIN rosters')
  <2> DEFINE d == [desk EXCEPT !.got = got]
  <2>1. d.got = got /\ d.conf = desk.conf /\ d.kind = desk.kind
    BY DEF LaunchOK, Fields
  <2>2. CastsOK(d, DOMAIN rosters')
    OBVIOUS
  <2> HIDE DEF d
  <2> QED
    BY <1>1, <2>1, <2>2 DEF CastsOK, CastOK
<1>6. ProcessOK(desk', DOMAIN rosters')
  BY <1>1, <1>3, <1>4, <1>5 DEF ProcessOK, Rooted, SeedsOK
<1> QED
  BY <1>1, <1>6 DEF ApartInv

LEMMA PausedApart ==
  ASSUME StartInv, ApartInv, desk.phase \in {"structure", "sets", "characters"},
         UNCHANGED <<configs, rosters, overlays>>, desk' = Paused
  PROVE  ApartInv'
<1>1. LaunchOK(desk) /\ ProcessOK(desk, DOMAIN rosters)
  BY InProcess DEF Early
<1>2. /\ desk'.conf = desk.conf /\ desk'.kind = desk.kind /\ desk'.from = desk.from /\ desk'.at = desk.at
      /\ desk'.seeded = desk.seeded /\ desk'.got = desk.got /\ desk'.phase = desk.phase
  BY <1>1 DEF LaunchOK, Fields, Paused
<1>3. Within(desk') /\ Pinned(desk')
  BY <1>1, <1>2 DEF ProcessOK, Within, Pinned
<1> QED
  BY <1>1, <1>2, <1>3, MovesOn

LEMMA StructureApart ==
  ASSUME StartInv, ApartInv, NEW answer \in Answers, AskStructure(answer)
  PROVE  ApartInv'
<1>1. desk.phase = "structure" /\ UNCHANGED <<configs, rosters, overlays>>
  BY DEF AskStructure
<1>2. LaunchOK(desk) /\ ProcessOK(desk, DOMAIN rosters)
  BY <1>1, InProcess DEF Early
<1>3. \/ desk' = Paused
      \/ \E how \in {"asked", "failed", "offline"}, named \in BOOLEAN :
           LET got == Append(desk.got, Outcome(how, named, None)) IN
           desk' = [desk EXCEPT !.phase = "sets", !.got = got] \/ desk' = Report(got)
  <2>1. \/ desk' = Paused
        \/ \E named \in BOOLEAN : desk' = [desk EXCEPT !.phase = "sets", !.got = Append(@, Outcome("asked", named, None))]
        \/ desk' = Report(Append(desk.got, Outcome("failed", FALSE, None)))
        \/ desk' = Report(Append(desk.got, Outcome("offline", FALSE, None)))
    <3>1. CASE Waits(answer)
      BY <3>1 DEF AskStructure, Waits
    <3>2. CASE ~Waits(answer) /\ answer \in {"ok", "nameless"}
      <4>1. desk' = [desk EXCEPT !.phase = "sets", !.got = Append(@, Outcome("asked", answer = "ok", None))]
        BY <3>2 DEF AskStructure
      <4> QED
        BY <4>1
    <3>3. CASE ~Waits(answer) /\ answer \notin {"ok", "nameless"}
      BY <3>3 DEF AskStructure
    <3> QED
      BY <3>1, <3>2, <3>3
  <2>2. \A x : [desk EXCEPT !.phase = "sets", !.got = Append(@, x)] = [desk EXCEPT !.phase = "sets", !.got = Append(desk.got, x)]
    BY <1>2 DEF LaunchOK, Fields
  <2> QED
    BY <2>1, <2>2
<1>4. ASSUME NEW how \in {"asked", "failed", "offline"}, NEW named \in BOOLEAN
      PROVE  CastsOK([desk EXCEPT !.got = Append(desk.got, Outcome(how, named, None))], DOMAIN rosters')
  <2> DEFINE x == Outcome(how, named, None)
             s == desk.got
             d == [desk EXCEPT !.got = Append(s, x)]
  <2>1. x.cast = None
    BY DEF Outcome
  <2>2. s \in Seq(Heard) /\ CastsOK(desk, DOMAIN rosters)
    BY <1>2 DEF LaunchOK, ProcessOK
  <2>3. d.got = Append(s, x) /\ d.kind = desk.kind /\ d.conf = desk.conf
    BY <1>2 DEF LaunchOK, Fields
  <2> HIDE DEF x, d
  <2>4. ASSUME NEW i \in DOMAIN Append(s, x) PROVE Append(s, x)[i] = x \/ (i \in DOMAIN s /\ Append(s, x)[i] = s[i])
    <3> HIDE DEF s
    <3> QED
      BY <2>2, <2>4
  <2>5. None # Placeholder
    BY StartupAssumption
  <2>6. ASSUME NEW i \in DOMAIN d.got PROVE CastOK(d, i, DOMAIN rosters')
    <3>1. CASE d.got[i] = x
      BY <2>1, <2>5, <3>1 DEF CastOK
    <3>2. CASE i \in DOMAIN s /\ d.got[i] = s[i]
      BY <1>1, <2>2, <2>3, <3>2 DEF CastOK, CastsOK
    <3> QED
      BY <2>3, <2>4, <2>6, <3>1, <3>2
  <2>7. CastsOK(d, DOMAIN rosters')
    BY <2>6 DEF CastsOK
  <2> QED
    BY <2>7 DEF d, x
<1>5. \A key \in DOMAIN rosters' : Filed(key, rosters'[key])
  BY <1>1 DEF ApartInv
<1> QED
  BY <1>1, <1>2, <1>3, <1>4, <1>5, PausedApart, Reported

(* A cast that is cached for an event is that event's.                     *)
LEMMA CachedCast ==
  ASSUME ApartInv, NEW c, Fits(c), NEW e \in ToSet(c.events), CacheKey(c, e) \in DOMAIN rosters
  PROVE  rosters[CacheKey(c, e)] = CastOf(e)
<1> DEFINE key == CacheKey(c, e)
<1>1. Filed(key, rosters[key])
  BY DEF ApartInv
<1>2. e \in Events /\ c.game[e] \in {None, GameOf[e]} /\ e \notin Casts
  <2>1. e \in Events
    BY DEF Fits, ToSet
  <2> QED
    BY <2>1, NamesAssumption DEF Fits
<1>3. CASE c.game[e] # None
  <2>1. key = GameOf[e] /\ GameOf[e] \in DOMAIN KeysIn
    BY <1>2, <1>3, ConfigAssumption DEF CacheKey, Events
  <2>2. key \notin Events
    BY <2>1, NamesAssumption
  <2> QED
    BY <1>1, <2>1, <2>2 DEF Filed, CastOf
<1>4. CASE c.game[e] = None
  <2>1. key = e
    BY <1>4 DEF CacheKey
  <2> QED
    BY <1>1, <1>2, <2>1 DEF Filed, CastOf
<1> QED
  BY <1>3, <1>4

(* A cast that is filed for an event fits the cache.                       *)
LEMMA FiledCast ==
  ASSUME NEW c, Fits(c), NEW e \in ToSet(c.events), CastOf(e) # None
  PROVE  Filed(CacheKey(c, e), CastOf(e))
<1>1. e \in Events /\ c.game[e] \in {None, GameOf[e]}
  BY DEF Fits, ToSet
<1>2. CastOf(e) = GameOf[e] /\ GameOf[e] \in Casts
  BY DEF CastOf
<1> QED
  BY <1>1, <1>2 DEF Filed, CacheKey

LEMMA SettleApart ==
  ASSUME StartInv, ApartInv, desk.phase \in {"sets", "characters"}, UNCHANGED <<configs, overlays>>,
         NEW how, NEW fetched \in {None, Placeholder, CastOf(Event)},
         fetched = Placeholder => desk.kind # "live", Settle(how, fetched)
  PROVE  ApartInv'
<1> DEFINE key == CacheKey(desk.conf, Event)
           cached == Lookup(rosters, key)
           saved == fetched # None /\ Saves(desk.kind)
           cast == IF saved \/ cached = None THEN fetched ELSE cached
           x == Outcome(how, desk.got[desk.at].named, cast)
           got == [desk.got EXCEPT ![desk.at] = x]
           d == [desk EXCEPT !.got = got]
<1>1. LaunchOK(desk) /\ ProcessOK(desk, DOMAIN rosters)
  BY InProcess DEF Early
<1>2. rosters' = (IF saved THEN Put(rosters, key, fetched) ELSE rosters) /\ desk' = Report(got)
  BY DEF Settle
<1>3. /\ Fits(desk.conf) /\ Event \in ToSet(desk.conf.events) /\ Event = desk.conf.events[desk.at]
      /\ desk.got \in Seq(Heard) /\ desk.at \in DOMAIN desk.got /\ CastsOK(desk, DOMAIN rosters)
  BY <1>1 DEF LaunchOK, ProcessOK, Rooted, Within, Asking, Event, ToSet
<1>4. None # Placeholder /\ Placeholder \notin Casts /\ None \notin Casts
  BY StartupAssumption
<1>5. ASSUME saved PROVE desk.kind = "live" /\ fetched = CastOf(Event) /\ fetched # None
  BY <1>5 DEF Saves
<1>6. \A k \in DOMAIN rosters' : Filed(k, rosters'[k])
  <2>1. CASE saved
    <3>1. Filed(key, fetched)
      BY <1>3, <1>5, <2>1, FiledCast
    <3> QED
      BY <1>2, <2>1, <3>1 DEF Put, ApartInv
  <2>2. CASE ~saved
    BY <1>2, <2>2 DEF ApartInv
  <2> QED
    BY <2>1, <2>2
<1>7. /\ cast \in {None, Placeholder, CastOf(Event)}
      /\ cast = Placeholder => ~saved /\ desk.kind # "live" /\ key \notin DOMAIN rosters
  <2>1. CASE key \in DOMAIN rosters
    <3>1. cached = CastOf(Event) /\ cached \in Casts
      BY <1>3, <2>1, CachedCast DEF Lookup, ApartInv, Filed
    <3> HIDE DEF cached
    <3> QED
      BY <1>4, <1>5, <3>1
  <2>2. CASE key \notin DOMAIN rosters
    <3>1. cached = None
      BY <2>2 DEF Lookup
    <3>2. saved => fetched # Placeholder
      BY <1>5
    <3> HIDE DEF cached, saved
    <3> QED
      BY <2>2, <3>1, <3>2
  <2> QED
    BY <2>1, <2>2
<1>8. x.cast = cast
  BY DEF Outcome
<1>9. d.got = got /\ d.kind = desk.kind /\ d.conf = desk.conf
  BY <1>1 DEF LaunchOK, Fields
<1>10. ASSUME NEW i \in DOMAIN got PROVE (i = desk.at /\ got[i] = x) \/ (i # desk.at /\ i \in DOMAIN desk.got /\ got[i] = desk.got[i])
  OBVIOUS
<1> HIDE DEF x, got, d, cast
<1>11. ASSUME NEW i \in DOMAIN d.got PROVE CastOK(d, i, DOMAIN rosters')
  <2>1. CASE i = desk.at /\ got[i] = x
    <3>1. cast = Placeholder => key \notin DOMAIN rosters'
      BY <1>2, <1>7
    <3> QED
      BY <1>3, <1>7, <1>8, <1>9, <2>1, <3>1 DEF CastOK
  <2>2. CASE i \in DOMAIN desk.got /\ got[i] = desk.got[i]
    <3>1. CastOK(desk, i, DOMAIN rosters)
      BY <1>3, <2>2 DEF CastsOK
    <3>2. desk.kind # "live" => rosters' = rosters
      BY <1>2, <1>5
    <3> QED
      BY <1>9, <2>2, <3>1, <3>2 DEF CastOK
  <2> QED
    BY <1>9, <1>10, <1>11, <2>1, <2>2
<1>12. CastsOK(d, DOMAIN rosters')
  BY <1>11 DEF CastsOK
<1> QED
  BY <1>1, <1>2, <1>6, <1>12, Reported DEF d

LEMMA SetsApart ==
  ASSUME StartInv, ApartInv, NEW answer \in Answers, AskSets(answer)
  PROVE  ApartInv'
<1>1. desk.phase = "sets" /\ UNCHANGED <<configs, overlays>>
  BY DEF AskSets
<1>2. LaunchOK(desk) /\ ProcessOK(desk, DOMAIN rosters)
  BY <1>1, InProcess DEF Early
<1>3. \/ desk' = Paused /\ UNCHANGED rosters
      \/ desk' = [desk EXCEPT !.phase = "characters"] /\ UNCHANGED rosters
      \/ \E how \in {"failed", "offline"} : Settle(how, None)
  BY DEF AskSets
<1>4. CASE desk' = [desk EXCEPT !.phase = "characters"] /\ UNCHANGED rosters
  <2>1. /\ desk'.conf = desk.conf /\ desk'.kind = desk.kind /\ desk'.from = desk.from /\ desk'.at = desk.at
        /\ desk'.seeded = desk.seeded /\ desk'.got = desk.got /\ desk'.phase = "characters"
    BY <1>2, <1>4 DEF LaunchOK, Fields
  <2>2. Within(desk') /\ Pinned(desk')
    BY <1>1, <1>2, <2>1 DEF ProcessOK, Within, Pinned, Asking, Passed
  <2> QED
    BY <1>1, <1>2, <1>4, <2>1, <2>2, MovesOn
<1>5. ASSUME NEW how, Settle(how, None) PROVE ApartInv'
  BY <1>1, <1>5, SettleApart, StartupAssumption
<1> QED
  BY <1>1, <1>3, <1>4, <1>5, PausedApart

LEMMA CharactersApart ==
  ASSUME StartInv, ApartInv, NEW answer \in Answers, AskCharacters(answer)
  PROVE  ApartInv'
<1>1. desk.phase = "characters" /\ UNCHANGED <<configs, overlays>>
  BY DEF AskCharacters
<1>2. LaunchOK(desk) /\ ProcessOK(desk, DOMAIN rosters)
  BY <1>1, InProcess DEF Early
<1>3. Characters(answer) \in {None, Placeholder, CastOf(Event)}
      /\ (Characters(answer) = Placeholder => desk.kind # "live")
  <2>1. CastOf(Event) # Placeholder /\ None # Placeholder
    BY StartupAssumption DEF CastOf
  <2>2. Event \in DOMAIN desk.seeded => desk.seeded[Event] = CastOf(Event)
    BY <1>2 DEF ProcessOK, SeedsOK
  <2> QED
    BY <2>1, <2>2 DEF Characters
<1>4. (desk' = Paused /\ UNCHANGED rosters) \/ Settle("ready", Characters(answer))
  BY DEF AskCharacters
<1>5. CASE Settle("ready", Characters(answer))
  <2> DEFINE fetched == Characters(answer)
  <2>1. fetched \in {None, Placeholder, CastOf(Event)} /\ (fetched = Placeholder => desk.kind # "live") /\ Settle("ready", fetched)
    BY <1>3, <1>5
  <2> HIDE DEF fetched
  <2> QED
    BY <1>1, <2>1, SettleApart
<1> QED
  BY <1>1, <1>4, <1>5, PausedApart

LEMMA SeedApart ==
  ASSUME StartInv, ApartInv, NEW fetched, NEW characters, Seed(fetched, characters)
  PROVE  ApartInv'
<1> DEFINE e == desk.conf.events[desk.at]
           cast == IF characters = "ok" THEN CastOf(e) ELSE None
           over == desk.at = Len(desk.conf.events)
           seeded == IF cast = None THEN desk.seeded ELSE Put(desk.seeded, e, cast)
           phase == IF over THEN "structure" ELSE "seeding"
           at == IF over THEN 1 ELSE desk.at + 1
           key == CacheKey(desk.conf, e)
<1>1. desk.phase = "seeding" /\ UNCHANGED <<configs, overlays>>
  BY DEF Seed
<1>2. LaunchOK(desk) /\ ProcessOK(desk, DOMAIN rosters)
  BY <1>1, InProcess DEF Early
<1>3. /\ Fits(desk.conf) /\ desk.at \in DOMAIN desk.conf.events /\ e \in ToSet(desk.conf.events)
      /\ desk.got = <<>> /\ desk.conf.events \in Seq(Events)
  BY <1>1, <1>2 DEF LaunchOK, ProcessOK, Rooted, Within, Asking, ToSet, Fits
<1>4. CASE desk' = Off /\ UNCHANGED rosters
  BY <1>1, <1>4, Stops
<1>5. CASE /\ rosters' = (IF cast = None THEN rosters ELSE Put(rosters, key, cast))
           /\ desk' = [desk EXCEPT !.seeded = seeded, !.phase = phase, !.at = at]
  <2>1. cast # None => cast = CastOf(e) /\ Filed(key, cast)
    BY <1>3, FiledCast
  <2> HIDE DEF e, key
  <2>2. \A k \in DOMAIN rosters' : Filed(k, rosters'[k])
    <3>1. CASE cast = None
      BY <1>5, <3>1 DEF ApartInv
    <3>2. CASE cast # None
      <4>1. rosters' = Put(rosters, key, cast) /\ Filed(key, cast)
        BY <1>5, <2>1, <3>2
      <4> HIDE DEF cast
      <4> QED
        BY <4>1 DEF Put, ApartInv
    <3> QED
      BY <3>1, <3>2
  <2>3. \A k \in DOMAIN seeded : seeded[k] = CastOf(k)
    <3>1. CASE cast = None
      BY <1>2, <3>1 DEF ProcessOK, SeedsOK
    <3>2. CASE cast # None
      <4>1. seeded = Put(desk.seeded, e, cast) /\ cast = CastOf(e)
        BY <2>1, <3>2
      <4> HIDE DEF cast, seeded
      <4> QED
        BY <1>2, <4>1 DEF Put, ProcessOK, SeedsOK
    <3> QED
      BY <3>1, <3>2
  <2> HIDE DEF seeded
  <2>4. /\ desk'.conf = desk.conf /\ desk'.kind = desk.kind /\ desk'.from = desk.from /\ desk'.at = at
        /\ desk'.seeded = seeded /\ desk'.got = <<>> /\ desk'.phase = phase
    BY <1>2, <1>3, <1>5 DEF LaunchOK, Fields
  <2>5. at \in DOMAIN desk.conf.events
    <3> DEFINE s == desk.conf.events
    <3>1. s \in Seq(Events) /\ desk.at \in DOMAIN s
      BY <1>3
    <3> HIDE DEF s
    <3>2. (IF desk.at = Len(s) THEN 1 ELSE desk.at + 1) \in DOMAIN s
      BY <3>1
    <3> QED
      BY <3>2 DEF s
  <2>6. ProcessOK(desk', DOMAIN rosters')
    <3>1. Rooted(desk') /\ SeedsOK(desk') /\ Within(desk')
      BY <1>2, <2>3, <2>4, <2>5 DEF ProcessOK, Rooted, SeedsOK, Within
    <3>2. DOMAIN <<>> = {}
      OBVIOUS
    <3> QED
      BY <2>4, <3>1, <3>2 DEF ProcessOK, CastsOK, Pinned, Passed
  <2> QED
    BY <1>1, <2>2, <2>4, <2>6 DEF ApartInv
<1> QED
  BY <1>4, <1>5, <1>2 DEF Seed, LaunchOK, Fields

LEMMA VerdictApart ==
  ASSUME StartInv, ApartInv, Verdict
  PROVE  ApartInv'
<1>1. desk.phase = "verdict" /\ UNCHANGED <<configs, rosters, overlays>>
  BY DEF Verdict
<1>2. LaunchOK(desk) /\ ProcessOK(desk, DOMAIN rosters)
  BY <1>1, InProcess DEF Early
<1>3. \/ desk' = Off
      \/ ~Fatal /\ (desk' = [desk EXCEPT !.phase = "probe"] \/ desk' = Decided(ProxyArmed, FALSE))
  BY DEF Verdict
<1>4. CASE ~Fatal /\ (desk' = [desk EXCEPT !.phase = "probe"] \/ desk' = Decided(ProxyArmed, FALSE))
  <2>1. /\ desk'.conf = desk.conf /\ desk'.kind = desk.kind /\ desk'.from = desk.from
        /\ desk'.seeded = desk.seeded /\ desk'.got = desk.got /\ desk'.phase \in {"probe", "opening"}
    BY <1>2, <1>4 DEF LaunchOK, Fields, Decided
  <2>2. Pinned(desk')
    BY <1>2, <1>4, <2>1, PinAgrees DEF Pinned, Fatal, Named
  <2>3. Within(desk')
    BY <2>1 DEF Within, Asking
  <2> QED
    BY <1>1, <1>2, <2>1, <2>2, <2>3, MovesOn
<1> QED
  BY <1>1, <1>3, <1>4, Stops

LEMMA ProbeApart ==
  ASSUME StartInv, ApartInv, NEW answer, ProbeAdmin(answer)
  PROVE  ApartInv'
<1>1. desk.phase = "probe" /\ UNCHANGED <<configs, rosters, overlays>> /\ desk' = Decided(answer \notin Denials, answer \in Denials)
  BY DEF ProbeAdmin
<1>2. LaunchOK(desk) /\ ProcessOK(desk, DOMAIN rosters)
  BY <1>1, InProcess DEF Early
<1>3. /\ desk'.conf = desk.conf /\ desk'.kind = desk.kind /\ desk'.from = desk.from
      /\ desk'.seeded = desk.seeded /\ desk'.got = desk.got /\ desk'.phase = "opening"
  BY <1>1, <1>2 DEF LaunchOK, Fields, Decided
<1>4. Pinned(desk') /\ Within(desk')
  BY <1>1, <1>2, <1>3 DEF ProcessOK, Pinned, Within, Asking, Passed
<1> QED
  BY <1>1, <1>2, <1>3, <1>4, MovesOn

LEMMA OpenApart ==
  ASSUME StartInv, ApartInv, OpenDesk
  PROVE  ApartInv'
<1> DEFINE saved == Lookup(overlays, Path)
           adopt == desk.cli.setups = None /\ saved # None /\ saved.board # <<>>
           board == IF adopt THEN saved.board ELSE Roster(desk.conf)
           base == CountsByType(board)
           from == IF adopt THEN saved.by ELSE None
<1>1. desk.phase = "opening" /\ UNCHANGED <<configs, rosters, overlays>>
  BY DEF OpenDesk
<1>2. LaunchOK(desk) /\ ProcessOK(desk, DOMAIN rosters)
  BY <1>1, InProcess DEF Judged
<1>3. \/ desk' = Off
      \/ desk' = [desk EXCEPT !.phase = "running", !.seeded = <<>>, !.at = 1, !.board = board, !.base = base, !.from = from]
  BY DEF OpenDesk
<1>4. from # None => WroteAt(from, Path)
  BY DEF Lookup, ApartInv
<1> HIDE DEF board, base, from
<1>5. CASE desk' = [desk EXCEPT !.phase = "running", !.seeded = <<>>, !.at = 1, !.board = board, !.base = base, !.from = from]
  <2>1. /\ desk'.conf = desk.conf /\ desk'.kind = desk.kind /\ desk'.from = from
        /\ desk'.seeded = <<>> /\ desk'.got = desk.got /\ desk'.phase = "running"
    BY <1>2, <1>5 DEF LaunchOK, Fields
  <2>2. DOMAIN <<>> = {}
    OBVIOUS
  <2>3. ProcessOK(desk', DOMAIN rosters')
    BY <1>1, <1>2, <1>4, <2>1, <2>2
       DEF ProcessOK, Rooted, SeedsOK, Within, Asking, CastsOK, CastOK, Pinned, Passed, Path
  <2> QED
    BY <1>1, <2>1, <2>3 DEF ApartInv
<1> QED
  BY <1>1, <1>3, <1>5, Stops

LEMMA AuthorAt ==
  ASSUME LaunchOK(desk), ProcessOK(desk, DOMAIN rosters), desk.phase \in {"running", "saving"}
  PROVE  WroteAt(Author, Path)
<1>1. Author.live = (desk.kind = "live") /\ Path.sim = (desk.kind # "live")
  BY DEF Author, Path, PersistedPath
<1>2. ASSUME desk.kind = "live", Author.sure PROVE HomeOf[desk.conf.events[1]] = Path.tag
  <2>1. CASE desk.conf.pin # None
    <3>1. desk.got[1].named
      BY <1>2, <2>1 DEF Author
    <3>2. 1 \in DOMAIN desk.got
      <4>1. desk.got \in Seq(Heard) /\ Len(desk.got) = Len(desk.conf.events)
        BY DEF LaunchOK, Judged
      <4>2. desk.conf.events \in Seq(Events) /\ desk.conf.events # <<>>
        BY DEF ProcessOK, Rooted, Fits
      <4> QED
        BY <4>1, <4>2
    <3>3. HomeOf[desk.conf.events[1]] = desk.conf.pin
      BY <2>1, <3>1, <3>2 DEF ProcessOK, Pinned, Passed
    <3>4. Path.tag = desk.conf.pin
      BY <1>2, <2>1 DEF Path, PersistedPath, ProcessOK, Rooted, Fits
    <3> QED
      BY <3>3, <3>4
  <2>2. CASE desk.conf.pin = None
    BY <1>2, <2>2 DEF Author, Path, PersistedPath
  <2> QED
    BY <2>1, <2>2
<1>3. Author.home = HomeOf[desk.conf.events[1]]
  BY DEF Author, HomeAt
<1> QED
  BY <1>1, <1>2, <1>3 DEF WroteAt

LEMMA RunningApart ==
  ASSUME StartInv, ApartInv, ChangeStations \/ SaveBoard \/ \E quits \in BOOLEAN : SaveDefaults(quits)
  PROVE  ApartInv'
<1>1. desk.phase \in {"running", "saving"} /\ UNCHANGED <<configs, rosters>>
  BY DEF ChangeStations, SaveBoard, SaveDefaults
<1>2. LaunchOK(desk) /\ ProcessOK(desk, DOMAIN rosters)
  BY <1>1, InProcess DEF Judged
<1>3. \/ desk' = Off
      \/ \E board : desk' = [desk EXCEPT !.board = board]
      \/ desk' = [desk EXCEPT !.phase = "saving"]
      \/ \E base : desk' = [desk EXCEPT !.phase = "running", !.base = base]
  <2>1. CASE ChangeStations
    BY <2>1 DEF ChangeStations
  <2>2. CASE SaveBoard
    BY <2>2 DEF SaveBoard
  <2>3. CASE \E quits \in BOOLEAN : SaveDefaults(quits)
    BY <2>3 DEF SaveDefaults
  <2> QED
    BY <2>1, <2>2, <2>3
<1>4. \A p \in DOMAIN overlays' : WroteAt(overlays'[p].by, p)
  <2>1. CASE SaveBoard
    <3>1. overlays' = Put(overlays, Path, [board |-> desk.board, by |-> Author]) /\ WroteAt(Author, Path)
      BY <1>1, <1>2, <2>1, AuthorAt DEF SaveBoard
    <3>2. [board |-> desk.board, by |-> Author].by = Author
      OBVIOUS
    <3> QED
      BY <3>1, <3>2 DEF Put, ApartInv
  <2>2. CASE UNCHANGED overlays
    BY <2>2 DEF ApartInv
  <2> QED
    BY <2>1, <2>2 DEF ChangeStations, SaveDefaults
<1>5. CASE desk' = Off
  BY <1>1, <1>4, <1>5 DEF ApartInv, Off, Early, Judged
<1>6. CASE desk' # Off
  <2>1. /\ desk'.conf = desk.conf /\ desk'.kind = desk.kind /\ desk'.from = desk.from
        /\ desk'.seeded = desk.seeded /\ desk'.got = desk.got /\ desk'.phase \in {"running", "saving"}
    BY <1>1, <1>2, <1>3, <1>6 DEF LaunchOK, Fields
  <2>2. ProcessOK(desk', DOMAIN rosters')
    BY <1>1, <1>2, <2>1 DEF ProcessOK, Rooted, SeedsOK, Within, Asking, CastsOK, CastOK, Pinned, Passed
  <2> QED
    BY <1>1, <1>4, <2>1, <2>2 DEF ApartInv
<1> QED
  BY <1>5, <1>6

LEMMA SlotsOnly ==
  ASSUME NEW via \in DOMAIN Abbreviates \union {Found}, SlotFor(via) # None
  PROVE  SlotFor(via) \in Slots
<1> DEFINE begun == {t \in Abbreviates[via] : configs[t] # None}
<1>1. CASE via = Found \/ (via \in Slots /\ configs[via] # None)
  BY <1>1 DEF SlotFor, Slots
<1>2. CASE ~(via = Found \/ (via \in Slots /\ configs[via] # None))
  <2>1. Cardinality(begun) = 1 /\ SlotFor(via) = CHOOSE t \in begun : TRUE
    BY <1>2 DEF SlotFor
  <2>2. begun # {}
    BY <2>1, FS_EmptySet
  <2>3. SlotFor(via) \in begun
    BY <2>1, <2>2
  <2> QED
    BY <1>2, <2>3, NamesAssumption DEF Slots
<1> QED
  BY <1>1, <1>2

LEMMA LaunchApart ==
  ASSUME StartInv, ApartInv, NEW kind \in {"live", "simulate", "synth", "rehearse"},
         NEW via \in DOMAIN Abbreviates \union {Found}, NEW cli, Launch(kind, via, cli)
  PROVE  ApartInv'
<1> DEFINE file == configs[SlotFor(via)]
           read == IF kind \in {"live", "rehearse"} THEN file ELSE OfflineConfig(kind, file, cli.explicit)
           c == Session(read, cli)
<1>1. Valid(c) /\ desk' = Begin(kind, c, cli) /\ UNCHANGED <<configs, rosters, overlays>>
  BY DEF Launch
<1>2. file # None => Fits(file)
  BY SlotsOnly DEF Launch, ApartInv
<1>3. kind \in {"live", "rehearse"} => file # None
  BY DEF Launch
<1>4. Fits(read)
  <2>1. Fits(Derived(World(kind)))
    <3>1. World(kind) \in Seq(Events)
      BY NamesAssumption DEF World
    <3> QED
      BY <3>1, DerivedFits
  <2> HIDE DEF file
  <2> QED
    BY <1>2, <1>3, <2>1 DEF OfflineConfig
<1> HIDE DEF read
<1>5. Fits(c)
  BY <1>4, SessionFits
<1>6. c.events # <<>>
  BY <1>1 DEF Valid
<1> HIDE DEF c
<1>7. /\ desk'.conf = c /\ desk'.kind = kind /\ desk'.from = None /\ desk'.at = 1
      /\ desk'.seeded = <<>> /\ desk'.got = <<>> /\ desk'.phase \in {"seeding", "structure"}
  BY <1>1 DEF Begin
<1>8. 1 \in DOMAIN c.events
  <2> DEFINE s == c.events
  <2>1. s \in Seq(Events) /\ s # <<>>
    BY <1>5, <1>6 DEF Fits
  <2> HIDE DEF s
  <2>2. 1 \in DOMAIN s
    BY <2>1
  <2> QED
    BY <2>2 DEF s
<1>9. DOMAIN <<>> = {}
  OBVIOUS
<1>10. ProcessOK(desk', DOMAIN rosters')
  BY <1>5, <1>6, <1>7, <1>8, <1>9 DEF ProcessOK, Rooted, SeedsOK, Within, CastsOK, Pinned, Passed
<1> QED
  BY <1>1, <1>7, <1>10 DEF ApartInv

(* The files.                                                              *)
LEMMA FilesApart ==
  ASSUME ApartInv, UNCHANGED <<rosters, overlays>>, desk' = desk,
         \A s \in Slots : configs'[s] # None => Fits(configs'[s])
  PROVE  ApartInv'
  BY DEF ApartInv

LEMMA EditApart ==
  ASSUME ApartInv, HandMapping \/ Bootstrap \/ \E s \in Slots : HandEdit(s)
  PROVE  ApartInv'
<1>1. UNCHANGED <<rosters, overlays, desk>>
  BY DEF HandMapping, Bootstrap, HandEdit
<1>2. CASE HandMapping
  BY <1>1, <1>2, FilesApart DEF HandMapping, ApartInv
<1>3. CASE Bootstrap
  <2>1. configs' = [configs EXCEPT ![Found] = Starter]
    BY <1>3 DEF Bootstrap
  <2> QED
    BY <1>1, <2>1, StarterFits, FilesApart DEF ApartInv
<1>4. ASSUME NEW s \in Slots, HandEdit(s) PROVE ApartInv'
  <2>1. PICK c \in Edited(configs[s]) : configs' = [configs EXCEPT ![s] = c]
    BY <1>4 DEF HandEdit
  <2>2. Fits(c)
    BY <1>4, EditedFits DEF HandEdit, ApartInv
  <2> QED
    BY <1>1, <2>1, <2>2, FilesApart DEF ApartInv
<1> QED
  BY <1>2, <1>3, <1>4

LEMMA ApartStarts == StartupInit => ApartInv
<1> SUFFICES ASSUME StartupInit PROVE ApartInv
  OBVIOUS
<1>1. \A s \in Slots : configs[s] # None => Fits(configs[s])
  BY NamesAssumption DEF StartupInit
<1>2. DOMAIN <<>> = {}
  OBVIOUS
<1> QED
  BY <1>1, <1>2 DEF StartupInit, ApartInv, Off, Early, Judged

LEMMA ApartStep == StartInv /\ ApartInv /\ [StartupNext]_launchVars => ApartInv'
<1> SUFFICES ASSUME StartInv, ApartInv, [StartupNext]_launchVars PROVE ApartInv'
  OBVIOUS
<1>1. CASE UNCHANGED launchVars
  BY <1>1 DEF launchVars, ApartInv, ProcessOK, Rooted, SeedsOK, Within, CastsOK, CastOK, Pinned
<1>2. ASSUME NEW t \in Tournaments, InitTournament(t) PROVE ApartInv'
  <2>1. /\ desk' = [phase |-> "generating", target |-> t] /\ configs' = [configs EXCEPT ![t] = None]
        /\ UNCHANGED <<rosters, overlays>>
    BY <1>2 DEF InitTournament
  <2>2. desk'.phase = "generating" /\ desk'.target = t
    BY <2>1
  <2>3. \A s \in Slots : configs'[s] # None => Fits(configs'[s])
    BY <2>1 DEF ApartInv
  <2> QED
    BY <2>1, <2>2, <2>3 DEF ApartInv, Early, Judged
<1>3. CASE WriteConfig
  <2> DEFINE t == desk.target
             c == Generated(t, Serves[t], mapping)
  <2>1. desk' = Off /\ configs' = [configs EXCEPT ![t] = c] /\ UNCHANGED <<rosters, overlays>> /\ t \in Tournaments
    BY <1>3 DEF WriteConfig, ApartInv
  <2>2. Fits(c)
    BY <2>1, GeneratedFits, NamesAssumption
  <2> HIDE DEF c, t
  <2>3. \A s \in Slots : configs'[s] # None => Fits(configs'[s])
    BY <2>1, <2>2 DEF ApartInv
  <2> QED
    BY <2>1, <2>3 DEF ApartInv, Off, Early, Judged
<1>4. CASE Killed
  BY <1>4, Stops DEF Killed
<1> QED
  BY <1>1, <1>2, <1>3, <1>4, EditApart, LaunchApart, SeedApart, StructureApart, SetsApart, CharactersApart,
     VerdictApart, ProbeApart, OpenApart, RunningApart DEF StartupNext

(* No launch of any kind leaves the next one a stand-in for a cast or the  *)
(* stations of another kind of launch, nor those of another tournament     *)
(* when both are sure of theirs (resolve_roster, persisted_path,           *)
(* restore_overlay), however the config files were edited in between.      *)
THEOREM LaunchesStayApart == StartupSpec => []LaunchesApart
<1>1. StartInv /\ ApartInv => LaunchesApart
  <2> SUFFICES ASSUME StartInv, ApartInv PROVE LaunchesApart
    OBVIOUS
  <2>1. CacheIsReal
    BY StartupAssumption DEF ApartInv, Filed, CacheIsReal
  <2>2. CASE InSession
    <3>1. LaunchOK(desk) /\ ProcessOK(desk, DOMAIN rosters) /\ desk.phase \in {"running", "saving"}
      BY <2>2, InProcess DEF InSession, Judged
    <3>2. CastsAreReal
      BY <2>1, <3>1 DEF CastsAreReal, ProcessOK, CastsOK, CastOK
    <3>3. BoardsApart
      BY <3>1, AuthorAt DEF BoardsApart, ProcessOK, Rooted, WroteAt, Path, PersistedPath, Author
    <3> QED
      BY <3>2, <3>3 DEF LaunchesApart
  <2>3. CASE ~InSession
    BY <2>1, <2>3 DEF LaunchesApart, CastsAreReal, BoardsApart
  <2> QED
    BY <2>2, <2>3
<1> QED
  BY <1>1, StartsClean, StartStep, ApartStarts, ApartStep, PTL DEF StartupSpec
-----------------------------------------------------------------------------
(* The browser's desk *)

WebSpec == WebInit /\ [][WebNext]_webVars

(* The types of the state. *)
Shelves   == [DocKeys -> Documents \union {Missing}]
Outcomes  == Told \ {"asked"}

Waiting  == [at : {"lookup", "failed", "booting"}]
Looking  == [at : {"looking", "picking"}, world : Worlds]
Checking == [at : {"checking"}, world : Worlds, saved : Told, stored : BOOLEAN]
Checked  == [at : {"checked"}, world : Worlds, saved : Told, stored : BOOLEAN, blocked : BOOLEAN]
Opening  == [at : {"opening"}, world : Worlds, saved : Told]
Running  == [at : {"running"}, world : AllWorlds]
Stages   == Waiting \union Looking \union Checking \union Checked \union Opening \union Running

Requests ==
    [op : {"load", "aside", "drop", "remove", "put"}, key : DocKeys,
     why : {"peek", "seed", "boot", "forget", "reset", "save"},
     doc : Documents \union {Missing}, by : Nat]

WebTypeOK ==
    /\ docs \in Shelves /\ bak \in Shelves
    /\ requests \in Seq(Requests)
    /\ stage \in Stages
    /\ page \in Pages \union {Missing}
    /\ second \in Nat /\ revisions \in Nat /\ faults \in Nat /\ desks \in Nat

(* What a request says of the page that made it: who waits for an answer   *)
(* still does, and what is set aside is the document that could not be     *)
(* read.                                                                   *)
Demoing(s) == s.at = "booting" \/ (s.at = "running" /\ s.world = Demo)
AtDemo   == Demoing(stage)
Reads(q) == q.op \in {"load", "aside", "drop"}
Suits(q, s, d, copies, n) ==
    /\ q.by = n
    /\ Reads(q) <=> q.why \in {"peek", "seed", "boot"}
    /\ q.op = "remove" <=> q.why \in {"forget", "reset"}
    /\ q.op = "put" <=> q.why = "save"
    /\ q.why = "peek" => s.at = "checking" /\ s.saved = "asked"
    /\ q.why = "seed" => s.at = "opening"
    /\ q.why \in {"boot", "reset"} => Demoing(s) /\ q.key[1] = Demo
    /\ q.why = "forget" => q.key[1] \in Worlds
    /\ q.why = "save" => \/ Demoing(s) /\ q.key[1] = Demo
                         \/ d # Missing /\ d.stored /\ q.key[1] = d.world
    /\ q.op = "aside" => q.doc = BadDoc
    /\ q.op = "drop" => copies[q.key] = BadDoc
    /\ q.op = "put" => q.doc # Missing /\ q.doc.good
Apt(q) == Suits(q, stage, page, bak, desks)
OneReader ==
    \A i, j \in DOMAIN requests :
        requests[i].why = requests[j].why /\ requests[i].why \in {"peek", "seed"} => i = j
PageStage == page # Missing => stage.at = "running" /\ stage.world = page.world
BadIsOld  == \A k \in DocKeys : docs[k] # Missing /\ ~docs[k].good => docs[k] = BadDoc
RequestInv ==
    /\ PageStage /\ BadIsOld /\ OneReader
    /\ \A i \in DOMAIN requests : Apt(requests[i])

-----------------------------------------------------------------------------
(* Queues *)

(* What is left of a queue once its head is served. *)
LEMMA TailOf ==
  ASSUME NEW S, NEW s \in Seq(S), s # <<>>
  PROVE  /\ Head(s) = s[1] /\ Head(s) \in S /\ 1 \in DOMAIN s
         /\ Tail(s) \in Seq(S) /\ Len(Tail(s)) = Len(s) - 1
         /\ \A i \in DOMAIN Tail(s) : i + 1 \in DOMAIN s /\ Tail(s)[i] = s[i + 1]
         /\ \A i \in DOMAIN s : i # 1 => i - 1 \in DOMAIN Tail(s) /\ Tail(s)[i - 1] = s[i]
  OBVIOUS

(* A queue whose head is served and leads to another request. *)
LEMMA TurnOf ==
  ASSUME NEW S, NEW s \in Seq(S), s # <<>>, NEW x \in S
  PROVE  /\ Append(Tail(s), x) \in Seq(S) /\ Len(Append(Tail(s), x)) = Len(s)
         /\ DOMAIN Append(Tail(s), x) = DOMAIN s
         /\ Append(Tail(s), x)[Len(s)] = x
         /\ \A i \in DOMAIN s : i # Len(s) => i + 1 \in DOMAIN s /\ Append(Tail(s), x)[i] = s[i + 1]
         /\ \A i \in DOMAIN s : i # 1 => i - 1 \in DOMAIN s /\ i - 1 # Len(s) /\ Append(Tail(s), x)[i - 1] = s[i]
<1>1. Tail(s) \in Seq(S) /\ Len(Tail(s)) = Len(s) - 1 /\ Len(s) \in Nat /\ Len(s) >= 1
  OBVIOUS
<1>2. \A i \in 1 .. (Len(s) - 1) : Tail(s)[i] = s[i + 1]
  OBVIOUS
<1> QED
  BY <1>1, <1>2

(* A queue that grows. *)
LEMMA JoinOf ==
  ASSUME NEW S, NEW s \in Seq(S), NEW t \in Seq(S)
  PROVE  /\ s \o t \in Seq(S) /\ Len(s \o t) = Len(s) + Len(t)
         /\ \A i \in DOMAIN s : i \in DOMAIN (s \o t) /\ (s \o t)[i] = s[i]
         /\ \A i \in DOMAIN (s \o t) :
              \/ i \in DOMAIN s
              \/ i > Len(s) /\ i - Len(s) \in DOMAIN t /\ (s \o t)[i] = t[i - Len(s)]
         /\ \A i \in DOMAIN t : i + Len(s) \in DOMAIN (s \o t) /\ (s \o t)[i + Len(s)] = t[i]
  OBVIOUS

-----------------------------------------------------------------------------
(* What a step brings about. *)

(* The stage's fields, by where it is. *)
LEMMA StageShape ==
  ASSUME stage \in Stages
  PROVE  /\ stage.at = "checking" => stage \in Checking
         /\ stage.at = "checked" => stage \in Checked
         /\ stage.at = "opening" => stage \in Opening
         /\ stage.at = "running" => stage \in Running
         /\ stage.at \in {"looking", "picking"} => stage \in Looking
  BY DEF Stages, Waiting, Looking, Checking, Checked, Opening, Running

(* What the store's next answer does, good or bad. *)
Hears(q) ==
    /\ Reads(q) /\ requests' = Tail(requests) /\ UNCHANGED bak
    /\ docs' = docs \/ (q.op = "drop" /\ docs' = [docs EXCEPT ![q.key] = Missing])
    /\ \E outcome \in Outcomes : Learns(q, outcome)
TurnsAside(q) ==
    /\ UNCHANGED <<docs, stage, page>>
    /\ \/ /\ q.op = "load" /\ docs[q.key] # Missing /\ ~docs[q.key].good /\ UNCHANGED bak
          /\ requests' = Append(Tail(requests), [q EXCEPT !.op = "aside", !.doc = docs[q.key]])
       \/ /\ q.op = "aside" /\ bak' = [bak EXCEPT ![q.key] = q.doc]
          /\ requests' = Append(Tail(requests), [q EXCEPT !.op = "drop"])
RemovesNext(q) ==
    /\ q.op = "remove" /\ q.key[2] = "overlay" /\ docs' = [docs EXCEPT ![q.key] = Missing]
    /\ requests' = Append(Tail(requests), [q EXCEPT !.key = <<q.key[1], "snapshot">>])
    /\ UNCHANGED <<bak, stage, page>>
RemovesLast(q) ==
    /\ q.op = "remove" /\ docs' \in {docs, [docs EXCEPT ![q.key] = Missing]} /\ UNCHANGED bak
    /\ \E outcome \in Outcomes : Forgotten(q, outcome)
Stores(q) ==
    /\ q.op = "put" /\ requests' = Tail(requests) /\ UNCHANGED <<bak, stage>>
    /\ \/ docs' = [docs EXCEPT ![q.key] = q.doc] /\ Reports(q, TRUE)
       \/ UNCHANGED docs /\ Reports(q, FALSE)

LEMMA Answered ==
  ASSUME WebTypeOK, StoreAnswers \/ StoreFails
  PROVE  /\ requests # <<>> /\ UNCHANGED <<second, revisions, desks>> /\ faults' \in Nat
         /\ LET q == Head(requests) IN
            Hears(q) \/ TurnsAside(q) \/ RemovesNext(q) \/ RemovesLast(q) \/ Stores(q)
<1> DEFINE q == Head(requests)
<1>1. requests # <<>> /\ requests \in Seq(Requests) /\ faults \in Nat
  BY DEF WebTypeOK, StoreAnswers, StoreFails
<1>2. q \in Requests
  BY <1>1
<1>3. q.op \in {"load", "aside", "drop", "remove", "put"} /\ q.key = <<q.key[1], q.key[2]>>
  BY <1>2 DEF Requests, DocKeys
<1>4. UNCHANGED <<second, revisions, desks>> /\ faults' \in Nat
  <2>1. CASE StoreAnswers
    <3>1. UNCHANGED Counts
      BY <2>1 DEF StoreAnswers
    <3> QED
      BY <1>1, <3>1 DEF Counts
  <2>2. CASE StoreFails
    <3>1. faults' = faults + 1 /\ UNCHANGED <<second, revisions, desks>>
      BY <2>2 DEF StoreFails
    <3> QED
      BY <1>1, <3>1
  <2> QED
    BY <2>1, <2>2
<1> DEFINE Effect == Hears(q) \/ TurnsAside(q) \/ RemovesNext(q) \/ RemovesLast(q) \/ Stores(q)
<1>5. ASSUME StoreAnswers PROVE Effect
  <2>1. CASE q.op = "load"
    <3>1. ServesLoad(q)
      BY <1>5, <2>1 DEF StoreAnswers
    <3>2. docs[q.key] # Missing /\ ~docs[q.key].good => Aside(q) = [q EXCEPT !.op = "aside", !.doc = docs[q.key]]
      BY <1>2, <2>1 DEF Aside, Requests
    <3> QED
      BY <3>1, <3>2, <2>1 DEF ServesLoad, Hears, TurnsAside, Reads, Pending, Learns, Outcomes, Told
  <2>2. CASE q.op = "aside"
    <3>1. ServesAside(q)
      BY <1>5, <2>2 DEF StoreAnswers
    <3>2. Aside(q) = [q EXCEPT !.op = "drop"] /\ ~AsideDone(q)
      BY <1>2, <2>2 DEF Aside, AsideDone, Requests
    <3> QED
      BY <3>1, <3>2, <2>2 DEF ServesAside, TurnsAside, Pending
  <2>3. CASE q.op = "drop"
    <3>1. ServesAside(q)
      BY <1>5, <2>3 DEF StoreAnswers
    <3>2. AsideDone(q)
      BY <1>2, <2>3 DEF Aside, AsideDone, Requests
    <3> QED
      BY <3>1, <3>2, <2>3 DEF ServesAside, Hears, Reads, Pending, Learns, Outcomes, Told
  <2>4. CASE q.op = "remove"
    <3>1. ServesRemove(q)
      BY <1>5, <2>4 DEF StoreAnswers
    <3>2. q.key[2] = "overlay" => RemovesNext(q)
      BY <1>2, <2>4, <3>1 DEF ServesRemove, RemovesNext, Pending, Requests
    <3>3. q.key[2] # "overlay" => RemovesLast(q)
      BY <2>4, <3>1 DEF ServesRemove, RemovesLast, Outcomes, Told
    <3> QED
      BY <3>2, <3>3
  <2>5. CASE q.op = "put"
    <3>1. ServesPut(q)
      BY <1>5, <2>5 DEF StoreAnswers
    <3> QED
      BY <2>5, <3>1 DEF ServesPut, Stores, Pending
  <2> QED
    BY <1>3, <2>1, <2>2, <2>3, <2>4, <2>5
<1>6. ASSUME StoreFails PROVE Effect
  <2>1. CASE Reads(q)
    <3>1. Learns(q, "unavailable") /\ UNCHANGED <<docs, bak>>
      BY <1>6, <2>1 DEF StoreFails, Reads
    <3> QED
      BY <3>1, <2>1 DEF Hears, Learns, Pending, Outcomes, Told
  <2>2. CASE q.op = "remove"
    <3>1. Forgotten(q, "unavailable") /\ UNCHANGED <<docs, bak>>
      BY <1>6, <2>2 DEF StoreFails
    <3> QED
      BY <3>1, <2>2 DEF RemovesLast, Outcomes, Told
  <2>3. CASE q.op = "put"
    <3>1. requests' = Pending /\ Reports(q, FALSE) /\ UNCHANGED <<stage, docs, bak>>
      BY <1>6, <2>3 DEF StoreFails
    <3> QED
      BY <3>1, <2>3 DEF Stores, Pending
  <2> QED
    BY <1>3, <2>1, <2>2, <2>3 DEF Reads
<1> QED
  BY <1>1, <1>4, <1>5, <1>6

(* What a waiting page does with an answer. *)
LEMMA Learnt ==
  ASSUME WebTypeOK, RequestInv, requests # <<>>, NEW outcome \in Outcomes,
         Reads(Head(requests)), Learns(Head(requests), outcome)
  PROVE  LET q == Head(requests) IN
         \/ /\ q.why = "peek" /\ page = Missing /\ UNCHANGED page
            /\ stage' \in Checking /\ stage'.saved = outcome
            /\ stage.at = "checking"
         \/ /\ q.why \in {"seed", "boot"}
            /\ stage' \in Running /\ page' = Desk(stage'.world, TRUE, page'.told) /\ page' \in Pages
            /\ q.why = "seed" => stage.at = "opening" /\ page = Missing /\ stage'.world \in Worlds
            /\ q.why = "boot" => AtDemo /\ stage'.world = Demo
<1> DEFINE q == Head(requests)
<1>1. q \in Requests /\ Apt(q) /\ outcome \in Told
  BY TailOf DEF WebTypeOK, RequestInv, Outcomes
<1>2. q.why \in {"peek", "seed", "boot"}
  BY <1>1 DEF Apt, Suits, AtDemo
<1>3. ASSUME NEW w \in AllWorlds, NEW told \in Told
      PROVE  Desk(w, TRUE, told) \in Pages /\ Desk(w, TRUE, told).told = told
  <2>1. SaveDebounce \in Nat
    BY WebDeskAssumption
  <2> QED
    BY <2>1 DEF Desk, Pages, Kinds
<1>4. CASE q.why = "peek"
  <2>1. stage \in Checking /\ stage.at = "checking"
    BY <1>1, <1>4, StageShape DEF Apt, Suits, WebTypeOK
  <2>2. stage' = [stage EXCEPT !.saved = outcome] /\ UNCHANGED page
    BY <1>4 DEF Learns
  <2>3. page = Missing
    BY <2>1 DEF RequestInv, PageStage
  <2> QED
    BY <1>1, <1>4, <2>1, <2>2, <2>3 DEF Checking
<1>5. CASE q.why = "seed"
  <2>1. stage \in Opening /\ stage.at = "opening"
    BY <1>1, <1>5, StageShape DEF Apt, Suits, WebTypeOK
  <2>2. stage' = [at |-> "running", world |-> stage.world] /\ page' = Desk(stage.world, TRUE, stage.saved)
    BY <1>5 DEF Learns, Runs
  <2>3. page = Missing
    BY <2>1 DEF RequestInv, PageStage
  <2>4. stage.world \in Worlds /\ stage.world \in AllWorlds /\ stage.saved \in Told
    BY <2>1 DEF Opening, AllWorlds
  <2> QED
    BY <1>3, <1>5, <2>1, <2>2, <2>3, <2>4 DEF Running
<1>6. CASE q.why = "boot"
  <2>1. AtDemo
    BY <1>1, <1>6 DEF Apt, Suits, AtDemo
  <2>2. stage' = [at |-> "running", world |-> Demo] /\ page' = Desk(Demo, TRUE, outcome)
    BY <1>6 DEF Learns, Runs
  <2> QED
    BY <1>1, <1>3, <1>6, <2>1, <2>2 DEF Running, AllWorlds
<1> QED
  BY <1>2, <1>4, <1>5, <1>6

(* A request as it is made. *)
LEMMA Asked ==
  ASSUME desks \in Nat, NEW op \in {"load", "remove"}, NEW w \in AllWorlds, NEW kind \in Kinds,
         NEW why \in {"peek", "seed", "boot", "forget", "reset"}
  PROVE  LET q == Ask(op, w, kind, why) IN
         /\ q \in Requests /\ <<q>> \in Seq(Requests) /\ Len(<<q>>) = 1
         /\ q.op = op /\ q.key = <<w, kind>> /\ q.key[1] = w /\ q.key[2] = kind /\ q.why = why /\ q.by = desks
<1>1. <<w, kind>> \in DocKeys /\ <<w, kind>>[1] = w /\ <<w, kind>>[2] = kind
  BY DEF DocKeys, AllWorlds
<1>2. Ask(op, w, kind, why) \in Requests
  BY <1>1 DEF Ask, Requests
<1> QED
  BY <1>1, <1>2 DEF Ask

(* The saves of a page: one for each document that is not clean. *)
IsPut(q, d) ==
    /\ q \in Requests /\ q.op = "put" /\ q.why = "save" /\ q.by = desks
    /\ q.key[1] = d.world /\ q.key[2] \in d.dirty /\ q.key = <<d.world, q.key[2]>>
    /\ q.doc = [good |-> TRUE, rev |-> d.rev[q.key[2]]] /\ q.doc.good /\ q.doc.rev = d.rev[q.key[2]]
    /\ q.doc \in Documents
LEMMA PutShape ==
  ASSUME desks \in Nat, NEW d \in Pages, NEW k \in d.dirty
  PROVE  IsPut(PutDoc(d, k), d) /\ PutDoc(d, k).key[2] = k
<1>1. k \in Kinds /\ d.world \in AllWorlds /\ d.rev \in [Kinds -> Nat] /\ d.rev[k] \in Nat
  BY DEF Pages
<1>2. [good |-> TRUE, rev |-> d.rev[k]] \in Documents /\ <<d.world, k>> \in DocKeys
  BY <1>1 DEF Documents, DocKeys, AllWorlds
<1>3. PutDoc(d, k) \in Requests
  BY <1>2 DEF PutDoc, Requests
<1> QED
  BY <1>1, <1>2, <1>3 DEF PutDoc, IsPut
LEMMA PutsShape ==
  ASSUME desks \in Nat, NEW d \in Pages
  PROVE  /\ Puts(d) \in Seq(Requests)
         /\ \A i \in DOMAIN Puts(d) : IsPut(Puts(d)[i], d)
         /\ \A i, j \in DOMAIN Puts(d) : Puts(d)[i].key = Puts(d)[j].key => i = j
         /\ \A k \in d.dirty : \E i \in DOMAIN Puts(d) : Puts(d)[i].key = <<d.world, k>>
<1> DEFINE o == PutDoc(d, "overlay")  s == PutDoc(d, "snapshot")
<1>1. d.dirty \subseteq {"overlay", "snapshot"}
  BY DEF Pages, Kinds
<1>2. "overlay" \in d.dirty => IsPut(o, d) /\ o \in Requests /\ o.key = <<d.world, "overlay">> /\ o.key[2] = "overlay"
  BY PutShape DEF IsPut
<1>3. "snapshot" \in d.dirty => IsPut(s, d) /\ s \in Requests /\ s.key = <<d.world, "snapshot">> /\ s.key[2] = "snapshot"
  BY PutShape DEF IsPut
<1> HIDE DEF o, s
<1>4. CASE "overlay" \in d.dirty /\ "snapshot" \in d.dirty
  <2>1. Puts(d) = <<o>> \o <<s>>
    BY <1>4 DEF Puts, o, s
  <2>2. <<o>> \in Seq(Requests) /\ <<s>> \in Seq(Requests) /\ Len(<<o>>) = 1 /\ Len(<<s>>) = 1
        /\ <<o>>[1] = o /\ <<s>>[1] = s
    BY <1>2, <1>3, <1>4
  <2>3. Puts(d) \in Seq(Requests) /\ DOMAIN Puts(d) = 1 .. 2 /\ Puts(d)[1] = o /\ Puts(d)[2] = s
    BY <2>1, <2>2
  <2> QED
    BY <1>1, <1>2, <1>3, <1>4, <2>3
<1>5. CASE "overlay" \in d.dirty /\ "snapshot" \notin d.dirty
  <2>1. Puts(d) = <<o>>
    BY <1>5, <1>2, <1>3 DEF Puts, o, s
  <2> QED
    BY <1>1, <1>2, <1>3, <1>5, <2>1
<1>6. CASE "overlay" \notin d.dirty /\ "snapshot" \in d.dirty
  <2>1. Puts(d) = <<s>>
    BY <1>6, <1>2, <1>3 DEF Puts, o, s
  <2> QED
    BY <1>1, <1>2, <1>3, <1>6, <2>1
<1>7. CASE "overlay" \notin d.dirty /\ "snapshot" \notin d.dirty
  <2>1. Puts(d) = <<>>
    BY <1>7 DEF Puts
  <2> QED
    BY <1>1, <1>7, <2>1
<1> QED
  BY <1>4, <1>5, <1>6, <1>7

(* What the running desk does: it takes a change, or the clock's, and saves *)
(* what is not clean or leaves it for later.                               *)
Takes(d) ==
    /\ page # Missing /\ page \in Pages
    /\ d \in Pages /\ d.world = page.world /\ d.stored = page.stored /\ d.failed = page.failed
    /\ page.dirty \subseteq d.dirty /\ \A k \in Kinds \ d.dirty : d.rev[k] = page.rev[k]
Keeps(d) == page' = d /\ UNCHANGED requests
SavesAll(d) ==
    /\ d.stored /\ requests' = requests \o Puts(d)
    /\ page' \in Pages /\ page'.world = d.world /\ page'.stored = d.stored /\ page'.failed = d.failed
    /\ page'.dirty = {} /\ page'.rev = d.rev
LEMMA Drains ==
  ASSUME NEW d \in Pages, NEW now \in Nat, Drained(d, now)
  PROVE  Keeps(d) \/ SavesAll(d)
<1>1. CASE d.stored /\ d.dirty # {} /\ SaveDue(d, now)
  <2>1. page' = [d EXCEPT !.dirty = {}, !.last = now] /\ requests' = requests \o Puts(d)
    BY <1>1 DEF Drained, Cleaned, Issues, Pages
  <2>2. {} \in SUBSET Kinds /\ now \in Int
    OBVIOUS
  <2>3. page' \in Pages /\ page'.dirty = {}
    BY <2>1, <2>2 DEF Pages
  <2>4. page'.world = d.world /\ page'.stored = d.stored /\ page'.failed = d.failed /\ page'.rev = d.rev
    BY <2>1 DEF Pages
  <2> QED
    BY <1>1, <2>1, <2>3, <2>4 DEF SavesAll
<1>2. CASE ~(d.stored /\ d.dirty # {} /\ SaveDue(d, now))
  BY <1>2 DEF Drained, Keeps
<1> QED
  BY <1>1, <1>2
LEMMA DeskStep ==
  ASSUME WebTypeOK, Edit \/ Second \/ Flush
  PROVE  /\ UNCHANGED <<docs, bak, stage, desks, faults>> /\ second' \in Nat /\ revisions' \in Nat
         /\ \E d \in Pages : Takes(d) /\ (Keeps(d) \/ SavesAll(d))
<1>1. page # Missing /\ page \in Pages /\ second \in Nat /\ revisions \in Nat
  BY DEF WebTypeOK, Edit, Second, Flush
<1>2. CASE Edit
  <2>1. PICK what \in {{"overlay"}, Kinds} :
          Drained([page EXCEPT !.dirty = @ \union what,
                               !.since = IF page.dirty = {} THEN second ELSE @,
                               !.rev = [k \in Kinds |-> IF k \in what THEN revisions + 1 ELSE @[k]]], second)
    BY <1>2 DEF Edit
  <2> DEFINE since == IF page.dirty = {} THEN second ELSE page.since
             rev == [k \in Kinds |-> IF k \in what THEN revisions + 1 ELSE page.rev[k]]
             d == [page EXCEPT !.dirty = @ \union what, !.since = since, !.rev = rev]
  <2>2. what \subseteq Kinds /\ since \in Nat /\ rev \in [Kinds -> Nat] /\ page.dirty \union what \subseteq Kinds
    BY <1>1 DEF Pages, Kinds
  <2>3. d \in Pages /\ d.world = page.world /\ d.stored = page.stored /\ d.failed = page.failed
        /\ d.dirty = page.dirty \union what /\ d.rev = rev
    <3> HIDE DEF since, rev
    <3> QED
      BY <1>1, <2>2 DEF Pages
  <2>4. Takes(d)
    BY <1>1, <2>3 DEF Takes
  <2>5. Drained(d, second)
    BY <2>1
  <2>6. Keeps(d) \/ SavesAll(d)
    BY <1>1, <2>3, <2>5, Drains
  <2>7. UNCHANGED <<docs, bak, stage, desks, faults>> /\ second' \in Nat /\ revisions' \in Nat
    BY <1>1, <1>2 DEF Edit
  <2> QED
    BY <2>3, <2>4, <2>6, <2>7
<1>3. CASE Second
  <2>1. Drained(page, second + 1) /\ second + 1 \in Nat
    BY <1>1, <1>3 DEF Second
  <2>2. Takes(page)
    BY <1>1 DEF Takes
  <2>3. Keeps(page) \/ SavesAll(page)
    BY <1>1, <2>1, Drains
  <2> QED
    BY <1>1, <1>3, <2>2, <2>3 DEF Second
<1>4. CASE Flush
  <2>1. page.stored /\ page' = Cleaned(page) /\ requests' = requests \o Puts(page)
        /\ UNCHANGED <<docs, bak, stage>> /\ UNCHANGED Counts
    BY <1>4 DEF Flush, Issues
  <2>2. Takes(page)
    BY <1>1 DEF Takes
  <2>3. SavesAll(page)
    BY <1>1, <2>1 DEF SavesAll, Cleaned, Pages
  <2> QED
    BY <1>1, <2>1, <2>2, <2>3 DEF Counts
<1> QED
  BY <1>2, <1>3, <1>4

(* What the page does before a desk runs. *)
Unanswered == stage.at = "checking" /\ stage.saved = "asked"
Wanders ==
    /\ UNCHANGED <<requests, page>> /\ page = Missing /\ stage' \in Stages
    /\ ~AtDemo /\ stage.at \notin {"opening", "running"} /\ ~Unanswered
Requested(q) ==
    /\ q \in Requests /\ q.by = desks /\ requests' = requests \o <<q>> /\ q.key[2] \in Kinds
    /\ stage' \in Stages
    /\ \/ /\ q.op = "load" /\ q.why = "peek" /\ stage.at = "picking" /\ page' = Missing
          /\ stage'.at = "checking" /\ stage'.saved = "asked"
       \/ /\ q.op = "load" /\ q.why = "seed" /\ stage.at = "checked" /\ page' = Missing
          /\ stage'.at = "opening"
       \/ /\ q.op = "load" /\ q.why = "boot" /\ stage = AtLookup /\ page' = Missing
          /\ stage'.at = "booting" /\ q.key[1] = Demo
       \/ /\ q.op = "remove" /\ q.why = "forget" /\ stage.at = "checked" /\ page' = Missing
          /\ UNCHANGED stage /\ q.key[1] \in Worlds
       \/ /\ q.op = "remove" /\ q.why = "reset" /\ AtDemo /\ UNCHANGED <<stage, page>> /\ q.key[1] = Demo
OpensBare ==
    /\ stage.at = "checked" /\ page = Missing /\ UNCHANGED requests
    /\ stage' \in Running /\ stage'.world \in Worlds
    /\ page' \in Pages /\ page' = Desk(stage'.world, FALSE, page'.told)
PageStep ==
    \/ LookUp \/ LookedUp \/ Check \/ Preflighted \/ Discard \/ Back \/ OpensDesk \/ BootDemo \/ ResetDemo

LEMMA StageKinds ==
  ASSUME NEW w \in Worlds, NEW saved \in Told, NEW stored \in BOOLEAN, NEW blocked \in BOOLEAN
  PROVE  /\ AtLookup \in Stages /\ [at |-> "failed"] \in Stages /\ [at |-> "booting"] \in Stages
         /\ [at |-> "looking", world |-> w] \in Stages /\ [at |-> "picking", world |-> w] \in Stages
         /\ [at |-> "checking", world |-> w, saved |-> saved, stored |-> stored] \in Stages
         /\ [at |-> "checked", world |-> w, saved |-> saved, stored |-> stored, blocked |-> blocked] \in Stages
         /\ [at |-> "opening", world |-> w, saved |-> saved] \in Stages
<1>1. AtLookup \in Waiting /\ [at |-> "failed"] \in Waiting /\ [at |-> "booting"] \in Waiting
  BY DEF AtLookup, Waiting
<1>2. [at |-> "looking", world |-> w] \in Looking /\ [at |-> "picking", world |-> w] \in Looking
  BY DEF Looking
<1>3. [at |-> "checking", world |-> w, saved |-> saved, stored |-> stored] \in Checking
  BY DEF Checking
<1>4. [at |-> "checked", world |-> w, saved |-> saved, stored |-> stored, blocked |-> blocked] \in Checked
  BY DEF Checked
<1>5. [at |-> "opening", world |-> w, saved |-> saved] \in Opening
  BY DEF Opening
<1> QED
  BY <1>1, <1>2, <1>3, <1>4, <1>5 DEF Stages

LEMMA PageEffect ==
  ASSUME WebTypeOK, RequestInv, PageStep
  PROVE  /\ UNCHANGED <<docs, bak, second, revisions, faults, desks>>
         /\ Wanders \/ OpensBare \/ \E q \in Requests : Requested(q)
<1> DEFINE Effect == /\ UNCHANGED <<docs, bak>> /\ UNCHANGED Counts
                     /\ Wanders \/ OpensBare \/ \E q \in Requests : Requested(q)
<1>1. stage \in Stages /\ desks \in Nat /\ (page # Missing => stage.at = "running")
  BY DEF WebTypeOK, RequestInv, PageStage
<1>2. ASSUME stage.at \in {"lookup", "looking", "picking", "failed", "checked"} PROVE page = Missing /\ ~AtDemo
  BY <1>1, <1>2 DEF AtDemo, Demoing
<1>3. ASSUME LookUp PROVE Effect
  <2>1. stage.at = "lookup"
    BY <1>3 DEF LookUp, AtLookup
  <2>2. stage' \in Stages
    BY <1>3, StageKinds DEF LookUp, Told
  <2> QED
    BY <1>2, <1>3, <2>1, <2>2 DEF LookUp, Wanders, Unanswered
<1>4. ASSUME LookedUp PROVE Effect
  <2>1. stage.at = "looking" /\ stage.world \in Worlds
    BY <1>1, <1>4, StageShape DEF LookedUp, Looking
  <2>2. stage' \in Stages
    BY <1>4, <2>1, StageKinds DEF LookedUp, Told
  <2> QED
    BY <1>2, <1>4, <2>1, <2>2 DEF LookedUp, Wanders, Unanswered
<1>5. ASSUME Check PROVE Effect
  <2>1. stage.at = "picking" /\ stage.world \in Worlds
    BY <1>1, <1>5, StageShape DEF Check, Looking
  <2>2. CASE UNCHANGED requests
    <3>1. stage' \in Stages
      BY <1>1, <1>5, <2>1, <2>2, StageKinds DEF Check, Told
    <3> QED
      BY <1>2, <1>5, <2>1, <2>2, <3>1 DEF Check, Wanders, Unanswered
  <2>3. CASE ~UNCHANGED requests
    <3> DEFINE q == Ask("load", stage.world, "overlay", "peek")
    <3>1. /\ stage' = [at |-> "checking", world |-> stage.world, saved |-> "asked", stored |-> TRUE]
          /\ requests' = requests \o <<q>>
      BY <1>5, <2>3 DEF Check, Issues
    <3>2. stage' \in Stages
      BY <2>1, <3>1, StageKinds DEF Told
    <3>3. q \in Requests /\ q.op = "load" /\ q.why = "peek" /\ q.by = desks /\ q.key[2] \in Kinds
      BY <1>1, <2>1, Asked DEF AllWorlds, Kinds
    <3>4. page' = Missing
      BY <1>2, <1>5, <2>1 DEF Check
    <3> QED
      BY <1>5, <2>1, <3>1, <3>2, <3>3, <3>4 DEF Check, Requested
  <2> QED
    BY <2>2, <2>3
<1>6. ASSUME Preflighted PROVE Effect
  <2>1. stage \in Checking /\ stage.at = "checking" /\ stage.saved # "asked"
    BY <1>1, <1>6, StageShape DEF Preflighted
  <2>2. stage' \in Stages
    BY <1>6, <2>1, StageKinds DEF Preflighted, Checking
  <2>3. page = Missing /\ ~AtDemo
    BY <1>1, <2>1 DEF AtDemo, Demoing
  <2> QED
    BY <1>6, <2>1, <2>2, <2>3 DEF Preflighted, Wanders, Unanswered
<1>7. ASSUME Discard PROVE Effect
  <2> DEFINE q == Ask("remove", stage.world, "overlay", "forget")
  <2>1. stage.at = "checked" /\ stage.world \in Worlds /\ requests' = requests \o <<q>>
    BY <1>1, <1>7, StageShape DEF Discard, Checked, Issues
  <2>2. q \in Requests /\ q.op = "remove" /\ q.why = "forget" /\ q.by = desks /\ q.key[2] \in Kinds /\ q.key[1] \in Worlds
    BY <1>1, <2>1, Asked DEF AllWorlds, Kinds
  <2>3. page' = Missing /\ UNCHANGED stage
    BY <1>2, <1>7, <2>1 DEF Discard
  <2> QED
    BY <1>1, <1>7, <2>1, <2>2, <2>3 DEF Discard, Requested
<1>8. ASSUME Back PROVE Effect
  <2>1. stage.at \in {"checked", "picking", "failed"}
    BY <1>8 DEF Back
  <2>2. stage' \in Stages
    <3>1. CASE stage.at = "checked"
      <4>1. stage.world \in Worlds /\ stage' = [at |-> "picking", world |-> stage.world]
        BY <1>1, <1>8, <3>1, StageShape DEF Back, Checked
      <4> QED
        BY <4>1, StageKinds DEF Told
    <3>2. CASE stage.at # "checked"
      <4>1. stage' = AtLookup
        BY <1>8, <3>2 DEF Back
      <4> QED
        BY <4>1 DEF AtLookup, Stages, Waiting
    <3> QED
      BY <3>1, <3>2
  <2> QED
    BY <1>2, <1>8, <2>1, <2>2 DEF Back, Wanders, Unanswered
<1>9. ASSUME OpensDesk PROVE Effect
  <2>1. stage \in Checked /\ stage.at = "checked"
    BY <1>1, <1>9, StageShape DEF OpensDesk
  <2>2. page = Missing /\ stage.world \in Worlds /\ stage.saved \in Told
    BY <1>2, <2>1 DEF Checked
  <2>3. CASE stage.stored
    <3> DEFINE q == Ask("load", stage.world, "snapshot", "seed")
    <3>1. /\ stage' = [at |-> "opening", world |-> stage.world, saved |-> stage.saved]
          /\ requests' = requests \o <<q>> /\ page' = Missing
      BY <1>9, <2>2, <2>3 DEF OpensDesk, Issues
    <3>2. stage' \in Stages
      BY <2>2, <3>1, StageKinds
    <3>3. q \in Requests /\ q.op = "load" /\ q.why = "seed" /\ q.by = desks /\ q.key[2] \in Kinds
      BY <1>1, <2>2, Asked DEF AllWorlds, Kinds
    <3> QED
      BY <1>9, <2>1, <3>1, <3>2, <3>3 DEF OpensDesk, Requested
  <2>4. CASE ~stage.stored
    <3>1. /\ page' = Desk(stage.world, FALSE, stage.saved) /\ UNCHANGED requests
          /\ stage' = [at |-> "running", world |-> stage.world]
      BY <1>9, <2>4 DEF OpensDesk, Runs
    <3>2. page' \in Pages /\ page'.told = stage.saved
      <4>1. SaveDebounce \in Nat
        BY WebDeskAssumption
      <4> QED
        BY <2>2, <3>1, <4>1 DEF Desk, Pages, Kinds, AllWorlds
    <3>3. stage' \in Running /\ stage'.world = stage.world
      BY <2>2, <3>1 DEF Running, AllWorlds
    <3> QED
      BY <1>9, <2>1, <2>2, <3>1, <3>2, <3>3 DEF OpensDesk, OpensBare
  <2> QED
    BY <2>3, <2>4
<1>10. ASSUME BootDemo PROVE Effect
  <2> DEFINE q == Ask("load", Demo, "overlay", "boot")
  <2>1. stage = AtLookup /\ stage' = [at |-> "booting"] /\ page' = Missing /\ requests' = requests \o <<q>>
    BY <1>10 DEF BootDemo, Boots, Issues
  <2>2. q \in Requests /\ q.op = "load" /\ q.why = "boot" /\ q.by = desks /\ q.key[2] \in Kinds /\ q.key[1] = Demo
    BY <1>1, Asked DEF AllWorlds, Kinds
  <2>3. stage' \in Stages
    BY <2>1 DEF Stages, Waiting
  <2> QED
    BY <1>10, <2>1, <2>2, <2>3 DEF BootDemo, Requested
<1>11. ASSUME ResetDemo PROVE Effect
  <2> DEFINE q == Ask("remove", Demo, "overlay", "reset")
  <2>1. AtDemo /\ UNCHANGED <<stage, page>> /\ requests' = requests \o <<q>>
    BY <1>11 DEF ResetDemo, Issues, AtDemo, Demoing, RequestInv, PageStage
  <2>2. q \in Requests /\ q.op = "remove" /\ q.why = "reset" /\ q.by = desks /\ q.key[2] \in Kinds /\ q.key[1] = Demo
    BY <1>1, Asked DEF AllWorlds, Kinds
  <2> QED
    BY <1>1, <1>11, <2>1, <2>2 DEF ResetDemo, Requested
<1>12. Effect
  BY <1>3, <1>4, <1>5, <1>6, <1>7, <1>8, <1>9, <1>10, <1>11 DEF PageStep
<1> QED
  BY <1>12 DEF Counts

-----------------------------------------------------------------------------
(* Types, and what requests say of the page. *)

LEMMA WebStepKinds ==
  ASSUME WebNext
  PROVE  PageStep \/ ClosePage \/ (Edit \/ Second \/ Flush) \/ (StoreAnswers \/ StoreFails)
  BY DEF WebNext, PageStep

LEMMA WebInitType == WebInit => WebTypeOK /\ RequestInv
<1> SUFFICES ASSUME WebInit PROVE WebTypeOK /\ RequestInv
  OBVIOUS
<1>1. OldDoc \in Documents /\ BadDoc \in Documents /\ OldDoc.good
  BY DEF OldDoc, BadDoc, Documents
<1>2. \A k \in DocKeys : docs[k] \in {Missing, OldDoc, BadDoc}
  BY DEF WebInit
<1>3. docs \in Shelves /\ bak \in Shelves
  BY <1>1 DEF WebInit, Shelves
<1>4. requests = <<>> /\ stage = AtLookup /\ page = Missing /\ second = 0 /\ revisions = 0 /\ faults = 0 /\ desks = 1
  BY DEF WebInit
<1>5. AtLookup \in Stages
  BY DEF AtLookup, Stages, Waiting
<1>6. WebTypeOK
  BY <1>3, <1>4, <1>5 DEF WebTypeOK
<1>7. BadIsOld
  BY <1>1, <1>2 DEF BadIsOld
<1>8. PageStage /\ OneReader /\ \A i \in DOMAIN requests : Apt(requests[i])
  BY <1>4 DEF PageStage, OneReader
<1> QED
  BY <1>6, <1>7, <1>8 DEF RequestInv

(* A removal leads to the next one, or to its page's answer. *)
LEMMA Forgot ==
  ASSUME WebTypeOK, RequestInv, requests # <<>>, NEW outcome \in Outcomes,
         Head(requests).op = "remove", Forgotten(Head(requests), outcome)
  PROVE  LET q == Head(requests) IN
         \/ /\ q.why = "reset" /\ AtDemo /\ stage' = [at |-> "booting"] /\ page' = Missing
            /\ LET b == Ask("load", Demo, "overlay", "boot") IN requests' = Append(Tail(requests), b)
         \/ /\ q.why = "forget" /\ q.key[1] \in Worlds /\ requests' = Tail(requests) /\ UNCHANGED page
            /\ stage' = stage \/ (stage.at = "checked" /\ stage' \in Checked /\ page = Missing)
<1> DEFINE q == Head(requests)
<1>1. q \in Requests /\ Apt(q) /\ outcome \in Told /\ stage \in Stages
  BY TailOf DEF WebTypeOK, RequestInv, Outcomes
<1>2. q.why \in {"forget", "reset"}
  BY <1>1 DEF Apt, Suits
<1>3. CASE q.why = "reset"
  BY <1>1, <1>3 DEF Apt, Suits, AtDemo, Forgotten, Boots, Pending
<1>4. CASE q.why = "forget"
  <2>1. q.key[1] \in Worlds /\ requests' = Tail(requests) /\ UNCHANGED page
    BY <1>1, <1>4 DEF Apt, Suits, Forgotten, Pending
  <2>2. CASE stage.at = "checked"
    <3>1. stage \in Checked /\ page = Missing
      BY <1>1, <2>2, StageShape DEF RequestInv, PageStage
    <3>2. stage' = [stage EXCEPT !.saved = outcome]
      BY <1>4, <2>2 DEF Forgotten
    <3>3. stage' \in Checked
      BY <1>1, <3>1, <3>2 DEF Checked
    <3> QED
      BY <1>4, <2>1, <2>2, <3>1, <3>3
  <2>3. CASE stage.at # "checked"
    BY <1>4, <2>1, <2>3 DEF Forgotten
  <2> QED
    BY <2>2, <2>3
<1> QED
  BY <1>2, <1>3, <1>4

LEMMA WebTypeStep == WebTypeOK /\ RequestInv /\ [WebNext]_webVars => WebTypeOK'
<1> SUFFICES ASSUME WebTypeOK, RequestInv, [WebNext]_webVars PROVE WebTypeOK'
  OBVIOUS
<1>1. /\ docs \in Shelves /\ bak \in Shelves /\ requests \in Seq(Requests) /\ stage \in Stages
      /\ page \in Pages \union {Missing} /\ second \in Nat /\ revisions \in Nat /\ faults \in Nat /\ desks \in Nat
  BY DEF WebTypeOK
<1>2. CASE UNCHANGED webVars
  BY <1>1, <1>2 DEF WebTypeOK, webVars
<1>3. CASE PageStep
  <2>1. UNCHANGED <<docs, bak, second, revisions, faults, desks>>
    BY <1>3, PageEffect
  <2>2. requests' \in Seq(Requests) /\ stage' \in Stages /\ page' \in Pages \union {Missing}
    <3>1. CASE Wanders
      BY <1>1, <3>1 DEF Wanders
    <3>2. CASE OpensBare
      BY <1>1, <3>2 DEF OpensBare, Stages
    <3>3. ASSUME NEW q \in Requests, Requested(q)
          PROVE  requests' \in Seq(Requests) /\ stage' \in Stages /\ page' \in Pages \union {Missing}
      <4>1. requests' \in Seq(Requests)
        BY <1>1, <3>3 DEF Requested
      <4> QED
        BY <1>1, <3>3, <4>1 DEF Requested
    <3> QED
      BY <1>3, <3>1, <3>2, <3>3, PageEffect
  <2> QED
    BY <1>1, <2>1, <2>2 DEF WebTypeOK
<1>4. CASE ClosePage
  <2>1. AtLookup \in Stages
    BY DEF AtLookup, Stages, Waiting
  <2> QED
    BY <1>1, <1>4, <2>1 DEF ClosePage, WebTypeOK
<1>5. CASE Edit \/ Second \/ Flush
  <2>1. UNCHANGED <<docs, bak, stage, desks, faults>> /\ second' \in Nat /\ revisions' \in Nat
    BY <1>5, DeskStep
  <2>2. PICK d \in Pages : Takes(d) /\ (Keeps(d) \/ SavesAll(d))
    BY <1>5, DeskStep
  <2>3. requests' \in Seq(Requests) /\ page' \in Pages
    <3>1. Puts(d) \in Seq(Requests)
      BY <1>1, PutsShape
    <3>2. requests \o Puts(d) \in Seq(Requests)
      BY <1>1, <3>1
    <3>3. CASE Keeps(d)
      BY <1>1, <3>3 DEF Keeps
    <3>4. CASE SavesAll(d)
      BY <3>2, <3>4 DEF SavesAll
    <3> QED
      BY <2>2, <3>3, <3>4
  <2> QED
    BY <1>1, <2>1, <2>3 DEF WebTypeOK
<1>6. CASE StoreAnswers \/ StoreFails
  <2> DEFINE q == Head(requests)
  <2>1. requests # <<>> /\ UNCHANGED <<second, revisions, desks>> /\ faults' \in Nat
    BY <1>6, Answered
  <2>2. q \in Requests /\ Tail(requests) \in Seq(Requests) /\ Apt(q)
        /\ \A x \in Requests : Append(Tail(requests), x) \in Seq(Requests)
    BY <1>1, <2>1, TailOf, TurnOf DEF RequestInv
  <2>3. q.key \in DocKeys /\ q.doc \in Documents \union {Missing} /\ q.key = <<q.key[1], q.key[2]>> /\ q.key[1] \in AllWorlds
    BY <2>2 DEF Requests, DocKeys, AllWorlds
  <2>4. [docs EXCEPT ![q.key] = Missing] \in Shelves /\ [docs EXCEPT ![q.key] = q.doc] \in Shelves
        /\ [bak EXCEPT ![q.key] = q.doc] \in Shelves
    BY <1>1, <2>3 DEF Shelves
  <2> DEFINE Typed == /\ docs' \in Shelves /\ bak' \in Shelves /\ requests' \in Seq(Requests) /\ stage' \in Stages
                      /\ page' \in Pages \union {Missing}
  <2>5. ASSUME Hears(q) PROVE Typed
    <3>1. PICK outcome \in Outcomes : Learns(q, outcome)
      BY <2>5 DEF Hears
    <3>2. stage' \in Stages /\ page' \in Pages \union {Missing}
      BY <2>1, <2>5, <3>1, Learnt DEF Hears, Stages
    <3> QED
      BY <1>1, <2>2, <2>4, <2>5, <3>2 DEF Hears
  <2>6. ASSUME TurnsAside(q) PROVE Typed
    <3>1. docs[q.key] \in Documents \union {Missing}
      BY <1>1, <2>3 DEF Shelves
    <3>2. [q EXCEPT !.op = "aside", !.doc = docs[q.key]] \in Requests /\ [q EXCEPT !.op = "drop"] \in Requests
      BY <2>2, <3>1 DEF Requests
    <3>3. requests' \in Seq(Requests)
      BY <2>2, <2>6, <3>2 DEF TurnsAside
    <3> QED
      BY <1>1, <2>4, <2>6, <3>3 DEF TurnsAside
  <2>7. ASSUME RemovesNext(q) PROVE Typed
    <3>1. [q EXCEPT !.key = <<q.key[1], "snapshot">>] \in Requests
      BY <2>2, <2>3 DEF Requests, DocKeys, AllWorlds, Kinds
    <3>2. requests' \in Seq(Requests)
      BY <1>1, <2>1, <2>2, <2>7, <3>1 DEF RemovesNext
    <3> QED
      BY <1>1, <2>4, <2>7, <3>2 DEF RemovesNext
  <2>8. ASSUME RemovesLast(q) PROVE Typed
    <3>1. PICK outcome \in Outcomes : Forgotten(q, outcome)
      BY <2>8 DEF RemovesLast
    <3>2. Ask("load", Demo, "overlay", "boot") \in Requests
      BY <1>1, Asked DEF AllWorlds, Kinds
    <3>3. requests' \in Seq(Requests) /\ page' \in Pages \union {Missing}
      <4>1. q.op = "remove"
        BY <2>8 DEF RemovesLast
      <4>2. \/ page' = Missing /\ requests' = Append(Tail(requests), Ask("load", Demo, "overlay", "boot"))
            \/ UNCHANGED page /\ requests' = Tail(requests)
        BY <2>1, <3>1, <4>1, Forgot
      <4> QED
        BY <1>1, <2>2, <3>2, <4>2
    <3>4. stage' \in Stages
      BY <1>1, <2>1, <2>8, <3>1, Forgot DEF RemovesLast, Stages, Waiting
    <3> QED
      BY <1>1, <2>4, <2>8, <3>3, <3>4 DEF RemovesLast
  <2>9. ASSUME Stores(q) PROVE Typed
    <3>1. page' \in Pages \union {Missing}
      <4>1. page' = page \/ page' = PersistOutcome(page, q.key[2], TRUE) \/ page' = PersistOutcome(page, q.key[2], FALSE)
        BY <2>9 DEF Stores, Reports
      <4>2. ASSUME page \in Pages, NEW ok \in BOOLEAN PROVE PersistOutcome(page, q.key[2], ok) \in Pages
        <5>1. q.key[2] \in Kinds
          BY <2>3 DEF DocKeys
        <5>2. page.failed \ {q.key[2]} \in SUBSET Kinds /\ page.failed \union {q.key[2]} \in SUBSET Kinds
          BY <4>2, <5>1 DEF Pages
        <5> QED
          BY <4>2, <5>2 DEF PersistOutcome, Pages
      <4>3. CASE page = Missing
        BY <2>9, <4>3 DEF Stores, Reports
      <4> QED
        BY <1>1, <4>1, <4>2, <4>3
    <3> QED
      BY <1>1, <2>2, <2>4, <2>9, <3>1 DEF Stores
  <2>10. Typed
    BY <1>6, <2>5, <2>6, <2>7, <2>8, <2>9, Answered
  <2> QED
    BY <1>1, <2>1, <2>10 DEF WebTypeOK
<1> QED
  BY <1>2, <1>3, <1>4, <1>5, <1>6, WebStepKinds

(* Requests under way stay apt when the page goes on as they expect. *)
LEMMA StaysApt ==
  ASSUME NEW q \in Requests, Apt(q), UNCHANGED desks,
         q.op = "drop" => bak'[q.key] = BadDoc,
         q.why = "peek" => UNCHANGED stage,
         q.why = "seed" => UNCHANGED stage,
         q.why \in {"boot", "reset"} => Demoing(stage'),
         q.why = "save" => \/ Demoing(stage') /\ q.key[1] = Demo
                           \/ page' # Missing /\ page'.stored /\ q.key[1] = page'.world
  PROVE  Suits(q, stage', page', bak', desks')
  BY DEF Apt, Suits

(* The requests of the next state, each of which suits it. *)
AllSuit == \A i \in DOMAIN requests' : Suits(requests'[i], stage', page', bak', desks')
LEMMA NextApt == AllSuit => (\A i \in DOMAIN requests : Apt(requests[i]))'
  BY DEF AllSuit, Apt

LEMMA PageApt ==
  ASSUME WebTypeOK, RequestInv, PageStep
  PROVE  RequestInv'
<1>1. requests \in Seq(Requests) /\ UNCHANGED <<docs, bak, desks>> /\ PageStage /\ BadIsOld /\ OneReader
      /\ \A i \in DOMAIN requests : Apt(requests[i]) /\ requests[i] \in Requests
  BY PageEffect DEF WebTypeOK, RequestInv
<1>2. BadIsOld'
  BY <1>1 DEF BadIsOld
<1>3. CASE Wanders
  <2>1. PageStage' /\ OneReader'
    BY <1>1, <1>3 DEF Wanders, PageStage, OneReader
  <2>2. ASSUME NEW i \in DOMAIN requests PROVE Suits(requests[i], stage', page', bak', desks')
    <3> DEFINE q == requests[i]
    <3>1. q \in Requests /\ Apt(q)
      BY <1>1
    <3>2. q.why \notin {"peek", "seed", "boot", "reset", "save"}
      BY <1>3, <3>1 DEF Apt, Suits, Wanders, Unanswered, AtDemo
    <3>3. q.op = "drop" => bak'[q.key] = BadDoc
      BY <1>1, <3>1 DEF Apt, Suits
    <3> QED
      BY <1>1, <3>1, <3>2, <3>3, StaysApt
  <2>3. AllSuit
    BY <1>3, <2>2 DEF Wanders, AllSuit
  <2> QED
    BY <1>2, <2>1, <2>3, NextApt DEF RequestInv
<1>4. CASE OpensBare
  <2>1. PageStage' /\ OneReader'
    <3>1. page'.world = stage'.world /\ stage'.at = "running"
      BY <1>4 DEF OpensBare, Desk, Running
    <3> QED
      BY <1>1, <1>4, <3>1 DEF OpensBare, PageStage, OneReader
  <2>2. ASSUME NEW i \in DOMAIN requests PROVE Suits(requests[i], stage', page', bak', desks')
    <3> DEFINE q == requests[i]
    <3>1. q \in Requests /\ Apt(q)
      BY <1>1
    <3>2. q.why \notin {"peek", "seed", "boot", "reset", "save"}
      BY <1>4, <3>1 DEF Apt, Suits, OpensBare, Demoing
    <3>3. q.op = "drop" => bak'[q.key] = BadDoc
      BY <1>1, <3>1 DEF Apt, Suits
    <3> QED
      BY <1>1, <3>1, <3>2, <3>3, StaysApt
  <2>3. AllSuit
    BY <1>4, <2>2 DEF OpensBare, AllSuit
  <2> QED
    BY <1>2, <2>1, <2>3, NextApt DEF RequestInv
<1>5. ASSUME NEW q \in Requests, Requested(q) PROVE RequestInv'
  <2>1. requests' = requests \o <<q>> /\ <<q>> \in Seq(Requests) /\ Len(<<q>>) = 1 /\ <<q>>[1] = q
    BY <1>5 DEF Requested
  <2>2. \A i \in DOMAIN requests' : \/ i \in DOMAIN requests /\ requests'[i] = requests[i]
                                    \/ i = Len(requests) + 1 /\ requests'[i] = q
    BY <1>1, <2>1
  <2>3. ASSUME NEW i \in DOMAIN requests
        PROVE  /\ Suits(requests[i], stage', page', bak', desks')
               /\ requests[i].why = q.why => q.why \notin {"peek", "seed"}
    <3> DEFINE r == requests[i]
    <3>1. r \in Requests /\ Apt(r)
      BY <1>1
    <3>2. r.op = "drop" => bak'[r.key] = BadDoc
      BY <1>1, <3>1 DEF Apt, Suits
    <3>3. r.why = "peek" => stage.at = "checking"
      BY <3>1 DEF Apt, Suits
    <3>4. r.why = "seed" => stage.at = "opening"
      BY <3>1 DEF Apt, Suits
    <3>5. r.why \in {"boot", "reset"} => Demoing(stage) /\ stage # AtLookup /\ stage.at \notin {"picking", "checked"}
      BY <3>1 DEF Apt, Suits, Demoing, AtLookup
    <3>6. r.why = "save" => /\ stage.at \in {"booting", "running"} /\ stage # AtLookup
                            /\ \/ Demoing(stage) /\ r.key[1] = Demo
                               \/ page # Missing /\ page.stored /\ r.key[1] = page.world
      BY <1>1, <3>1 DEF Apt, Suits, Demoing, AtLookup, PageStage
    <3>7. /\ q.why = "peek" => stage.at = "picking"
          /\ q.why = "seed" => stage.at = "checked"
          /\ stage # AtLookup /\ stage.at \notin {"picking", "checked"} => UNCHANGED <<stage, page>>
          /\ stage.at \in {"checking", "opening"} => UNCHANGED stage
      BY <1>5 DEF Requested, AtLookup
    <3>8. r.why \in {"peek", "seed"} => UNCHANGED stage
      BY <3>3, <3>4, <3>7
    <3>9. r.why \in {"boot", "reset", "save"} => UNCHANGED <<stage, page>>
      BY <3>5, <3>6, <3>7
    <3>10. Suits(r, stage', page', bak', desks')
      BY <1>1, <3>1, <3>2, <3>5, <3>6, <3>8, <3>9, StaysApt
    <3> QED
      BY <3>3, <3>4, <3>7, <3>10
  <2>4. Suits(q, stage', page', bak', desks')
    BY <1>1, <1>5 DEF Requested, Suits, Reads, Demoing, AtDemo
  <2>5. AllSuit
    BY <2>2, <2>3, <2>4 DEF AllSuit
  <2>6. OneReader'
    BY <1>1, <2>2, <2>3 DEF OneReader
  <2>7. PageStage'
    BY <1>1, <1>5 DEF Requested, PageStage
  <2> QED
    BY <1>2, <2>5, <2>6, <2>7, NextApt DEF RequestInv
<1> QED
  BY <1>3, <1>4, <1>5, PageEffect

LEMMA DeskApt ==
  ASSUME WebTypeOK, RequestInv, Edit \/ Second \/ Flush
  PROVE  RequestInv'
<1>1. requests \in Seq(Requests) /\ UNCHANGED <<docs, bak, stage, desks>> /\ PageStage /\ BadIsOld /\ OneReader
      /\ desks \in Nat /\ \A i \in DOMAIN requests : Apt(requests[i]) /\ requests[i] \in Requests
  BY DeskStep DEF WebTypeOK, RequestInv
<1>2. PICK d \in Pages : Takes(d) /\ (Keeps(d) \/ SavesAll(d))
  BY DeskStep
<1>3. BadIsOld'
  BY <1>1 DEF BadIsOld
<1>4. page # Missing /\ page' # Missing /\ page'.world = page.world /\ page'.stored = page.stored
  BY <1>2, WebDeskAssumption DEF Takes, Keeps, SavesAll
<1>5. PageStage'
  BY <1>1, <1>4 DEF PageStage
<1>6. ASSUME NEW i \in DOMAIN requests PROVE Suits(requests[i], stage', page', bak', desks')
  <2> DEFINE r == requests[i]
  <2>1. r \in Requests /\ Apt(r)
    BY <1>1
  <2>2. /\ r.op = "drop" => bak'[r.key] = BadDoc
        /\ r.why \in {"boot", "reset"} => Demoing(stage')
        /\ r.why = "save" => \/ Demoing(stage') /\ r.key[1] = Demo
                             \/ page.stored /\ r.key[1] = page.world
    BY <1>1, <2>1 DEF Apt, Suits
  <2> QED
    BY <1>1, <1>4, <2>1, <2>2, StaysApt
<1>7. CASE Keeps(d)
  <2>1. UNCHANGED requests
    BY <1>7 DEF Keeps
  <2>2. AllSuit /\ OneReader'
    BY <1>1, <1>6, <2>1 DEF AllSuit, OneReader
  <2> QED
    BY <1>3, <1>5, <2>2, NextApt DEF RequestInv
<1>8. CASE SavesAll(d)
  <2>1. requests' = requests \o Puts(d) /\ Puts(d) \in Seq(Requests) /\ d.stored /\ d.world = page.world
        /\ \A i \in DOMAIN Puts(d) : IsPut(Puts(d)[i], d)
    BY <1>1, <1>2, <1>8, PutsShape DEF SavesAll, Takes
  <2>2. \A i \in DOMAIN requests' :
           \/ i \in DOMAIN requests /\ requests'[i] = requests[i]
           \/ i \notin DOMAIN requests /\ i - Len(requests) \in DOMAIN Puts(d) /\ requests'[i] = Puts(d)[i - Len(requests)]
    BY <1>1, <2>1, JoinOf
  <2>3. ASSUME NEW q, IsPut(q, d) PROVE Suits(q, stage', page', bak', desks') /\ q.why = "save"
    <3>1. page'.stored /\ q.key[1] = page'.world
      BY <1>4, <2>1, <2>3, <1>8 DEF IsPut, SavesAll
    <3>2. q.doc # Missing
      BY <2>3, WebDeskAssumption DEF IsPut
    <3> QED
      BY <1>1, <1>4, <2>3, <3>1, <3>2 DEF IsPut, Suits, Reads
  <2>4. AllSuit
    BY <1>6, <2>1, <2>2, <2>3 DEF AllSuit
  <2>5. OneReader'
    BY <1>1, <2>1, <2>2, <2>3 DEF OneReader
  <2> QED
    BY <1>3, <1>5, <2>4, <2>5, NextApt DEF RequestInv
<1> QED
  BY <1>2, <1>7, <1>8

LEMMA CloseApt ==
  ASSUME WebTypeOK, RequestInv, ClosePage
  PROVE  RequestInv'
<1>1. page' = Missing /\ requests' = <<>> /\ UNCHANGED docs /\ BadIsOld
  BY DEF ClosePage, RequestInv
<1>2. DOMAIN requests' = {}
  BY <1>1
<1>3. BadIsOld' /\ PageStage' /\ OneReader'
  BY <1>1, <1>2 DEF BadIsOld, PageStage, OneReader
<1>4. AllSuit
  BY <1>2 DEF AllSuit
<1> QED
  BY <1>3, <1>4, NextApt DEF RequestInv

(* Where the requests of the next state come from once the head is served. *)
OnlyTail ==
    /\ \A i \in DOMAIN requests' :
         i \in Nat \ {0} /\ i + 1 \in DOMAIN requests /\ requests'[i] = requests[i + 1]
    /\ \A i \in DOMAIN requests \ {1} : i - 1 \in DOMAIN requests' /\ requests'[i - 1] = requests[i]
TailThen(x) ==
    /\ \A i \in DOMAIN requests' : i \in Nat \ {0} /\
         \/ i + 1 \in DOMAIN requests /\ requests'[i] = requests[i + 1]
         \/ i = Len(requests) /\ requests'[i] = x
    /\ \A i \in DOMAIN requests \ {1} : i - 1 \in DOMAIN requests' /\ requests'[i - 1] = requests[i]
    /\ Len(requests) \in DOMAIN requests' /\ requests'[Len(requests)] = x
LEMMA HeadServed ==
  ASSUME WebTypeOK, requests # <<>>
  PROVE  /\ 1 \in DOMAIN requests /\ Head(requests) = requests[1] /\ Head(requests) \in Requests
         /\ requests' = Tail(requests) => OnlyTail
         /\ \A x \in Requests : requests' = Append(Tail(requests), x) => TailThen(x)
<1>1. requests \in Seq(Requests)
  BY DEF WebTypeOK
<1>2. requests' = Tail(requests) => OnlyTail
  BY <1>1, TailOf DEF OnlyTail
<1>3. ASSUME NEW x \in Requests, requests' = Append(Tail(requests), x) PROVE TailThen(x)
  BY <1>1, <1>3, TurnOf DEF TailThen
<1> QED
  BY <1>1, <1>2, <1>3, TailOf

(* The answers of the store. *)
LEMMA StoreApt ==
  ASSUME WebTypeOK, RequestInv, StoreAnswers \/ StoreFails
  PROVE  RequestInv'
<1> DEFINE q == Head(requests)
<1>1. requests # <<>> /\ UNCHANGED desks /\ requests \in Seq(Requests) /\ desks \in Nat
  BY Answered DEF WebTypeOK
<1>2. 1 \in DOMAIN requests /\ q = requests[1] /\ q \in Requests /\ Apt(q) /\ q.key \in DocKeys
  BY <1>1, HeadServed DEF RequestInv, Requests
<1>3. PageStage /\ BadIsOld /\ OneReader /\ \A i \in DOMAIN requests : Apt(requests[i]) /\ requests[i] \in Requests
  BY <1>1 DEF RequestInv
<1>4. docs \in Shelves /\ bak \in Shelves
  BY DEF WebTypeOK
<1> DEFINE Kept == \A i \in DOMAIN requests : i # 1 => Suits(requests[i], stage', page', bak', desks')
<1>5. ASSUME OnlyTail, Kept PROVE AllSuit /\ OneReader'
  <2>1. \A i \in DOMAIN requests' : i + 1 # 1 /\ i + 1 \in DOMAIN requests
    BY <1>1, <1>5 DEF OnlyTail
  <2>2. AllSuit
    BY <1>5, <2>1 DEF OnlyTail, AllSuit
  <2>3. \A i, j \in DOMAIN requests' : i + 1 = j + 1 => i = j
    BY <1>5 DEF OnlyTail
  <2>4. OneReader'
    BY <1>3, <1>5, <2>1, <2>3 DEF OnlyTail, OneReader
  <2> QED
    BY <2>2, <2>4
<1>6. ASSUME NEW x \in Requests, TailThen(x), Kept, Suits(x, stage', page', bak', desks'),
             x.why \in {"peek", "seed"} => x.why = q.why
      PROVE  AllSuit /\ OneReader'
  <2>1. \A i \in DOMAIN requests : i + 1 # 1
    BY <1>1
  <2>2. AllSuit
    BY <1>1, <1>6 DEF TailThen, AllSuit
  <2>3. ASSUME NEW i \in DOMAIN requests, i # 1, requests[i].why \in {"peek", "seed"}
        PROVE requests[i].why # q.why
    BY <1>2, <1>3, <2>3 DEF OneReader
  <2>4. SUFFICES ASSUME NEW i \in DOMAIN requests', NEW j \in DOMAIN requests',
                        requests'[i].why = requests'[j].why, requests'[i].why \in {"peek", "seed"}
                 PROVE  i = j
    BY <2>2 DEF OneReader
  <2>5. i \in Nat /\ j \in Nat /\ i + 1 # 1 /\ j + 1 # 1
    BY <1>6 DEF TailThen
  <2>6. CASE i + 1 \in DOMAIN requests /\ requests'[i] = requests[i + 1]
    <3>1. j + 1 \in DOMAIN requests /\ requests'[j] = requests[j + 1]
      BY <1>6, <2>3, <2>4, <2>5, <2>6 DEF TailThen
    <3> QED
      BY <1>3, <2>4, <2>5, <2>6, <3>1 DEF OneReader
  <2>7. CASE i = Len(requests) /\ requests'[i] = x
    <3>1. j = Len(requests)
      BY <1>6, <2>3, <2>4, <2>5, <2>7 DEF TailThen
    <3> QED
      BY <2>7, <3>1
  <2> QED
    BY <1>6, <2>6, <2>7 DEF TailThen
<1>7. ASSUME Hears(q) PROVE RequestInv'
  <2>1. PICK outcome \in Outcomes : Learns(q, outcome)
    BY <1>7 DEF Hears
  <2>2. OnlyTail /\ Reads(q) /\ UNCHANGED bak
    BY <1>1, <1>7, HeadServed DEF Hears
  <2>3. BadIsOld'
    BY <1>2, <1>3, <1>4, <1>7 DEF Hears, BadIsOld, Shelves
  <2>4. CASE q.why = "peek"
    <3>1. page' = Missing /\ page = Missing /\ stage.at = "checking"
      BY <1>1, <2>1, <2>2, <2>4, Learnt
    <3>2. ASSUME NEW i \in DOMAIN requests, i # 1 PROVE Suits(requests[i], stage', page', bak', desks')
      <4> DEFINE r == requests[i]
      <4>1. r \in Requests /\ Apt(r)
        BY <1>3
      <4>2. r.why # "peek"
        BY <1>2, <1>3, <2>4, <3>2 DEF OneReader
      <4>3. r.why \notin {"seed", "boot", "reset", "save"} /\ (r.op = "drop" => bak'[r.key] = BadDoc)
        BY <2>2, <3>1, <4>1 DEF Apt, Suits, Demoing
      <4> QED
        BY <1>1, <4>1, <4>2, <4>3, StaysApt
    <3>3. AllSuit /\ OneReader'
      BY <1>5, <2>2, <3>2
    <3> QED
      BY <2>3, <3>1, <3>3, NextApt DEF RequestInv, PageStage
  <2>5. CASE q.why # "peek"
    <3>1. /\ q.why \in {"seed", "boot"}
          /\ stage' \in Running /\ page' = Desk(stage'.world, TRUE, page'.told) /\ page' \in Pages
          /\ q.why = "seed" => stage.at = "opening" /\ page = Missing
          /\ q.why = "boot" => AtDemo /\ stage'.world = Demo
      BY <1>1, <2>1, <2>2, <2>5, Learnt
    <3>2. page'.world = stage'.world /\ page'.stored /\ stage'.at = "running" /\ page' # Missing
      BY <3>1, WebDeskAssumption DEF Desk, Running
    <3>3. ASSUME NEW i \in DOMAIN requests, i # 1 PROVE Suits(requests[i], stage', page', bak', desks')
      <4> DEFINE r == requests[i]
      <4>1. r \in Requests /\ Apt(r) /\ (r.op = "drop" => bak'[r.key] = BadDoc)
        BY <1>3, <2>2 DEF Apt, Suits
      <4>2. r.why # "peek"
        BY <3>1, <4>1 DEF Apt, Suits, Demoing, AtDemo
      <4>3. r.why # "seed"
        BY <1>2, <1>3, <3>1, <3>3, <4>1 DEF OneReader, Apt, Suits, Demoing, AtDemo
      <4>4. CASE q.why = "seed"
        BY <1>1, <3>1, <4>1, <4>2, <4>3, <4>4, StaysApt DEF Apt, Suits, Demoing
      <4>5. CASE q.why = "boot"
        <5>1. Demoing(stage')
          BY <3>1, <3>2, <4>5 DEF Demoing
        <5>2. r.why = "save" => r.key[1] = Demo
          BY <1>3, <3>1, <4>1, <4>5 DEF Apt, Suits, AtDemo, Demoing, PageStage
        <5> QED
          BY <1>1, <4>1, <4>2, <4>3, <5>1, <5>2, StaysApt
      <4> QED
        BY <3>1, <4>4, <4>5
    <3>4. AllSuit /\ OneReader'
      BY <1>5, <2>2, <3>3
    <3>5. PageStage'
      BY <3>2 DEF PageStage
    <3> QED
      BY <2>3, <3>4, <3>5, NextApt DEF RequestInv
  <2> QED
    BY <2>4, <2>5
<1>8. ASSUME TurnsAside(q) PROVE RequestInv'
  <2>1. UNCHANGED <<docs, stage, page>>
    BY <1>8 DEF TurnsAside
  <2>2. BadIsOld' /\ PageStage'
    BY <1>3, <2>1 DEF BadIsOld, PageStage
  <2>3. docs[q.key] \in Documents \union {Missing} /\ q.key \in DocKeys
    BY <1>2, <1>4 DEF Shelves
  <2>4. CASE q.op = "load" /\ docs[q.key] # Missing /\ ~docs[q.key].good /\ UNCHANGED bak
             /\ requests' = Append(Tail(requests), [q EXCEPT !.op = "aside", !.doc = docs[q.key]])
    <3> DEFINE x == [q EXCEPT !.op = "aside", !.doc = docs[q.key]]
    <3>1. x \in Requests /\ x.op = "aside" /\ x.doc = docs[q.key] /\ x.why = q.why /\ x.key = q.key /\ x.by = q.by
      BY <1>2, <2>3 DEF Requests
    <3>2. docs[q.key] = BadDoc
      BY <1>3, <2>3, <2>4 DEF BadIsOld
    <3>3. Suits(x, stage', page', bak', desks')
      BY <1>1, <1>2, <2>1, <2>4, <3>1, <3>2 DEF Apt, Suits, Reads
    <3>4. Kept
      BY <1>1, <1>3, <2>1, <2>4 DEF Apt
    <3>5. TailThen(x)
      BY <1>1, <2>4, <3>1, HeadServed
    <3> HIDE DEF x
    <3> QED
      BY <1>6, <2>2, <3>1, <3>3, <3>4, <3>5, NextApt DEF RequestInv
  <2>5. CASE q.op = "aside" /\ bak' = [bak EXCEPT ![q.key] = q.doc]
             /\ requests' = Append(Tail(requests), [q EXCEPT !.op = "drop"])
    <3> DEFINE x == [q EXCEPT !.op = "drop"]
    <3>1. x \in Requests /\ x.op = "drop" /\ x.why = q.why /\ x.key = q.key /\ x.by = q.by
      BY <1>2 DEF Requests
    <3>2. q.doc = BadDoc
      BY <1>2, <2>5 DEF Apt, Suits
    <3>3. \A k \in DocKeys : bak'[k] = bak[k] \/ bak'[k] = BadDoc
      BY <1>4, <2>5, <3>2 DEF Shelves
    <3>4. bak'[q.key] = BadDoc
      BY <1>4, <2>3, <2>5, <3>2 DEF Shelves
    <3>5. Suits(x, stage', page', bak', desks')
      BY <1>1, <1>2, <2>1, <2>5, <3>1, <3>4 DEF Apt, Suits, Reads
    <3>6. ASSUME NEW i \in DOMAIN requests PROVE Suits(requests[i], stage', page', bak', desks')
      <4> DEFINE r == requests[i]
      <4>1. r \in Requests /\ Apt(r) /\ r.key \in DocKeys
        BY <1>3 DEF Requests
      <4>2. r.op = "drop" => bak'[r.key] = BadDoc
        BY <3>3, <4>1 DEF Apt, Suits
      <4> QED
        BY <1>1, <2>1, <4>1, <4>2 DEF Apt, Suits
    <3>7. TailThen(x)
      BY <1>1, <2>5, <3>1, HeadServed
    <3> HIDE DEF x
    <3> QED
      BY <1>6, <2>2, <3>1, <3>5, <3>6, <3>7, NextApt DEF RequestInv
  <2> QED
    BY <1>8, <2>4, <2>5 DEF TurnsAside
<1>9. ASSUME docs' = docs \/ docs' = [docs EXCEPT ![q.key] = Missing] PROVE BadIsOld'
  BY <1>2, <1>3, <1>4, <1>9 DEF BadIsOld, Shelves
<1>10. ASSUME RemovesNext(q) PROVE RequestInv'
  <2> DEFINE x == [q EXCEPT !.key = <<q.key[1], "snapshot">>]
  <2>1. UNCHANGED <<bak, stage, page>> /\ q.op = "remove" /\ requests' = Append(Tail(requests), x)
    BY <1>10 DEF RemovesNext
  <2>2. q.key = <<q.key[1], q.key[2]>> /\ <<q.key[1], "snapshot">> \in DocKeys /\ <<q.key[1], "snapshot">>[1] = q.key[1]
    BY <1>2 DEF DocKeys, Kinds
  <2>3. x \in Requests /\ x.op = "remove" /\ x.why = q.why /\ x.key[1] = q.key[1] /\ x.by = q.by
    BY <1>2, <2>1, <2>2 DEF Requests
  <2>4. Suits(x, stage', page', bak', desks')
    BY <1>1, <1>2, <2>1, <2>3 DEF Apt, Suits, Reads
  <2>5. Kept
    BY <1>1, <1>3, <2>1 DEF Apt
  <2>6. TailThen(x)
    BY <1>1, <2>1, <2>3, HeadServed
  <2>7. BadIsOld' /\ PageStage'
    BY <1>3, <1>9, <1>10, <2>1 DEF RemovesNext, PageStage
  <2> HIDE DEF x
  <2> QED
    BY <1>6, <2>3, <2>4, <2>5, <2>6, <2>7, NextApt DEF RequestInv
<1>11. ASSUME RemovesLast(q) PROVE RequestInv'
  <2>1. PICK outcome \in Outcomes : Forgotten(q, outcome)
    BY <1>11 DEF RemovesLast
  <2>2. UNCHANGED bak /\ BadIsOld' /\ q.op = "remove"
    BY <1>9, <1>11 DEF RemovesLast
  <2>3. CASE q.why = "reset"
    <3> DEFINE x == Ask("load", Demo, "overlay", "boot")
    <3>1. AtDemo /\ stage' = [at |-> "booting"] /\ page' = Missing /\ requests' = Append(Tail(requests), x)
      BY <1>1, <2>1, <2>2, <2>3, Forgot
    <3>2. x \in Requests /\ x.op = "load" /\ x.why = "boot" /\ x.key[1] = Demo /\ x.by = desks
      BY <1>1, Asked DEF AllWorlds, Kinds
    <3> HIDE DEF x
    <3>3. Demoing(stage') /\ PageStage'
      BY <3>1 DEF Demoing, PageStage
    <3>4. Suits(x, stage', page', bak', desks')
      BY <1>1, <3>2, <3>3 DEF Suits, Reads
    <3>5. ASSUME NEW i \in DOMAIN requests PROVE Suits(requests[i], stage', page', bak', desks')
      <4> DEFINE r == requests[i]
      <4>1. r \in Requests /\ Apt(r)
        BY <1>3
      <4>2. r.why \notin {"peek", "seed"} /\ (r.op = "drop" => bak'[r.key] = BadDoc)
        BY <2>2, <3>1, <4>1 DEF Apt, Suits, AtDemo, Demoing
      <4>3. r.why = "save" => r.key[1] = Demo
        BY <1>3, <3>1, <4>1 DEF Apt, Suits, AtDemo, Demoing, PageStage
      <4> QED
        BY <1>1, <3>3, <4>1, <4>2, <4>3, StaysApt
    <3>6. TailThen(x)
      BY <1>1, <3>1, <3>2, HeadServed
    <3> QED
      BY <1>6, <2>2, <3>2, <3>3, <3>4, <3>5, <3>6, NextApt DEF RequestInv
  <2>4. CASE q.why # "reset"
    <3>1. requests' = Tail(requests) /\ UNCHANGED page
          /\ (stage' = stage \/ (stage.at = "checked" /\ stage' \in Checked /\ page = Missing))
      BY <1>1, <2>1, <2>2, <2>4, Forgot
    <3>2. OnlyTail /\ PageStage'
      BY <1>1, <1>3, <3>1, HeadServed DEF PageStage
    <3>3. ASSUME NEW i \in DOMAIN requests PROVE Suits(requests[i], stage', page', bak', desks')
      <4> DEFINE r == requests[i]
      <4>1. r \in Requests /\ Apt(r) /\ (r.op = "drop" => bak'[r.key] = BadDoc)
        BY <1>3, <2>2 DEF Apt, Suits
      <4>2. CASE stage' = stage
        BY <1>1, <2>2, <3>1, <4>1, <4>2 DEF Apt
      <4>3. CASE stage.at = "checked" /\ page = Missing
        <5>1. r.why \notin {"peek", "seed", "boot", "reset", "save"}
          BY <4>1, <4>3 DEF Apt, Suits, Demoing
        <5> QED
          BY <1>1, <4>1, <5>1, StaysApt
      <4> QED
        BY <3>1, <4>2, <4>3
    <3> QED
      BY <1>5, <2>2, <3>2, <3>3, NextApt DEF RequestInv
  <2> QED
    BY <2>3, <2>4
<1>12. ASSUME Stores(q) PROVE RequestInv'
  <2>1. OnlyTail /\ UNCHANGED <<bak, stage>> /\ q.op = "put"
    BY <1>1, <1>12, HeadServed DEF Stores
  <2>2. page \in Pages \union {Missing} /\ q.doc # Missing /\ q.doc.good
    BY <1>2, <2>1 DEF WebTypeOK, Apt, Suits
  <2>3. BadIsOld'
    BY <1>2, <1>3, <1>4, <1>12, <2>2 DEF Stores, BadIsOld, Shelves
  <2>4. \/ page' = page
        \/ page # Missing /\ page' # Missing /\ page'.world = page.world /\ page'.stored = page.stored
    <3>1. \/ page' = page
          \/ page # Missing /\ \E ok \in BOOLEAN : page' = PersistOutcome(page, q.key[2], ok)
      BY <1>12 DEF Stores, Reports
    <3>2. ASSUME page # Missing, NEW ok \in BOOLEAN, page' = PersistOutcome(page, q.key[2], ok)
          PROVE  page' # Missing /\ page'.world = page.world /\ page'.stored = page.stored
      <4>1. page \in Pages
        BY <2>2, <3>2
      <4>2. q.key[2] \in Kinds
        BY <1>2 DEF DocKeys
      <4>3. page.failed \ {q.key[2]} \in SUBSET Kinds /\ page.failed \union {q.key[2]} \in SUBSET Kinds
        BY <4>1, <4>2 DEF Pages
      <4>4. page' \in Pages
        BY <3>2, <4>1, <4>3 DEF PersistOutcome, Pages
      <4> QED
        BY <3>2, <4>1, <4>4, WebDeskAssumption DEF PersistOutcome, Pages
    <3> QED
      BY <3>1, <3>2
  <2>5. PageStage'
    BY <1>3, <2>1, <2>4 DEF PageStage
  <2>6. ASSUME NEW i \in DOMAIN requests PROVE Suits(requests[i], stage', page', bak', desks')
    BY <1>1, <1>3, <2>1, <2>4 DEF Apt, Suits
  <2> QED
    BY <1>5, <2>1, <2>3, <2>5, <2>6, NextApt DEF RequestInv
<1> QED
  BY <1>7, <1>8, <1>10, <1>11, <1>12, Answered

LEMMA RequestStep == WebTypeOK /\ RequestInv /\ [WebNext]_webVars => RequestInv'
<1> SUFFICES ASSUME WebTypeOK, RequestInv, [WebNext]_webVars PROVE RequestInv'
  OBVIOUS
<1>1. CASE UNCHANGED webVars
  BY <1>1 DEF webVars, RequestInv, PageStage, BadIsOld, OneReader, Apt
<1> QED
  BY <1>1, PageApt, CloseApt, DeskApt, StoreApt, WebStepKinds

(* What the store's answers leave of the running desk. *)
LEMMA StoreDesk ==
  ASSUME WebTypeOK, RequestInv, StoreAnswers \/ StoreFails
  PROVE  \/ page' = Missing
         \/ UNCHANGED page
         \/ /\ Reads(Head(requests)) /\ page' \in Pages /\ stage' \in Running
            /\ page' = Desk(stage'.world, TRUE, page'.told)
         \/ /\ Head(requests).op = "put" /\ page \in Pages /\ page' \in Pages
            /\ page'.world = page.world /\ page'.stored = page.stored /\ page'.dirty = page.dirty
            /\ page'.since = page.since /\ page'.last = page.last /\ page'.rev = page.rev
            /\ LET k == Head(requests).key[2] IN
               \/ page'.failed = page.failed \union {k} /\ UNCHANGED docs
               \/ /\ page'.failed = page.failed \ {k}
                  /\ docs' = [docs EXCEPT ![Head(requests).key] = Head(requests).doc]
<1> DEFINE q == Head(requests)
           Effect == \/ page' = Missing
                     \/ UNCHANGED page
                     \/ /\ Reads(q) /\ page' \in Pages /\ stage' \in Running
                        /\ page' = Desk(stage'.world, TRUE, page'.told)
                     \/ /\ q.op = "put" /\ page \in Pages /\ page' \in Pages
                        /\ page'.world = page.world /\ page'.stored = page.stored /\ page'.dirty = page.dirty
                        /\ page'.since = page.since /\ page'.last = page.last /\ page'.rev = page.rev
                        /\ \/ page'.failed = page.failed \union {q.key[2]} /\ UNCHANGED docs
                           \/ /\ page'.failed = page.failed \ {q.key[2]}
                              /\ docs' = [docs EXCEPT ![q.key] = q.doc]
<1>1. requests # <<>>
  BY Answered
<1>2. q \in Requests /\ q.key[2] \in Kinds /\ page \in Pages \union {Missing}
  BY <1>1, HeadServed DEF WebTypeOK, Requests, DocKeys
<1>3. ASSUME Hears(q) PROVE Effect
  <2>1. PICK outcome \in Outcomes : Learns(q, outcome)
    BY <1>3 DEF Hears
  <2>2. Reads(q)
    BY <1>3 DEF Hears
  <2> QED
    BY <1>1, <2>1, <2>2, Learnt
<1>4. ASSUME TurnsAside(q) \/ RemovesNext(q) PROVE Effect
  BY <1>4 DEF TurnsAside, RemovesNext
<1>5. ASSUME RemovesLast(q) PROVE Effect
  <2>1. PICK outcome \in Outcomes : Forgotten(q, outcome)
    BY <1>5 DEF RemovesLast
  <2>2. q.op = "remove"
    BY <1>5 DEF RemovesLast
  <2> QED
    BY <1>1, <2>1, <2>2, Forgot
<1>6. ASSUME Stores(q) PROVE Effect
  <2>1. CASE UNCHANGED page
    BY <2>1
  <2>2. CASE ~UNCHANGED page
    <3>1. page \in Pages /\ q.op = "put"
      BY <1>2, <1>6, <2>2 DEF Stores, Reports
    <3>2. \/ page' = PersistOutcome(page, q.key[2], TRUE) /\ docs' = [docs EXCEPT ![q.key] = q.doc]
          \/ page' = PersistOutcome(page, q.key[2], FALSE) /\ UNCHANGED docs
      BY <1>6, <2>2 DEF Stores, Reports
    <3>3. page.failed \ {q.key[2]} \in SUBSET Kinds /\ page.failed \union {q.key[2]} \in SUBSET Kinds
      BY <1>2, <3>1 DEF Pages
    <3>4. CASE page' = PersistOutcome(page, q.key[2], TRUE) /\ docs' = [docs EXCEPT ![q.key] = q.doc]
      <4>1. page' = [page EXCEPT !.badge = FALSE, !.failed = page.failed \ {q.key[2]}]
        BY <3>1, <3>4 DEF PersistOutcome, Pages
      <4> QED
        BY <3>1, <3>3, <3>4, <4>1 DEF Pages
    <3>5. CASE page' = PersistOutcome(page, q.key[2], FALSE) /\ UNCHANGED docs
      <4>1. page' = [page EXCEPT !.badge = TRUE, !.failed = page.failed \union {q.key[2]}]
        BY <3>1, <3>5 DEF PersistOutcome, Pages
      <4> QED
        BY <3>1, <3>3, <3>5, <4>1 DEF Pages
    <3> QED
      BY <3>2, <3>4, <3>5
  <2> QED
    BY <2>1, <2>2
<1> QED
  BY <1>3, <1>4, <1>5, <1>6, Answered

-----------------------------------------------------------------------------
(* No unreadable document is lost. *)

LEMMA AsideStep ==
  ASSUME WebTypeOK, RequestInv, WebNext, NEW key \in DocKeys,
         docs[key] # Missing, ~docs[key].good, docs'[key] = Missing
  PROVE  bak[key] = docs[key] \/ Head(requests).why \in {"forget", "reset"}
<1> DEFINE q == Head(requests)
<1>1. docs[key] = BadDoc /\ docs \in Shelves
  BY DEF RequestInv, BadIsOld, WebTypeOK
<1>2. StoreAnswers \/ StoreFails
  <2>1. PageStep => UNCHANGED docs
    BY PageEffect
  <2>2. Edit \/ Second \/ Flush => UNCHANGED docs
    BY DeskStep
  <2>3. ClosePage => UNCHANGED docs
    BY DEF ClosePage
  <2> QED
    BY <2>1, <2>2, <2>3, WebStepKinds
<1>3. requests # <<>>
  BY <1>2, Answered
<1>4. q \in Requests /\ Apt(q) /\ q.key \in DocKeys
  BY <1>3, HeadServed DEF RequestInv, Requests
<1>5. CASE q.op = "remove"
  BY <1>4, <1>5 DEF Apt, Suits
<1>6. CASE Hears(q)
  <2>1. q.op = "drop" /\ key = q.key
    BY <1>1, <1>4, <1>6 DEF Hears, Shelves
  <2> QED
    BY <1>1, <1>4, <2>1 DEF Apt, Suits
<1>7. CASE TurnsAside(q)
  BY <1>1, <1>7 DEF TurnsAside
<1>8. CASE Stores(q)
  <2>1. q.doc # Missing
    BY <1>4, <1>8 DEF Stores, Apt, Suits
  <2> QED
    BY <1>1, <1>4, <1>8, <2>1 DEF Stores, Shelves
<1> QED
  BY <1>2, <1>5, <1>6, <1>7, <1>8, Answered DEF RemovesNext, RemovesLast

(* The browser's state is well typed, and every request fits the page.     *)
LEMMA WebInvariant == WebSpec => [](WebTypeOK /\ RequestInv)
<1>1. WebTypeOK /\ RequestInv /\ [WebNext]_webVars => WebTypeOK' /\ RequestInv'
  BY WebTypeStep, RequestStep
<1> QED
  BY <1>1, WebInitType, PTL DEF WebSpec

(* Types of the browser's desk, its documents and its requests             *)
(* (live.rs, persist.rs, bridge.rs).                                       *)
THEOREM WebTypes == WebSpec => []WebTypeOK
  BY WebInvariant, PTL

(* An unreadable document leaves its key only when the operator discards   *)
(* it, the demo forgets it, or its copy is under ".bak": whenever the page  *)
(* closes and whatever the store fails (load_versioned).                   *)
THEOREM NothingUnreadLost == WebSpec => SetAside
<1>1. WebTypeOK /\ RequestInv /\ [WebNext]_webVars
        => [\A key \in DocKeys :
               docs[key] # Missing /\ ~docs[key].good /\ docs'[key] = Missing =>
                   bak[key] = docs[key] \/ Head(requests).why \in {"forget", "reset"}]_webVars
  BY AsideStep
<1> QED
  BY <1>1, WebInvariant, PTL DEF WebSpec, SetAside

-----------------------------------------------------------------------------
(* Saves come soon. *)

DueInv ==
    page # Missing =>
        /\ page.last <= second
        /\ page.stored /\ page.dirty # {} =>
              page.last <= page.since /\ page.since <= second /\ second - page.last < SaveDebounce

LEMMA FreshDesk ==
  ASSUME NEW w \in AllWorlds, NEW stored \in BOOLEAN, NEW told
  PROVE  LET d == Desk(w, stored, told) IN
         /\ d.world = w /\ d.stored = stored /\ d.dirty = {} /\ d.failed = {} /\ d.last = -SaveDebounce
         /\ d.rev = [k \in Kinds |-> 0]
  BY DEF Desk

LEMMA DrainsDue ==
  ASSUME NEW d \in Pages, NEW now \in Nat, Drained(d, now), d.last <= now,
         d.dirty # {} => d.last <= d.since /\ d.since <= now
  PROVE  /\ page'.last <= now
         /\ page'.stored /\ page'.dirty # {} =>
               page'.last <= page'.since /\ page'.since <= now /\ now - page'.last < SaveDebounce
<1>1. CASE d.stored /\ d.dirty # {} /\ SaveDue(d, now)
  <2>1. page' = [d EXCEPT !.dirty = {}, !.last = now]
    BY <1>1 DEF Drained, Cleaned, Pages
  <2> QED
    BY <2>1 DEF Pages
<1>2. CASE ~(d.stored /\ d.dirty # {} /\ SaveDue(d, now))
  <2>1. page' = d
    BY <1>2 DEF Drained
  <2>2. SaveDebounce \in Nat /\ d.last \in Int
    BY WebDeskAssumption DEF Pages
  <2> QED
    BY <1>2, <2>1, <2>2 DEF SaveDue
<1> QED
  BY <1>1, <1>2

LEMMA DueStep == WebTypeOK /\ RequestInv /\ DueInv /\ [WebNext]_webVars => DueInv'
<1> SUFFICES ASSUME WebTypeOK, RequestInv, DueInv, [WebNext]_webVars, page' # Missing
             PROVE  /\ page'.last <= second'
                    /\ page'.stored /\ page'.dirty # {} =>
                          /\ page'.last <= page'.since /\ page'.since <= second'
                          /\ second' - page'.last < SaveDebounce
  BY DEF DueInv
<1>1. second \in Nat /\ revisions \in Nat /\ SaveDebounce \in Nat /\ page \in Pages \union {Missing}
  BY WebDeskAssumption DEF WebTypeOK
<1>2. CASE UNCHANGED <<page, second>>
  BY <1>2 DEF DueInv
<1>3. ASSUME NEW w \in AllWorlds, NEW stored \in BOOLEAN, page' = Desk(w, stored, page'.told), UNCHANGED second
      PROVE  page'.last <= second' /\ page'.dirty = {}
  <2>1. page'.last = -SaveDebounce /\ page'.dirty = {}
    BY <1>3, FreshDesk
  <2> QED
    BY <1>1, <1>3, <2>1
<1>4. CASE PageStep
  <2>1. UNCHANGED second /\ (Wanders \/ OpensBare \/ \E q \in Requests : Requested(q))
    BY <1>4, PageEffect
  <2>2. CASE OpensBare
    <3>1. stage'.world \in AllWorlds /\ page' = Desk(stage'.world, FALSE, page'.told)
      BY <2>2 DEF OpensBare, AllWorlds
    <3> QED
      BY <1>3, <2>1, <3>1
  <2>3. CASE ~OpensBare
    <3>1. UNCHANGED page
      BY <2>1, <2>3 DEF Wanders, Requested
    <3> QED
      BY <1>2, <2>1, <3>1
  <2> QED
    BY <2>2, <2>3
<1>5. CASE ClosePage
  BY <1>5 DEF ClosePage
<1>6. CASE Edit
  <2>1. PICK what \in {{"overlay"}, Kinds} :
          Drained([page EXCEPT !.dirty = @ \union what,
                               !.since = IF page.dirty = {} THEN second ELSE @,
                               !.rev = [k \in Kinds |-> IF k \in what THEN revisions + 1 ELSE @[k]]], second)
    BY <1>6 DEF Edit
  <2> DEFINE since == IF page.dirty = {} THEN second ELSE page.since
             rev == [k \in Kinds |-> IF k \in what THEN revisions + 1 ELSE page.rev[k]]
             d == [page EXCEPT !.dirty = @ \union what, !.since = since, !.rev = rev]
  <2>2. page \in Pages /\ page # Missing /\ UNCHANGED second
    BY <1>1, <1>6 DEF Edit
  <2>3. what \subseteq Kinds /\ since \in Nat /\ rev \in [Kinds -> Nat] /\ page.dirty \union what \subseteq Kinds
    BY <1>1, <2>2 DEF Pages, Kinds
  <2>4. d \in Pages /\ d.last = page.last /\ d.since = since /\ d.stored = page.stored
    <3> HIDE DEF since, rev
    <3> QED
      BY <2>2, <2>3 DEF Pages
  <2>5. page.stored => page.last <= since /\ since <= second
    BY <1>1, <2>2 DEF DueInv
  <2>6. Drained(d, second)
    BY <2>1
  <2>7. CASE page.stored
    <3> HIDE DEF d
    <3>1. d.last <= second /\ d.last <= d.since /\ d.since <= second
      BY <2>2, <2>4, <2>5, <2>7 DEF DueInv
    <3> QED
      BY <1>1, <2>2, <2>4, <2>6, <3>1, DrainsDue
  <2>8. CASE ~page.stored
    <3> HIDE DEF d
    <3>1. page' = d
      BY <2>4, <2>6, <2>8 DEF Drained
    <3> QED
      BY <2>2, <2>4, <2>8, <3>1 DEF DueInv
  <2> QED
    BY <2>7, <2>8
<1>7. CASE Second
  <2>1. page \in Pages /\ page # Missing /\ Drained(page, second + 1) /\ second' = second + 1
    BY <1>1, <1>7 DEF Second
  <2>2. CASE page.stored
    <3>1. page.last \in Int /\ page.since \in Int
      BY <2>1 DEF Pages
    <3>2. page.last <= second + 1 /\ (page.dirty # {} => page.last <= page.since /\ page.since <= second + 1)
      BY <1>1, <2>1, <2>2, <3>1 DEF DueInv
    <3> QED
      BY <1>1, <2>1, <3>2, DrainsDue
  <2>3. CASE ~page.stored
    <3>1. page' = page /\ page.last \in Int
      BY <2>1, <2>3 DEF Drained, Pages
    <3> QED
      BY <1>1, <2>1, <2>3, <3>1 DEF DueInv
  <2> QED
    BY <2>2, <2>3
<1>8. CASE Flush
  <2>1. page \in Pages /\ page # Missing /\ page' = Cleaned(page) /\ UNCHANGED Counts
    BY <1>1, <1>8 DEF Flush
  <2>2. page'.last = page.last /\ page'.dirty = {} /\ UNCHANGED second
    BY <2>1 DEF Cleaned, Pages, Counts
  <2> QED
    BY <2>1, <2>2 DEF DueInv
<1>9. CASE StoreAnswers \/ StoreFails
  <2>1. UNCHANGED second
    BY <1>9, Answered
  <2>2. CASE stage' \in Running /\ page' = Desk(stage'.world, TRUE, page'.told)
    <3>1. stage'.world \in AllWorlds
      BY <2>2 DEF Running
    <3> QED
      BY <1>3, <2>1, <2>2, <3>1
  <2>3. CASE /\ page \in Pages /\ page'.stored = page.stored /\ page'.dirty = page.dirty
             /\ page'.since = page.since /\ page'.last = page.last
    <3>1. page # Missing
      BY <2>3, WebDeskAssumption
    <3> QED
      BY <2>1, <2>3, <3>1 DEF DueInv
  <2> QED
    BY <1>2, <1>9, <2>1, <2>2, <2>3, StoreDesk
<1>10. CASE UNCHANGED webVars
  BY <1>2, <1>10 DEF webVars
<1> QED
  BY <1>4, <1>5, <1>6, <1>7, <1>8, <1>9, <1>10, WebStepKinds

LEMMA DueInit == WebInit => DueInv
  BY DEF WebInit, DueInv

-----------------------------------------------------------------------------
(* What the operator forgets. *)

(* A discard is under way while the operator has yet to open the desk: it  *)
(* is served before the desk's seed, none is left when a live desk runs,   *)
(* and its removals come before any save of the same document.             *)
Discards(q) == q.why = "forget" /\ q.key[2] = "overlay"
SeedLast ==
    \A i, j \in DOMAIN requests : requests[i].why = "seed" /\ Discards(requests[j]) => j < i
NoneLeft ==
    page # Missing /\ page.stored /\ page.world # Demo => \A i \in DOMAIN requests : ~Discards(requests[i])
SavesLast ==
    \A i, j \in DOMAIN requests :
        requests[i].op = "put" /\ requests[j].why = "forget" /\ requests[i].key = requests[j].key => j < i
ForgetInv == SeedLast /\ NoneLeft /\ SavesLast

LEMMA ForgetInit == WebInit => ForgetInv
  BY DEF WebInit, ForgetInv, SeedLast, NoneLeft, SavesLast

(* A save under way is of the demo, or of the page that runs. *)
LEMMA SaveOf ==
  ASSUME RequestInv, WebTypeOK, NEW i \in DOMAIN requests, requests[i].op = "put"
  PROVE  /\ requests[i].why = "save"
         /\ \/ Demoing(stage) /\ requests[i].key[1] = Demo
            \/ page # Missing /\ page.stored /\ requests[i].key[1] = page.world
  BY DEF RequestInv, Apt, Suits

LEMMA ForgetPage ==
  ASSUME WebTypeOK, RequestInv, ForgetInv, PageStep
  PROVE  ForgetInv'
<1>1. Wanders \/ OpensBare \/ \E q \in Requests : Requested(q)
  BY PageEffect
<1>2. CASE Wanders
  BY <1>2 DEF Wanders, ForgetInv, SeedLast, NoneLeft, SavesLast
<1>3. CASE OpensBare
  <2>1. stage'.world \in AllWorlds
    BY <1>3 DEF OpensBare, AllWorlds
  <2>2. page'.stored = FALSE /\ UNCHANGED requests
    BY <1>3 DEF OpensBare, Desk
  <2> QED
    BY <2>2 DEF ForgetInv, SeedLast, NoneLeft, SavesLast
<1>4. ASSUME NEW q \in Requests, Requested(q)
      PROVE  ForgetInv'
  <2>1. /\ \A i \in DOMAIN requests : i \in DOMAIN requests' /\ requests'[i] = requests[i]
        /\ \A i \in DOMAIN requests' : i \in Nat /\
             ((i \in DOMAIN requests /\ requests'[i] = requests[i]) \/ (i = Len(requests) + 1 /\ requests'[i] = q))
        /\ \A i \in DOMAIN requests : i < Len(requests) + 1
    <3>1. <<q>> \in Seq(Requests) /\ Len(<<q>>) = 1 /\ <<q>>[1] = q /\ requests \in Seq(Requests)
          /\ requests' = requests \o <<q>>
      BY <1>4 DEF WebTypeOK, Requested
    <3> QED
      BY <3>1, JoinOf
  <2>2. q.op # "put"
    BY <1>4 DEF Requested
  <2>3. ASSUME q.why = "forget" PROVE stage.at = "checked" /\ page = Missing
    <3>1. stage.at = "checked"
      BY <1>4, <2>3 DEF Requested
    <3> QED
      BY <3>1 DEF RequestInv, PageStage
  <2>4. ASSUME q.why = "seed" PROVE q.why # "forget"
    BY <2>4
  <2>5. SeedLast'
    <3> SUFFICES ASSUME NEW i \in DOMAIN requests', NEW j \in DOMAIN requests',
                        requests'[i].why = "seed", Discards(requests'[j])
                 PROVE  j < i
      BY DEF SeedLast
    <3>1. CASE i \in DOMAIN requests /\ j \in DOMAIN requests
      BY <2>1, <3>1 DEF ForgetInv, SeedLast
    <3>2. CASE i \in DOMAIN requests /\ requests'[j] = q
      <4>1. stage.at = "opening"
        BY <2>1, <3>2 DEF RequestInv, Apt, Suits
      <4> QED
        BY <2>3, <3>2, <4>1 DEF Discards
    <3>3. CASE i = Len(requests) + 1 /\ requests'[i] = q
      <4>1. j \in DOMAIN requests
        BY <2>1, <3>3 DEF Discards
      <4> QED
        BY <2>1, <3>3, <4>1
    <3> QED
      BY <2>1, <3>1, <3>2, <3>3
  <2>6. NoneLeft'
    <3> SUFFICES ASSUME page' # Missing, page'.stored, page'.world # Demo, NEW i \in DOMAIN requests'
                 PROVE  ~Discards(requests'[i])
      BY DEF NoneLeft
    <3>1. q.why = "reset" /\ UNCHANGED page
      BY <1>4 DEF Requested
    <3> QED
      BY <2>1, <3>1 DEF ForgetInv, NoneLeft, Discards
  <2>7. SavesLast'
    <3> SUFFICES ASSUME NEW i \in DOMAIN requests', NEW j \in DOMAIN requests',
                        requests'[i].op = "put", requests'[j].why = "forget", requests'[i].key = requests'[j].key
                 PROVE  j < i
      BY DEF SavesLast
    <3>1. i \in DOMAIN requests /\ requests'[i] = requests[i]
      BY <2>1, <2>2
    <3>2. CASE j \in DOMAIN requests
      BY <2>1, <3>1, <3>2 DEF ForgetInv, SavesLast
    <3>3. CASE requests'[j] = q
      BY <2>3, <3>1, <3>3, SaveOf DEF Demoing
    <3> QED
      BY <2>1, <3>2, <3>3
  <2> QED
    BY <2>5, <2>6, <2>7 DEF ForgetInv
<1> QED
  BY <1>1, <1>2, <1>3, <1>4

LEMMA ForgetDesk ==
  ASSUME WebTypeOK, RequestInv, ForgetInv, Edit \/ Second \/ Flush
  PROVE  ForgetInv'
<1>1. PICK d \in Pages : Takes(d) /\ (Keeps(d) \/ SavesAll(d))
  BY DeskStep
<1>2. page # Missing /\ page'.world = page.world /\ page'.stored = page.stored
  BY <1>1 DEF Takes, Keeps, SavesAll
<1>3. CASE UNCHANGED requests
  BY <1>2, <1>3 DEF ForgetInv, SeedLast, NoneLeft, SavesLast
<1>4. CASE requests' = requests \o Puts(d)
  <2>1. Puts(d) \in Seq(Requests) /\ requests \in Seq(Requests) 
        /\ \A i \in DOMAIN Puts(d) : Puts(d)[i].op = "put" /\ Puts(d)[i].why = "save"
    BY PutsShape DEF WebTypeOK, IsPut
  <2>2. \A i \in DOMAIN requests' : i \in Nat /\
           \/ i \in DOMAIN requests /\ requests'[i] = requests[i]
           \/ i > Len(requests) /\ requests'[i].op = "put" /\ requests'[i].why = "save"
    <3>1. \A i \in DOMAIN requests : requests'[i] = requests[i]
      BY <1>4, <2>1, JoinOf
    <3>2. \A i \in DOMAIN requests' : i \in Nat /\
             \/ i \in DOMAIN requests
             \/ i > Len(requests) /\ i - Len(requests) \in DOMAIN Puts(d) /\ requests'[i] = Puts(d)[i - Len(requests)]
      BY <1>4, <2>1, JoinOf
    <3> QED
      BY <2>1, <3>1, <3>2
  <2>3. \A i \in DOMAIN requests : i \in Nat /\ i <= Len(requests)
    BY <2>1
  <2>4. SeedLast'
    BY <2>2 DEF ForgetInv, SeedLast, Discards
  <2>5. NoneLeft'
    BY <1>2, <2>2 DEF ForgetInv, NoneLeft, Discards
  <2>6. SavesLast'
    BY <2>2, <2>3 DEF ForgetInv, SavesLast
  <2> QED
    BY <2>4, <2>5, <2>6 DEF ForgetInv
<1> QED
  BY <1>1, <1>3, <1>4 DEF Keeps, SavesAll

(* When the head is served, discards and saves stay in their order. *)
LEMMA ForgetShift ==
  ASSUME WebTypeOK, ForgetInv, requests # <<>>,
         OnlyTail \/ \E x \in Requests : /\ TailThen(x) /\ ~Discards(x) /\ x.op # "put"
                                         /\ x.why = "forget" => \A i \in DOMAIN requests :
                                              requests[i].op = "put" => requests[i].key # x.key
  PROVE  SeedLast' /\ SavesLast'
<1>1. requests \in Seq(Requests) /\ \A i \in DOMAIN requests : i \in Nat /\ i <= Len(requests)
  BY DEF WebTypeOK
<1>2. CASE OnlyTail
  <2>1. \A i \in DOMAIN requests' : i \in Nat /\ i + 1 \in DOMAIN requests /\ requests'[i] = requests[i + 1]
    BY <1>2 DEF OnlyTail
  <2>2. SeedLast'
    BY <2>1 DEF ForgetInv, SeedLast
  <2>3. SavesLast'
    BY <2>1 DEF ForgetInv, SavesLast
  <2> QED
    BY <2>2, <2>3
<1>3. ASSUME NEW x \in Requests, TailThen(x), ~Discards(x), x.op # "put",
             x.why = "forget" => \A i \in DOMAIN requests : requests[i].op = "put" => requests[i].key # x.key
      PROVE  SeedLast' /\ SavesLast'
  <2>1. \A i \in DOMAIN requests' : i \in Nat /\
           \/ i + 1 \in DOMAIN requests /\ requests'[i] = requests[i + 1]
           \/ i = Len(requests) /\ requests'[i] = x
    BY <1>3 DEF TailThen
  <2>2. SeedLast'
    <3> SUFFICES ASSUME NEW i \in DOMAIN requests', NEW j \in DOMAIN requests',
                        requests'[i].why = "seed", Discards(requests'[j])
                 PROVE  j < i
      BY DEF SeedLast
    <3>1. j + 1 \in DOMAIN requests /\ requests'[j] = requests[j + 1] /\ j \in Nat /\ i \in Nat
      BY <1>3, <2>1
    <3>2. CASE i + 1 \in DOMAIN requests /\ requests'[i] = requests[i + 1]
      BY <3>1, <3>2 DEF ForgetInv, SeedLast
    <3>3. CASE i = Len(requests)
      BY <1>1, <3>1, <3>3
    <3> QED
      BY <2>1, <3>2, <3>3
  <2>3. SavesLast'
    <3> SUFFICES ASSUME NEW i \in DOMAIN requests', NEW j \in DOMAIN requests',
                        requests'[i].op = "put", requests'[j].why = "forget", requests'[i].key = requests'[j].key
                 PROVE  j < i
      BY DEF SavesLast
    <3>1. i + 1 \in DOMAIN requests /\ requests'[i] = requests[i + 1] /\ i \in Nat /\ j \in Nat
      BY <1>3, <2>1
    <3>2. CASE j + 1 \in DOMAIN requests /\ requests'[j] = requests[j + 1]
      BY <3>1, <3>2 DEF ForgetInv, SavesLast
    <3>3. CASE requests'[j] = x
      BY <1>3, <3>1, <3>3
    <3> QED
      BY <2>1, <3>2, <3>3
  <2> QED
    BY <2>2, <2>3
<1> QED
  BY <1>2, <1>3

LEMMA ForgetStore ==
  ASSUME WebTypeOK, RequestInv, ForgetInv, StoreAnswers \/ StoreFails
  PROVE  ForgetInv'
<1> DEFINE q == Head(requests)
<1>1. requests # <<>> /\ 1 \in DOMAIN requests /\ q = requests[1] /\ q \in Requests
  BY Answered, HeadServed
<1>2. Hears(q) \/ TurnsAside(q) \/ RemovesNext(q) \/ RemovesLast(q) \/ Stores(q)
  BY Answered
<1>3. Apt(q)
  BY <1>1 DEF RequestInv
<1> HIDE DEF q
<1>4. ASSUME OnlyTail, \/ page' = Missing
                       \/ page # Missing /\ page'.stored = page.stored /\ page'.world = page.world
                       \/ page'.world = Demo
                       \/ q.why = "seed"
      PROVE  ForgetInv'
  <2>1. SeedLast' /\ SavesLast'
    BY <1>1, <1>4, ForgetShift
  <2>2. NoneLeft'
    <3> SUFFICES ASSUME page' # Missing, page'.stored, page'.world # Demo, NEW i \in DOMAIN requests'
                 PROVE  ~Discards(requests'[i])
      BY DEF NoneLeft
    <3>1. i \in Nat \ {0} /\ i + 1 \in DOMAIN requests /\ requests'[i] = requests[i + 1]
      BY <1>4 DEF OnlyTail
    <3>2. CASE q.why = "seed"
      <4>1. Discards(requests[i + 1]) => i + 1 < 1
        BY <1>1, <3>1, <3>2 DEF ForgetInv, SeedLast
      <4> QED
        BY <3>1, <4>1
    <3>3. CASE page # Missing /\ page'.stored = page.stored /\ page'.world = page.world
      BY <3>1, <3>3 DEF ForgetInv, NoneLeft
    <3> QED
      BY <1>4, <3>2, <3>3
  <2> QED
    BY <2>1, <2>2 DEF ForgetInv
<1>5. ASSUME NEW x \in Requests, TailThen(x), ~Discards(x), x.op # "put",
             x.why = "forget" => \A i \in DOMAIN requests : requests[i].op = "put" => requests[i].key # x.key,
             page' = Missing \/ UNCHANGED page
      PROVE  ForgetInv'
  <2>1. SeedLast' /\ SavesLast'
    BY <1>1, <1>5, ForgetShift
  <2>2. NoneLeft'
    <3> SUFFICES ASSUME page' # Missing, page'.stored, page'.world # Demo, NEW i \in DOMAIN requests'
                 PROVE  ~Discards(requests'[i])
      BY DEF NoneLeft
    <3>1. (i + 1 \in DOMAIN requests /\ requests'[i] = requests[i + 1]) \/ requests'[i] = x
      BY <1>5 DEF TailThen
    <3> QED
      BY <1>5, <3>1 DEF ForgetInv, NoneLeft
  <2> QED
    BY <2>1, <2>2 DEF ForgetInv
<1>6. CASE Hears(q)
  <2>1. PICK outcome \in Outcomes : Learns(q, outcome)
    BY <1>6 DEF Hears
  <2>2. Reads(q) /\ OnlyTail
    BY <1>1, <1>6, HeadServed DEF Hears
  <2>3. \/ page = Missing /\ UNCHANGED page
        \/ stage' \in Running /\ page' = Desk(stage'.world, TRUE, page'.told) /\ (q.why = "seed" \/ stage'.world = Demo)
    BY <1>1, <2>1, <2>2, Learnt DEF q
  <2>4. page' = Desk(stage'.world, TRUE, page'.told) => page'.world = stage'.world
    BY DEF Desk
  <2> QED
    BY <1>4, <2>2, <2>3, <2>4
<1>7. CASE TurnsAside(q)
  <2>1. q.op \in {"load", "aside"} /\ UNCHANGED page
    BY <1>7 DEF TurnsAside
  <2>2. PICK x \in Requests : requests' = Append(Tail(requests), x) /\ x.op # "put" /\ x.why = q.why
    <3>1. CASE q.op = "load" /\ requests' = Append(Tail(requests), [q EXCEPT !.op = "aside", !.doc = docs[q.key]])
      <4>1. docs[q.key] \in Documents \union {Missing}
        BY <1>1 DEF Requests, WebTypeOK, Shelves
      <4>2. [q EXCEPT !.op = "aside", !.doc = docs[q.key]] \in Requests
        BY <1>1, <4>1 DEF Requests
      <4> QED
        BY <1>1, <3>1, <4>2 DEF Requests
    <3>2. CASE q.op = "aside" /\ requests' = Append(Tail(requests), [q EXCEPT !.op = "drop"])
      <4>1. [q EXCEPT !.op = "drop"] \in Requests
        BY <1>1 DEF Requests
      <4> QED
        BY <1>1, <3>2, <4>1 DEF Requests
    <3> QED
      BY <1>7, <3>1, <3>2 DEF TurnsAside
  <2>3. TailThen(x)
    BY <1>1, <2>2, HeadServed
  <2>4. q.why # "forget"
    BY <1>3, <2>1 DEF Apt, Suits, Reads
  <2> QED
    BY <1>5, <2>1, <2>2, <2>3, <2>4 DEF Discards
<1>8. CASE RemovesNext(q)
  <2> DEFINE x == [q EXCEPT !.key = <<q.key[1], "snapshot">>]
  <2>1. q.op = "remove" /\ q.key[2] = "overlay" /\ requests' = Append(Tail(requests), x) /\ UNCHANGED page
    BY <1>8 DEF RemovesNext
  <2>2. x \in Requests /\ x.op = "remove" /\ x.why = q.why /\ x.key[2] = "snapshot" /\ x.key[1] = q.key[1]
    <3>1. <<q.key[1], "snapshot">> \in DocKeys
      BY <1>1 DEF Requests, DocKeys, Kinds
    <3> QED
      BY <1>1, <2>1, <3>1 DEF Requests
  <2> HIDE DEF x
  <2>3. TailThen(x)
    BY <1>1, <2>1, <2>2, HeadServed
  <2>4. ASSUME q.why = "forget", NEW i \in DOMAIN requests, requests[i].op = "put", requests[i].key = x.key
        PROVE  FALSE
    <3>1. Discards(q) /\ q.key[1] \in Worlds
      BY <1>3, <2>1, <2>4 DEF Discards, Apt, Suits
    <3>2. requests[i].key[1] # Demo
      BY <2>2, <2>4, <3>1, WebDeskAssumption
    <3>3. page # Missing /\ page.stored /\ page.world # Demo
      BY <2>4, <3>2, SaveOf
    <3> QED
      BY <1>1, <3>1, <3>3 DEF ForgetInv, NoneLeft
  <2> QED
    BY <1>5, <2>1, <2>2, <2>3, <2>4 DEF Discards
<1>9. CASE RemovesLast(q)
  <2>1. PICK outcome \in Outcomes : Forgotten(q, outcome)
    BY <1>9 DEF RemovesLast
  <2>2. q.op = "remove"
    BY <1>9 DEF RemovesLast
  <2> DEFINE b == Ask("load", Demo, "overlay", "boot")
  <2>3. \/ page' = Missing /\ requests' = Append(Tail(requests), b)
        \/ requests' = Tail(requests) /\ UNCHANGED page
    BY <1>1, <2>1, <2>2, Forgot DEF q
  <2>4. b \in Requests /\ b.op = "load" /\ b.why = "boot"
    <3>1. desks \in Nat /\ "overlay" \in Kinds /\ Demo \in AllWorlds
      BY DEF WebTypeOK, Kinds, AllWorlds
    <3> QED
      BY <3>1, Asked
  <2> HIDE DEF b
  <2>5. CASE requests' = Append(Tail(requests), b) /\ page' = Missing
    <3>1. TailThen(b)
      BY <1>1, <2>4, <2>5, HeadServed
    <3> QED
      BY <1>5, <2>4, <2>5, <3>1 DEF Discards
  <2>6. CASE requests' = Tail(requests) /\ UNCHANGED page
    <3>1. OnlyTail
      BY <1>1, <2>6, HeadServed
    <3> QED
      BY <1>4, <2>6, <3>1
  <2> QED
    BY <2>3, <2>5, <2>6
<1>10. CASE Stores(q)
  <2>1. q.op = "put" /\ OnlyTail
    BY <1>1, <1>10, HeadServed DEF Stores
  <2>2. \/ page' = Missing \/ UNCHANGED page
        \/ page \in Pages /\ page'.stored = page.stored /\ page'.world = page.world
    BY <2>1, StoreDesk DEF q, Reads
  <2>3. Missing \notin Pages
    BY WebDeskAssumption
  <2> QED
    BY <1>4, <2>1, <2>2, <2>3
<1> QED
  BY <1>2, <1>6, <1>7, <1>8, <1>9, <1>10

LEMMA ForgetStep == WebTypeOK /\ RequestInv /\ ForgetInv /\ [WebNext]_webVars => ForgetInv'
<1> SUFFICES ASSUME WebTypeOK, RequestInv, ForgetInv, [WebNext]_webVars
             PROVE  ForgetInv'
  OBVIOUS
<1>1. CASE ClosePage
  BY <1>1 DEF ClosePage, ForgetInv, SeedLast, NoneLeft, SavesLast
<1>2. CASE UNCHANGED webVars
  BY <1>2 DEF webVars, ForgetInv, SeedLast, NoneLeft, SavesLast
<1> QED
  BY <1>1, <1>2, ForgetPage, ForgetDesk, ForgetStore, WebStepKinds

-----------------------------------------------------------------------------
(* The store holds what the desk saved. *)

(* Of a document whose changes are all saved: the last save under way      *)
(* holds the last change, and when none is under way and none failed, so   *)
(* does the store, and nobody is about to remove it.                       *)
SavesAt(q, key) == q.op = "put" /\ q.key = key
IsLast(i, key, rs) ==
    i \in DOMAIN rs /\ SavesAt(rs[i], key) /\ \A j \in DOMAIN rs : SavesAt(rs[j], key) => j <= i
Settled(key, rev, failed, rs, ds) ==
    /\ \A i \in DOMAIN rs : IsLast(i, key, rs) => rs[i].doc.rev = rev
    /\ (\A i \in DOMAIN rs : ~SavesAt(rs[i], key)) /\ ~failed =>
          /\ ds[key] # Missing /\ ds[key].rev = rev
          /\ \A i \in DOMAIN rs : ~(rs[i].why = "forget" /\ rs[i].key = key)
NoReset(rs) == \A i \in DOMAIN rs : rs[i].why # "reset"
SettledInv ==
    page # Missing /\ page.stored /\ NoReset(requests) =>
        \A k \in Kinds \ page.dirty :
            page.rev[k] # 0 => Settled(<<page.world, k>>, page.rev[k], k \in page.failed, requests, docs)

LEMMA SettledInit == WebInit => SettledInv
  BY DEF WebInit, SettledInv

LEMMA SettledPage ==
  ASSUME WebTypeOK, RequestInv, SettledInv, PageStep
  PROVE  SettledInv'
<1> SUFFICES ASSUME page' # Missing, page'.stored, NoReset(requests') PROVE FALSE
  BY DEF SettledInv
<1>1. page' # Missing /\ Wanders => FALSE
  BY DEF Wanders
<1>2. OpensBare => page'.stored = FALSE
  BY DEF OpensBare, Desk
<1>3. ASSUME NEW q \in Requests, Requested(q)
      PROVE  FALSE
  <2>1. q.why = "reset"
    BY <1>3 DEF Requested
  <2>2. <<q>> \in Seq(Requests) /\ Len(<<q>>) = 1 /\ <<q>>[1] = q /\ requests \in Seq(Requests)
        /\ requests' = requests \o <<q>>
    BY <1>3 DEF WebTypeOK, Requested
  <2>3. Len(requests) + 1 \in DOMAIN requests' /\ requests'[Len(requests) + 1] = q
    BY <2>2
  <2> QED
    BY <2>1, <2>3 DEF NoReset
<1> QED
  BY <1>1, <1>2, <1>3, PageEffect

LEMMA SettledDesk ==
  ASSUME WebTypeOK, RequestInv, SettledInv, Edit \/ Second \/ Flush
  PROVE  SettledInv'
<1>1. PICK d \in Pages : Takes(d) /\ (Keeps(d) \/ SavesAll(d)) /\ UNCHANGED docs
  BY DeskStep
<1>2. page # Missing /\ d.world = page.world /\ d.stored = page.stored /\ d.failed = page.failed
      /\ page.dirty \subseteq d.dirty /\ \A k \in Kinds \ d.dirty : d.rev[k] = page.rev[k]
  BY <1>1 DEF Takes
<1> SUFFICES ASSUME page' # Missing, page'.stored, NoReset(requests'),
                    NEW k \in Kinds \ page'.dirty, page'.rev[k] # 0
             PROVE  Settled(<<page'.world, k>>, page'.rev[k], k \in page'.failed, requests', docs')
  BY DEF SettledInv
<1> DEFINE key == <<d.world, k>>
<1>3. CASE Keeps(d)
  <2>1. page' = d /\ UNCHANGED requests
    BY <1>3 DEF Keeps
  <2>2. k \in Kinds \ page.dirty /\ d.rev[k] = page.rev[k]
    BY <1>2, <2>1
  <2> QED
    BY <1>1, <1>2, <2>1, <2>2 DEF SettledInv
<1>4. CASE SavesAll(d)
  <2>1. /\ requests' = requests \o Puts(d) /\ page'.world = d.world /\ page'.stored = d.stored
        /\ page'.failed = d.failed /\ page'.rev = d.rev
    BY <1>4 DEF SavesAll
  <2>2. /\ Puts(d) \in Seq(Requests) /\ requests \in Seq(Requests)
        /\ \A i \in DOMAIN Puts(d) : IsPut(Puts(d)[i], d)
        /\ \A i, j \in DOMAIN Puts(d) : Puts(d)[i].key = Puts(d)[j].key => i = j
        /\ \A c \in d.dirty : \E i \in DOMAIN Puts(d) : Puts(d)[i].key = <<d.world, c>>
    BY PutsShape DEF WebTypeOK
  <2>3. /\ \A i \in DOMAIN requests : i \in Nat /\ i <= Len(requests) /\ i \in DOMAIN requests' /\ requests'[i] = requests[i]
        /\ \A i \in DOMAIN requests' : i \in Nat /\
              \/ i \in DOMAIN requests
              \/ i > Len(requests) /\ i - Len(requests) \in DOMAIN Puts(d) /\ requests'[i] = Puts(d)[i - Len(requests)]
        /\ \A i \in DOMAIN Puts(d) : i \in Nat \ {0} /\ i + Len(requests) \in DOMAIN requests'
                                     /\ requests'[i + Len(requests)] = Puts(d)[i]
        /\ Len(requests) \in Nat
    BY <2>1, <2>2, JoinOf
  <2>4. CASE k \in d.dirty
    <3>1. PICK m \in DOMAIN Puts(d) : Puts(d)[m].key = key
      BY <2>2, <2>4
    <3>2. Puts(d)[m].op = "put" /\ Puts(d)[m].doc.rev = d.rev[k]
      <4>1. IsPut(Puts(d)[m], d) /\ key[2] = k
        BY <2>2
      <4> QED
        BY <3>1, <4>1 DEF IsPut
    <3>3. m + Len(requests) \in DOMAIN requests' /\ requests'[m + Len(requests)] = Puts(d)[m] /\ m \in Nat \ {0}
      BY <2>3
    <3> HIDE DEF key
    <3>4. ASSUME NEW i \in DOMAIN requests', IsLast(i, key, requests')
          PROVE  requests'[i].doc.rev = d.rev[k]
      <4>1. m + Len(requests) <= i /\ requests'[i].key = key
        BY <3>1, <3>2, <3>3, <3>4 DEF IsLast, SavesAt
      <4>2. ~(i <= Len(requests))
        BY <2>3, <3>3, <4>1
      <4>3. i - Len(requests) \in DOMAIN Puts(d) /\ requests'[i] = Puts(d)[i - Len(requests)]
        BY <2>3, <4>2
      <4>4. i - Len(requests) = m
        BY <2>2, <3>1, <4>1, <4>3
      <4> QED
        BY <3>2, <4>3, <4>4
    <3>5. ~(\A i \in DOMAIN requests' : ~SavesAt(requests'[i], key))
      BY <3>1, <3>2, <3>3 DEF SavesAt
    <3> QED
      BY <2>1, <3>4, <3>5 DEF Settled, key
  <2>5. CASE k \notin d.dirty
    <3>1. NoReset(requests) /\ page.stored /\ k \in Kinds \ page.dirty /\ page.rev[k] = page'.rev[k]
      BY <1>2, <2>1, <2>3, <2>5 DEF NoReset
    <3>2. Settled(key, page.rev[k], k \in page.failed, requests, docs)
      BY <1>2, <2>1, <3>1 DEF SettledInv
    <3>3. \A i \in DOMAIN requests' : i \in DOMAIN requests \/ (i > Len(requests) /\ requests'[i].key # key /\ requests'[i].why # "forget")
      <4>1. \A i \in DOMAIN Puts(d) : Puts(d)[i].key # key /\ Puts(d)[i].why # "forget"
        <5>1. key[2] = k
          OBVIOUS
        <5> HIDE DEF key
        <5> QED
          BY <2>2, <2>5, <5>1 DEF IsPut
      <4> HIDE DEF key
      <4>2. \A i \in DOMAIN requests' :
               i \in DOMAIN requests \/ (i > Len(requests) /\ i - Len(requests) \in DOMAIN Puts(d)
                                         /\ requests'[i] = Puts(d)[i - Len(requests)])
        BY <2>3
      <4> QED
        BY <4>1, <4>2
    <3> HIDE DEF key
    <3>4. ASSUME NEW i \in DOMAIN requests', IsLast(i, key, requests')
          PROVE  i \in DOMAIN requests /\ IsLast(i, key, requests) /\ requests'[i] = requests[i]
      <4>1. i \in DOMAIN requests
        BY <3>3, <3>4 DEF IsLast, SavesAt
      <4> QED
        BY <2>3, <3>4, <4>1 DEF IsLast
    <3>5. (\A i \in DOMAIN requests' : ~SavesAt(requests'[i], key)) => \A i \in DOMAIN requests : ~SavesAt(requests[i], key)
      BY <2>3
    <3>6. (\A i \in DOMAIN requests : ~(requests[i].why = "forget" /\ requests[i].key = key))
             => \A i \in DOMAIN requests' : ~(requests'[i].why = "forget" /\ requests'[i].key = key)
      BY <2>3, <3>3
    <3>7. Settled(key, page.rev[k], k \in page.failed, requests', docs)
      BY <3>2, <3>4, <3>5, <3>6 DEF Settled
    <3> QED
      BY <1>1, <1>2, <2>1, <3>1, <3>7 DEF key
  <2> QED
    BY <2>4, <2>5
<1> QED
  BY <1>1, <1>3, <1>4

(* A save is answered: the page hears of it. *)
LEMMA PutHeard ==
  ASSUME WebTypeOK, RequestInv, requests # <<>>, Stores(Head(requests)), page # Missing
  PROVE  LET q == Head(requests) IN
         /\ q.key = <<page.world, q.key[2]>> /\ q.key[2] \in Kinds /\ q.doc # Missing
         /\ page'.world = page.world /\ page'.stored = page.stored /\ page'.dirty = page.dirty
         /\ page'.rev = page.rev
         /\ \/ page'.failed = page.failed \ {q.key[2]} /\ docs' = [docs EXCEPT ![q.key] = q.doc]
            \/ page'.failed = page.failed \union {q.key[2]} /\ UNCHANGED docs
<1> DEFINE q == Head(requests)
<1>1. q \in Requests /\ 1 \in DOMAIN requests /\ q = requests[1] /\ Apt(q) /\ q.op = "put"
  BY HeadServed DEF RequestInv, Stores
<1>2. page \in Pages /\ q.by = desks /\ q.doc # Missing
  BY <1>1 DEF WebTypeOK, Apt, Suits
<1>3. q.key[1] = page.world
  <2>1. CASE Demoing(stage) /\ q.key[1] = Demo
    BY <2>1 DEF RequestInv, PageStage, Demoing
  <2> QED
    BY <1>1, <2>1, SaveOf
<1>4. q.key = <<q.key[1], q.key[2]>> /\ q.key[2] \in Kinds
  BY <1>1 DEF Requests, DocKeys
<1>5. \/ page' = PersistOutcome(page, q.key[2], TRUE) /\ docs' = [docs EXCEPT ![q.key] = q.doc]
      \/ page' = PersistOutcome(page, q.key[2], FALSE) /\ UNCHANGED docs
  BY <1>2 DEF Stores, Reports
<1> DEFINE k == q.key[2]
<1>6. /\ page.failed \ {k} \in SUBSET Kinds /\ page.failed \union {k} \in SUBSET Kinds
  BY <1>2, <1>4 DEF Pages
<1>7. PersistOutcome(page, k, TRUE) = [page EXCEPT !.badge = FALSE, !.failed = page.failed \ {k}]
  BY <1>2 DEF PersistOutcome, Pages
<1>8. PersistOutcome(page, k, FALSE) = [page EXCEPT !.badge = TRUE, !.failed = page.failed \union {k}]
  BY <1>2 DEF PersistOutcome, Pages
<1> HIDE DEF k
<1>9. /\ page'.world = page.world /\ page'.stored = page.stored /\ page'.dirty = page.dirty /\ page'.rev = page.rev
      /\ \/ page'.failed = page.failed \ {k} /\ docs' = [docs EXCEPT ![q.key] = q.doc]
         \/ page'.failed = page.failed \union {k} /\ UNCHANGED docs
  <2>1. CASE page' = PersistOutcome(page, k, TRUE) /\ docs' = [docs EXCEPT ![q.key] = q.doc]
    BY <1>2, <1>6, <1>7, <2>1 DEF Pages
  <2>2. CASE page' = PersistOutcome(page, k, FALSE) /\ UNCHANGED docs
    BY <1>2, <1>6, <1>8, <2>2 DEF Pages
  <2> QED
    BY <1>5, <2>1, <2>2 DEF k
<1> QED
  BY <1>2, <1>3, <1>4, <1>9 DEF k

(* The last save of a document is still the last when another request was  *)
(* served.                                                                 *)
LEMMA LastShift ==
  ASSUME NEW key, requests # <<>>, WebTypeOK,
         OnlyTail \/ \E x \in Requests : TailThen(x) /\ x.op # "put",
         NEW i \in DOMAIN requests', IsLast(i, key, requests')
  PROVE  IsLast(i + 1, key, requests) /\ requests'[i] = requests[i + 1]
<1>1. i \in Nat \ {0} /\ i + 1 \in DOMAIN requests /\ requests'[i] = requests[i + 1]
  BY DEF OnlyTail, TailThen, IsLast, SavesAt
<1>2. \A j \in DOMAIN requests \ {1} : j - 1 \in DOMAIN requests' /\ requests'[j - 1] = requests[j]
  BY DEF OnlyTail, TailThen
<1>3. \A j \in DOMAIN requests : j \in Nat
  BY DEF WebTypeOK
<1>4. ASSUME NEW j \in DOMAIN requests, SavesAt(requests[j], key)
      PROVE  j <= i + 1
  <2>1. CASE j = 1
    BY <1>1, <2>1
  <2>2. CASE j # 1
    <3>1. j - 1 <= i
      BY <1>2, <1>4, <2>2 DEF IsLast
    <3> QED
      BY <1>1, <1>3, <3>1
  <2> QED
    BY <2>1, <2>2
<1>5. SavesAt(requests[i + 1], key)
  BY <1>1 DEF IsLast
<1> QED
  BY <1>1, <1>4, <1>5 DEF IsLast

(* A document stays settled when the request served was about another one, *)
(* and nobody thinks of removing it.                                       *)
LEMMA SettledShift ==
  ASSUME NEW key, NEW rev, NEW failed, requests # <<>>, WebTypeOK,
         OnlyTail \/ \E x \in Requests : TailThen(x) /\ x.op # "put" /\ ~(x.why = "forget" /\ x.key = key),
         ~SavesAt(requests[1], key),
         (\A i \in DOMAIN requests : ~(requests[i].why = "forget" /\ requests[i].key = key)) => docs'[key] = docs[key],
         Settled(key, rev, failed, requests, docs)
  PROVE  Settled(key, rev, failed, requests', docs')
<1>1. \A i \in DOMAIN requests \ {1} : i - 1 \in DOMAIN requests' /\ requests'[i - 1] = requests[i]
  BY DEF OnlyTail, TailThen
<1>2. (\A i \in DOMAIN requests' : ~SavesAt(requests'[i], key)) => \A i \in DOMAIN requests : ~SavesAt(requests[i], key)
  BY <1>1
<1>3. (\A i \in DOMAIN requests : ~(requests[i].why = "forget" /\ requests[i].key = key))
         => \A i \in DOMAIN requests' : ~(requests'[i].why = "forget" /\ requests'[i].key = key)
  BY DEF OnlyTail, TailThen
<1>4. \A i \in DOMAIN requests' : IsLast(i, key, requests') => requests'[i].doc.rev = rev
  <2> SUFFICES ASSUME NEW i \in DOMAIN requests', IsLast(i, key, requests') PROVE requests'[i].doc.rev = rev
    OBVIOUS
  <2>1. IsLast(i + 1, key, requests) /\ requests'[i] = requests[i + 1]
    BY LastShift
  <2> QED
    BY <2>1 DEF Settled, IsLast
<1> QED
  BY <1>2, <1>3, <1>4 DEF Settled

LEMMA SettledStore ==
  ASSUME WebTypeOK, RequestInv, ForgetInv, SettledInv, StoreAnswers \/ StoreFails
  PROVE  SettledInv'
<1> DEFINE q == Head(requests)
<1>1. requests # <<>> /\ 1 \in DOMAIN requests /\ q = requests[1] /\ q \in Requests
  BY Answered, HeadServed
<1>2. Hears(q) \/ TurnsAside(q) \/ RemovesNext(q) \/ RemovesLast(q) \/ Stores(q)
  BY Answered
<1>3. Apt(q) /\ docs \in Shelves /\ q.key \in DocKeys
  BY <1>1 DEF RequestInv, WebTypeOK, Requests
<1> HIDE DEF q
<1> SUFFICES ASSUME page' # Missing, page'.stored, NoReset(requests'),
                    NEW k \in Kinds \ page'.dirty, page'.rev[k] # 0
             PROVE  Settled(<<page'.world, k>>, page'.rev[k], k \in page'.failed, requests', docs')
  BY DEF SettledInv
<1> DEFINE key == <<page.world, k>>
           Was  == /\ page # Missing /\ k \notin page.dirty /\ page'.world = page.world /\ page'.rev = page.rev
                   /\ Settled(key, page.rev[k], k \in page.failed, requests, docs)
<1>4. ASSUME q.why # "reset", OnlyTail \/ \E x \in Requests : TailThen(x), page # Missing,
             page'.world = page.world, page'.stored = page.stored, page'.dirty = page.dirty, page'.rev = page.rev
      PROVE  Was
  <2>1. \A i \in DOMAIN requests \ {1} : i - 1 \in DOMAIN requests' /\ requests'[i - 1] = requests[i]
    BY <1>4 DEF OnlyTail, TailThen
  <2>2. NoReset(requests)
    BY <1>1, <1>4, <2>1 DEF NoReset
  <2> QED
    BY <1>4, <2>2 DEF SettledInv
<1>5. /\ key[1] = page.world /\ key[2] = k /\ key = <<page.world, k>>
      /\ page # Missing => key \in DocKeys
  BY DEF WebTypeOK, Pages, DocKeys
<1> HIDE DEF key, Was
<1>6. ASSUME Hears(q) PROVE FALSE
  <2>1. PICK outcome \in Outcomes : Learns(q, outcome)
    BY <1>6 DEF Hears
  <2>2. Reads(q)
    BY <1>6 DEF Hears
  <2>3. page' = Desk(stage'.world, TRUE, page'.told)
    BY <1>1, <2>1, <2>2, Learnt DEF q
  <2> QED
    BY <2>3 DEF Desk
<1>7. CASE TurnsAside(q)
  <2>1. UNCHANGED <<docs, page>> /\ q.op \in {"load", "aside"}
    BY <1>7 DEF TurnsAside
  <2>2. q.why \notin {"forget", "reset"} /\ q.op # "put"
    BY <1>3, <2>1 DEF Apt, Suits, Reads
  <2>3. PICK x \in Requests : requests' = Append(Tail(requests), x) /\ x.op # "put" /\ x.why = q.why
    <3>1. CASE q.op = "load" /\ requests' = Append(Tail(requests), [q EXCEPT !.op = "aside", !.doc = docs[q.key]])
      <4>1. docs[q.key] \in Documents \union {Missing}
        BY <1>3 DEF Shelves
      <4>2. [q EXCEPT !.op = "aside", !.doc = docs[q.key]] \in Requests
        BY <1>1, <4>1 DEF Requests
      <4> QED
        BY <1>1, <3>1, <4>2 DEF Requests
    <3>2. CASE q.op = "aside" /\ requests' = Append(Tail(requests), [q EXCEPT !.op = "drop"])
      <4>1. [q EXCEPT !.op = "drop"] \in Requests
        BY <1>1 DEF Requests
      <4> QED
        BY <1>1, <3>2, <4>1 DEF Requests
    <3> QED
      BY <1>7, <3>1, <3>2 DEF TurnsAside
  <2>4. TailThen(x)
    BY <1>1, <2>3, HeadServed
  <2>5. Was
    BY <1>4, <2>1, <2>2, <2>4
  <2>6. ~SavesAt(requests[1], key)
    BY <1>1, <2>2 DEF SavesAt
  <2>7. Settled(key, page.rev[k], k \in page.failed, requests', docs')
    BY <1>1, <2>1, <2>2, <2>3, <2>4, <2>5, <2>6, SettledShift DEF Was
  <2> QED
    BY <1>5, <2>1, <2>7
<1>8. CASE q.op = "remove"
  <2>1. q.why # "reset"
    <3>1. CASE RemovesNext(q)
      <4> DEFINE x == [q EXCEPT !.key = <<q.key[1], "snapshot">>]
      <4>1. requests' = Append(Tail(requests), x) /\ x.why = q.why
        BY <1>1, <3>1 DEF RemovesNext, Requests
      <4> HIDE DEF x
      <4>2. requests' # <<>> /\ Len(requests') \in DOMAIN requests' /\ requests'[Len(requests')] = x
        <5>1. Tail(requests) \in Seq(Requests)
          BY <1>1 DEF WebTypeOK
        <5> QED
          BY <4>1, <5>1
      <4> QED
        BY <4>1, <4>2 DEF NoReset
    <3>2. CASE RemovesLast(q)
      <4>1. PICK outcome \in Outcomes : Forgotten(q, outcome)
        BY <3>2 DEF RemovesLast
      <4> QED
        BY <1>1, <1>8, <4>1, Forgot DEF q
    <3> QED
      BY <1>2, <1>6, <1>8, <3>1, <3>2 DEF TurnsAside, Stores
  <2>2. q.why = "forget" /\ q.key[1] \in Worlds
    BY <1>3, <1>8, <2>1 DEF Apt, Suits
  <2>3. ~SavesAt(requests[1], key)
    BY <1>1, <1>8 DEF SavesAt
  <2>4. docs' \in {docs, [docs EXCEPT ![q.key] = Missing]}
    BY <1>2, <1>6, <1>8 DEF TurnsAside, Stores, RemovesNext, RemovesLast
  <2>5. /\ page # Missing
        /\ \A i \in DOMAIN requests : ~(requests[i].why = "forget" /\ requests[i].key = key)
        => docs'[key] = docs[key]
    BY <1>1, <1>3, <1>5, <2>2, <2>4 DEF Shelves
  <2>6. CASE RemovesNext(q)
    <3> DEFINE x == [q EXCEPT !.key = <<q.key[1], "snapshot">>]
    <3>1. q.key[2] = "overlay" /\ requests' = Append(Tail(requests), x) /\ UNCHANGED page
      BY <2>6 DEF RemovesNext
    <3>2. x \in Requests /\ x.op = "remove" /\ x.key[1] = q.key[1]
      <4>1. <<q.key[1], "snapshot">> \in DocKeys
        BY <1>1 DEF Requests, DocKeys, Kinds
      <4> QED
        BY <1>1, <1>8, <4>1 DEF Requests
    <3> HIDE DEF x
    <3>3. TailThen(x)
      BY <1>1, <3>1, <3>2, HeadServed
    <3>4. Was
      BY <1>4, <2>1, <3>1, <3>2, <3>3
    <3>5. x.key # key
      <4>1. page.world = Demo
        BY <1>1, <2>2, <3>1 DEF ForgetInv, NoneLeft, Discards
      <4> QED
        BY <1>5, <2>2, <3>2, <4>1, WebDeskAssumption
    <3>6. Settled(key, page.rev[k], k \in page.failed, requests', docs')
      BY <1>1, <2>3, <2>5, <3>2, <3>3, <3>4, <3>5, SettledShift DEF Was
    <3> QED
      BY <1>5, <3>1, <3>6
  <2>7. CASE RemovesLast(q)
    <3>1. PICK outcome \in Outcomes : Forgotten(q, outcome)
      BY <2>7 DEF RemovesLast
    <3>2. requests' = Tail(requests) /\ UNCHANGED page
      BY <1>1, <1>8, <2>1, <3>1, Forgot DEF q
    <3>3. OnlyTail
      BY <1>1, <3>2, HeadServed
    <3>4. Was
      BY <1>4, <2>1, <3>2, <3>3
    <3>5. Settled(key, page.rev[k], k \in page.failed, requests', docs')
      BY <1>1, <2>3, <2>5, <3>3, <3>4, SettledShift DEF Was
    <3> QED
      BY <1>5, <3>2, <3>5
  <2> QED
    BY <1>2, <1>6, <1>8, <2>6, <2>7 DEF TurnsAside, Stores
<1>9. CASE Stores(q)
  <2>1. q.op = "put" /\ OnlyTail /\ q.why = "save"
    BY <1>1, <1>3, <1>9, HeadServed DEF Stores, Apt, Suits
  <2>2. page # Missing
    BY <1>9 DEF Stores, Reports
  <2>3. /\ q.key = <<page.world, q.key[2]>> /\ q.key[2] \in Kinds /\ q.doc # Missing
        /\ page'.world = page.world /\ page'.stored = page.stored /\ page'.dirty = page.dirty
        /\ page'.rev = page.rev
        /\ \/ page'.failed = page.failed \ {q.key[2]} /\ docs' = [docs EXCEPT ![q.key] = q.doc]
           \/ page'.failed = page.failed \union {q.key[2]} /\ UNCHANGED docs
    BY <1>1, <1>9, <2>2, PutHeard DEF q
  <2>4. Was
    BY <1>4, <2>1, <2>2, <2>3
  <2>5. CASE q.key[2] # k
    <3>1. q.key # key /\ docs'[key] = docs[key] /\ (k \in page'.failed <=> k \in page.failed)
      BY <1>3, <1>5, <2>2, <2>3, <2>5 DEF Shelves
    <3>2. ~SavesAt(requests[1], key)
      BY <1>1, <3>1 DEF SavesAt
    <3>3. Settled(key, page.rev[k], k \in page.failed, requests', docs')
      BY <1>1, <2>1, <2>4, <3>1, <3>2, SettledShift DEF Was
    <3> QED
      BY <1>5, <2>3, <3>1, <3>3
  <2>6. CASE q.key[2] = k
    <3>1. q.key = key /\ SavesAt(q, key) /\ key \in DocKeys
      BY <1>3, <1>5, <2>1, <2>3, <2>6 DEF SavesAt
    <3>2. ASSUME NEW i \in DOMAIN requests', IsLast(i, key, requests')
          PROVE  requests'[i].doc.rev = page.rev[k]
      <4>1. IsLast(i + 1, key, requests) /\ requests'[i] = requests[i + 1]
        BY <1>1, <2>1, <3>2, LastShift
      <4> QED
        BY <2>4, <4>1 DEF Was, Settled, IsLast
    <3>3. ASSUME \A i \in DOMAIN requests' : ~SavesAt(requests'[i], key), k \notin page'.failed
          PROVE  /\ docs'[key] # Missing /\ docs'[key].rev = page.rev[k]
                 /\ \A i \in DOMAIN requests' : ~(requests'[i].why = "forget" /\ requests'[i].key = key)
      <4>1. docs' = [docs EXCEPT ![q.key] = q.doc]
        BY <2>3, <2>6, <3>3
      <4>2. IsLast(1, key, requests)
        <5>1. \A j \in DOMAIN requests : j # 1 => ~SavesAt(requests[j], key)
          BY <2>1, <3>3 DEF OnlyTail
        <5> QED
          BY <1>1, <3>1, <5>1 DEF IsLast
      <4>3. q.doc.rev = page.rev[k]
        BY <1>1, <2>4, <4>2 DEF Was, Settled
      <4>4. docs'[key] = q.doc
        BY <1>3, <3>1, <4>1 DEF Shelves
      <4>5. ASSUME NEW i \in DOMAIN requests', requests'[i].why = "forget", requests'[i].key = key
            PROVE  FALSE
        <5>1. i \in Nat \ {0} /\ i + 1 \in DOMAIN requests /\ requests'[i] = requests[i + 1]
          BY <2>1 DEF OnlyTail
        <5>2. i + 1 < 1
          BY <1>1, <2>1, <3>1, <4>5, <5>1 DEF ForgetInv, SavesLast
        <5> QED
          BY <5>1, <5>2
      <4> QED
        BY <2>3, <4>3, <4>4, <4>5
    <3>4. Settled(key, page.rev[k], k \in page'.failed, requests', docs')
      BY <3>2, <3>3 DEF Settled
    <3> QED
      BY <1>5, <2>3, <3>4
  <2> QED
    BY <2>5, <2>6
<1> QED
  BY <1>2, <1>6, <1>7, <1>8, <1>9 DEF RemovesNext, RemovesLast

LEMMA SettledStep == WebTypeOK /\ RequestInv /\ ForgetInv /\ SettledInv /\ [WebNext]_webVars => SettledInv'
<1> SUFFICES ASSUME WebTypeOK, RequestInv, ForgetInv, SettledInv, [WebNext]_webVars
             PROVE  SettledInv'
  OBVIOUS
<1>1. CASE ClosePage
  BY <1>1 DEF ClosePage, SettledInv
<1>2. CASE UNCHANGED webVars
  BY <1>2 DEF webVars, SettledInv
<1> QED
  BY <1>1, <1>2, SettledPage, SettledDesk, SettledStore, WebStepKinds

(* A change waits for its save no longer than the debounce, and a desk     *)
(* with nothing left to save finds its last changes in the store: no edit, *)
(* timer, close or failing request loses one between the page and          *)
(* IndexedDB (save_if_due, save_dirty, record_persist_outcome).            *)
THEOREM NoChangeLost == WebSpec => []ChangesStored
<1>1. /\ WebInit => DueInv /\ ForgetInv /\ SettledInv
      /\ WebTypeOK /\ RequestInv /\ DueInv /\ ForgetInv /\ SettledInv /\ [WebNext]_webVars
            => DueInv' /\ ForgetInv' /\ SettledInv'
  BY DueInit, ForgetInit, SettledInit, DueStep, ForgetStep, SettledStep
<1>2. WebTypeOK /\ DueInv => SavesSoon
  <2> SUFFICES ASSUME WebTypeOK, DueInv, page # Missing, page.stored, page.dirty # {}
               PROVE  second - page.since < SaveDebounce
    BY DEF SavesSoon
  <2>1. page.last <= page.since /\ second - page.last < SaveDebounce
    BY DEF DueInv
  <2>2. second \in Int /\ page.last \in Int /\ page.since \in Int /\ SaveDebounce \in Int
    BY WebDeskAssumption DEF WebTypeOK, Pages
  <2> QED
    BY <2>1, <2>2
<1>3. WebTypeOK /\ SettledInv => SavedAsShown
  <2> SUFFICES ASSUME WebTypeOK, SettledInv, page # Missing, page.stored,
                      \A i \in DOMAIN requests : requests[i].why # "reset",
                      NEW k \in Kinds \ (page.dirty \union page.failed)
               PROVE  \/ page.rev[k] = 0
                      \/ \E i \in DOMAIN requests : requests[i].op = "put" /\ requests[i].key = <<page.world, k>>
                      \/ docs[<<page.world, k>>] # Missing /\ docs[<<page.world, k>>].rev = page.rev[k]
    BY DEF SavedAsShown
  <2>1. page.rev[k] # 0 => Settled(<<page.world, k>>, page.rev[k], k \in page.failed, requests, docs)
    BY DEF SettledInv, NoReset
  <2> QED
    BY <2>1 DEF Settled, SavesAt
<1> QED
  BY <1>1, <1>2, <1>3, WebInvariant, PTL DEF WebSpec, ChangesStored

-----------------------------------------------------------------------------
(* The reports of the console. *)

ConsoleSpec == ConsoleInit /\ [][ConsoleNext]_consoleVars

IsRow(s) == \E n \in Nat : DOMAIN s = 1..n /\ s = [i \in 1..n |-> s[i]]

(* Of each player no character, or one that the operator gave that player. *)
Fit(chars, who, given) ==
    DOMAIN chars = Sides /\ \A s \in Sides : chars[s] = Nil \/ <<who[s], chars[s]>> \in given

StageOK(area) ==
    \/ area = Games
    \/ area = [at |-> "pick", side |-> area.side, letter |-> area.letter, cursor |-> area.cursor]
       /\ area.side \in Sides
    \/ area = [at |-> "dq"]
    \/ area = Confirm(area.dq) /\ area.dq \in Sides \cup {Nil}

GamesOK(games, who, given) ==
    /\ IsRow(games)
    /\ \A i \in DOMAIN games :
          /\ games[i] = [winner |-> games[i].winner, chars |-> games[i].chars]
          /\ games[i].winner \in Sides /\ Fit(games[i].chars, who, given)

(* A draft of two players, each game won by one of them. *)
DraftOK(d, given) ==
    /\ d = [at |-> "report", station |-> d.station, bout |-> d.bout, who |-> d.who,
            games |-> d.games, chars |-> d.chars, cursor |-> d.cursor, stage |-> d.stage]
    /\ d.who[1] # d.who[2] /\ \A s \in Sides : d.who[s] \in Persons
    /\ Fit(d.chars, d.who, given)
    /\ GamesOK(d.games, d.who, given)
    /\ StageOK(d.stage)

DialogOK(d, given) ==
    \/ d = Closed
    \/ d = [at |-> "picker", station |-> d.station]
    \/ d = [at |-> "find", row |-> d.row]
    \/ d = [at |-> "list"]
    \/ DraftOK(d, given)

SentOK(report, given) ==
    LET won(x) == Cardinality({i \in DOMAIN report.games : report.games[i].winner = x}) IN
    /\ report.winner # report.loser
    /\ IF report.dq THEN report.games = <<>> ELSE won(report.winner) > won(report.loser)
    /\ \A i \in DOMAIN report.games :
          /\ report.games[i].winner \in {report.winner, report.loser}
          /\ report.games[i].selections \subseteq given

BoardInv ==
    /\ seats = [n \in Numbers |-> seats[n]] /\ \A n \in Numbers : seats[n] \in Bouts \cup {Nil}
    /\ table = [b \in Bouts |-> table[b]]
    /\ \A b \in Bouts :
          /\ table[b] = [who |-> table[b].who, done |-> table[b].done, real |-> table[b].real]
          /\ table[b].who \in {FirstSides[b], Rearranged[b]}
MemoryInv ==
    /\ sticky = [x \in Persons |-> sticky[x]]
    /\ \A x \in Persons : sticky[x] = Nil \/ <<x, sticky[x]>> \in picks
    /\ \A report \in sent : SentOK(report, picks)
ConsoleInv == BoardInv /\ MemoryInv /\ DialogOK(dialog, picks)

LEMMA ConsoleStarts == ConsoleInit => ConsoleInv
<1> SUFFICES ASSUME ConsoleInit PROVE ConsoleInv
  OBVIOUS
<1>1. BoardInv
  BY DEF ConsoleInit, BoardInv
<1>2. MemoryInv
  BY DEF ConsoleInit, MemoryInv
<1>3. DialogOK(dialog, picks)
  BY DEF ConsoleInit, DialogOK
<1> QED
  BY <1>1, <1>2, <1>3 DEF ConsoleInv

(* What is given stays given. *)
LEMMA StillFit ==
    ASSUME NEW d, NEW given, NEW more, given \subseteq more, DialogOK(d, given)
    PROVE  DialogOK(d, more)
<1>1. \A chars, who : Fit(chars, who, given) => Fit(chars, who, more)
  BY DEF Fit
<1>2. DraftOK(d, given) => DraftOK(d, more)
  BY <1>1 DEF DraftOK, GamesOK
<1> QED
  BY <1>2 DEF DialogOK

LEMMA ShowKeeps ==
    ASSUME ConsoleInv, NEW d, DialogOK(d, picks), Show(d)
    PROVE  ConsoleInv'
BY DEF Show, Board, Memory, ConsoleInv, BoardInv, MemoryInv

LEMMA OpenKeeps ==
    ASSUME ConsoleInv, NEW d, DialogOK(d, picks), Open(d)
    PROVE  ConsoleInv'
BY DEF Open, Board, Memory, ConsoleInv, BoardInv, MemoryInv

LEMMA SelectKeeps == ASSUME ConsoleInv, NEW n, Select(n) PROVE ConsoleInv'
<1>1. dialog' = dialog \/ dialog' = [at |-> "picker", station |-> n]
  BY DEF Select
<1>2. DialogOK(dialog', picks)
  BY <1>1 DEF DialogOK, ConsoleInv
<1> QED
  BY <1>2 DEF Select, Board, Memory, ConsoleInv, BoardInv, MemoryInv

LEMMA BufferKeeps == ASSUME ConsoleInv, NEW e, Buffer(e) PROVE ConsoleInv'
BY DEF Buffer, Board, Memory, ConsoleInv, BoardInv, MemoryInv

LEMMA CommitKeeps ==
    ASSUME ConsoleInv, NEW n, NEW after, DialogOK(after, picks), Commit(n, after)
    PROVE  ConsoleInv'
<1>1. UNCHANGED seats \/ \E b \in Bouts : seats' = [seats EXCEPT ![n] = b]
  BY DEF Commit, Callable
<1>2. UNCHANGED <<table, sticky, sent, picks>> /\ dialog' = after
  BY DEF Commit, Memory
<1>3. BoardInv'
  BY <1>1, <1>2 DEF ConsoleInv, BoardInv
<1> QED
  BY <1>2, <1>3 DEF ConsoleInv, MemoryInv

LEMMA FreeKeeps == ASSUME ConsoleInv, NEW n, FreeSeat(n) PROVE ConsoleInv'
<1>1. BoardInv'
  BY DEF FreeSeat, ConsoleInv, BoardInv
<1> QED
  BY <1>1 DEF FreeSeat, Memory, ConsoleInv, MemoryInv

(* A new draft is of the two players who are in the set then. *)
LEMMA DraftFits ==
    ASSUME ConsoleInv, NEW s, Reportable(s)
    PROVE  DraftOK(Draft(s), picks)
<1> DEFINE b   == seats[s]
           who == table[b].who
           d   == Draft(s)
<1>1. b \in Bouts /\ Len(who) = 2 /\ who \in {FirstSides[b], Rearranged[b]}
  BY DEF Reportable, ConsoleInv, BoardInv
<1>2. who \in Seq(ToSet(who)) /\ who[1] # who[2]
  BY <1>1, SlotsAssumption
<1>3. ToSet(who) \subseteq Persons
  BY <1>1 DEF Persons
<1>4. DOMAIN who = 1..2 /\ \A x \in Sides : who[x] \in Persons
  BY <1>1, <1>2, <1>3 DEF ToSet, Sides
<1>5. d = [at |-> "report", station |-> s, bout |-> b, who |-> who, games |-> <<>>,
           chars |-> <<sticky[who[1]], sticky[who[2]]>>, cursor |-> 1, stage |-> Games]
  BY DEF Draft
<1> HIDE DEF d, who
<1>6. Fit(<<sticky[who[1]], sticky[who[2]]>>, who, picks)
  BY <1>4 DEF Fit, Sides, ConsoleInv, MemoryInv
<1>7. GamesOK(<<>>, who, picks)
  <2>1. DOMAIN <<>> = 1..0 /\ <<>> = [i \in 1..0 |-> <<>>[i]]
    OBVIOUS
  <2> QED
    BY <2>1 DEF GamesOK, IsRow
<1>8. DraftOK(d, picks)
  BY <1>2, <1>4, <1>5, <1>6, <1>7 DEF DraftOK, StageOK
<1> QED
  BY <1>8 DEF d

LEMMA OpenedKeeps == ASSUME ConsoleInv, NEW s, Opened(s) PROVE ConsoleInv'
<1>1. CASE Reportable(s)
  BY <1>1, DraftFits, OpenKeeps DEF Opened, DialogOK
<1>2. CASE ~Reportable(s)
  BY <1>2 DEF Opened, consoleVars, ConsoleInv, BoardInv, MemoryInv
<1> QED
  BY <1>1, <1>2

LEMMA OpenFoundKeeps == ASSUME ConsoleInv, NEW row, OpenFound(row) PROVE ConsoleInv'
<1>1. CASE UNCHANGED consoleVars
  BY <1>1 DEF consoleVars, ConsoleInv, BoardInv, MemoryInv
<1>2. ASSUME NEW n, IF Reportable(n) THEN dialog' = Draft(n) ELSE dialog' = Closed,
             UNCHANGED <<Board, Memory>>
      PROVE  ConsoleInv'
  <2>1. DialogOK(dialog', picks)
    BY <1>2, DraftFits DEF DialogOK
  <2> QED
    BY <1>2, <2>1 DEF Board, Memory, ConsoleInv, BoardInv, MemoryInv
<1> QED
  BY <1>1, <1>2, Zenon DEF OpenFound

-----------------------------------------------------------------------------
(* The draft of a report. *)

LEMMA Appended ==
    ASSUME NEW s, IsRow(s), NEW x
    PROVE  /\ IsRow(Append(s, x))
           /\ \A i \in DOMAIN Append(s, x) :
                 Append(s, x)[i] = x \/ (i \in DOMAIN s /\ Append(s, x)[i] = s[i])
<1>1. PICK n \in Nat : DOMAIN s = 1..n /\ s = [i \in 1..n |-> s[i]]
  BY DEF IsRow
<1> DEFINE X == {s[i] : i \in 1..n} \cup {x}
           t == Append(s, x)
<1>2. s \in Seq(X) /\ x \in X
  <2>1. \A i \in 1..n : s[i] \in X
    OBVIOUS
  <2> HIDE DEF X
  <2>2. s \in Seq(X)
    BY <1>1, <2>1
  <2> QED
    BY <2>2 DEF X
<1> HIDE DEF X
<1>3. Len(s) = n
  BY <1>1, <1>2
<1>4. t \in Seq(X) /\ Len(t) = n + 1
  BY <1>2, <1>3
<1>5. \A i \in 1..n : t[i] = s[i]
  BY <1>2, <1>3
<1>6. t[n + 1] = x
  BY <1>2, <1>3
<1> HIDE DEF t
<1>7. DOMAIN t = 1..(n + 1) /\ t = [i \in 1..(n + 1) |-> t[i]]
  BY <1>4
<1>8. IsRow(t)
  BY <1>7 DEF IsRow
<1>9. \A i \in DOMAIN t : t[i] = x \/ (i \in DOMAIN s /\ t[i] = s[i])
  <2> SUFFICES ASSUME NEW i \in DOMAIN t
               PROVE  t[i] = x \/ (i \in DOMAIN s /\ t[i] = s[i])
    OBVIOUS
  <2>1. i \in 1..n \/ i = n + 1
    BY <1>7
  <2> QED
    BY <1>1, <1>5, <1>6, <2>1
<1> QED
  BY <1>8, <1>9 DEF t

(* A draft with its games, and what else a step changes of it. *)
IsDraft(d) ==
    d = [at |-> "report", station |-> d.station, bout |-> d.bout, who |-> d.who,
         games |-> d.games, chars |-> d.chars, cursor |-> d.cursor, stage |-> d.stage]

LEMMA GamesSet ==
    ASSUME NEW d, IsDraft(d), NEW games, NEW cursor
    PROVE  [d EXCEPT !.games = games, !.cursor = cursor]
           = [at |-> "report", station |-> d.station, bout |-> d.bout, who |-> d.who,
              games |-> games, chars |-> d.chars, cursor |-> cursor, stage |-> d.stage]
<1> DEFINE e == [d EXCEPT !.games = games]
<1>1. e = [at |-> "report", station |-> d.station, bout |-> d.bout, who |-> d.who,
           games |-> games, chars |-> d.chars, cursor |-> d.cursor, stage |-> d.stage]
  BY DEF IsDraft
<1>2. [d EXCEPT !.games = games, !.cursor = cursor] = [e EXCEPT !.cursor = cursor]
  OBVIOUS
<1> HIDE DEF e
<1>3. [e EXCEPT !.cursor = cursor]
      = [at |-> "report", station |-> d.station, bout |-> d.bout, who |-> d.who,
         games |-> games, chars |-> d.chars, cursor |-> cursor, stage |-> d.stage]
  BY <1>1
<1> QED
  BY <1>2, <1>3

LEMMA StageSet ==
    ASSUME NEW d, NEW given, DraftOK(d, given), NEW area, StageOK(area)
    PROVE  DraftOK([d EXCEPT !.stage = area], given)
BY DEF DraftOK

LEMMA RecordedOK ==
    ASSUME NEW d, DraftOK(d, picks), NEW winner \in Sides
    PROVE  DraftOK(Recorded(d, winner), picks)
<1> DEFINE chars == IF d.games = <<>> THEN d.chars ELSE Last(d.games).chars
           game  == [winner |-> winner, chars |-> chars]
           games == Append(d.games, game)
           next  == [d EXCEPT !.games = games, !.cursor = Len(d.games) + 1]
<1>1. Fit(chars, d.who, picks)
  <2>1. CASE d.games = <<>>
    BY <2>1 DEF DraftOK
  <2>2. CASE d.games # <<>>
    <3>1. PICK n \in Nat : DOMAIN d.games = 1..n /\ d.games = [i \in 1..n |-> d.games[i]]
      BY DEF DraftOK, GamesOK, IsRow
    <3>2. n # 0
      BY <2>2, <3>1
    <3>3. Len(d.games) = n
      BY <3>1
    <3>4. Last(d.games) = d.games[n] /\ n \in DOMAIN d.games
      BY <3>1, <3>2, <3>3 DEF Last
    <3> QED
      BY <2>2, <3>4 DEF DraftOK, GamesOK
  <2> QED
    BY <2>1, <2>2
<1>2. GamesOK(games, d.who, picks)
  <2>1. game.winner = winner /\ game.chars = chars
    OBVIOUS
  <2>2. game = [winner |-> game.winner, chars |-> game.chars]
    OBVIOUS
  <2> HIDE DEF game, chars
  <2>3. IsRow(d.games)
    BY DEF DraftOK, GamesOK
  <2>4. IsRow(games) /\ \A i \in DOMAIN games :
                            games[i] = game \/ (i \in DOMAIN d.games /\ games[i] = d.games[i])
    BY <2>3, Appended
  <2> HIDE DEF games
  <2> QED
    BY <1>1, <2>1, <2>2, <2>4 DEF DraftOK, GamesOK
<1> HIDE DEF games, chars
<1>3. next = [at |-> "report", station |-> d.station, bout |-> d.bout, who |-> d.who,
              games |-> games, chars |-> d.chars, cursor |-> Len(d.games) + 1, stage |-> d.stage]
  <2>1. IsDraft(d)
    BY DEF DraftOK, IsDraft
  <2> QED
    BY <2>1, GamesSet, Zenon
<1>4. DraftOK(next, picks)
  <2> HIDE DEF next
  <2> QED
    BY <1>2, <1>3 DEF DraftOK
<1>5. DraftOK([next EXCEPT !.stage = Confirm(Nil)], picks)
  <2> HIDE DEF next
  <2>1. StageOK(Confirm(Nil))
    BY DEF StageOK, Confirm
  <2> QED
    BY <1>4, <2>1, StageSet
<1>6. Recorded(d, winner) = next \/ Recorded(d, winner) = [next EXCEPT !.stage = Confirm(Nil)]
  BY Zenon DEF Recorded, next, games, chars
<1> QED
  BY <1>4, <1>5, <1>6

LEMMA UnrecordedOK ==
    ASSUME NEW d, DraftOK(d, picks)
    PROVE  DraftOK(Unrecorded(d), picks)
<1> DEFINE left   == [i \in 1..(Len(d.games) - 1) |-> d.games[i]]
           cursor == IF left = <<>> THEN 1 ELSE Min2(d.cursor, Len(left))
<1>1. PICK n \in Nat : DOMAIN d.games = 1..n /\ d.games = [i \in 1..n |-> d.games[i]]
  BY DEF DraftOK, GamesOK, IsRow
<1>2. Len(d.games) = n
  BY <1>1
<1>3. GamesOK(left, d.who, picks)
  <2>1. DOMAIN left = 1..(n - 1) /\ \A i \in 1..(n - 1) : left[i] = d.games[i] /\ i \in DOMAIN d.games
    BY <1>1, <1>2
  <2>2. left = [i \in 1..(n - 1) |-> left[i]]
    BY <2>1
  <2> HIDE DEF left
  <2>3. \E k \in Nat : 1..(n - 1) = 1..k
    <3>1. CASE n = 0
      BY <3>1
    <3>2. CASE n # 0
      BY <3>2
    <3> QED
      BY <3>1, <3>2
  <2>4. IsRow(left)
    BY <2>1, <2>2, <2>3 DEF IsRow
  <2> QED
    BY <2>1, <2>4 DEF DraftOK, GamesOK
<1> HIDE DEF left, cursor
<1>4. Unrecorded(d) = [d EXCEPT !.games = left, !.cursor = cursor]
  BY Zenon DEF Unrecorded, left, cursor
<1>5. Unrecorded(d) = [at |-> "report", station |-> d.station, bout |-> d.bout, who |-> d.who,
                       games |-> left, chars |-> d.chars, cursor |-> cursor, stage |-> d.stage]
  <2>1. IsDraft(d)
    BY DEF DraftOK, IsDraft
  <2> QED
    BY <1>4, <2>1, GamesSet, Zenon
<1> QED
  BY <1>3, <1>5 DEF DraftOK

LEMMA PickStageOK == ASSUME NEW d, NEW side \in Sides PROVE StageOK(PickStage(d, side))
BY DEF PickStage, StageOK

(* Advancing is a matter of its stage. *)
LEMMA AdvancedOK ==
    ASSUME NEW d, NEW given, DraftOK(d, given), NEW side \in Sides
    PROVE  DraftOK(Advanced(d, side), given)
<1>1. 2 \in Sides /\ StageOK(Games)
  BY DEF Sides, StageOK
<1>2. StageOK(IF side = 1 THEN PickStage(d, 2) ELSE Games)
  BY <1>1, PickStageOK
<1> QED
  BY <1>2, StageSet DEF Advanced

(* A pick is given to the player of the side, and to no other. *)
LEMMA PickedOK ==
    ASSUME NEW d, DraftOK(d, picks), NEW side \in Sides, NEW choice
    PROVE  DraftOK(Picked(d, side, choice), picks \cup {<<d.who[side], choice>>})
<1> DEFINE given  == picks \cup {<<d.who[side], choice>>}
           chars1 == [d.chars EXCEPT ![side] = choice]
           games1 == [i \in DOMAIN d.games |->
                        IF i >= d.cursor THEN [d.games[i] EXCEPT !.chars[side] = choice] ELSE d.games[i]]
           d1     == [d EXCEPT !.chars[side] = choice, !.games = games1]
<1>1. ASSUME NEW chars, Fit(chars, d.who, picks)
      PROVE  Fit(chars, d.who, given) /\ Fit([chars EXCEPT ![side] = choice], d.who, given)
  BY <1>1 DEF Fit
<1>2. ASSUME NEW i \in DOMAIN d.games
      PROVE  /\ games1[i] = [winner |-> games1[i].winner, chars |-> games1[i].chars]
             /\ games1[i].winner \in Sides /\ Fit(games1[i].chars, d.who, given)
  <2> DEFINE g == d.games[i]
  <2>1. g = [winner |-> g.winner, chars |-> g.chars] /\ g.winner \in Sides /\ Fit(g.chars, d.who, picks)
    BY DEF DraftOK, GamesOK
  <2>2. games1[i] = (IF i >= d.cursor THEN [g EXCEPT !.chars = [g.chars EXCEPT ![side] = choice]] ELSE g)
    OBVIOUS
  <2> HIDE DEF g, games1, given
  <2>3. \/ games1[i] = [winner |-> g.winner, chars |-> [g.chars EXCEPT ![side] = choice]]
        \/ games1[i] = g
    BY <2>1, <2>2
  <2> QED
    BY <1>1, <2>1, <2>3
<1>3. DOMAIN games1 = DOMAIN d.games /\ games1 = [i \in DOMAIN games1 |-> games1[i]]
  OBVIOUS
<1>4. d1 = [at |-> "report", station |-> d.station, bout |-> d.bout, who |-> d.who,
            games |-> games1, chars |-> chars1, cursor |-> d.cursor, stage |-> d.stage]
  <2> DEFINE e == [d EXCEPT !.chars = chars1]
  <2>1. IsDraft(d)
    BY DEF DraftOK, IsDraft
  <2>2. d1 = [e EXCEPT !.games = games1]
    OBVIOUS
  <2> HIDE DEF games1, chars1, d1
  <2>3. e = [at |-> "report", station |-> d.station, bout |-> d.bout, who |-> d.who,
             games |-> d.games, chars |-> chars1, cursor |-> d.cursor, stage |-> d.stage]
    BY <2>1 DEF IsDraft
  <2> HIDE DEF e
  <2> QED
    BY <2>2, <2>3
<1>5. Fit(chars1, d.who, given)
  BY <1>1 DEF DraftOK
<1>6. Picked(d, side, choice) = Advanced(d1, side)
  BY Zenon DEF Picked
<1> HIDE DEF games1, chars1, given, d1
<1>7. GamesOK(games1, d.who, given)
  BY <1>2, <1>3 DEF DraftOK, GamesOK, IsRow
<1>8. DraftOK(d1, given)
  BY <1>4, <1>5, <1>7 DEF DraftOK
<1> QED
  BY <1>6, <1>8, AdvancedOK DEF given

LEMMA GiveKeeps ==
    ASSUME ConsoleInv, DraftOK(dialog, picks), NEW side \in Sides, NEW choice,
           Give(dialog, side, choice)
    PROVE  ConsoleInv'
<1> DEFINE x == dialog.who[side]
<1>1. /\ dialog' = Picked(dialog, side, choice) /\ sticky' = [sticky EXCEPT ![x] = choice]
      /\ picks' = picks \cup {<<x, choice>>} /\ UNCHANGED <<Board, sent>>
  BY DEF Give
<1>2. x \in Persons
  BY DEF DraftOK
<1>3. DialogOK(dialog', picks')
  BY <1>1, PickedOK DEF DialogOK
<1> HIDE DEF x
<1>4. sticky' = [y \in Persons |-> sticky'[y]]
  BY <1>1 DEF ConsoleInv, MemoryInv
<1>5. \A y \in Persons : sticky'[y] = Nil \/ <<y, sticky'[y]>> \in picks'
  BY <1>1, <1>2 DEF ConsoleInv, MemoryInv
<1>6. \A report \in sent' : SentOK(report, picks')
  <2>1. \A report : SentOK(report, picks) => SentOK(report, picks')
    BY <1>1 DEF SentOK
  <2> QED
    BY <1>1, <2>1 DEF ConsoleInv, MemoryInv
<1> QED
  BY <1>1, <1>3, <1>4, <1>5, <1>6 DEF ConsoleInv, MemoryInv, BoardInv, Board

(* The leader's wins are the wins of its player. *)
LEMMA PayloadOK ==
    ASSUME NEW d, DraftOK(d, picks), NEW dq \in Sides \cup {Nil}, dq = Nil => Leader(d) # Nil
    PROVE  SentOK(Payload(d, dq), picks)
<1> DEFINE r == Payload(d, dq)
<1>1. \A s \in Sides : Other(s) \in Sides /\ d.who[s] # d.who[Other(s)]
  BY DEF DraftOK, Sides, Other
<1>2. CASE dq # Nil
  <2>1. r.winner = d.who[Other(dq)] /\ r.loser = d.who[dq] /\ r.games = <<>> /\ r.dq = TRUE
    BY <1>2, Zenon DEF Payload
  <2> HIDE DEF r
  <2>2. DOMAIN r.games = {}
    BY <2>1
  <2>3. r.winner # r.loser
    BY <1>1, <1>2, <2>1
  <2>4. SentOK(r, picks)
    BY <2>1, <2>2, <2>3 DEF SentOK
  <2> QED
    BY <2>4 DEF r
<1>3. CASE dq = Nil
  <2> DEFINE l     == Leader(d)
             games == [i \in DOMAIN d.games |-> [winner |-> d.who[d.games[i].winner],
                                                 selections |-> Selections(d, d.games[i])]]
             won(x) == Cardinality({i \in DOMAIN games : games[i].winner = x})
  <2>1. l \in Sides /\ Wins(d, l) > Wins(d, Other(l))
    BY <1>3 DEF Leader, Sides, Other
  <2>2. r.winner = d.who[l] /\ r.loser = d.who[Other(l)] /\ r.games = games /\ r.dq = FALSE
    BY <1>3, Zenon DEF Payload
  <2>3. ASSUME NEW i \in DOMAIN d.games
        PROVE  /\ games[i].winner = d.who[d.games[i].winner] /\ d.games[i].winner \in Sides
               /\ games[i].selections \subseteq picks
    <3>1. games[i].selections = Selections(d, d.games[i])
      OBVIOUS
    <3>2. d.games[i].winner \in Sides /\ Fit(d.games[i].chars, d.who, picks)
      BY DEF DraftOK, GamesOK
    <3>3. Selections(d, d.games[i]) \subseteq picks
      BY <3>2 DEF Selections, Fit
    <3> QED
      BY <3>1, <3>2, <3>3
  <2>4. DOMAIN games = DOMAIN d.games
    OBVIOUS
  <2> HIDE DEF games, l, r
  <2>5. ASSUME NEW s \in Sides PROVE won(d.who[s]) = Wins(d, s)
    <3>1. \A i \in DOMAIN d.games : games[i].winner = d.who[s] <=> d.games[i].winner = s
      BY <2>3 DEF DraftOK, Sides
    <3>2. {i \in DOMAIN games : games[i].winner = d.who[s]} = {i \in DOMAIN d.games : d.games[i].winner = s}
      BY <2>4, <3>1
    <3> QED
      BY <3>2 DEF Wins
  <2>6. won(r.winner) > won(r.loser)
    BY <1>1, <2>1, <2>2, <2>5
  <2>7. \A i \in DOMAIN games :
            games[i].winner \in {r.winner, r.loser} /\ games[i].selections \subseteq picks
    BY <2>1, <2>2, <2>3, <2>4 DEF Sides, Other
  <2>8. r.winner # r.loser
    BY <1>1, <2>1, <2>2
  <2>9. SentOK(r, picks)
    BY <2>2, <2>6, <2>7, <2>8 DEF SentOK
  <2> QED
    BY <2>9 DEF r
<1> QED
  BY <1>2, <1>3

LEMMA SubmitKeeps ==
    ASSUME ConsoleInv, DraftOK(dialog, picks), NEW dq \in Sides \cup {Nil},
           dq = Nil => Leader(dialog) # Nil, Submit(dialog, dq)
    PROVE  ConsoleInv'
<1>1. /\ sent' = sent \cup {Payload(dialog, dq)} /\ dialog' = Closed
      /\ UNCHANGED <<table, sticky, picks>>
      /\ UNCHANGED seats \/ seats' = [seats EXCEPT ![dialog.station] = Nil]
  BY DEF Submit
<1>2. SentOK(Payload(dialog, dq), picks)
  BY PayloadOK
<1>3. \A report \in sent' : SentOK(report, picks')
  BY <1>1, <1>2 DEF ConsoleInv, MemoryInv
<1>4. BoardInv'
  BY <1>1 DEF ConsoleInv, BoardInv
<1> QED
  BY <1>1, <1>3, <1>4 DEF ConsoleInv, MemoryInv, DialogOK

-----------------------------------------------------------------------------
(* Keys, clicks and polls. *)

(* What an action of the report dialog comes with. *)
InReport(act) ==
    /\ DraftOK(dialog, picks)
    /\ \/ act.do \in {"back", "unrecord", "target", "characters", "dq", "finish"}
       \/ act.do \in {"record", "pickDq"} /\ act.with \in Sides
       \/ act.do \in {"pick", "scroll", "filter"} /\ dialog.stage.at = "pick"
       \/ act.do = "submit" /\ dialog.stage.at = "confirm"

Plainly == {"select", "buffer", "clear", "quickCall", "call", "free", "report", "find", "found",
            "list", "move", "close", "nothing"}

LEMMA StageKeeps ==
    ASSUME ConsoleInv, DraftOK(dialog, picks), NEW area, StageOK(area), Stage(area)
    PROVE  ConsoleInv'
<1>1. DialogOK([dialog EXCEPT !.stage = area], picks)
  BY StageSet DEF DialogOK
<1> QED
  BY <1>1, ShowKeeps DEF Stage

LEMMA CursorSet ==
    ASSUME NEW d, DraftOK(d, picks), NEW cursor
    PROVE  DraftOK([d EXCEPT !.cursor = cursor], picks)
BY DEF DraftOK

LEMMA ReportActionKeeps ==
    ASSUME ConsoleInv, NEW act, InReport(act), ReportAction(act)
    PROVE  ConsoleInv'
<1> DEFINE draft  == dialog
           area  == dialog.stage
           listed == Filtered(ReportRoster(draft), area.letter)
<1>1. DraftOK(draft, picks) /\ StageOK(area)
  BY DEF InReport, DraftOK
<1>2. \A d : DraftOK(d, picks) /\ Show(d) => ConsoleInv'
  BY ShowKeeps DEF DialogOK
<1>3. CASE act.do \in {"back", "dq"}
  <2>1. Stage(Games) \/ Stage([at |-> "dq"])
    BY <1>3 DEF ReportAction
  <2>2. StageOK(Games) /\ StageOK([at |-> "dq"])
    BY DEF StageOK
  <2> QED
    BY <1>1, <2>1, <2>2, StageKeeps
<1>4. CASE act.do = "record"
  <2>1. Show(Recorded(draft, act.with)) /\ act.with \in Sides
    BY <1>4 DEF ReportAction, InReport
  <2> QED
    BY <1>1, <1>2, <2>1, RecordedOK
<1>5. CASE act.do = "unrecord"
  <2>1. Show(Unrecorded(draft))
    BY <1>5 DEF ReportAction
  <2> QED
    BY <1>1, <1>2, <2>1, UnrecordedOK
<1>6. CASE act.do = "target"
  <2>1. \E cursor : Show([draft EXCEPT !.cursor = cursor])
    BY <1>6, Zenon DEF ReportAction
  <2> QED
    BY <1>1, <1>2, <2>1, CursorSet
<1>7. CASE act.do = "characters"
  <2>1. Show(draft) \/ Stage(PickStage(draft, 1))
    BY <1>7 DEF ReportAction
  <2>2. StageOK(PickStage(draft, 1))
    BY PickStageOK DEF Sides
  <2> QED
    BY <1>1, <1>2, <2>1, <2>2, StageKeeps
<1>8. CASE act.do = "finish"
  <2>1. Show(draft) \/ Stage(Confirm(Nil))
    BY <1>8 DEF ReportAction
  <2>2. StageOK(Confirm(Nil))
    BY DEF StageOK, Confirm
  <2> QED
    BY <1>1, <1>2, <2>1, <2>2, StageKeeps
<1>9. CASE act.do = "pickDq"
  <2>1. Stage(Confirm(act.with)) /\ act.with \in Sides
    BY <1>9 DEF ReportAction, InReport
  <2>2. StageOK(Confirm(act.with))
    BY <2>1 DEF StageOK, Confirm
  <2> QED
    BY <1>1, <2>1, <2>2, StageKeeps
<1>10. CASE act.do \in {"pick", "scroll", "filter"}
  <2>1. /\ area = [at |-> "pick", side |-> area.side, letter |-> area.letter, cursor |-> area.cursor]
        /\ area.side \in Sides
    BY <1>1, <1>10 DEF InReport, StageOK, Games, Confirm
  <2>2. CASE act.do = "pick"
    <3>1. Show(Advanced(draft, area.side)) \/ \E choice : Give(draft, area.side, choice)
      BY <2>2, Zenon DEF ReportAction
    <3>2. CASE Show(Advanced(draft, area.side))
      BY <1>1, <1>2, <2>1, <3>2, AdvancedOK
    <3>3. CASE \E choice : Give(draft, area.side, choice)
      BY <1>1, <2>1, <3>3, GiveKeeps
    <3> QED
      BY <3>1, <3>2, <3>3
  <2>3. CASE act.do = "scroll"
    <3>1. \E cursor : Stage([area EXCEPT !.cursor = cursor])
      BY <2>3, Zenon DEF ReportAction
    <3>2. ASSUME NEW cursor, Stage([area EXCEPT !.cursor = cursor]) PROVE ConsoleInv'
      <4>1. StageOK([area EXCEPT !.cursor = cursor])
        BY <2>1 DEF StageOK
      <4> QED
        BY <1>1, <3>2, <4>1, StageKeeps
    <3> QED
      BY <3>1, <3>2
  <2>4. CASE act.do = "filter"
    <3> DEFINE s == [area EXCEPT !.letter = act.with, !.cursor = 1]
    <3>1. Stage(s)
      BY <2>4, Zenon DEF ReportAction
    <3> DEFINE e == [area EXCEPT !.letter = act.with]
    <3>2. e = [at |-> "pick", side |-> area.side, letter |-> act.with, cursor |-> area.cursor]
      BY <2>1
    <3>4. s = [e EXCEPT !.cursor = 1]
      OBVIOUS
    <3> HIDE DEF s, e
    <3>5. s = [at |-> "pick", side |-> area.side, letter |-> act.with, cursor |-> 1]
      BY <3>2, <3>4
    <3>6. StageOK(s)
      BY <2>1, <3>5 DEF StageOK
    <3> QED
      BY <1>1, <3>1, <3>6, StageKeeps
  <2> QED
    BY <1>10, <2>2, <2>3, <2>4
<1>11. CASE act.do = "submit"
  <2>1. area = Confirm(area.dq) /\ area.dq \in Sides \cup {Nil}
    BY <1>1, <1>11 DEF InReport, StageOK, Games, Confirm
  <2>2. IF area.dq = Nil /\ Leader(draft) = Nil THEN Stage(Games) ELSE Submit(draft, area.dq)
    BY <1>11, Zenon DEF ReportAction
  <2>3. StageOK(Games)
    BY DEF StageOK
  <2> QED
    BY <1>1, <2>1, <2>2, <2>3, StageKeeps, SubmitKeeps
<1> QED
  BY <1>3, <1>4, <1>5, <1>6, <1>7, <1>8, <1>9, <1>10, <1>11 DEF InReport

LEMMA MeaningSuits ==
    ASSUME ConsoleInv, NEW k \in Keys
    PROVE  Meaning(k).do \in Plainly \/ InReport(Meaning(k))
<1>1. \A what, with : Do(what, with).do = what /\ Do(what, with).with = with
  BY DEF Do
<1>2. Ignore.do = "nothing"
  BY DEF Ignore, Do
<1>3. MainKey(k).do \in Plainly
  <2>1. \A d : SetupDigit(d).do \in {"buffer", "select"}
    BY <1>1 DEF SetupDigit
  <2>2. \A w : OnSelected(w).do \in {w, "nothing"}
    BY <1>1, <1>2 DEF OnSelected
  <2> HIDE DEF SetupDigit
  <2> QED
    BY <1>1, <1>2, <2>1, <2>2 DEF MainKey, Plainly
<1>4. ListKey(k).do \in {"move", "close"}
  BY <1>1 DEF ListKey
<1>5. ASSUME DraftOK(dialog, picks)
      PROVE  ReportKey(dialog.stage, k).do \in Plainly \/ InReport(ReportKey(dialog.stage, k))
  <2> DEFINE area == dialog.stage
             act   == ReportKey(area, k)
  <2>1. StageOK(area)
    BY <1>5 DEF DraftOK
  <2>2. Digits["1"] \in Sides /\ Digits["2"] \in Sides
    BY DEF Digits, Sides
  <2>3. CASE area.at = "games"
    <3>1. act \in {Do("record", Digits["1"]), Do("record", Digits["2"]), Do("unrecord", Nil),
                  Do("target", k), Do("characters", Nil), Do("dq", Nil), Do("finish", Nil), Ignore}
      BY <2>3 DEF ReportKey
    <3> QED
      BY <1>1, <1>2, <1>5, <2>2, <3>1 DEF InReport, Plainly
  <2>4. CASE area.at = "pick"
    <3>1. act \in {Do("pick", dialog.stage.cursor), Do("pick", 0), Do("scroll", k),
                  Do("filter", Nil), Do("filter", k), Ignore}
      BY <2>4 DEF ReportKey
    <3> QED
      BY <1>1, <1>2, <1>5, <2>4, <3>1 DEF InReport, Plainly
  <2>5. CASE area.at = "dq"
    <3>1. \/ act \in {Do("pickDq", Digits["1"]), Do("pickDq", Digits["2"])} \/ act = Ignore
      BY <2>5 DEF ReportKey
    <3> QED
      BY <1>1, <1>2, <1>5, <2>2, <3>1 DEF InReport, Plainly
  <2>6. CASE area.at = "confirm"
    <3>1. act = Do("submit", Nil) \/ act = Ignore
      BY <2>6 DEF ReportKey
    <3> QED
      BY <1>1, <1>2, <1>5, <2>6, <3>1 DEF InReport, Plainly
  <2>7. area.at \in {"games", "pick", "dq", "confirm"}
    BY <2>1 DEF StageOK, Games, Confirm
  <2> QED
    BY <2>3, <2>4, <2>5, <2>6, <2>7
<1>6. CASE dialog = Closed
  BY <1>3, <1>6 DEF Meaning
<1>7. CASE dialog # Closed
  <2>1. Meaning(k) = ModalKey(k)
    BY <1>7 DEF Meaning
  <2>2. CASE k = "Esc"
    <3>1. \/ DraftOK(dialog, picks) /\ ModalKey(k) = Do("back", Nil)
          \/ ModalKey(k) = Do("close", Nil)
      BY <2>2 DEF ModalKey, ConsoleInv, DialogOK, Closed
    <3> QED
      BY <1>1, <2>1, <3>1 DEF InReport, Plainly
  <2>3. CASE k # "Esc"
    <3>1. CASE dialog.at = "picker"
      <4>1. ModalKey(k).do \in {"call", "list", "nothing"}
        BY <1>1, <1>2, <2>3, <3>1 DEF ModalKey
      <4> QED
        BY <2>1, <4>1 DEF Plainly
    <3>2. CASE dialog.at \in {"find", "list"}
      <4>1. ModalKey(k).do \in {"found", "move", "close"}
        BY <1>1, <1>4, <2>3, <3>2 DEF ModalKey
      <4> QED
        BY <2>1, <4>1 DEF Plainly
    <3>3. CASE DraftOK(dialog, picks)
      <4>1. dialog.at = "report"
        BY <3>3 DEF DraftOK
      <4>2. ModalKey(k) = ReportKey(dialog.stage, k)
        BY <2>3, <4>1 DEF ModalKey
      <4> QED
        BY <1>5, <2>1, <3>3, <4>2
    <3> QED
      BY <1>7, <3>1, <3>2, <3>3 DEF ConsoleInv, DialogOK
  <2> QED
    BY <2>2, <2>3
<1> QED
  BY <1>6, <1>7

LEMMA ApplyKeeps ==
    ASSUME ConsoleInv, NEW act, act.do \in Plainly \/ InReport(act), Apply(act)
    PROVE  ConsoleInv'
<1>1. DialogOK(dialog, picks) /\ DialogOK(Closed, picks)
  BY DEF ConsoleInv, DialogOK
<1>2. CASE act.do \in {"select", "buffer", "clear"}
  <2>1. Select(act.with) \/ Buffer(act.with) \/ Buffer(Nil)
    BY <1>2 DEF Apply
  <2> QED
    BY <2>1, SelectKeeps, BufferKeeps
<1>3. CASE act.do \in {"quickCall", "call", "free"}
  <2>1. Commit(LowestFree, dialog) \/ Commit(act.with, Closed) \/ FreeSeat(act.with)
    BY <1>3 DEF Apply
  <2> QED
    BY <1>1, <2>1, CommitKeeps, FreeKeeps
<1>4. CASE act.do \in {"report", "found"}
  <2>1. Opened(act.with) \/ OpenFound(dialog.row)
    BY <1>4 DEF Apply
  <2> QED
    BY <2>1, OpenedKeeps, OpenFoundKeeps
<1>5. CASE act.do \in {"find", "list"}
  <2>1. Open([at |-> "find", row |-> 1]) \/ Open([at |-> "list"])
    BY <1>5 DEF Apply
  <2>2. DialogOK([at |-> "find", row |-> 1], picks) /\ DialogOK([at |-> "list"], picks)
    BY DEF DialogOK
  <2> QED
    BY <2>1, <2>2, OpenKeeps
<1>6. CASE act.do = "move"
  <2>1. Show(dialog) \/ (dialog.at = "find" /\ \E row : Show([dialog EXCEPT !.row = row]))
    BY <1>6, Zenon DEF Apply
  <2>2. ASSUME dialog.at = "find", NEW row
        PROVE  DialogOK([dialog EXCEPT !.row = row], picks)
    <3>1. dialog = [at |-> "find", row |-> dialog.row]
      BY <1>1, <2>2 DEF DialogOK, DraftOK, Closed
    <3>2. [dialog EXCEPT !.row = row] = [at |-> "find", row |-> row]
      BY <3>1
    <3> QED
      BY <3>2 DEF DialogOK
  <2> QED
    BY <1>1, <2>1, <2>2, ShowKeeps
<1>7. CASE act.do \in {"close", "nothing"}
  <2>1. Show(Closed) \/ UNCHANGED consoleVars
    BY <1>7 DEF Apply
  <2> QED
    BY <1>1, <2>1, ShowKeeps DEF consoleVars, ConsoleInv, BoardInv, MemoryInv
<1>8. CASE InReport(act)
  <2>1. ReportAction(act)
    BY <1>8, Zenon DEF Apply, InReport
  <2> QED
    BY <1>8, <2>1, ReportActionKeeps
<1> QED
  BY <1>2, <1>3, <1>4, <1>5, <1>6, <1>7, <1>8 DEF Plainly

LEMMA PollKeeps ==
    ASSUME ConsoleInv, NEW b \in Bouts, PollFinishes(b) \/ PollStarts(b) \/ PollRearranges(b)
    PROVE  ConsoleInv'
<1>1. UNCHANGED <<dialog, sticky, sent, picks>>
  BY DEF PollFinishes, PollStarts, PollRearranges, Memory
<1>2. /\ seats' = [n \in Numbers |-> seats'[n]]
      /\ \A n \in Numbers : seats'[n] \in Bouts \cup {Nil}
  BY DEF PollFinishes, PollStarts, PollRearranges, ConsoleInv, BoardInv
<1>3. \E x : \/ table' = [table EXCEPT ![b].done = x] \/ table' = [table EXCEPT ![b].real = x]
             \/ table' = [table EXCEPT ![b].who = x] /\ x = Rearranged[b]
  BY DEF PollFinishes, PollStarts, PollRearranges
<1>4. BoardInv'
  BY <1>2, <1>3 DEF ConsoleInv, BoardInv
<1> QED
  BY <1>1, <1>4 DEF ConsoleInv, MemoryInv

LEMMA ConsoleStep == ConsoleInv /\ [ConsoleNext]_consoleVars => ConsoleInv'
<1> SUFFICES ASSUME ConsoleInv, [ConsoleNext]_consoleVars PROVE ConsoleInv'
  OBVIOUS
<1>1. ASSUME NEW k \in Keys, Press(k) PROVE ConsoleInv'
  BY <1>1, MeaningSuits, ApplyKeeps DEF Press
<1>2. CASE Click
  <2>1. DialogOK(dialog, picks)
    BY DEF ConsoleInv
  <2> QED
    BY <1>2, <2>1, CommitKeeps, SelectKeeps, OpenedKeeps, FreeKeeps DEF Click
<1>3. CASE GraceTick
  BY <1>3, SelectKeeps DEF GraceTick
<1>4. CASE \E b \in Bouts : PollFinishes(b) \/ PollStarts(b) \/ PollRearranges(b)
  BY <1>4, PollKeeps
<1>5. CASE UNCHANGED consoleVars
  BY <1>5 DEF consoleVars, ConsoleInv, BoardInv, MemoryInv
<1> QED
  BY <1>1, <1>2, <1>3, <1>4, <1>5 DEF ConsoleNext

(* What is reported is what the operator entered: for every cast, every    *)
(* table of sets, whatever a poll rearranges under an open dialog.         *)
THEOREM ReportsStaySound == ConsoleSpec => []ReportsSound
<1>1. ConsoleInv => ReportsSound
  BY DEF ConsoleInv, MemoryInv, SentOK, ReportsSound, WinnersLead, PicksOfPlayer
<1> QED
  BY ConsoleStarts, ConsoleStep, <1>1, PTL DEF ConsoleSpec
=============================================================================
