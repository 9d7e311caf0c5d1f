----------------------------- MODULE TrafficProofs -----------------------------
(***************************************************************************)
(* Theorems about what goes out to start.gg and what comes back.           *)
(*                                                                         *)
(* Of polling, for every set of events and every bound: the supervisor     *)
(* never loses the poller, and, as long as only pollers panic, cycles are  *)
(* sequential and the desk's tables never go back in time.                 *)
(*                                                                         *)
(* Of the client, for every number of calls, window and hold: the calls of *)
(* one process heed a hold, keep to their share of the window, and read    *)
(* their own writes.                                                       *)
(***************************************************************************)
EXTENDS Polling, Provider, FiniteSetTheorems, TLAPS

------------------------------------------------------------------------------
(* Polling. *)


LEMMA InitType == Init => TypeOK
  BY PollingAssumption DEF Init, TypeOK, Pollers, Phases

LEMMA CycleType ==
  ASSUME TypeOK, NEW p \in Pollers, FullCycle(p) \/ ForcedCycle(p) \/ End(p) PROVE TypeOK'
<1>1. ASSUME NEW events \in SUBSET Brackets, Begin(p, events), forced' \in [Pollers -> SUBSET Brackets]
      PROVE  TypeOK'
  <2>1. seq[p] + 1 \in 0 .. MaxSeq
    BY <1>1, PollingAssumption DEF TypeOK, Begin
  <2> QED
    BY <1>1, <2>1 DEF TypeOK, Begin, Phases, supervisor, desk
<1>2. CASE FullCycle(p)
  BY <1>1, <1>2 DEF FullCycle, TypeOK
<1>3. CASE ForcedCycle(p)
  BY <1>1, <1>3 DEF ForcedCycle, TypeOK
<1>4. CASE End(p)
  BY <1>4 DEF End, TypeOK, Phases, supervisor, desk
<1> QED
  BY <1>2, <1>3, <1>4

(* A cycle's results are poll results stamped with it. *)
LEMMA CollectType ==
  ASSUME TypeOK, NEW p \in Pollers, NEW b \in Brackets, Fetch(p, b) \/ FetchFails(p, b)
  PROVE  /\ TypeOK'
         /\ \E result \in PollResults :
              /\ Collect(p, result) /\ result.bracket = b /\ phase[p] = "Fetching"
              /\ result.type = "Snapshot" => result.view = moment[b] /\ result.structure \in Structures(p, b)
<1>1. ASSUME NEW result \in PollResults, Collect(p, result) PROVE TypeOK'
  BY <1>1 DEF Collect, TypeOK, supervisor, desk
<1>2. CASE Fetch(p, b)
  <2>1. PICK structure \in Structures(p, b) :
          Collect(p, [type |-> "Snapshot", bracket |-> b, seq |-> seq[p],
                      view |-> moment[b], structure |-> structure])
    BY <1>2 DEF Fetch
  <2> DEFINE result == [type |-> "Snapshot", bracket |-> b, seq |-> seq[p],
                        view |-> moment[b], structure |-> structure]
  <2>2. seq[p] \in 1 .. MaxSeq /\ structure \in {"None", "Empty", "Groups"} /\ phase[p] = "Fetching"
    BY <1>2, PollingAssumption DEF TypeOK, Fetch, Structures
  <2>3. result \in PollResults
    BY <2>2 DEF TypeOK, PollResults, Snapshots
  <2>4. result.bracket = b /\ result.view = moment[b] /\ result.structure = structure
    OBVIOUS
  <2> HIDE DEF result
  <2> QED
    BY <1>1, <2>1, <2>2, <2>3, <2>4 DEF result
<1>3. CASE FetchFails(p, b)
  <2> DEFINE result == [type |-> "Failed", bracket |-> b, seq |-> seq[p]]
  <2>1. seq[p] \in 1 .. MaxSeq /\ phase[p] = "Fetching" /\ Collect(p, result)
    BY <1>3, PollingAssumption DEF TypeOK, FetchFails
  <2>2. result \in PollResults /\ result.bracket = b /\ result.type = "Failed"
    BY <2>1 DEF PollResults, Failures
  <2> HIDE DEF result
  <2> QED
    BY <1>1, <2>1, <2>2
<1> QED
  BY <1>2, <1>3

LEMMA PublishType == ASSUME TypeOK, NEW p \in Pollers, Publish(p) PROVE TypeOK'
<1>1. mailbox' \in Seq(PollResults)
  BY DEF TypeOK, Publish
<1>2. wanted' \in [Pollers -> SUBSET Unstructured]
  BY DEF TypeOK, Publish
<1> QED
  BY <1>1, <1>2 DEF TypeOK, Publish, Phases, supervisor, desk

LEMMA SuperviseType == ASSUME TypeOK, Supervise PROVE TypeOK'
<1>1. ASSUME Panicked, phase' \in [Pollers -> Phases], targets' \in [Pollers -> SUBSET Brackets],
             results' \in [Pollers -> Seq(PollResults)], writer' \in {"Running", "Gone"},
             \A p \in Pollers : phase'[p] = phase[p] \/ phase'[p] = "Gone"
      PROVE  TypeOK'
  <2>1. panics' \in 0 .. MaxPanics /\ unjoined' \in 0 .. panics'
    BY <1>1, PollingAssumption DEF TypeOK, Panicked
  <2> QED
    BY <1>1, <2>1 DEF TypeOK, Panicked, desk
<1>2. ASSUME NEW phases \in [Pollers -> Phases], Spawn(phases), unjoined' \in 0 .. panics,
             \A p \in Pollers : phases[p] = phase[p] \/ phases[p] = "Gone"
      PROVE  TypeOK'
  <2>1. current + 1 \in Pollers /\ 1 \in 0 .. MaxSeq
    BY <1>2, PollingAssumption DEF TypeOK, Spawn, Pollers
  <2> QED
    BY <1>2, <2>1 DEF TypeOK, Spawn, Phases, desk
<1>3. ASSUME NEW p \in Pollers, PollerPanics(p) PROVE TypeOK'
  <2>1. <<>> \in Seq(PollResults)
    OBVIOUS
  <2> QED
    BY <1>1, <1>3, <2>1 DEF PollerPanics, TypeOK, Phases
<1>4. ASSUME NEW p \in Pollers, RestartEnded(p) PROVE TypeOK'
  <2> DEFINE phases == [phase EXCEPT ![p] = "Gone"]
  <2>1. phases \in [Pollers -> Phases] /\ \A q \in Pollers : phases[q] = phase[q] \/ phases[q] = "Gone"
    BY DEF TypeOK, Phases
  <2>2. Spawn(phases) /\ unjoined' \in 0 .. panics
    BY <1>4 DEF RestartEnded, TypeOK
  <2> HIDE DEF phases
  <2> QED
    BY <1>2, <2>1, <2>2
<1>5. CASE OtherPanics
  BY <1>1, <1>5 DEF OtherPanics, TypeOK
<1>6. CASE RestartPanicked
  <2>1. unjoined' \in 0 .. panics /\ Spawn(phase)
    BY <1>6 DEF RestartPanicked, TypeOK
  <2>2. phase \in [Pollers -> Phases]
    BY DEF TypeOK
  <2> QED
    BY <1>2, <2>1, <2>2
<1> QED
  BY <1>3, <1>4, <1>5, <1>6 DEF Supervise

LEMMA DeskType == ASSUME TypeOK, HandlePoll PROVE TypeOK'
<1> DEFINE result == Head(mailbox)
<1>1. result \in PollResults /\ mailbox' \in Seq(PollResults)
  BY DEF TypeOK, HandlePoll
<1>2. ASSUME result.type = "Snapshot"
      PROVE  result.bracket \in Brackets /\ result.seq \in 0 .. MaxSeq /\ result.view \in 0 .. MaxMoment
  BY <1>1, <1>2, PollingAssumption DEF PollResults, Snapshots, Failures
<1> HIDE DEF result
<1>3. CASE result.type = "Snapshot" /\ Accept(result)
  BY <1>1, <1>2, <1>3 DEF TypeOK, HandlePoll, Accept, Apply, Refuse, pollers, supervisor
<1>4. CASE result.type = "Failed" /\ UNCHANGED desk
  BY <1>1, <1>4 DEF TypeOK, HandlePoll, desk, pollers, supervisor
<1> QED
  BY <1>3, <1>4 DEF HandlePoll, result

LEMMA TypeStep == TypeOK /\ [Next]_vars => TypeOK'
<1> SUFFICES ASSUME TypeOK, [Next]_vars PROVE TypeOK'
  OBVIOUS
<1>1. ASSUME NEW p \in Pollers, Poll(p) PROVE TypeOK'
  BY <1>1, CycleType, CollectType, PublishType DEF Poll
<1>2. ASSUME NEW b \in Brackets, ForcePoll(b) PROVE TypeOK'
  BY <1>2 DEF ForcePoll, TypeOK, supervisor, desk
<1>3. ASSUME NEW b \in Brackets, SiteStep(b) PROVE TypeOK'
  BY <1>3, PollingAssumption DEF SiteStep, TypeOK, pollers, supervisor, desk
<1>4. CASE UNCHANGED vars
  BY <1>4 DEF TypeOK, vars, pollers, supervisor, desk
<1> QED
  BY <1>1, <1>2, <1>3, <1>4, SuperviseType, DeskType DEF Next

(* The pollers, the supervisor, the mailbox and the desk keep their types. *)
THEOREM TypeCorrect == Spec => []TypeOK
  BY InitType, TypeStep, PTL DEF Spec

-----------------------------------------------------------------------------
(* The supervisor. *)

(* The pollers after the current one are as they were at the start, and    *)
(* the current one runs, or panicked and is not joined yet.                *)
SupervisorInv ==
    /\ PollingGoesOn
    /\ phase[current] # "Ended"
    /\ \A p \in Pollers : p > current =>
          phase[p] = "Unborn" /\ results[p] = <<>> /\ wanted[p] = Unstructured

LEMMA SupervisorInit == Init => SupervisorInv
  BY PollingAssumption DEF Init, SupervisorInv, PollingGoesOn, Running, Pollers

LEMMA SupervisorStep == TypeOK /\ SupervisorInv /\ [Next]_vars => SupervisorInv'
<1> SUFFICES ASSUME TypeOK, SupervisorInv, [Next]_vars PROVE SupervisorInv'
  OBVIOUS
<1> USE DEF SupervisorInv, PollingGoesOn, Running
<1>1. ASSUME NEW p \in Pollers, Poll(p) PROVE SupervisorInv'
  <2>1. CASE FullCycle(p) \/ ForcedCycle(p) \/ End(p)
    BY <2>1 DEF FullCycle, ForcedCycle, Begin, End, TypeOK, supervisor
  <2>2. ASSUME NEW b \in Brackets, Fetch(p, b) \/ FetchFails(p, b) PROVE SupervisorInv'
    <3>1. PICK result \in PollResults : Collect(p, result) /\ phase[p] = "Fetching"
      BY <2>2, CollectType
    <3>2. \A q \in Pollers : q # p => results'[q] = results[q]
      BY <3>1 DEF Collect, TypeOK
    <3>3. ~(p > current) /\ UNCHANGED <<phase, wanted, supervisor>>
      BY <3>1 DEF Collect
    <3> QED
      BY <3>2, <3>3 DEF supervisor
  <2>3. CASE Publish(p)
    BY <2>3 DEF Publish, TypeOK, supervisor
  <2> QED
    BY <1>1, <2>1, <2>2, <2>3 DEF Poll
<1>2. ASSUME NEW phases, Spawn(phases), phases \in [Pollers -> Phases],
             \A p \in Pollers : p > current => phases[p] = phase[p]
      PROVE  SupervisorInv'
  <2>1. current + 1 \in Pollers
    BY <1>2, PollingAssumption DEF TypeOK, Spawn, Pollers
  <2> QED
    BY <1>2, <2>1 DEF TypeOK, Spawn, Pollers
<1>3. CASE Supervise
  <2>1. ASSUME NEW p \in Pollers, PollerPanics(p) PROVE SupervisorInv'
    BY <2>1 DEF PollerPanics, Panicked, TypeOK
  <2>2. ASSUME NEW p \in Pollers, RestartEnded(p) PROVE SupervisorInv'
    <3> DEFINE phases == [phase EXCEPT ![p] = "Gone"]
    <3>1. phases \in [Pollers -> Phases] /\ \A q \in Pollers : q > current => phases[q] = phase[q]
      BY <2>2 DEF TypeOK, Phases, RestartEnded
    <3>2. Spawn(phases)
      BY <2>2 DEF RestartEnded
    <3> HIDE DEF phases
    <3> QED
      BY <1>2, <3>1, <3>2
  <2>3. CASE OtherPanics
    BY <2>3 DEF OtherPanics, Panicked, TypeOK
  <2>4. CASE RestartPanicked
    BY <1>2, <2>4 DEF RestartPanicked, TypeOK
  <2> QED
    BY <1>3, <2>1, <2>2, <2>3, <2>4 DEF Supervise
<1>4. CASE HandlePoll
  BY <1>4 DEF HandlePoll, pollers, supervisor
<1>5. ASSUME NEW b \in Brackets, ForcePoll(b) \/ SiteStep(b) PROVE SupervisorInv'
  BY <1>5 DEF ForcePoll, SiteStep, pollers, supervisor
<1>6. CASE UNCHANGED vars
  BY <1>6 DEF vars, pollers, supervisor
<1> QED
  BY <1>1, <1>3, <1>4, <1>5, <1>6 DEF Next

(* Whichever tasks panic, a poller that forced polls can reach runs, or    *)
(* the event loop has yet to join a task and will spawn one.               *)
THEOREM PollerKept == Spec => []PollingGoesOn
<1>1. TypeOK /\ SupervisorInv /\ [Next]_vars => (TypeOK /\ SupervisorInv)'
  BY TypeStep, SupervisorStep
<1>2. SupervisorInv => PollingGoesOn
  BY DEF SupervisorInv
<1> QED
  BY InitType, SupervisorInit, <1>1, <1>2, PTL DEF Spec

-----------------------------------------------------------------------------
(* One poller at a time. *)

(* While the writer runs: of all the pollers only the current one runs,    *)
(* and its death is the only one to join.                                  *)
Alone ==
    /\ \A p \in Pollers : p # current => phase[p] \in {"Unborn", "Gone"} /\ results[p] = <<>>
    /\ ~Running(current) => phase[current] = "Gone" /\ results[current] = <<>> /\ unjoined = 1
    /\ Running(current) => unjoined = 0

LEMMA AloneInit == Init => Alone
  BY PollingAssumption DEF Init, Alone, Running, Pollers

LEMMA AloneStep ==
  ASSUME writer = "Running", writer' = "Running", TypeOK, SupervisorInv, Alone, [Next]_vars PROVE Alone'
<1> USE DEF Alone, Running
<1>1. ASSUME NEW p \in Pollers, Poll(p) PROVE Alone'
  <2>1. CASE FullCycle(p) \/ ForcedCycle(p)
    BY <2>1 DEF FullCycle, ForcedCycle, Begin, TypeOK, supervisor
  <2>2. CASE End(p)
    BY <2>2 DEF End, TypeOK
  <2>3. ASSUME NEW b \in Brackets, Fetch(p, b) \/ FetchFails(p, b) PROVE Alone'
    <3>1. PICK result \in PollResults : Collect(p, result) /\ phase[p] = "Fetching"
      BY <2>3, CollectType
    <3>2. \A q \in Pollers : q # p => results'[q] = results[q]
      BY <3>1 DEF Collect, TypeOK
    <3>3. p = current /\ UNCHANGED <<phase, supervisor>>
      BY <3>1 DEF Collect
    <3> QED
      BY <3>1, <3>2, <3>3 DEF supervisor
  <2>4. CASE Publish(p)
    BY <2>4 DEF Publish, TypeOK, supervisor
  <2> QED
    BY <1>1, <2>1, <2>2, <2>3, <2>4 DEF Poll
<1>2. CASE Supervise
  <2>1. ASSUME NEW p \in Pollers, PollerPanics(p) PROVE Alone'
    BY <2>1 DEF PollerPanics, Panicked, TypeOK
  <2>2. ASSUME NEW p \in Pollers, RestartEnded(p) PROVE Alone'
    BY <2>2 DEF RestartEnded, SupervisorInv
  <2>3. CASE OtherPanics
    BY <2>3 DEF OtherPanics
  <2>4. CASE RestartPanicked
    <3>1. current + 1 \in Pollers /\ current \in Nat
      BY <2>4, PollingAssumption DEF RestartPanicked, TypeOK, Spawn, Pollers
    <3>2. results[current + 1] = <<>> /\ ~Running(current)
      BY <2>4, <3>1 DEF RestartPanicked, SupervisorInv
    <3> QED
      BY <2>4, <3>1, <3>2 DEF RestartPanicked, Spawn, TypeOK
  <2> QED
    BY <1>2, <2>1, <2>2, <2>3, <2>4 DEF Supervise
<1>3. CASE HandlePoll
  BY <1>3 DEF HandlePoll, pollers, supervisor
<1>4. ASSUME NEW b \in Brackets, ForcePoll(b) \/ SiteStep(b) PROVE Alone'
  BY <1>4 DEF ForcePoll, SiteStep, pollers, supervisor
<1>5. CASE UNCHANGED vars
  BY <1>5 DEF vars, pollers, supervisor
<1> QED
  BY <1>1, <1>2, <1>3, <1>4, <1>5 DEF Next

(* A writer that is gone is not spawned again. *)
LEMMA WriterStaysGone == ASSUME [Next]_vars, writer' = "Running" PROVE writer = "Running"
  BY DEF Next, Poll, FullCycle, ForcedCycle, Begin, Publish, End, Fetch, FetchFails, Collect,
         Supervise, PollerPanics, OtherPanics, RestartEnded, RestartPanicked, Spawn,
         HandlePoll, ForcePoll, SiteStep, vars, supervisor

AloneUntilPanic == writer = "Running" => Alone

LEMMA AloneUntilPanicStep ==
  TypeOK /\ SupervisorInv /\ AloneUntilPanic /\ [Next]_vars => AloneUntilPanic'
  BY AloneStep, WriterStaysGone DEF AloneUntilPanic

(* While the writer runs two cycles never overlap, whatever pollers panic. *)
THEOREM Sequential == Spec => []SequentialUntilPanic
<1> DEFINE Inv == TypeOK /\ SupervisorInv /\ AloneUntilPanic
<1>1. Inv /\ [Next]_vars => Inv'
  BY TypeStep, SupervisorStep, AloneUntilPanicStep
<1>2. Inv => SequentialUntilPanic
  BY DEF AloneUntilPanic, Alone, SequentialUntilPanic, CyclesSequential, Running
<1>3. Init => Inv
  BY InitType, SupervisorInit, AloneInit DEF AloneUntilPanic
<1> HIDE DEF Inv
<1> QED
  BY <1>1, <1>2, <1>3, PTL DEF Spec

-----------------------------------------------------------------------------
(* Tables never go back. *)

(* What is still to reach the desk: the mailbox, then the current cycle.   *)
Coming == mailbox \o results[current]

IsView(line, n, b) == line[n].type = "Snapshot" /\ line[n].bracket = b

(* The snapshots of an event in line show it later and later, none before  *)
(* the desk's table and none after the site.                               *)
Ordered(line, low, high) ==
    \A b \in Brackets :
        /\ low[b] <= high[b]
        /\ \A n \in DOMAIN line : IsView(line, n, b) => low[b] <= line[n].view /\ line[n].view <= high[b]
        /\ \A m, n \in DOMAIN line : m < n /\ IsView(line, m, b) /\ IsView(line, n, b)
                                        => line[m].view <= line[n].view

OrderInv == Ordered(Coming, shown, moment)

LEMMA OrderInit == Init => OrderInv
  BY PollingAssumption DEF Init, OrderInv, Ordered, Coming, Pollers

LEMMA AppendOrdered ==
  ASSUME NEW line \in Seq(PollResults), NEW r \in PollResults,
         NEW low \in [Brackets -> Nat], NEW high \in [Brackets -> Nat], Ordered(line, low, high),
         r.type = "Snapshot" => r.view = high[r.bracket]
  PROVE  Ordered(Append(line, r), low, high)
<1> DEFINE more == Append(line, r)
<1>1. /\ Len(line) \in Nat /\ DOMAIN line = 1 .. Len(line) /\ DOMAIN more = 1 .. Len(line) + 1
      /\ \A n \in 1 .. Len(line) : more[n] = line[n]
      /\ more[Len(line) + 1] = r
  OBVIOUS
<1> HIDE DEF more
<1>2. ASSUME NEW b \in Brackets, NEW n \in DOMAIN more, IsView(more, n, b)
      PROVE  low[b] <= more[n].view /\ more[n].view <= high[b]
             /\ \A m \in DOMAIN more : m < n /\ IsView(more, m, b) => more[m].view <= more[n].view
  <2>1. CASE n = Len(line) + 1
    <3>1. more[n] = r /\ r.view = high[b]
      BY <1>1, <1>2, <2>1 DEF IsView
    <3>2. low[b] <= high[b] /\ high[b] \in Nat
      BY DEF Ordered
    <3>3. ASSUME NEW m \in DOMAIN more, m < n, IsView(more, m, b) PROVE more[m].view <= high[b]
      <4>1. m \in DOMAIN line /\ more[m] = line[m] /\ IsView(line, m, b)
        BY <1>1, <2>1, <3>3 DEF IsView
      <4> QED
        BY <4>1 DEF Ordered
    <3> QED
      BY <3>1, <3>2, <3>3
  <2>2. CASE n # Len(line) + 1
    <3>1. n \in DOMAIN line /\ more[n] = line[n] /\ IsView(line, n, b)
      BY <1>1, <1>2, <2>2 DEF IsView
    <3>2. ASSUME NEW m \in DOMAIN more, m < n, IsView(more, m, b) PROVE more[m].view <= more[n].view
      <4>1. m \in DOMAIN line /\ more[m] = line[m] /\ IsView(line, m, b)
        BY <1>1, <3>1, <3>2 DEF IsView
      <4> QED
        BY <3>1, <3>2, <4>1 DEF Ordered
    <3> QED
      BY <3>1, <3>2 DEF Ordered
  <2> QED
    BY <2>1, <2>2
<1> QED
  BY <1>2 DEF Ordered, more

LEMMA OrderStep ==
  ASSUME writer = "Running", writer' = "Running", TypeOK, SupervisorInv, Alone, OrderInv, [Next]_vars
  PROVE  OrderInv' /\ \A b \in Brackets : shown'[b] >= shown[b]
<1> DEFINE Kept == UNCHANGED <<shown, moment>>
           Goal == OrderInv' /\ \A b \in Brackets : shown'[b] >= shown[b]
<1>1. \A b \in Brackets : shown[b] \in Nat /\ moment[b] \in Nat
  BY PollingAssumption DEF TypeOK
<1>2. Coming \in Seq(PollResults) /\ mailbox \in Seq(PollResults) /\ results[current] \in Seq(PollResults)
  BY DEF TypeOK, Coming
<1>3. ASSUME Coming' = Coming, Kept PROVE Goal
  BY <1>1, <1>3 DEF OrderInv
<1>4. ASSUME Coming' = mailbox, Kept PROVE Goal
  <2>1. DOMAIN mailbox \subseteq DOMAIN Coming /\ \A n \in DOMAIN mailbox : Coming[n] = mailbox[n]
    BY <1>2 DEF Coming
  <2>2. Ordered(mailbox, shown, moment)
    BY <2>1 DEF OrderInv, Ordered, IsView
  <2> QED
    BY <1>1, <1>4, <2>2 DEF OrderInv
<1>5. ASSUME NEW p \in Pollers, Poll(p) PROVE Goal
  <2>1. CASE FullCycle(p) \/ ForcedCycle(p) \/ End(p)
    BY <1>3, <2>1 DEF FullCycle, ForcedCycle, Begin, End, Coming, desk, supervisor
  <2>2. ASSUME NEW b \in Brackets, Fetch(p, b) \/ FetchFails(p, b) PROVE Goal
    <3>1. PICK result \in PollResults :
            /\ Collect(p, result) /\ result.bracket = b /\ phase[p] = "Fetching"
            /\ result.type = "Snapshot" => result.view = moment[b]
      BY <2>2, CollectType
    <3>2. p = current
      BY <3>1 DEF Alone, Running
    <3>3. results'[current] = Append(results[current], result) /\ UNCHANGED <<current, mailbox>>
      BY <3>1, <3>2 DEF Collect, TypeOK, supervisor
    <3>4. Coming' = Append(Coming, result)
      <4>1. \A t, u \in Seq(PollResults) : t \o Append(u, result) = Append(t \o u, result)
        OBVIOUS
      <4> QED
        BY <1>2, <3>3, <4>1 DEF Coming
    <3>5. Ordered(Append(Coming, result), shown, moment)
      <4>1. shown \in [Brackets -> Nat] /\ moment \in [Brackets -> Nat]
        BY PollingAssumption DEF TypeOK
      <4> QED
        BY <1>2, <3>1, <4>1, AppendOrdered DEF OrderInv
    <3>6. Kept
      BY <3>1 DEF Collect, desk
    <3> QED
      BY <1>1, <3>4, <3>5, <3>6 DEF OrderInv
  <2>3. CASE Publish(p)
    <3>1. p = current
      BY <2>3 DEF Publish, Alone, Running
    <3>2. mailbox' = Coming /\ results'[current] = <<>> /\ current' = current /\ Kept
      BY <2>3, <3>1 DEF Publish, Coming, TypeOK, supervisor, desk
    <3>3. Coming' = Coming
      <4>1. Coming' = mailbox' \o results'[current']
        BY DEF Coming
      <4>2. \A t \in Seq(PollResults) : t \o <<>> = t
        OBVIOUS
      <4> QED
        BY <1>2, <3>2, <4>1, <4>2
    <3> QED
      BY <1>3, <3>2, <3>3
  <2> QED
    BY <1>5, <2>1, <2>2, <2>3 DEF Poll
<1>6. CASE Supervise
  <2>1. ASSUME mailbox' = mailbox, results'[current'] = <<>>, Kept PROVE Goal
    BY <1>2, <1>4, <2>1 DEF Coming
  <2>2. ASSUME NEW p \in Pollers, PollerPanics(p) PROVE Goal
    BY <2>1, <2>2 DEF PollerPanics, Panicked, Alone, Running, TypeOK, desk
  <2>3. ASSUME NEW p \in Pollers, RestartEnded(p) PROVE Goal
    BY <2>3 DEF RestartEnded, SupervisorInv, Alone
  <2>4. CASE OtherPanics
    BY <2>4 DEF OtherPanics
  <2>5. CASE RestartPanicked
    <3>1. current + 1 \in Pollers /\ current + 1 > current
      BY <2>5, PollingAssumption DEF RestartPanicked, TypeOK, Spawn, Pollers
    <3>2. results[current + 1] = <<>>
      BY <3>1 DEF SupervisorInv
    <3> QED
      BY <2>1, <2>5, <3>2 DEF RestartPanicked, Spawn, desk
  <2> QED
    BY <1>6, <2>2, <2>3, <2>4, <2>5 DEF Supervise
<1>7. CASE HandlePoll
  <2> DEFINE r == Head(mailbox)
             q == Coming
  <2>1. /\ mailbox # <<>> /\ mailbox' = Tail(mailbox) /\ UNCHANGED <<current, results, moment>>
        /\ r \in PollResults
    BY <1>7, <1>2 DEF HandlePoll, pollers, supervisor
  <2>2. Coming' = Tail(q) /\ q # <<>> /\ q[1] = r /\ q \in Seq(PollResults)
    BY <1>2, <2>1 DEF Coming
  <2>3. Ordered(q, shown, moment)
    BY DEF OrderInv
  <2>4. r.type = "Snapshot" => r.bracket \in Brackets /\ r.view \in Nat
    BY <2>1, PollingAssumption DEF PollResults, Snapshots, Failures
  <2>5. \/ UNCHANGED shown
        \/ r.type = "Snapshot" /\ shown' = [shown EXCEPT ![r.bracket] = r.view]
    BY <1>7 DEF HandlePoll, Accept, Apply, Refuse, desk
  <2> HIDE DEF q, r
  <2>6. /\ Len(q) \in Nat \ {0} /\ DOMAIN q = 1 .. Len(q)
        /\ DOMAIN Tail(q) = 1 .. Len(q) - 1
        /\ \A n \in 1 .. Len(q) - 1 : Tail(q)[n] = q[n + 1] /\ n + 1 \in 1 .. Len(q) /\ 1 < n + 1
    BY <2>2
  <2>7. ASSUME NEW b \in Brackets
        PROVE  /\ shown'[b] >= shown[b] /\ shown'[b] <= moment[b]
               /\ \A n \in DOMAIN Tail(q) : IsView(Tail(q), n, b) =>
                     shown'[b] <= Tail(q)[n].view /\ Tail(q)[n].view <= moment[b]
    <3>1. CASE shown'[b] = shown[b]
      BY <1>1, <2>3, <2>6, <3>1 DEF Ordered, IsView
    <3>2. CASE shown'[b] # shown[b]
      <4>1. r.type = "Snapshot" /\ r.bracket = b /\ shown'[b] = r.view
        BY <2>4, <2>5, <3>2 DEF TypeOK
      <4>2. IsView(q, 1, b) /\ 1 \in DOMAIN q
        BY <2>2, <2>6, <4>1 DEF IsView
      <4> QED
        BY <1>1, <2>2, <2>3, <2>4, <2>6, <4>1, <4>2 DEF Ordered, IsView
    <3> QED
      BY <3>1, <3>2
  <2>8. ASSUME NEW b \in Brackets, NEW m \in DOMAIN Tail(q), NEW n \in DOMAIN Tail(q), m < n,
               IsView(Tail(q), m, b), IsView(Tail(q), n, b)
        PROVE  Tail(q)[m].view <= Tail(q)[n].view
    <3>1. m + 1 \in DOMAIN q /\ n + 1 \in DOMAIN q /\ m + 1 < n + 1
      BY <2>6, <2>8
    <3> QED
      BY <2>3, <2>6, <2>8, <3>1 DEF Ordered, IsView
  <2>9. Ordered(Tail(q), shown', moment)
    BY <2>7, <2>8 DEF Ordered
  <2> QED
    BY <2>1, <2>2, <2>7, <2>9 DEF OrderInv
<1>8. ASSUME NEW b \in Brackets, ForcePoll(b) PROVE Goal
  BY <1>3, <1>8 DEF ForcePoll, Coming, supervisor, desk
<1>9. ASSUME NEW b \in Brackets, SiteStep(b) PROVE Goal
  <2>1. Coming' = Coming /\ shown' = shown
    BY <1>9 DEF SiteStep, Coming, pollers, supervisor, desk
  <2>2. \A c \in Brackets : moment'[c] \in Nat /\ moment[c] <= moment'[c]
    BY <1>1, <1>9 DEF SiteStep, TypeOK
  <2>3. \A n \in DOMAIN Coming : \A c \in Brackets : IsView(Coming, n, c) => Coming[n].view \in Nat
    BY <1>2, PollingAssumption DEF IsView, PollResults, Snapshots, Failures
  <2>4. Ordered(Coming, shown, moment')
    BY <1>1, <2>2, <2>3 DEF OrderInv, Ordered
  <2> QED
    BY <1>1, <2>1, <2>4 DEF OrderInv
<1>10. CASE UNCHANGED vars
  BY <1>3, <1>10 DEF vars, Coming, pollers, supervisor, desk
<1> QED
  BY <1>5, <1>6, <1>7, <1>8, <1>9, <1>10 DEF Next

OrderUntilPanic == writer = "Running" => OrderInv

(* While the writer runs no table goes back in time.                       *)
THEOREM NeverBack == Spec => InOrder
<1> DEFINE Inv == TypeOK /\ SupervisorInv /\ AloneUntilPanic /\ OrderUntilPanic
<1>1. ASSUME Inv, [Next]_vars, writer' = "Running"
      PROVE  OrderInv' /\ \A b \in Brackets : shown'[b] >= shown[b]
  BY <1>1, OrderStep, WriterStaysGone DEF AloneUntilPanic, OrderUntilPanic
<1>2. Inv /\ [Next]_vars => Inv'
  BY <1>1, TypeStep, SupervisorStep, AloneUntilPanicStep DEF OrderUntilPanic
<1>3. Inv /\ [Next]_vars => [writer' = "Running" => \A b \in Brackets : shown'[b] >= shown[b]]_vars
  BY <1>1
<1>4. Init => Inv
  BY InitType, SupervisorInit, AloneInit, OrderInit DEF AloneUntilPanic, OrderUntilPanic
<1> HIDE DEF Inv
<1> QED
  BY <1>2, <1>3, <1>4, PTL DEF Spec, InOrder

-----------------------------------------------------------------------------
(* No structure is forgotten. *)

(* The phase groups of an event are installed or on their way.             *)
Landed(b) == b \in structured \/ b \in Brought(mailbox, {"Groups"})

(* Of the events that have phase groups whenever they are asked for, what  *)
(* a running poller no longer asks for has landed, and nothing empty is on *)
(* its way.                                                                *)
AskedInv ==
    /\ Brackets \ Unstructured \subseteq structured
    /\ \A p \in Pollers : Running(p) => \A b \in Unstructured \ (wanted[p] \cup EmptyEvents) : Landed(b)
    /\ \A p \in Pollers : \A n \in DOMAIN results[p] : \A b \in Brackets \ EmptyEvents : ~Carries(results[p][n], b, {"Empty"})

LEMMA AskedInit == Init => AskedInv
  BY PollingAssumption DEF Init, AskedInv, Pollers

LEMMA BroughtByConcat ==
  ASSUME NEW q \in Seq(PollResults), NEW r \in Seq(PollResults), NEW kinds
  PROVE  Brought(q \o r, kinds) = Brought(q, kinds) \cup Brought(r, kinds)
<1> DEFINE both == q \o r
<1>1. /\ Len(q) \in Nat /\ Len(r) \in Nat /\ DOMAIN q = 1 .. Len(q) /\ DOMAIN r = 1 .. Len(r)
      /\ DOMAIN both = 1 .. Len(q) + Len(r)
      /\ \A n \in 1 .. Len(q) : both[n] = q[n]
      /\ \A n \in 1 .. Len(r) : both[Len(q) + n] = r[n] /\ Len(q) + n \in 1 .. Len(q) + Len(r)
      /\ \A n \in 1 .. Len(q) + Len(r) : n \notin 1 .. Len(q) =>
            n - Len(q) \in 1 .. Len(r) /\ both[n] = r[n - Len(q)]
  OBVIOUS
<1> HIDE DEF both
<1>2. ASSUME NEW b \in Brackets, NEW n \in DOMAIN both, Carries(both[n], b, kinds)
      PROVE  b \in Brought(q, kinds) \cup Brought(r, kinds)
  <2>1. CASE n \in 1 .. Len(q)
    BY <1>1, <1>2, <2>1 DEF Brought
  <2>2. CASE n \notin 1 .. Len(q)
    BY <1>1, <1>2, <2>2 DEF Brought
  <2> QED
    BY <2>1, <2>2
<1>3. ASSUME NEW b \in Brackets, NEW n \in DOMAIN q, Carries(q[n], b, kinds) PROVE b \in Brought(both, kinds)
  BY <1>1, <1>3 DEF Brought
<1>4. ASSUME NEW b \in Brackets, NEW n \in DOMAIN r, Carries(r[n], b, kinds) PROVE b \in Brought(both, kinds)
  BY <1>1, <1>4 DEF Brought
<1> QED
  BY <1>2, <1>3, <1>4 DEF Brought, both

LEMMA BroughtByHead ==
  ASSUME NEW q \in Seq(PollResults), q # <<>>, NEW b \in Brackets, NEW kinds
  PROVE  b \in Brought(q, kinds) => b \in Brought(Tail(q), kinds) \/ Carries(Head(q), b, kinds)
<1>1. /\ Len(q) \in Nat \ {0} /\ DOMAIN q = 1 .. Len(q) /\ Head(q) = q[1]
      /\ DOMAIN Tail(q) = 1 .. Len(q) - 1
      /\ \A n \in 1 .. Len(q) : n # 1 => n - 1 \in 1 .. Len(q) - 1 /\ q[n] = Tail(q)[n - 1]
  OBVIOUS
<1> SUFFICES ASSUME NEW n \in DOMAIN q, Carries(q[n], b, kinds)
             PROVE  b \in Brought(Tail(q), kinds) \/ Carries(Head(q), b, kinds)
  BY DEF Brought
<1>2. CASE n = 1
  BY <1>1, <1>2
<1>3. CASE n # 1
  BY <1>1, <1>3 DEF Brought
<1> QED
  BY <1>2, <1>3

LEMMA Appended ==
  ASSUME NEW q \in Seq(PollResults), NEW r \in PollResults, NEW n \in DOMAIN Append(q, r)
  PROVE  Append(q, r)[n] = r \/ (n \in DOMAIN q /\ Append(q, r)[n] = q[n])
<1> DEFINE more == Append(q, r)
<1>1. /\ Len(q) \in Nat /\ DOMAIN q = 1 .. Len(q) /\ DOMAIN more = 1 .. Len(q) + 1
      /\ \A m \in 1 .. Len(q) : more[m] = q[m]
      /\ more[Len(q) + 1] = r
  OBVIOUS
<1>2. n \in DOMAIN more
  OBVIOUS
<1> HIDE DEF more
<1>3. more[n] = r \/ (n \in DOMAIN q /\ more[n] = q[n])
  BY <1>1, <1>2
<1> QED
  BY <1>3 DEF more

LEMMA AskedStep ==
  ASSUME TypeOK, SupervisorInv, AskedInv, [Next]_vars PROVE AskedInv'
<1> USE DEF AskedInv, Running
<1>1. ASSUME UNCHANGED <<mailbox, structured, results>>,
             \A p \in Pollers : Running(p)' => wanted'[p] = Unstructured \/ (Running(p) /\ wanted'[p] = wanted[p])
      PROVE  AskedInv'
  BY <1>1 DEF Landed
<1>2. ASSUME NEW p \in Pollers, Poll(p) PROVE AskedInv'
  <2>1. CASE FullCycle(p) \/ ForcedCycle(p) \/ End(p)
    BY <1>1, <2>1 DEF FullCycle, ForcedCycle, Begin, End, TypeOK, desk
  <2>2. ASSUME NEW b \in Brackets, Fetch(p, b) \/ FetchFails(p, b) PROVE AskedInv'
    <3>1. PICK result \in PollResults :
            /\ Collect(p, result) /\ result.bracket = b
            /\ result.type = "Snapshot" => result.structure \in Structures(p, b)
      BY <2>2, CollectType
    <3>2. \A c \in Brackets \ EmptyEvents : ~Carries(result, c, {"Empty"})
      BY <3>1 DEF Structures, Carries
    <3>3. UNCHANGED <<mailbox, structured, phase, wanted>>
      BY <3>1 DEF Collect, desk
    <3>4. ASSUME NEW q \in Pollers, NEW n \in DOMAIN results'[q]
          PROVE  results'[q][n] = result \/ (n \in DOMAIN results[q] /\ results'[q][n] = results[q][n])
      <4>1. results[q] \in Seq(PollResults) /\ results'[q] \in {results[q], Append(results[q], result)}
        BY <3>1 DEF Collect, TypeOK
      <4>3. CASE results'[q] = results[q]
        BY <3>4, <4>3
      <4> DEFINE t == results[q]
      <4>4. CASE results'[q] = Append(t, result)
        <5>1. t \in Seq(PollResults) /\ n \in DOMAIN Append(t, result)
          BY <3>4, <4>1, <4>4
        <5> HIDE DEF t
        <5>2. Append(t, result)[n] = result \/ (n \in DOMAIN t /\ Append(t, result)[n] = t[n])
          BY <5>1, Appended
        <5> QED
          BY <4>4, <5>2 DEF t
      <4> QED
        BY <4>1, <4>3, <4>4
    <3>5. \A q \in Pollers : \A n \in DOMAIN results'[q] : \A c \in Brackets \ EmptyEvents : ~Carries(results'[q][n], c, {"Empty"})
      BY <3>2, <3>4
    <3> QED
      BY <3>3, <3>5 DEF Landed
  <2>3. CASE Publish(p)
    <3>1. mailbox' = mailbox \o results[p] /\ structured' = structured
      BY <2>3 DEF Publish, desk
    <3>2. Brought(mailbox', {"Groups"}) = Brought(mailbox, {"Groups"}) \cup Brought(results[p], {"Groups"})
      BY <3>1, BroughtByConcat DEF TypeOK
    <3>3. Brought(results[p], {"Empty", "Groups"}) \subseteq Brought(results[p], {"Groups"}) \cup EmptyEvents
      BY DEF Brought, Carries
    <3>4. \A b : Landed(b) => Landed(b)'
      BY <3>1, <3>2 DEF Landed
    <3>5. ASSUME NEW q \in Pollers, Running(q)', NEW b \in Unstructured \ (wanted'[q] \cup EmptyEvents) PROVE Landed(b)'
      <4>1. wanted' = [wanted EXCEPT ![p] = @ \ Brought(results[p], {"Empty", "Groups"})]
        BY <2>3 DEF Publish
      <4>2. b \in Unstructured \ wanted[q] \/ b \in Brought(results[p], {"Groups"})
        BY <3>3, <3>5, <4>1 DEF TypeOK
      <4>3. Running(q)
        BY <2>3, <3>5 DEF Publish, TypeOK
      <4> QED
        BY <3>2, <3>4, <4>2, <4>3 DEF Landed
    <3>6. \A q \in Pollers : results'[q] = <<>> \/ results'[q] = results[q]
      BY <2>3 DEF Publish, TypeOK
    <3>7. \A q \in Pollers : \A n \in DOMAIN results'[q] : \A b \in Brackets \ EmptyEvents : ~Carries(results'[q][n], b, {"Empty"})
      BY <3>6
    <3> QED
      BY <3>1, <3>5, <3>7
  <2> QED
    BY <1>2, <2>1, <2>2, <2>3 DEF Poll
<1>3. CASE Supervise
  <2>1. ASSUME NEW p \in Pollers, PollerPanics(p) PROVE AskedInv'
    <3>1. UNCHANGED <<mailbox, structured, wanted>> /\ \A q \in Pollers : Running(q)' => Running(q)
      BY <2>1 DEF PollerPanics, Panicked, TypeOK, desk
    <3>2. \A q \in Pollers : results'[q] = <<>> \/ results'[q] = results[q]
      BY <2>1 DEF PollerPanics, TypeOK
    <3>3. \A q \in Pollers : \A n \in DOMAIN results'[q] : \A b \in Brackets \ EmptyEvents : ~Carries(results'[q][n], b, {"Empty"})
      BY <3>2
    <3> QED
      BY <3>1, <3>3 DEF Landed
  <2>2. CASE OtherPanics
    BY <1>1, <2>2 DEF OtherPanics, Panicked, desk
  <2>3. ASSUME NEW phases, Spawn(phases), phases \in [Pollers -> Phases],
               \A p \in Pollers : phases[p] = phase[p] \/ phases[p] = "Gone"
        PROVE  AskedInv'
    <3>1. current + 1 \in Pollers /\ current + 1 > current
      BY <2>3, PollingAssumption DEF TypeOK, Spawn, Pollers
    <3>2. wanted[current + 1] = Unstructured
      BY <3>1 DEF SupervisorInv
    <3> QED
      BY <1>1, <2>3, <3>1, <3>2 DEF Spawn, desk
  <2>4. ASSUME NEW p \in Pollers, RestartEnded(p) PROVE AskedInv'
    <3> DEFINE phases == [phase EXCEPT ![p] = "Gone"]
    <3>1. phases \in [Pollers -> Phases] /\ \A q \in Pollers : phases[q] = phase[q] \/ phases[q] = "Gone"
      BY DEF TypeOK, Phases
    <3>2. Spawn(phases)
      BY <2>4 DEF RestartEnded
    <3> HIDE DEF phases
    <3> QED
      BY <2>3, <3>1, <3>2
  <2>5. CASE RestartPanicked
    BY <2>3, <2>5 DEF RestartPanicked, TypeOK
  <2> QED
    BY <1>3, <2>1, <2>2, <2>4, <2>5 DEF Supervise
<1>4. CASE HandlePoll
  <2>1. mailbox \in Seq(PollResults) /\ mailbox # <<>> /\ mailbox' = Tail(mailbox) /\ UNCHANGED <<phase, results, wanted>>
    BY <1>4 DEF TypeOK, HandlePoll, pollers
  <2>2. structured' = structured \cup {b \in Brackets : Carries(Head(mailbox), b, {"Groups"})}
    BY <1>4 DEF HandlePoll, Accept, Carries, desk
  <2>3. ASSUME NEW b \in Brackets, Landed(b) PROVE Landed(b)'
    BY <2>1, <2>2, <2>3, BroughtByHead DEF Landed
  <2> QED
    BY <2>1, <2>2, <2>3, PollingAssumption
<1>5. ASSUME NEW b \in Brackets, ForcePoll(b) \/ SiteStep(b) PROVE AskedInv'
  BY <1>1, <1>5 DEF ForcePoll, SiteStep, pollers, desk
<1>6. CASE UNCHANGED vars
  BY <1>1, <1>6 DEF vars, pollers, desk
<1> QED
  BY <1>2, <1>3, <1>4, <1>5, <1>6 DEF Next

(* No event whose structures have phase groups is forgotten when it was    *)
(* launched without them, whichever tasks panic.                           *)
THEOREM StructuresLand == Spec => []StructureLands
<1> DEFINE Inv == TypeOK /\ SupervisorInv /\ AskedInv
<1>1. Inv /\ [Next]_vars => Inv'
  BY TypeStep, SupervisorStep, AskedStep
<1>2. Inv => StructureLands
  BY DEF AskedInv, SupervisorInv, PollingGoesOn, StructureLands, Landed, TypeOK
<1>3. Init => Inv
  BY InitType, SupervisorInit, AskedInit
<1> HIDE DEF Inv
<1> QED
  BY <1>1, <1>2, <1>3, PTL DEF Spec

------------------------------------------------------------------------------
(* The client. *)


(* What the proofs need of the types; of a journal, its hold. *)
IsJournal(j) == j = [blocked |-> j.blocked, sent |-> j.sent] /\ j.blocked \in Nat

Typed ==
    /\ now \in Nat /\ held \in Nat /\ site \in Nat /\ confirmed \in Nat
    /\ IsJournal(journal)
    /\ DOMAIN copy = Workers /\ \A w \in Workers : IsJournal(copy[w])
    /\ lock \in [Processes -> Workers \cup {NoOne}]
    /\ job \in [Workers -> Jobs] /\ step \in [Workers -> Steps]
    /\ answer \in [Workers -> Nat]
    /\ cache \in [full : {"no", "yes"}, value : Nat, at : Nat]
    /\ straddled \in {"no", "yes"}

LEMMA TypedInit == ClientInit => Typed
  BY ProviderAssumption DEF ClientInit, Typed, IsJournal, Empty, NoEntry, Jobs, Steps

LEMMA EmptyJournal == IsJournal(Empty)
  BY DEF IsJournal, Empty

LEMMA StampedJournal ==
  ASSUME NEW j, IsJournal(j), NEW t \in Nat
  PROVE  /\ IsJournal(Stamped(j, t))
         /\ Stamped(j, t).blocked = IF j.blocked <= t THEN 0 ELSE j.blocked
<1> DEFINE list == With(Recent(j.sent, t), t)
<1>1. Stamped(j, t) = [blocked |-> IF j.blocked <= t THEN 0 ELSE j.blocked, sent |-> list]
  BY DEF Stamped
<1> HIDE DEF list
<1> QED
  BY <1>1 DEF IsJournal

LEMMA BlockedJournal ==
  ASSUME NEW j, IsJournal(j), NEW t \in Nat
  PROVE  IsJournal(Blocked(j, t)) /\ Blocked(j, t).blocked = Larger(j.blocked, t + Hold)
<1>1. Larger(j.blocked, t + Hold) \in Nat
  BY ProviderAssumption DEF Larger, IsJournal
<1>2. Blocked(j, t) = [blocked |-> Larger(j.blocked, t + Hold), sent |-> j.sent]
  BY DEF Blocked, IsJournal
<1> QED
  BY <1>1, <1>2 DEF IsJournal

LEMMA TypedStep == Typed /\ [ClientNext]_client => Typed'
<1> SUFFICES ASSUME Typed, [ClientNext]_client PROVE Typed'
  OBVIOUS
<1> USE ProviderAssumption
<1>1. ASSUME NEW w \in Workers, Call(w) PROVE Typed'
  <2>1. CASE ReadHits(w)
    BY <2>1 DEF ReadHits, Typed, client, calls, ghost
  <2>2. CASE ReadMisses(w) \/ Mutate(w)
    BY <2>2 DEF ReadMisses, Mutate, Typed, ghost, Jobs, Steps
  <2>3. CASE GateOpens(w) \/ GateRefuses(w) \/ Rejected(w) \/ Fails(w)
    BY <2>3 DEF GateOpens, GateRefuses, Rejected, Fails, Ended, Typed, ghost, Jobs, Steps
  <2>4. CASE LoadSent(w) \/ LoadRejected(w)
    <3>1. /\ copy' = [copy EXCEPT ![w] = journal] /\ lock' = [lock EXCEPT ![ProcessOf[w]] = w]
          /\ step' \in [Workers -> Steps]
          /\ UNCHANGED <<now, journal, job, answer, cache, site, ghost>>
      BY <2>4 DEF LoadSent, LoadRejected, Load, Typed, Steps
    <3> QED
      BY <3>1 DEF Typed, ghost
  <2>5. CASE SaveSent(w)
    <3>1. /\ journal' = Stamped(copy[w], now) /\ copy' = [copy EXCEPT ![w] = Empty]
          /\ lock' = [lock EXCEPT ![ProcessOf[w]] = NoOne] /\ step' = [step EXCEPT ![w] = "sent"]
          /\ UNCHANGED <<now, job, answer, cache, site, held, confirmed, straddled>>
      BY <2>5 DEF SaveSent, Save
    <3>2. IsJournal(journal')
      BY <3>1, StampedJournal DEF Typed
    <3> QED
      BY <3>1, <3>2, EmptyJournal DEF Typed, Steps
  <2>6. CASE SaveRejected(w)
    <3>1. /\ journal' = Blocked(copy[w], now) /\ copy' = [copy EXCEPT ![w] = Empty]
          /\ lock' = [lock EXCEPT ![ProcessOf[w]] = NoOne] /\ held' = Larger(held, now + Hold)
          /\ Ended(w) /\ UNCHANGED <<now, cache, site, confirmed, straddled>>
      BY <2>6 DEF SaveRejected, Save
    <3>2. IsJournal(journal')
      BY <3>1, BlockedJournal DEF Typed
    <3>3. held' \in Nat
      BY <3>1 DEF Typed, Larger
    <3> QED
      BY <3>1, <3>2, <3>3, EmptyJournal DEF Typed, Ended, Steps, Jobs
  <2>7. CASE Answered(w)
    <3>1. site' \in Nat
      BY <2>7 DEF Answered, Typed
    <3> QED
      BY <2>7, <3>1 DEF Answered, Typed, ghost, Steps
  <2>8. CASE Put(w)
    BY <2>8 DEF Put, Ended, Typed, ghost, Steps, Jobs
  <2>9. CASE Delete(w)
    <3>1. confirmed' \in Nat /\ straddled' \in {"no", "yes"}
      BY <2>9 DEF Delete, Typed, Larger
    <3>2. cache' \in [full : {"no", "yes"}, value : Nat, at : Nat]
      BY <2>9 DEF Delete, Emptied, NoEntry
    <3> QED
      BY <2>9, <3>1, <3>2 DEF Delete, Ended, Typed, Steps, Jobs
  <2> QED
    BY <1>1, <2>1, <2>2, <2>3, <2>4, <2>5, <2>6, <2>7, <2>8, <2>9 DEF Call
<1>2. CASE SiteChanges
  BY <1>2 DEF SiteChanges, Typed, calls, ghost
<1>3. CASE Tick
  BY <1>3 DEF Tick, Typed, calls, ghost
<1>4. CASE UNCHANGED client
  BY <1>4 DEF client, calls, ghost, Typed
<1> QED
  BY <1>1, <1>2, <1>3, <1>4 DEF ClientNext

-----------------------------------------------------------------------------
(* Holds.  The mutex of the one process keeps what a call loaded the        *)
(* journal, and the journal blocks until the last hold has ended.          *)

OneClient == \A v, w \in Workers : ProcessOf[v] = ProcessOf[w]

Critical(w) == step[w] \in {"stamping", "holding"}

HoldInv ==
    /\ \A w \in Workers : Critical(w) => lock[ProcessOf[w]] = w /\ copy[w] = journal
    /\ journal.blocked >= held \/ now >= held

LEMMA HoldInit == ClientInit => HoldInv
  BY DEF ClientInit, HoldInv, Critical, Empty

LEMMA HoldStep == ASSUME OneClient PROVE Typed /\ HoldInv /\ [ClientNext]_client => HoldInv'
<1> SUFFICES ASSUME Typed, HoldInv, [ClientNext]_client PROVE HoldInv'
  OBVIOUS
<1> USE ProviderAssumption
(* Steps that leave journal, mutex and copies alone and load nothing. *)
<1>1. ASSUME UNCHANGED <<journal, lock, copy, held>>, now' >= now, now' \in Nat,
             \A v \in Workers : Critical(v)' => Critical(v)
      PROVE  HoldInv'
  BY <1>1 DEF HoldInv, Critical, Typed, IsJournal
<1>2. ASSUME NEW w \in Workers, Call(w) PROVE HoldInv'
  <2>1. CASE ReadHits(w)
    BY <1>1, <2>1 DEF ReadHits, client, calls, ghost, Critical, Typed
  <2>2. CASE \/ ReadMisses(w) \/ Mutate(w) \/ GateOpens(w) \/ GateRefuses(w) \/ Answered(w)
             \/ Rejected(w) \/ Fails(w) \/ Put(w) \/ Delete(w)
    <3>1. PICK next \in {"idle", "gate", "waiting", "answered", "rejected"} :
            step' = [step EXCEPT ![w] = next]
      BY <2>2 DEF ReadMisses, Mutate, GateOpens, GateRefuses, Answered, Rejected, Fails, Put, Delete, Ended
    <3>2. UNCHANGED <<now, journal, lock, copy, held>>
      BY <2>2 DEF ReadMisses, Mutate, GateOpens, GateRefuses, Answered, Rejected, Fails, Put, Delete, ghost
    <3>3. \A v \in Workers : Critical(v)' => Critical(v)
      BY <3>1 DEF Critical, Typed
    <3> QED
      BY <1>1, <3>2, <3>3 DEF Typed
  <2>3. CASE LoadSent(w) \/ LoadRejected(w)
    <3>1. /\ Free(w) /\ lock' = [lock EXCEPT ![ProcessOf[w]] = w] /\ copy' = [copy EXCEPT ![w] = journal]
          /\ UNCHANGED <<now, journal, held>>
      BY <2>3 DEF LoadSent, LoadRejected, Load, ghost
    <3>2. \A v \in Workers : v # w => step'[v] = step[v]
      BY <2>3 DEF LoadSent, LoadRejected, Load, Typed
    <3>3. \A v \in Workers : ~Critical(v)
      BY <3>1 DEF HoldInv, OneClient, Free
    <3>4. \A v \in Workers : Critical(v)' => v = w
      BY <3>2, <3>3 DEF Critical
    <3>5. lock'[ProcessOf[w]] = w /\ copy'[w] = journal
      BY <3>1 DEF Typed
    <3> QED
      BY <3>1, <3>4, <3>5 DEF HoldInv
  <2>4. CASE SaveSent(w) \/ SaveRejected(w)
    <3>1. Critical(w)
      BY <2>4 DEF SaveSent, SaveRejected, Critical
    <3>2. \A v \in Workers : Critical(v) => v = w
      BY <3>1 DEF HoldInv, OneClient
    <3>3. ~Critical(w)' /\ \A v \in Workers : v # w => step'[v] = step[v]
      BY <2>4 DEF SaveSent, SaveRejected, Ended, Critical, Typed
    <3>4. \A v \in Workers : ~Critical(v)'
      BY <3>2, <3>3 DEF Critical
    <3>5. copy[w] = journal /\ IsJournal(journal) /\ now \in Nat /\ held \in Nat /\ now' = now
      BY <2>4, <3>1 DEF HoldInv, Typed, SaveSent, SaveRejected
    <3>6. CASE SaveSent(w)
      <4>1. held' = held /\ journal' = Stamped(journal, now)
        BY <3>5, <3>6 DEF SaveSent, Save
      <4>2. journal'.blocked = IF journal.blocked <= now THEN 0 ELSE journal.blocked
        BY <3>5, <4>1, StampedJournal
      <4>3. journal.blocked >= held \/ now >= held
        BY DEF HoldInv
      <4>4. journal'.blocked >= held \/ now >= held
        BY <3>5, <4>2, <4>3 DEF IsJournal
      <4> QED
        BY <3>4, <3>5, <4>1, <4>4 DEF HoldInv
    <3>7. CASE SaveRejected(w)
      <4>1. held' = Larger(held, now + Hold) /\ journal' = Blocked(journal, now)
        BY <3>5, <3>7 DEF SaveRejected, Save
      <4>2. journal'.blocked = Larger(journal.blocked, now + Hold)
        BY <3>5, <4>1, BlockedJournal
      <4>3. journal.blocked >= held \/ now >= held
        BY DEF HoldInv
      <4>4. journal'.blocked >= held'
        BY <3>5, <4>1, <4>2, <4>3 DEF Larger, IsJournal
      <4> QED
        BY <3>4, <4>4 DEF HoldInv
    <3> QED
      BY <2>4, <3>6, <3>7
  <2> QED
    BY <1>2, <2>1, <2>2, <2>3, <2>4 DEF Call
<1>3. CASE SiteChanges
  BY <1>1, <1>3 DEF SiteChanges, calls, ghost, Critical, Typed
<1>4. CASE Tick
  BY <1>1, <1>4 DEF Tick, calls, ghost, Critical, Typed
<1>5. CASE UNCHANGED client
  BY <1>1, <1>5 DEF client, calls, ghost, Critical, Typed
<1> QED
  BY <1>2, <1>3, <1>4, <1>5 DEF ClientNext

(* Only a call that passes the gate starts to wait. *)
LEMMA GateStep ==
  ASSUME Typed, HoldInv, [ClientNext]_client, NEW w \in Workers, step[w] = "gate", step'[w] = "waiting"
  PROVE  now >= held
<1>1. PICK v \in Workers : Call(v)
  BY DEF ClientNext, SiteChanges, Tick, client, calls
<1>2. step'[w] # step[w]
  OBVIOUS
<1>3. GateOpens(v)
  BY <1>1, <1>2 DEF Call, ReadHits, ReadMisses, Mutate, GateRefuses, LoadSent, LoadRejected, Load, SaveSent,
    SaveRejected, Answered, Rejected, Fails, Put, Delete, Ended, Typed, client, calls
<1>4. journal.blocked <= now
  BY <1>3 DEF GateOpens, Passes
<1> QED
  BY <1>4 DEF HoldInv, Typed, IsJournal

(* No call passes the gate before the last recorded hold has ended, when    *)
(* all calls are of one process.                                           *)
THEOREM HoldsHeeded == ASSUME OneClient PROVE ClientSpec => HoldHeeded
<1>1. ClientInit => Typed /\ HoldInv
  BY TypedInit, HoldInit
<1>2. Typed /\ HoldInv /\ [ClientNext]_client => Typed' /\ HoldInv'
  BY TypedStep, HoldStep
<1>3. Typed /\ HoldInv /\ [ClientNext]_client
        => [\A w \in Workers : step[w] = "gate" /\ step'[w] = "waiting" => now >= held]_client
  BY GateStep
<1> QED
  BY <1>1, <1>2, <1>3, PTL DEF ClientSpec, HoldHeeded

-----------------------------------------------------------------------------
(* The window.  A call that has passed the gate and is not recorded yet      *)
(* counts as much as one that is: one call opens the gate on less than the  *)
(* capacity, and the others together are one less than there are.          *)

Passed == {w \in Workers : step[w] \in {"waiting", "stamping"}}

WindowInv ==
    /\ IsFiniteSet(sends) /\ journal.sent = sends
    /\ \A r \in sends : r[1] \in Nat
    /\ Cardinality(Recent(sends, now)) + Cardinality(Passed) <= Capacity + Cardinality(Workers) - 1

(* There is always a number that no request of that time has. *)
LEMMA WithOne ==
  ASSUME NEW S, IsFiniteSet(S), NEW t
  PROVE  IsFiniteSet(With(S, t)) /\ Cardinality(With(S, t)) = Cardinality(S) + 1
<1> DEFINE n == Cardinality(S)
           f == [k \in 0..n |-> <<t, k>>]
           c == CHOOSE k \in 0..n : <<t, k>> \notin S
<1>1. n \in Nat
  BY FS_CardinalityType
<1>2. \E k \in 0..n : <<t, k>> \notin S
  <2>1. SUFFICES ASSUME \A k \in 0..n : <<t, k>> \in S PROVE FALSE
    OBVIOUS
  <2>2. f \in [0..n -> S]
    BY <2>1
  <2>3. IsFiniteSet(0..n) /\ Cardinality(0..n) = n + 1
    BY <1>1, FS_Interval
  <2>4. n < Cardinality(0..n)
    BY <1>1, <2>3
  <2> HIDE DEF f
  <2>5. \E x, y \in 0..n : x # y /\ f[x] = f[y]
    BY <2>2, <2>3, <2>4, FS_PigeonHole
  <2> QED
    BY <2>5 DEF f
<1>3. <<t, c>> \notin S
  BY <1>2
<1>4. With(S, t) = S \cup {<<t, c>>}
  BY DEF With
<1> HIDE DEF c
<1> QED
  BY <1>3, <1>4, FS_AddElement

(* What was just added is recent, and the rest as recent as it was. *)
LEMMA RecentWith ==
  ASSUME NEW S, NEW t \in Nat
  PROVE  Recent(With(Recent(S, t), t), t) = With(Recent(S, t), t)
<1> DEFINE R == Recent(S, t)
           c == CHOOSE k \in 0..Cardinality(R) : <<t, k>> \notin R
<1>1. With(R, t) = R \cup {<<t, c>>}
  BY DEF With
<1>2. \A r \in R : r[1] + Window > t
  BY DEF Recent
<1>3. <<t, c>>[1] + Window > t
  BY ProviderAssumption
<1> HIDE DEF c, R
<1>4. Recent(R \cup {<<t, c>>}, t) = R \cup {<<t, c>>}
  BY <1>2, <1>3 DEF Recent
<1> QED
  BY <1>1, <1>4 DEF R

LEMMA FewPassed == IsFiniteSet(Passed) /\ Cardinality(Passed) \in Nat /\ Cardinality(Workers) \in Nat
  <1>1. Passed \in SUBSET Workers
    BY DEF Passed
  <1> QED
    BY <1>1, ProviderAssumption, FS_Subset, FS_CardinalityType

LEMMA WindowInit == ClientInit => WindowInv
<1> SUFFICES ASSUME ClientInit PROVE WindowInv
  OBVIOUS
<1>1. sends = {} /\ journal.sent = {} /\ Passed = {} /\ Recent({}, now) = {}
  BY DEF ClientInit, Empty, Passed, Recent
<1>2. Cardinality({}) = 0 /\ IsFiniteSet({})
  BY FS_EmptySet
<1>3. Cardinality(Recent(sends, now)) = 0 /\ Cardinality(Passed) = 0
  BY <1>1, <1>2
<1>4. Capacity \in Nat \ {0} /\ Cardinality(Workers) \in Nat
  BY FewPassed, ProviderAssumption
<1> QED
  BY <1>1, <1>2, <1>3, <1>4 DEF WindowInv

LEMMA WindowStep == ASSUME OneClient PROVE Typed /\ HoldInv /\ WindowInv /\ [ClientNext]_client => WindowInv'
<1> SUFFICES ASSUME Typed, HoldInv, WindowInv, [ClientNext]_client PROVE WindowInv'
  OBVIOUS
<1>1. /\ IsFiniteSet(Recent(sends, now)) /\ Cardinality(Recent(sends, now)) \in Nat
      /\ Cardinality(Passed) \in Nat /\ Cardinality(Workers) \in Nat /\ Capacity \in Nat \ {0}
  <2>1. Recent(sends, now) \in SUBSET sends
    BY DEF Recent
  <2> QED
    BY <2>1, FewPassed, FS_Subset, FS_CardinalityType, ProviderAssumption DEF WindowInv
(* Time passes, and requests with it. *)
<1>2. ASSUME UNCHANGED <<sends, step>>, journal'.sent = journal.sent, now' \in Nat, now' >= now
      PROVE  WindowInv'
  <2>1. Passed' = Passed
    BY <1>2 DEF Passed
  <2>2. ASSUME NEW r \in sends, r[1] + Window > now' PROVE r[1] + Window > now
    <3>1. r[1] \in Nat /\ Window \in Nat /\ now \in Nat
      BY ProviderAssumption DEF Typed, WindowInv
    <3> QED
      BY <1>2, <2>2, <3>1
  <2>3. Recent(sends, now') \in SUBSET Recent(sends, now)
    BY <2>2 DEF Recent
  <2>4. Cardinality(Recent(sends, now')) <= Cardinality(Recent(sends, now))
        /\ Cardinality(Recent(sends, now')) \in Nat
    BY <1>1, <2>3, FS_Subset, FS_CardinalityType
  <2>5. Recent(sends, now)' = Recent(sends, now')
    BY <1>2 DEF Recent
  <2> QED
    BY <1>1, <1>2, <2>1, <2>4, <2>5 DEF WindowInv
(* Steps of a call that neither passes the gate nor is recorded. *)
<1>3. ASSUME UNCHANGED <<now, sends>>, journal'.sent = journal.sent, Passed' \subseteq Passed
      PROVE  WindowInv'
  <2>1. Cardinality(Passed') <= Cardinality(Passed) /\ Cardinality(Passed') \in Nat
    BY <1>3, FewPassed, FS_Subset, FS_CardinalityType
  <2>2. Recent(sends, now)' = Recent(sends, now)
    BY <1>3 DEF Recent
  <2> QED
    BY <1>1, <1>3, <2>1, <2>2 DEF WindowInv
<1>4. ASSUME NEW w \in Workers, Call(w) PROVE WindowInv'
  <2>1. CASE ReadHits(w)
    BY <1>3, <2>1 DEF ReadHits, client, calls, ghost, Passed
  <2>2. CASE ReadMisses(w) \/ Mutate(w) \/ GateRefuses(w) \/ Answered(w) \/ Rejected(w) \/ Fails(w)
             \/ Put(w) \/ Delete(w)
    <3>1. /\ UNCHANGED <<now, journal, sends>>
          /\ \E next \in {"idle", "gate", "answered", "rejected"} : step' = [step EXCEPT ![w] = next]
      BY <2>2 DEF ReadMisses, Mutate, GateRefuses, Answered, Rejected, Fails, Put, Delete, Ended, ghost
    <3>2. Passed' \subseteq Passed
      BY <3>1 DEF Passed, Typed
    <3> QED
      BY <1>3, <3>1, <3>2
  <2>3. CASE LoadSent(w) \/ LoadRejected(w)
    <3>1. /\ UNCHANGED <<now, journal, sends>>
          /\ \/ step[w] = "waiting" /\ step' = [step EXCEPT ![w] = "stamping"]
             \/ step' = [step EXCEPT ![w] = "holding"]
      BY <2>3 DEF LoadSent, LoadRejected, Load, ghost
    <3>2. Passed' \subseteq Passed
      BY <3>1 DEF Passed, Typed
    <3> QED
      BY <1>3, <3>1, <3>2
  <2>4. CASE GateOpens(w)
    <3>1. UNCHANGED <<now, journal, sends>> /\ Cardinality(Recent(sends, now)) < Capacity
      BY <2>4 DEF GateOpens, Passes, ghost, WindowInv
    <3>2. Passed' \in SUBSET Workers
      BY DEF Passed
    <3>3. Cardinality(Passed') <= Cardinality(Workers) /\ Cardinality(Passed') \in Nat
      BY <3>2, ProviderAssumption, FS_Subset, FS_CardinalityType
    <3>4. Recent(sends, now)' = Recent(sends, now)
      BY <3>1 DEF Recent
    <3> QED
      BY <1>1, <3>1, <3>3, <3>4 DEF WindowInv
  <2>5. CASE SaveSent(w)
    <3>1. /\ now' = now /\ journal' = Stamped(copy[w], now) /\ step[w] = "stamping"
          /\ step' = [step EXCEPT ![w] = "sent"] /\ sends' = With(Recent(sends, now), now)
      BY <2>5 DEF SaveSent, Save
    <3>2. copy[w] = journal
      BY <3>1 DEF HoldInv, Critical
    <3>3. journal'.sent = sends'
      BY <3>1, <3>2 DEF Stamped, WindowInv
    <3>4. IsFiniteSet(sends') /\ Cardinality(sends') = Cardinality(Recent(sends, now)) + 1
      BY <1>1, <3>1, WithOne
    <3>5. \A r \in sends' : r[1] \in Nat
      BY <3>1 DEF With, Recent, WindowInv, Typed
    <3>6. Recent(sends', now) = sends'
      BY <3>1, RecentWith DEF Typed
    <3>7. Recent(sends, now)' = sends'
      BY <3>1, <3>6
    <3>8. w \in Passed /\ Passed' = Passed \ {w}
      BY <3>1 DEF Passed, Typed
    <3>9. Cardinality(Passed') = Cardinality(Passed) - 1
      BY <3>8, FewPassed, FS_RemoveElement
    <3> QED
      BY <1>1, <3>3, <3>4, <3>5, <3>7, <3>9 DEF WindowInv
  <2>6. CASE SaveRejected(w)
    <3>1. /\ UNCHANGED <<now, sends>> /\ journal' = Blocked(copy[w], now)
          /\ step[w] = "holding" /\ step' = [step EXCEPT ![w] = "idle"]
      BY <2>6 DEF SaveRejected, Save, Ended
    <3>2. copy[w] = journal
      BY <3>1 DEF HoldInv, Critical
    <3>3. journal'.sent = journal.sent
      BY <3>1, <3>2 DEF Blocked, Typed, IsJournal
    <3>4. Passed' \subseteq Passed
      BY <3>1 DEF Passed, Typed
    <3> QED
      BY <1>3, <3>1, <3>3, <3>4
  <2> QED
    BY <1>4, <2>1, <2>2, <2>3, <2>4, <2>5, <2>6 DEF Call
<1>5. CASE SiteChanges
  BY <1>3, <1>5 DEF SiteChanges, calls, ghost, Passed
<1>6. CASE Tick
  BY <1>2, <1>6 DEF Tick, calls, ghost, Typed
<1>7. CASE UNCHANGED client
  BY <1>3, <1>7 DEF client, calls, ghost, Passed
<1> QED
  BY <1>4, <1>5, <1>6, <1>7 DEF ClientNext

(* However many calls of one process there are, a window sees no more        *)
(* requests than the capacity and one for each further call.               *)
THEOREM WindowKept == ASSUME OneClient PROVE ClientSpec => []WindowHolds
<1>1. ClientInit => Typed /\ HoldInv /\ WindowInv
  BY TypedInit, HoldInit, WindowInit
<1>2. Typed /\ HoldInv /\ WindowInv /\ [ClientNext]_client => Typed' /\ HoldInv' /\ WindowInv'
  BY TypedStep, HoldStep, WindowStep
<1>3. WindowInv => WindowHolds
  <2> SUFFICES ASSUME WindowInv PROVE WindowHolds
    OBVIOUS
  <2>1. Recent(sends, now) \in SUBSET sends
    BY DEF Recent
  <2>2. Cardinality(Recent(sends, now)) \in Nat
    BY <2>1, FS_Subset, FS_CardinalityType DEF WindowInv
  <2> QED
    BY <2>2, FewPassed, ProviderAssumption DEF WindowInv, WindowHolds
<1> QED
  BY <1>1, <1>2, <1>3, PTL DEF ClientSpec

-----------------------------------------------------------------------------
(* Read your writes.  The site has seen every answer, and no answer that    *)
(* is on its way to the cache is older than what was confirmed.            *)

Answering(w) == step[w] = "answered"

ReadInv ==
    /\ confirmed <= site
    /\ \A w \in Workers : Answering(w) => answer[w] <= site
    /\ straddled = "no" =>
         /\ cache.full = "yes" => cache.value >= confirmed
         /\ \A w \in Workers : Answering(w) /\ job[w] = "read" => answer[w] >= confirmed

LEMMA ReadInit == ClientInit => ReadInv
  BY DEF ClientInit, ReadInv, Answering, NoEntry

LEMMA ReadStep == Typed /\ ReadInv /\ [ClientNext]_client => ReadInv'
<1> SUFFICES ASSUME Typed, ReadInv, [ClientNext]_client PROVE ReadInv'
  OBVIOUS
<1>1. ASSUME UNCHANGED <<cache, confirmed, straddled>>, site' >= site, site' \in Nat,
             \A v \in Workers : Answering(v)' => Answering(v) /\ answer'[v] = answer[v] /\ job'[v] = job[v]
      PROVE  ReadInv'
  BY <1>1 DEF ReadInv, Typed
<1>2. ASSUME NEW w \in Workers, Call(w) PROVE ReadInv'
  <2>1. CASE ReadHits(w)
    BY <1>1, <2>1 DEF ReadHits, client, calls, ghost, Answering, Typed
  <2>2. CASE ReadMisses(w) \/ Mutate(w)
    BY <1>1, <2>2 DEF ReadMisses, Mutate, Answering, Typed, ghost
  <2>3. CASE GateOpens(w) \/ GateRefuses(w) \/ Rejected(w) \/ Fails(w)
    BY <1>1, <2>3 DEF GateOpens, GateRefuses, Rejected, Fails, Ended, Answering, Typed, ghost
  <2>4. CASE LoadSent(w) \/ LoadRejected(w)
    BY <1>1, <2>4 DEF LoadSent, LoadRejected, Load, Answering, Typed, ghost
  <2>5. CASE SaveSent(w) \/ SaveRejected(w)
    BY <1>1, <2>5 DEF SaveSent, SaveRejected, Save, Ended, Answering, Typed
  <2>6. CASE Answered(w)
    <3>1. /\ site' >= site /\ site' \in Nat /\ UNCHANGED <<job, cache, confirmed, straddled>>
          /\ answer' = [answer EXCEPT ![w] = site'] /\ step' = [step EXCEPT ![w] = "answered"]
      BY <2>6 DEF Answered, Typed, ghost
    <3>2. answer'[w] = site' /\ \A v \in Workers : v # w => answer'[v] = answer[v] /\ step'[v] = step[v]
      BY <3>1 DEF Typed
    <3> QED
      BY <3>1, <3>2 DEF ReadInv, Answering, Typed
  <2>7. CASE Put(w)
    <3>1. /\ cache'.full = "yes" /\ cache'.value = answer[w] /\ Answering(w) /\ job[w] = "read"
          /\ UNCHANGED <<site, confirmed, straddled>>
      BY <2>7 DEF Put, ghost, Answering
    <3>2. \A v \in Workers : Answering(v)' => Answering(v) /\ answer'[v] = answer[v] /\ job'[v] = job[v]
      BY <2>7 DEF Put, Ended, Answering, Typed
    <3> QED
      BY <3>1, <3>2 DEF ReadInv
  <2>8. CASE Delete(w)
    <3>1. /\ cache'.full = "no" /\ confirmed' = Larger(confirmed, answer[w]) /\ Answering(w) /\ site' = site
          /\ job[w] = "write"
      BY <2>8 DEF Delete, Emptied, NoEntry, Answering
    <3>2. \A v \in Workers : Answering(v)' => Answering(v) /\ answer'[v] = answer[v] /\ job'[v] = job[v]
      BY <2>8 DEF Delete, Ended, Answering, Typed
    <3>3. straddled' = "no" =>
            /\ straddled = "no"
            /\ \A r \in Workers : job[r] = "read" /\ Answering(r) => answer[r] >= answer[w]
      BY <2>8 DEF Delete, Answering, Typed
    <3>4. confirmed' <= site'
      BY <3>1 DEF ReadInv, Larger, Typed
    <3>5. ASSUME straddled' = "no", NEW v \in Workers, Answering(v)', job'[v] = "read"
          PROVE  answer'[v] >= confirmed'
      <4>1. Answering(v) /\ job[v] = "read" /\ answer'[v] = answer[v]
        BY <3>2, <3>5
      <4>2. answer[v] >= answer[w] /\ answer[v] >= confirmed
        BY <3>3, <3>5, <4>1 DEF ReadInv
      <4> QED
        BY <3>1, <4>1, <4>2 DEF Larger
    <3> QED
      BY <3>1, <3>2, <3>4, <3>5 DEF ReadInv
  <2> QED
    BY <1>2, <2>1, <2>2, <2>3, <2>4, <2>5, <2>6, <2>7, <2>8 DEF Call
<1>3. CASE SiteChanges
  BY <1>1, <1>3 DEF SiteChanges, calls, ghost, Answering, Typed
<1>4. CASE Tick
  BY <1>1, <1>4 DEF Tick, calls, ghost, Answering, Typed
<1>5. CASE UNCHANGED client
  BY <1>1, <1>5 DEF client, calls, ghost, Answering, Typed
<1> QED
  BY <1>2, <1>3, <1>4, <1>5 DEF ClientNext

(* Once a mutation returned, the cache holds nothing from before it, unless *)
(* such an answer was already on its way there.                            *)
THEOREM OwnWritesRead == ClientSpec => []ReadYourWrites
<1>1. ClientInit => Typed /\ ReadInv
  BY TypedInit, ReadInit
<1>2. Typed /\ ReadInv /\ [ClientNext]_client => Typed' /\ ReadInv'
  BY TypedStep, ReadStep
<1>3. ReadInv => ReadYourWrites
  BY DEF ReadInv, ReadYourWrites
<1> QED
  BY <1>1, <1>2, <1>3, PTL DEF ClientSpec
=============================================================================
